----------------------------- MODULE ZipListOps ------------------------------
(***************************************************************************)
(* ziplist.c at the level of bytes and pointers.  A ziplist is its header  *)
(* fields (bytes, tail offset, length) and the memory behind the header,   *)
(* one cell per byte.  A pointer is an offset from the first entry; header *)
(* fields that count bytes are counted from there too.  An entry is its    *)
(* prevlen field (1 byte, or 5 from ZIP_BIGLEN on), one byte of encoding   *)
(* and the payload.  A cell says what a byte was written as; reading it as *)
(* something else yields a wrong number, as it does in C.                  *)
(***************************************************************************)
EXTENDS Integers, Sequences, SequencesExt, FiniteSetsExt

CONSTANTS
  ZLValues,      \* the strings and integers stored
  Payload,       \* how many bytes each of them takes
  ZIP_BIGLEN,    \* 254: lengths from here on take 5 bytes in a prevlen field
  LENGTH_MAX     \* UINT16_MAX: the length field's "too many, count them"

ASSUME PayloadAssumption == Payload \in [ZLValues -> Nat]
ASSUME BigLenAssumption == ZIP_BIGLEN \in Nat /\ ZIP_BIGLEN > 5
ASSUME LengthAssumption == LENGTH_MAX \in Nat \ {0}

ZIP_END == <<"end", 0, 0>>
Garbage == <<"garbage", 0, 0>>

Cell(zl, p) == zl.mem[p + 1]
AtEnd(zl, p) == Cell(zl, p) = ZIP_END

ziplistNew == [mem |-> <<ZIP_END>>, bytes |-> 1, tail |-> 0, length |-> 0]

\* Overwrite the bytes from p on; a copy of n bytes from src to dst, where the
\* bytes before the first entry are the header's.
Put(zl, p, cells) ==
  [zl EXCEPT !.mem = SubSeq(@, 1, p) \o cells \o SubSeq(@, p + Len(cells) + 1, Len(@))]
memmove(zl, dst, src, n) ==
  Put(zl, dst, [k \in 1..n |-> IF src + k < 1 THEN Garbage ELSE zl.mem[src + k]])

(* ---- entries ---------------------------------------------------------- *)

LargeCells(len) == <<<<"big", 0, 0>>>> \o [k \in 1..4 |-> <<"len", len, k>>]
PrevLenCells(len) == IF len < ZIP_BIGLEN THEN <<<<"prev", len, 0>>>> ELSE LargeCells(len)
PrevLenSize(len) == IF len < ZIP_BIGLEN THEN 1 ELSE 5
EntryCells(v) == <<<<"enc", v, 0>>>> \o [k \in 1..Payload[v] |-> <<"pay", v, k>>]

zipPrevEncodeLength(zl, p, len) == Put(zl, p, PrevLenCells(len))
zipPrevEncodeLengthForceLarge(zl, p, len) == Put(zl, p, LargeCells(len))

DecodePrevLenSize(zl, p) == IF Cell(zl, p)[1] = "big" THEN 5 ELSE 1
DecodePrevLen(zl, p) == IF DecodePrevLenSize(zl, p) = 1 THEN Cell(zl, p)[2] ELSE Cell(zl, p + 1)[2]
zipPrevLenByteDiff(zl, p, len) == PrevLenSize(len) - DecodePrevLenSize(zl, p)

ValueOf(zl, p) == Cell(zl, p + DecodePrevLenSize(zl, p))[2]
zipRawEntryLength(zl, p) == DecodePrevLenSize(zl, p) + 1 + Payload[ValueOf(zl, p)]

\* Resizing keeps what fits and ends the list with the last byte.
ziplistResize(zl, len) ==
  [zl EXCEPT !.bytes = len,
             !.mem = SubSeq(@, 1, Min({len - 1, Len(@)})) \o [k \in 1..Max({0, len - 1 - Len(@)}) |-> Garbage]
                     \o <<ZIP_END>>]

IncrLength(zl, incr) == IF zl.length < LENGTH_MAX THEN [zl EXCEPT !.length = @ + incr] ELSE zl

(* ---- cascade ---------------------------------------------------------- *)

\* One round of __ziplistCascadeUpdate on [zl, p, done]: the prevlen field of
\* the entry behind p is made to hold p's length.
CascadeRound(s) ==
  LET zl == s.zl
      p == s.p
      rawlen == zipRawEntryLength(zl, p)
      rawlensize == PrevLenSize(rawlen)
      np == p + rawlen
      nextsize == DecodePrevLenSize(zl, np)
      extra == rawlensize - nextsize
      grown == ziplistResize(zl, zl.bytes + extra)
      retailed == IF grown.tail # np THEN [grown EXCEPT !.tail = @ + extra] ELSE grown
      moved == memmove(retailed, np + rawlensize, np + nextsize, zl.bytes - np - nextsize - 1)
      stop == [s EXCEPT !.done = TRUE]
  IN  IF AtEnd(zl, p) THEN stop
      ELSE IF AtEnd(zl, np) \/ DecodePrevLen(zl, np) = rawlen THEN stop
      ELSE IF extra > 0
      THEN [zl |-> zipPrevEncodeLength(moved, np, rawlen), p |-> np, done |-> FALSE]
      ELSE IF extra < 0 THEN [stop EXCEPT !.zl = zipPrevEncodeLengthForceLarge(zl, np, rawlen)]
      ELSE [stop EXCEPT !.zl = zipPrevEncodeLength(zl, np, rawlen)]

\* Fault: only the next entry is updated.
CascadeOnce(zl, p) == CascadeRound([zl |-> zl, p |-> p, done |-> FALSE]).zl

\* Every round that does not stop moves p one entry on.
__ziplistCascadeUpdate(zl, p) ==
  LET round[k \in 0..zl.bytes] ==
        IF k = 0 THEN [zl |-> zl, p |-> p, done |-> FALSE]
        ELSE LET s == round[k - 1] IN IF s.done THEN s ELSE CascadeRound(s)
  IN  round[zl.bytes].zl

(* ---- insert, delete, merge -------------------------------------------- *)

__ziplistInsert(zl, p, v) ==
  LET prevlen == IF ~AtEnd(zl, p) THEN DecodePrevLen(zl, p)
                 ELSE IF ~AtEnd(zl, zl.tail) THEN zipRawEntryLength(zl, zl.tail)
                 ELSE 0
      reqlen == PrevLenSize(prevlen) + Len(EntryCells(v))
      diff == IF AtEnd(zl, p) THEN 0 ELSE zipPrevLenByteDiff(zl, p, reqlen)
      forcelarge == diff = -4 /\ reqlen < 4
      nextdiff == IF forcelarge THEN 0 ELSE diff
      sized == ziplistResize(zl, zl.bytes + reqlen + nextdiff)
      moved == memmove(sized, p + reqlen, p - nextdiff, zl.bytes - p - 1 + nextdiff)
      linked == IF forcelarge THEN zipPrevEncodeLengthForceLarge(moved, p + reqlen, reqlen)
                ELSE zipPrevEncodeLength(moved, p + reqlen, reqlen)
      next == p + reqlen
      more == ~AtEnd(linked, next + zipRawEntryLength(linked, next))
      shifted == [linked EXCEPT !.tail = @ + reqlen + (IF more THEN nextdiff ELSE 0)]
      placed == IF AtEnd(zl, p) THEN [sized EXCEPT !.tail = p] ELSE shifted
      settled == IF nextdiff # 0 THEN __ziplistCascadeUpdate(placed, next) ELSE placed
  IN  IncrLength(Put(settled, p, PrevLenCells(prevlen) \o EntryCells(v)), 1)

\* The offset num entries further on, and how many of them there were.
Skip(zl, p, num) ==
  LET at[k \in 0..num] ==
        IF k = 0 THEN [p |-> p, n |-> 0]
        ELSE LET s == at[k - 1]
             IN  IF AtEnd(zl, s.p) THEN s ELSE [p |-> s.p + zipRawEntryLength(zl, s.p), n |-> k]
  IN  at[num]

__ziplistDelete(zl, p, num) ==
  LET prevlen == DecodePrevLen(zl, p)
      to == Skip(zl, p, num).p
      deleted == Skip(zl, p, num).n
      totlen == to - p
      nextdiff == IF AtEnd(zl, to) THEN 0 ELSE zipPrevLenByteDiff(zl, to, prevlen)
      q == to - nextdiff
      linked == zipPrevEncodeLength(zl, q, prevlen)
      more == ~AtEnd(linked, q + zipRawEntryLength(linked, q))
      closed == [memmove(linked, p, q, zl.bytes - q - 1)
                   EXCEPT !.tail = @ - totlen + (IF more THEN nextdiff ELSE 0)]
      cut == IF AtEnd(zl, to) THEN [zl EXCEPT !.tail = p - prevlen] ELSE closed
      sized == IncrLength(ziplistResize(cut, zl.bytes - totlen + nextdiff), -deleted)
  IN  IF totlen = 0 THEN zl
      ELSE IF nextdiff # 0 THEN __ziplistCascadeUpdate(sized, p) ELSE sized

\* Whichever of the two is kept, its memory ends up as both contents in order.
ziplistMerge(first, second) ==
  LET joined == [mem |-> SubSeq(first.mem, 1, first.bytes - 1) \o second.mem,
                 bytes |-> first.bytes + second.bytes - 1,
                 tail |-> first.bytes - 1 + second.tail,
                 length |-> Min({first.length + second.length, LENGTH_MAX})]
  IN  __ziplistCascadeUpdate(joined, first.tail)

(* ---- access ----------------------------------------------------------- *)

NULL == -1
ZIPLIST_HEAD == 0
ZIPLIST_TAIL == 1

ziplistPush(zl, v, where) == __ziplistInsert(zl, IF where = ZIPLIST_HEAD THEN 0 ELSE zl.bytes - 1, v)

\* Forward entry by entry, backward by the prevlen fields.
ziplistIndex(zl, index) ==
  LET n == IF index < 0 THEN (-index) - 1 ELSE index
      back[k \in 0..n] ==
        IF k = 0 THEN [p |-> zl.tail, left |-> n]
        ELSE LET b == back[k - 1]
             IN  IF b.left # n - (k - 1) \/ AtEnd(zl, b.p) \/ DecodePrevLen(zl, b.p) = 0 THEN b
                 ELSE [p |-> b.p - DecodePrevLen(zl, b.p), left |-> b.left - 1]
  IN  IF index >= 0
      THEN LET s == Skip(zl, 0, n) IN IF AtEnd(zl, s.p) \/ s.n < n THEN NULL ELSE s.p
      ELSE IF AtEnd(zl, back[n].p) \/ back[n].left > 0 THEN NULL ELSE back[n].p

ziplistNext(zl, p) == LET to == p + zipRawEntryLength(zl, p)
                      IN  IF AtEnd(zl, p) \/ AtEnd(zl, to) THEN NULL ELSE to

ziplistPrev(zl, p) ==
  IF AtEnd(zl, p) THEN (IF AtEnd(zl, zl.tail) THEN NULL ELSE zl.tail)
  ELSE IF p = 0 THEN NULL ELSE p - DecodePrevLen(zl, p)

ziplistDeleteRange(zl, index, num) ==
  LET p == ziplistIndex(zl, index) IN IF p = NULL THEN zl ELSE __ziplistDelete(zl, p, num)

\* How many entries there are, counting them when the length field is full.
CountEntries(zl) == Skip(zl, 0, zl.bytes).n
ziplistLen(zl) == IF zl.length < LENGTH_MAX THEN zl.length ELSE CountEntries(zl)
AfterLen(zl) == IF ziplistLen(zl) < LENGTH_MAX THEN [zl EXCEPT !.length = ziplistLen(zl)] ELSE zl
=============================================================================
