------------------------------- MODULE IntSet --------------------------------
(***************************************************************************)
(* intset.c: a sorted array of integers that share one encoding, widened   *)
(* in place when a value needs it.  The memory is kept in units of the     *)
(* smallest encoding, little endian, so that values are really truncated,  *)
(* sign extended and overwritten as they are in C.  A unit holds Base      *)
(* values (2^16 in the code); the encodings take 1, 2 and 4 units.         *)
(***************************************************************************)
EXTENDS Integers, Sequences, FiniteSetsExt

CONSTANTS
  Base,        \* values of one unit
  Members,     \* the integers callers add, remove and look up
  Positions    \* the positions callers read

ASSUME BaseAssumption == Base \in Nat /\ Base % 2 = 0 /\ Base > 0

VARIABLES
  is,       \* [encoding, length, contents]
  isCall,   \* the last call and its argument
  isRet     \* its answer: [ok, value]

isvars == <<is, isCall, isRet>>

INTSET_ENC_INT16 == 1
INTSET_ENC_INT32 == 2
INTSET_ENC_INT64 == 4
UNINIT == -1    \* what the memory zrealloc adds holds: no unit

MinOf(enc) == -(Base^enc \div 2)
MaxOf(enc) == Base^enc \div 2 - 1

_intsetValueEncoding(v) ==
  IF v < MinOf(INTSET_ENC_INT32) \/ v > MaxOf(INTSET_ENC_INT32) THEN INTSET_ENC_INT64
  ELSE IF v < MinOf(INTSET_ENC_INT16) \/ v > MaxOf(INTSET_ENC_INT16) THEN INTSET_ENC_INT32
  ELSE INTSET_ENC_INT16

\* The units of v, lowest first; the integer that units stand for.
Encode(v, enc) == [k \in 1..enc |-> ((v % Base^enc) \div Base^(k - 1)) % Base]
Decode(units, enc) ==
  LET sum[k \in 0..enc] == IF k = 0 THEN 0 ELSE sum[k - 1] + units[k] * Base^(k - 1)
  IN  IF sum[enc] > MaxOf(enc) THEN sum[enc] - Base^enc ELSE sum[enc]

_intsetGetEncoded(s, pos, enc) == Decode(SubSeq(s.contents, pos * enc + 1, (pos + 1) * enc), enc)
_intsetGet(s, pos) == _intsetGetEncoded(s, pos, s.encoding)

Overwrite(mem, at, units) ==
  SubSeq(mem, 1, at) \o units \o SubSeq(mem, at + Len(units) + 1, Len(mem))
_intsetSet(s, pos, v) ==
  [s EXCEPT !.contents = Overwrite(@, pos * s.encoding, Encode(v, s.encoding))]

intsetNew == [encoding |-> INTSET_ENC_INT16, length |-> 0, contents |-> <<>>]

intsetResize(s, len) ==
  [s EXCEPT !.contents = [k \in 1..(len * s.encoding) |-> IF k <= Len(@) THEN @[k] ELSE UNINIT]]

\* Binary search: where v is, or where it is to be inserted.
intsetSearch(s, v) ==
  LET n == s.length
      within[lo \in 0..n, hi \in (-1)..(n - 1)] ==
        LET mid == (lo + hi) \div 2
            cur == _intsetGet(s, mid)
        IN  IF hi < lo THEN [found |-> FALSE, pos |-> lo]
            ELSE IF v > cur THEN within[mid + 1, hi]
            ELSE IF v < cur THEN within[lo, mid - 1]
            ELSE [found |-> TRUE, pos |-> mid]
  IN  IF n = 0 THEN [found |-> FALSE, pos |-> 0]
      ELSE IF v > _intsetGet(s, n - 1) THEN [found |-> FALSE, pos |-> n]
      ELSE IF v < _intsetGet(s, 0) THEN [found |-> FALSE, pos |-> 0]
      ELSE within[0, n - 1]

\* The values are widened from the last to the first, into the same memory,
\* one place further on when the new value goes in front.
intsetUpgradeAndAdd(s, v) ==
  LET curenc == s.encoding
      prepend == IF v < 0 THEN 1 ELSE 0
      sized == intsetResize([s EXCEPT !.encoding = _intsetValueEncoding(v)], s.length + 1)
      widened[k \in 0..s.length] ==
        IF k = 0 THEN sized
        ELSE LET w == widened[k - 1]
                 at == s.length - k
             IN  _intsetSet(w, at + prepend, _intsetGetEncoded(w, at, curenc))
      added == _intsetSet(widened[s.length], IF prepend = 1 THEN 0 ELSE s.length, v)
  IN  [added EXCEPT !.length = @ + 1]

\* memmove of the units from position from to the end.
intsetMoveTail(s, from, to) ==
  [s EXCEPT !.contents = Overwrite(@, to * s.encoding,
                                   SubSeq(@, from * s.encoding + 1, s.length * s.encoding))]

intsetAdd(s, v) ==
  LET at == intsetSearch(s, v)
      sized == intsetResize(s, s.length + 1)
      moved == IF at.pos < s.length THEN intsetMoveTail(sized, at.pos, at.pos + 1) ELSE sized
  IN  IF _intsetValueEncoding(v) > s.encoding THEN intsetUpgradeAndAdd(s, v)
      ELSE IF at.found THEN s
      ELSE [_intsetSet(moved, at.pos, v) EXCEPT !.length = @ + 1]

\* Fault: only values narrower than the encoding are looked for.
FindNarrower(s, v) == _intsetValueEncoding(v) < s.encoding /\ intsetSearch(s, v).found

intsetFind(s, v) == _intsetValueEncoding(v) <= s.encoding /\ intsetSearch(s, v).found

intsetRemove(s, v) ==
  LET pos == intsetSearch(s, v).pos
      moved == IF pos < s.length - 1 THEN intsetMoveTail(s, pos + 1, pos) ELSE s
  IN  IF intsetFind(s, v) THEN [intsetResize(moved, s.length - 1) EXCEPT !.length = @ - 1] ELSE s

(* ---- the machine ------------------------------------------------------ *)

ISInit == is = intsetNew /\ isCall = <<"new", 0>> /\ isRet = [ok |-> TRUE, value |-> 0]

ISCallOf(f, arg, s, ok, v) == /\ is' = s
                              /\ isCall' = <<f, arg>>
                              /\ isRet' = [ok |-> ok, value |-> v]

IntsetAdd(v) == ISCallOf("add", v, intsetAdd(is, v),
                         _intsetValueEncoding(v) > is.encoding \/ ~intsetSearch(is, v).found, 0)
IntsetRemove(v) == ISCallOf("remove", v, intsetRemove(is, v), intsetFind(is, v), 0)
IntsetFind(v) == ISCallOf("find", v, is, intsetFind(is, v), 0)
IntsetGet(pos) == IF pos < is.length THEN ISCallOf("get", pos, is, TRUE, _intsetGet(is, pos))
                  ELSE ISCallOf("get", pos, is, FALSE, 0)
\* rand() % length, on a set that is not empty.
IntsetRandom == \E pos \in 0..(is.length - 1) : ISCallOf("random", 0, is, TRUE, _intsetGet(is, pos))

ISNext == \/ \E v \in Members : IntsetAdd(v) \/ IntsetRemove(v) \/ IntsetFind(v)
          \/ \E pos \in Positions : IntsetGet(pos)
          \/ IntsetRandom

ISSpec == ISInit /\ [][ISNext]_isvars

(* ---- properties ------------------------------------------------------- *)

Elements == {_intsetGet(is, pos) : pos \in 0..(is.length - 1)}

SetS == INSTANCE IntegerSet WITH members <- Elements, call <- isCall, answer <- isRet

\* The answers and the elements are those of a set of integers: widening, in
\* place and over the old values, changes no element, and searching never
\* misses or invents one.
ImplementsSet == SetS!SetSpec
=============================================================================
