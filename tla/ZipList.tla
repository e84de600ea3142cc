------------------------------- MODULE ZipList -------------------------------
(***************************************************************************)
(* One ziplist and at most one pointer walking over it.                    *)
(***************************************************************************)
EXTENDS ZipListOps

CONSTANTS
  ZLStarts, ZLCounts,   \* indexes and counts callers ask for
  Others,               \* contents of the ziplists merged into this one
  MaxEntries,           \* bound on the entries
  ZLNothing

VARIABLES
  zl,       \* the ziplist
  walk,     \* the walking pointer: [open, p, fresh, forward]; fresh: p not visited yet
  zlCall,   \* the last call and where it acts
  zlRet     \* the value it returned

zlvars == <<zl, walk, zlCall, zlRet>>

NoWalk == [open |-> FALSE, p |-> 0, fresh |-> FALSE, forward |-> TRUE]

ZLInit == zl = ziplistNew /\ walk = NoWalk /\ zlCall = <<"new", 0>> /\ zlRet = ZLNothing

ZLCallOf(f, arg, z, r) == /\ ~walk.open
                          /\ zl' = z
                          /\ zlCall' = <<f, arg>>
                          /\ zlRet' = r
                          /\ UNCHANGED walk

HasRoom(n) == CountEntries(zl) + n <= MaxEntries

ZLPush(v, where) ==
  /\ HasRoom(1)
  /\ ZLCallOf("push", IF where = ZIPLIST_HEAD THEN 0 ELSE -1, ziplistPush(zl, v, where), ZLNothing)

\* Insert before the entry ziplistIndex finds.
ZLInsert(idx, v) ==
  LET p == ziplistIndex(zl, idx)
  IN  /\ HasRoom(1) /\ p # NULL
      /\ ZLCallOf("insert", <<idx, 0>>, __ziplistInsert(zl, p, v), ZLNothing)

ZLDeleteRange(idx, n) == ZLCallOf("del", <<idx, n>>, ziplistDeleteRange(zl, idx, n), ZLNothing)

ZLIndex(idx) == LET p == ziplistIndex(zl, idx)
                IN  ZLCallOf("index", idx, zl, IF p = NULL THEN ZLNothing ELSE ValueOf(zl, p))

\* Merge this ziplist with another, neither of them empty, as quicklist.c does.
Built(vs) == FoldLeft(LAMBDA z, v : ziplistPush(z, v, ZIPLIST_TAIL), ziplistNew, vs)
ZLMerge(vs) == /\ zl.length > 0 /\ HasRoom(Len(vs))
               /\ ZLCallOf("append", -1, ziplistMerge(zl, Built(vs)), ZLNothing)

\* ziplistLen stores what it counted: no call a caller sees the effect of.
ZLLen == ~walk.open /\ zl' = AfterLen(zl) /\ UNCHANGED <<walk, zlCall, zlRet>>

\* A walk starts at the entry ziplistIndex finds.
WalkFrom(forward, idx) ==
  LET p == ziplistIndex(zl, idx)
  IN  /\ ~walk.open
      /\ walk' = IF p = NULL THEN NoWalk ELSE [open |-> TRUE, p |-> p, fresh |-> TRUE, forward |-> forward]
      /\ zlCall' = <<"start", <<forward, idx>>>> /\ zlRet' = ZLNothing
      /\ UNCHANGED zl

\* ziplistGet on the pointer, after ziplistNext or ziplistPrev moved it.
WalkStep ==
  LET p == IF walk.fresh THEN (IF AtEnd(zl, walk.p) THEN NULL ELSE walk.p)
           ELSE IF walk.forward THEN ziplistNext(zl, walk.p) ELSE ziplistPrev(zl, walk.p)
  IN  /\ walk.open
      /\ walk' = IF p = NULL THEN NoWalk ELSE [walk EXCEPT !.p = p, !.fresh = FALSE]
      /\ zlRet' = IF p = NULL THEN ZLNothing ELSE ValueOf(zl, p)
      /\ zlCall' = <<"next", 0>>
      /\ UNCHANGED zl

Visited == walk.open /\ ~walk.fresh /\ zlCall # <<"delentry", 0>>

\* Fault: a forward walk steps over the entry that took the place.
WalkDeleteSkips ==
  /\ Visited
  /\ zl' = __ziplistDelete(zl, walk.p, 1)
  /\ UNCHANGED walk
  /\ zlCall' = <<"delentry", 0>> /\ zlRet' = ZLNothing

\* ziplistDelete leaves the pointer where the entry was: at the one behind it,
\* which a forward walk visits next.
WalkDelete ==
  /\ Visited
  /\ zl' = __ziplistDelete(zl, walk.p, 1)
  /\ walk' = [walk EXCEPT !.fresh = walk.forward]
  /\ zlCall' = <<"delentry", 0>> /\ zlRet' = ZLNothing

WalkStop == /\ walk.open /\ walk' = NoWalk
            /\ zlCall' = <<"stop", 0>> /\ zlRet' = ZLNothing
            /\ UNCHANGED zl

ZLNext ==
  \/ \E v \in ZLValues, where \in {ZIPLIST_HEAD, ZIPLIST_TAIL} : ZLPush(v, where)
  \/ \E idx \in ZLStarts, v \in ZLValues : ZLInsert(idx, v)
  \/ \E idx \in ZLStarts, n \in ZLCounts : ZLDeleteRange(idx, n)
  \/ \E idx \in ZLStarts : ZLIndex(idx)
  \/ \E vs \in Others : ZLMerge(vs)
  \/ ZLLen
  \/ \E idx \in ZLStarts, forward \in BOOLEAN : WalkFrom(forward, idx)
  \/ WalkStep \/ WalkDelete \/ WalkStop

ZLSpec == ZLInit /\ [][ZLNext]_zlvars

(* ---- properties ------------------------------------------------------- *)

\* The values a ziplist's memory holds, in order.
IsEncoding(cell) == cell[1] = "enc"
Held(mem) == LET cells == SelectSeq(mem, IsEncoding) IN [k \in 1..Len(cells) |-> cells[k][2]]

\* The memory is exactly the entries in order and the end mark.
MemoryExact ==
  LET vs == Held(zl.mem)
      offset(k) == Skip(zl, 0, k - 1).p
      before(k) == IF k = 1 THEN 0 ELSE offset(k) - offset(k - 1)
      field(k) == IF DecodePrevLenSize(zl, offset(k)) = 5 THEN LargeCells(before(k)) ELSE PrevLenCells(before(k))
  IN  /\ zl.bytes = Len(zl.mem)
      /\ zl.mem = FlattenSeq([k \in DOMAIN vs |-> field(k) \o EntryCells(vs[k])]) \o <<ZIP_END>>

\* The header agrees with the entries.
HeaderExact ==
  LET n == Len(Held(zl.mem))
  IN  /\ zl.tail = Skip(zl, 0, Max({0, n - 1})).p
      /\ zl.length \in 0..LENGTH_MAX
      /\ ziplistLen(zl) = n

\* Whatever was inserted, deleted or merged before, every byte is where a reader
\* expects it, every prevlen field holds the length of the entry before it (so
\* the list reads the same backwards), bytes is the size of the memory, the tail
\* offset finds the last entry, and the length is exact unless it is saturated,
\* when ziplistLen counts.
LayoutExact == MemoryExact /\ HeaderExact

\* What the walk has still to visit: behind its pointer, or before it.
WalkAhead ==
  LET before == Held(SubSeq(zl.mem, 1, walk.p))
      from == Held(SubSeq(zl.mem, walk.p + 1, Len(zl.mem)))
  IN  IF ~walk.open THEN <<>>
      ELSE IF walk.forward THEN (IF walk.fresh THEN from ELSE SubSeq(from, 2, Len(from)))
      ELSE Reverse(IF walk.fresh THEN Append(before, from[1]) ELSE before)

ZS == INSTANCE ListSpec WITH
  list <- Held(zl.mem), ahead <- WalkAhead,
  trav <- [open |-> walk.open, forward |-> walk.forward, current |-> Visited],
  call <- zlCall, answer <- zlRet, Nothing <- ZLNothing,
  Values <- ZLValues, Starts <- ZLStarts \cup ZLCounts

\* A ziplist is a list: growing and shrinking prevlen fields never change,
\* lose or reorder a value, and walks in both directions see each entry once.
ZipListImplementsList == ZS!LSSpec
=============================================================================
