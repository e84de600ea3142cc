------------------------------ MODULE QuickList ------------------------------
(***************************************************************************)
(* One quicklist and at most one iterator over it, as a state machine.     *)
(* While an iterator is open only the calls quicklist.c documents for that *)
(* time are made: next, delete the entry returned last, release.           *)
(***************************************************************************)
EXTENDS QuickListOps

CONSTANTS
  Options,          \* fill factors and compress depths lists are created with
  Ziplists,         \* the ziplists callers append
  Starts, Counts,   \* indexes and counts callers ask for
  RangeStarts,      \* the indexes they delete a range from
  RotateInPlace,    \* whether they rotate a string within one ziplist
  MaxCount,         \* bound on the entries of the list
  NoValue

VARIABLES
  ql,       \* the quicklist
  iter,     \* the iterator: [open, current, zi, offset, forward]
  qlCall,   \* the last call and where it acts
  qlRet     \* the value it returned

qlvars == <<ql, iter, qlCall, qlRet>>

NoIter == [open |-> FALSE, current |-> 0, zi |-> 0, offset |-> 0, forward |-> TRUE]

QLInit == /\ \E o \in Options : ql = quicklistNew(o[1], o[2])
          /\ iter = NoIter /\ qlCall = <<"new", 0>> /\ qlRet = NoValue

\* A call made with no iterator open.
Call(f, arg, q, r) == /\ ~iter.open
                      /\ ql' = q
                      /\ qlCall' = <<f, arg>>
                      /\ qlRet' = r
                      /\ UNCHANGED iter

\* The code takes the ziplist of an end as it is; what it does to one that is
\* compressed is not defined, and such a call is not made here: the run of
\* EndsUncompressed shows the calls that lead up to it.
Raw(where) == ql.nodes # <<>> => ~ql.nodes[IF where = HEAD THEN 1 ELSE Length(ql)].lzf

Push(v, where) == /\ ql.count < MaxCount
                  /\ Raw(where)
                  /\ Call("push", where, quicklistPush(ql, v, where), NoValue)

AppendZiplist(zl) == /\ ql.count + Len(zl) <= MaxCount
                     /\ Call("append", -1, quicklistAppendZiplist(ql, zl), NoValue)

AppendValues(zl) == /\ ql.count + Len(zl) <= MaxCount
                    /\ Raw(TAIL)
                    /\ Call("append", -1, quicklistAppendValuesFromZiplist(ql, zl), NoValue)

Pop(where) == /\ Raw(where)
              /\ Call("pop", where, quicklistPop(ql, where),
                      IF ql.count = 0 THEN NoValue ELSE ValueAt(ql, EntryAt(ql, where)))

Rotate == /\ Raw(HEAD) /\ Raw(TAIL)
          /\ ql.count > 1 /\ PushesOwnBytes(ql) => RotateInPlace
          /\ \E q \in quicklistRotate(ql) : Call("rotate", 0, q, NoValue)

Index(idx) == Call("index", idx, quicklistIndex(ql, idx),
                   LET e == EntryAt(ql, idx) IN IF e.node = 0 THEN NoValue ELSE ValueAt(ql, e))

ReplaceAtIndex(idx, v) == Call("replace", idx, quicklistReplaceAtIndex(ql, idx, v), NoValue)

\* quicklistInsertBefore/After on the entry quicklistIndex finds from the head.
QuicklistInsert(idx, v, after) ==
  LET e == EntryAt(ql, idx)
      q == ForUse(ql, e.node)
  IN  /\ idx >= 0 /\ e.node # 0
      /\ ql.count < MaxCount
      /\ Call("insert", <<idx, after>>,
              _quicklistInsert(q, e.node, e.offset, zlIndex(q.nodes[e.node].zl, e.offset), v, after),
              NoValue)

DelRange(start, n) == Call("del", <<start, n>>, quicklistDelRange(ql, start, n), NoValue)

Dup == Call("dup", 0, quicklistDup(ql), NoValue)
Release == Call("new", 0, quicklistNew(ql.fill, ql.compress), NoValue)

\* quicklistGetIteratorAtIdx, from the head side forward and from the tail
\* side backward; no iterator is returned for an index out of range.
GetIteratorAtIdx(forward, idx) ==
  LET e == EntryAt(ql, idx)
  IN  /\ ~iter.open
      /\ forward <=> idx >= 0
      /\ ql' = quicklistIndex(ql, idx)
      /\ iter' = IF e.node = 0 THEN NoIter
                 ELSE [open |-> TRUE, current |-> e.node, zi |-> 0, offset |-> e.offset, forward |-> forward]
      /\ qlCall' = <<"start", <<forward, idx>>>>
      /\ qlRet' = NoValue

\* The entry the iterator stands on after one step within its node.
NextInNode ==
  LET step == IF iter.forward THEN 1 ELSE -1
      zl == ql.nodes[iter.current].zl
  IN  IF iter.zi = 0
      THEN [iter EXCEPT !.zi = zlIndex(zl, iter.offset)]
      ELSE [iter EXCEPT !.zi = IF iter.zi + step \in DOMAIN zl THEN iter.zi + step ELSE 0,
                        !.offset = @ + step]

\* quicklistNext: within the node, else the first entry of the next node, the
\* node left behind being compressed again.  The end releases the iterator.
QuicklistNext ==
  LET used == IF iter.zi = 0 THEN ForUse(ql, iter.current) ELSE ql
      here == NextInNode
      left == quicklistCompress(used, iter.current, Length(used))
      to == IF iter.current = 0 THEN 0 ELSE iter.current + (IF iter.forward THEN 1 ELSE -1)
      off == IF iter.forward THEN 0 ELSE -1
  IN  /\ iter.open
      /\ qlCall' = <<"next", 0>>
      /\ \/ /\ iter.current # 0 /\ here.zi # 0
            /\ ql' = used /\ iter' = here
            /\ qlRet' = used.nodes[here.current].zl[here.zi]
         \/ /\ iter.current # 0 /\ here.zi = 0 /\ to \in 1..Length(ql)
            /\ ql' = ForUse(left, to)
            /\ iter' = [iter EXCEPT !.current = to, !.offset = off,
                                    !.zi = zlIndex(ql.nodes[to].zl, off)]
            /\ qlRet' = ql'.nodes[to].zl[iter'.zi]
         \/ /\ iter.current # 0 /\ here.zi = 0 /\ to \notin 1..Length(ql)
            /\ ql' = left /\ iter' = NoIter /\ qlRet' = NoValue
         \/ /\ iter.current = 0
            /\ ql' = ql /\ iter' = NoIter /\ qlRet' = NoValue

\* quicklistDelEntry on the entry quicklistNext returned last.
DelEntry ==
  LET i == iter.current
      rest == quicklistDelIndex(ql, i, iter.zi)
      gone == ql.nodes[i].count = 1
      to == IF ~iter.forward THEN i - 1 ELSE IF i <= Length(rest) THEN i ELSE 0
  IN  /\ iter.open /\ iter.zi # 0
      /\ ql' = rest
      /\ iter' = IF gone THEN [iter EXCEPT !.zi = 0, !.current = to, !.offset = IF iter.forward THEN 0 ELSE -1]
                 ELSE [iter EXCEPT !.zi = 0]
      /\ qlCall' = <<"delentry", 0>> /\ qlRet' = NoValue

\* quicklistReleaseIterator
QuicklistReleaseIterator ==
  /\ iter.open
  /\ ql' = IF iter.current = 0 THEN ql ELSE quicklistCompress(ql, iter.current, Length(ql))
  /\ iter' = NoIter
  /\ qlCall' = <<"stop", 0>> /\ qlRet' = NoValue

QLNext ==
  \/ \E v \in Values, where \in {HEAD, TAIL} : Push(v, where)
  \/ \E zl \in Ziplists : AppendZiplist(zl) \/ AppendValues(zl)
  \/ \E where \in {HEAD, TAIL} : Pop(where)
  \/ Rotate \/ Dup \/ Release
  \/ \E idx \in Starts : Index(idx)
  \/ \E idx \in Starts, v \in Values : ReplaceAtIndex(idx, v)
  \/ \E idx \in Starts, v \in Values, after \in {0, 1} : QuicklistInsert(idx, v, after)
  \/ \E idx \in RangeStarts, n \in Counts : DelRange(idx, n)
  \/ \E idx \in Starts, forward \in BOOLEAN : GetIteratorAtIdx(forward, idx)
  \/ QuicklistNext \/ DelEntry \/ QuicklistReleaseIterator

QLSpec == QLInit /\ [][QLNext]_qlvars

(* ---- properties ------------------------------------------------------- *)

\* After any sequence of calls the cached counts and sizes are exact: every node
\* counts its own entries and bytes, none is empty, and quicklist->count is the
\* sum.  The index search, the pops, the loop of quicklistDelRange and the
\* decisions to fill or merge a node all trust them.
CountsExact ==
  /\ \A i \in DOMAIN ql.nodes :
       LET n == ql.nodes[i]
       IN  n.count > 0 /\ n.count = Len(n.zl) /\ n.sz = ziplistBlobLen(n.zl)
  /\ ql.count = FoldLeft(LAMBDA n, node : n + node.count, 0, ql.nodes)

\* The head and the tail are never compressed: quicklistPush, quicklistPop and
\* quicklistRotate use their ziplists as they are, without looking at the
\* encoding (quicklist.h says the nodes at the ends are left uncompressed).
EndsUncompressed ==
  ql.nodes # <<>> => ~ql.nodes[1].lzf /\ ~ql.nodes[Length(ql)].lzf

Content(nodes) == FoldLeft(LAMBDA s, n : s \o n.zl, <<>>, nodes)

\* What the open iterator still has to return.
Ahead ==
  LET i == iter.current
      zl == ql.nodes[i].zl
      k == IF iter.zi # 0 THEN iter.zi + (IF iter.forward THEN 1 ELSE -1)
           ELSE IF iter.forward THEN iter.offset + 1 ELSE Len(zl) + 1 + iter.offset
  IN  IF i = 0 THEN <<>>
      ELSE IF iter.forward
      THEN SubSeq(zl, k, Len(zl)) \o Content(SubSeq(ql.nodes, i + 1, Length(ql)))
      ELSE Reverse(Content(SubSeq(ql.nodes, 1, i - 1)) \o SubSeq(zl, 1, k))

\* quicklistRotate moves the tail element to the head, as its comment says,
\* whatever the element and whatever the number of nodes.
RotateMoves ==
  [][LET list == Content(ql.nodes)
     IN  qlCall' = <<"rotate", 0>> /\ list # <<>> => Content(ql'.nodes) = <<Last(list)>> \o Front(list)]_qlvars

LS == INSTANCE ListSpec WITH
  list <- Content(ql.nodes), ahead <- Ahead,
  trav <- [open |-> iter.open, forward |-> iter.forward, current |-> iter.zi # 0],
  call <- qlCall, answer <- qlRet, Nothing <- NoValue,
  Starts <- Starts \cup RangeStarts \cup Counts

\* Splits, merges, node boundaries and a compressor that may fail never show:
\* every call (a rotation that copies from its own ziplist, and a call that takes
\* a compressed end for a ziplist, set apart) does to the content what it would
\* do to one plain sequence, answers the right value, and an iterator visits each
\* entry once even when entries behind it are deleted.
ImplementsList == LS!LSSpec
=============================================================================
