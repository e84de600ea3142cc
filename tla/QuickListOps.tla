---------------------------- MODULE QuickListOps -----------------------------
(***************************************************************************)
(* quicklist.c as operators on a quicklist: a doubly linked list of nodes, *)
(* each holding a ziplist (here a sequence of values, whose byte layout is *)
(* ZipList.tla's subject) that may be LZF compressed.  A node is named by  *)
(* its position in the list, 0 standing for NULL; quicklist->len is the    *)
(* number of nodes, except where the code reads it before it adjusts it.   *)
(***************************************************************************)
EXTENDS Integers, Sequences, SequencesExt, FiniteSetsExt

CONSTANTS
  Values,               \* what the list holds
  Bytes,                \* the bytes of each value's ziplist entry
  optimization_level,   \* node sizes in bytes for the fills -1..-5
  SIZE_SAFETY_LIMIT,    \* a node never grows beyond this, whatever its fill
  Strings,              \* the values a ziplist keeps as strings, not as integers
  Saving,               \* the bytes LZF saves on each value
  MIN_COMPRESS_BYTES,   \* smaller nodes are not compressed
  MIN_COMPRESS_IMPROVE, \* nor is one on which LZF saves no more than this
  FILL_MAX, COMPRESS_MAX   \* 2^15 and 2^16, for bit fields of 16 bits

ASSUME BytesAssumption == Bytes \in [Values -> Nat \ {0}]
ASSUME SavingAssumption == Strings \subseteq Values /\ Saving \in [Values -> Nat]
ASSUME LevelAssumption == Len(optimization_level) = 5

ZIPLIST_OVERHEAD == 11    \* ZIPLIST_HEADER_SIZE + ZIPLIST_END_SIZE

ziplistBlobLen(zl) == FoldLeft(LAMBDA n, v : n + Bytes[v], ZIPLIST_OVERHEAD, zl)

\* ziplistIndex: the position an offset names in a ziplist, counted from the tail when it is
\* negative; 0 when it is out of range.
zlIndex(zl, off) == LET i == IF off >= 0 THEN off + 1 ELSE Len(zl) + 1 + off
                    IN  IF i \in 1..Len(zl) THEN i ELSE 0

\* ziplistDeleteRange: delete num entries from offset off on, all of them when num is -1.
zlDeleteRange(zl, off, num) ==
  LET i == zlIndex(zl, off)
      n == IF num = -1 THEN Len(zl) ELSE num
  IN  IF i = 0 THEN zl ELSE SubSeq(zl, 1, i - 1) \o SubSeq(zl, i + n, Len(zl))

\* The largest value each of them lets through does not fit the bit field it
\* goes to: fill is signed, compress is not.
quicklistSetFill(fill) == IF fill >= FILL_MAX THEN -FILL_MAX ELSE IF fill < -5 THEN -5 ELSE fill
quicklistSetCompressDepth(c) == IF c >= COMPRESS_MAX \/ c < 0 THEN 0 ELSE c

quicklistNew(fill, compress) ==
  [nodes |-> <<>>, count |-> 0,
   fill |-> quicklistSetFill(fill), compress |-> quicklistSetCompressDepth(compress)]

\* A node with the given ziplist and count, its size up to date.
Filled(n, zl, count) == [n EXCEPT !.zl = zl, !.count = count, !.sz = ziplistBlobLen(zl)]
quicklistCreateNode(zl) ==
  Filled([zl |-> <<>>, count |-> 0, sz |-> 0, lzf |-> FALSE, recompress |-> FALSE], zl, Len(zl))

Length(q) == Len(q.nodes)
Update(q, i, n) == [q EXCEPT !.nodes[i] = n]

(* ---- compression ------------------------------------------------------ *)

\* quicklistCompressNode.  A node that is too small, or on which LZF saves too
\* little, stays as it is, its recompress flag included.
CompressNode(n) ==
  LET saved == FoldLeft(LAMBDA b, v : b + Saving[v], 0, n.zl)
  IN  IF n.lzf \/ n.sz < MIN_COMPRESS_BYTES \/ saved <= MIN_COMPRESS_IMPROVE THEN n
      ELSE [n EXCEPT !.lzf = TRUE, !.recompress = FALSE]
DecompressNode(n) == [n EXCEPT !.lzf = FALSE]
DecompressNodeForUse(n) == IF n.lzf THEN [n EXCEPT !.lzf = FALSE, !.recompress = TRUE] ELSE n

\* Open the nodes within the depth of both ends and close node i (0 for none)
\* if it is deeper, and the first nodes beyond a depth of 2 or more.  len is
\* what quicklist->len holds at the time, not always the number of nodes.
__quicklistCompress(q, i, len) ==
  LET n == Length(q)
      c == q.compress
      within == {j \in 1..n : j <= c \/ j > n - c}
      closing == ({i} \ within) \cup (IF c >= 2 THEN {c + 1, n - c} ELSE {})
      opened(j) == IF j \in within THEN DecompressNode(q.nodes[j]) ELSE q.nodes[j]
      encoded(j) == IF n >= 2 * c /\ j \in closing THEN CompressNode(opened(j)) ELSE opened(j)
  IN  IF c = 0 \/ len < 2 * c THEN q
      ELSE [q EXCEPT !.nodes = SubSeq([j \in 1..n |-> encoded(j)], 1, n)]   \* a tuple, to TLC too

quicklistCompress(q, i, len) ==
  IF q.nodes[i].recompress THEN Update(q, i, CompressNode(q.nodes[i])) ELSE __quicklistCompress(q, i, len)

quicklistRecompressOnly(q, i) ==
  IF q.nodes[i].recompress THEN Update(q, i, CompressNode(q.nodes[i])) ELSE q

(* ---- nodes ------------------------------------------------------------ *)

\* The new node goes next to node i (0 when there is none); the list is
\* compressed around i before quicklist->len is incremented.
__quicklistInsertNode(q, i, new, after) ==
  IF i = 0 THEN [q EXCEPT !.nodes = <<new>>]
  ELSE quicklistCompress([q EXCEPT !.nodes = InsertAt(@, i + after, new)],
                         i + 1 - after, Length(q))

\* The list is compressed before quicklist->len is decremented.
__quicklistDelNode(q, i) ==
  [__quicklistCompress([q EXCEPT !.nodes = RemoveAt(@, i)], 0, Length(q))
     EXCEPT !.count = @ - q.nodes[i].count]

SizeMeetsRequirement(sz, fill) == -fill \in DOMAIN optimization_level /\ sz <= optimization_level[-fill]

_quicklistNodeAllowInsert(q, i, v) ==
  /\ i \in 1..Length(q)
  /\ LET new_sz == q.nodes[i].sz + Bytes[v]
     IN  \/ SizeMeetsRequirement(new_sz, q.fill)
         \/ new_sz <= SIZE_SAFETY_LIMIT /\ q.nodes[i].count < q.fill

_quicklistNodeAllowMerge(q, i, j) ==
  /\ {i, j} \subseteq 1..Length(q)
  /\ LET a == q.nodes[i]
         b == q.nodes[j]
         merge_sz == a.sz + b.sz - ZIPLIST_OVERHEAD
     IN  \/ SizeMeetsRequirement(merge_sz, q.fill)
         \/ merge_sz <= SIZE_SAFETY_LIMIT /\ a.count + b.count <= q.fill

\* Nodes i and i + 1 become one, in place of the one with more entries.
_quicklistZiplistMerge(q, i) ==
  LET a == DecompressNode(q.nodes[i])
      b == DecompressNode(q.nodes[i + 1])
      both == a.zl \o b.zl
      keep == Filled(IF a.count >= b.count THEN a ELSE b, both, Len(both))
      gone == __quicklistCompress(Update([q EXCEPT !.nodes = RemoveAt(@, i + 1)], i, keep), 0, Length(q))
  IN  quicklistCompress(gone, i, Length(gone))

MergeIf(q, i) == IF _quicklistNodeAllowMerge(q, i, i + 1) THEN _quicklistZiplistMerge(q, i) ELSE q

\* Around node i: the two before it, the two after it, it with the one before
\* it, the outcome with the one after it.
_quicklistMergeNodes(q, i) ==
  LET q1 == MergeIf(q, i - 2)
      c1 == i - (Length(q) - Length(q1))
      q2 == MergeIf(q1, c1 + 1)
      q3 == MergeIf(q2, c1 - 1)
      c3 == c1 - (Length(q2) - Length(q3))
  IN  MergeIf(q3, c3)

(* ---- operations ------------------------------------------------------- *)

HEAD == 0
TAIL == -1

quicklistPush(q, v, where) ==
  LET i == IF where = HEAD THEN Min({1, Length(q)}) ELSE Length(q)
      n == q.nodes[i]
      pushed == IF where = HEAD THEN <<v>> \o n.zl ELSE Append(n.zl, v)
      grown == IF _quicklistNodeAllowInsert(q, i, v) THEN Update(q, i, Filled(n, pushed, n.count + 1))
               ELSE __quicklistInsertNode(q, i, quicklistCreateNode(<<v>>), IF where = HEAD THEN 0 ELSE 1)
  IN  [grown EXCEPT !.count = @ + 1]

quicklistAppendZiplist(q, zl) ==
  [__quicklistInsertNode(q, Length(q), quicklistCreateNode(zl), 1) EXCEPT !.count = @ + Len(zl)]

quicklistAppendValuesFromZiplist(q, zl) ==
  FoldLeft(LAMBDA acc, v : quicklistPush(acc, v, TAIL), q, zl)

\* Fault: the node is deleted with the count it had before.
DelIndexLate(q, i, k) ==
  LET n == Filled(q.nodes[i], RemoveAt(q.nodes[i].zl, k), q.nodes[i].count - 1)
      rest == IF n.count = 0 THEN __quicklistDelNode(q, i) ELSE Update(q, i, n)
  IN  [rest EXCEPT !.count = @ - 1]

\* Entry k of node i goes, and the node with it when it was the last one.
quicklistDelIndex(q, i, k) ==
  LET n == Filled(q.nodes[i], RemoveAt(q.nodes[i].zl, k), q.nodes[i].count - 1)
      rest == IF n.count = 0 THEN __quicklistDelNode(Update(q, i, n), i) ELSE Update(q, i, n)
  IN  [rest EXCEPT !.count = @ - 1]

\* The node (0 when the index is out of range) and the offset in it of an index.
EntryAt(q, idx) ==
  LET forward == idx >= 0
      index == IF forward THEN idx ELSE (-idx) - 1
      n == Length(q)
      upTo[j \in 0..n] == IF j = 0 THEN 0
                          ELSE upTo[j - 1] + q.nodes[IF forward THEN j ELSE n + 1 - j].count
      hit == {j \in 1..n : upTo[j] > index}
      j == Min(hit)
  IN  IF index >= q.count \/ hit = {} THEN [node |-> 0, offset |-> 0]
      ELSE [node |-> IF forward THEN j ELSE n + 1 - j,
            offset |-> IF forward THEN index - upTo[j - 1] ELSE upTo[j - 1] - index - 1]

ForUse(q, i) == Update(q, i, DecompressNodeForUse(q.nodes[i]))

\* What quicklistIndex does to the list: the node found stays uncompressed.
quicklistIndex(q, idx) == LET e == EntryAt(q, idx) IN IF e.node = 0 THEN q ELSE ForUse(q, e.node)

ValueAt(q, e) == q.nodes[e.node].zl[zlIndex(q.nodes[e.node].zl, e.offset)]

quicklistReplaceAtIndex(q, idx, v) ==
  LET e == EntryAt(q, idx)
      used == ForUse(q, e.node)
      n == used.nodes[e.node]
      new == Filled(n, ReplaceAt(n.zl, zlIndex(n.zl, e.offset), v), n.count)
  IN  IF e.node = 0 THEN q ELSE quicklistCompress(Update(used, e.node, new), e.node, Length(q))

TailValue(q) == Last(Last(q.nodes).zl)

\* A string is passed to quicklistPushHead as a pointer into the tail's ziplist,
\* which is then the very ziplist that grows.
PushesOwnBytes(q) == /\ Length(q) = 1
                     /\ TailValue(q) \in Strings
                     /\ _quicklistNodeAllowInsert(q, 1, TailValue(q))

\* What __ziplistInsert copies from that pointer, after it has reallocated and
\* shifted the ziplist: a string of the same length, of any bytes.
Pushed(q) == IF PushesOwnBytes(q) THEN {v \in Strings : Bytes[v] = Bytes[TailValue(q)]} ELSE {TailValue(q)}

\* Fault: the place of the tail entry is taken before the push.
RotateStale(q) ==
  LET place == Len(Last(q.nodes).zl)
      moved(v) == LET pushed == quicklistPush(q, v, HEAD) IN quicklistDelIndex(pushed, Length(pushed), place)
  IN  IF q.count <= 1 THEN {q} ELSE {moved(v) : v \in Pushed(q)}

\* The lists a rotation may leave: the tail entry is pushed on the head before
\* it is deleted from the tail.
quicklistRotate(q) ==
  LET moved(v) == LET pushed == quicklistPush(q, v, HEAD)
                      t == Length(pushed)
                  IN  quicklistDelIndex(pushed, t, Len(pushed.nodes[t].zl))
  IN  IF q.count <= 1 THEN {q} ELSE {moved(v) : v \in Pushed(q)}

quicklistPop(q, where) ==
  LET i == IF where = HEAD THEN 1 ELSE Length(q)
  IN  IF q.count = 0 THEN q ELSE quicklistDelIndex(q, i, zlIndex(q.nodes[i].zl, where))

\* One round of quicklistDelRange's loop on state [q, node, offset, extent].
DelRangeRound(s) ==
  LET n == s.q.nodes[s.node]
      entire == s.offset = 0 /\ s.extent >= n.count
      del == IF entire THEN n.count
             ELSE IF s.offset >= 0 /\ s.extent >= n.count THEN n.count - s.offset
             ELSE IF s.offset < 0 THEN Min({-s.offset, s.extent})
             ELSE s.extent
      used == DecompressNodeForUse(n)
      cut == Filled(used, zlDeleteRange(used.zl, s.offset, del), used.count - del)
      rest == [Update(s.q, s.node, cut) EXCEPT !.count = @ - del]
      gone == entire \/ cut.count = 0
  IN  [q |-> IF entire THEN __quicklistDelNode(s.q, s.node)
             ELSE IF gone THEN __quicklistDelNode(rest, s.node)
             ELSE quicklistRecompressOnly(rest, s.node),
       node |-> IF gone THEN s.node ELSE s.node + 1,
       offset |-> 0,
       extent |-> s.extent - del]

quicklistDelRange(q, start, count) ==
  LET extent == IF start >= 0 THEN Min({count, q.count - start}) ELSE Min({count, -start})
      e == EntryAt(q, start)
      begin == [q |-> quicklistIndex(q, start), node |-> e.node, offset |-> e.offset, extent |-> extent]
      rounds[k \in 0..Length(q)] ==
        IF k = 0 THEN begin
        ELSE LET s == rounds[k - 1] IN IF s.extent = 0 THEN s ELSE DelRangeRound(s)
  IN  IF count <= 0 \/ e.node = 0 THEN q ELSE rounds[Length(q)].q

\* The nodes of the copy are appended one by one, each as it is encoded.  Of a
\* compressed node sz bytes are copied (the encoding tested is the new node's):
\* its blob, and bytes behind it that lzf_decompress never reads.
quicklistDup(q) ==
  FoldLeft(LAMBDA copy, n : [__quicklistInsertNode(copy, Length(copy), [n EXCEPT !.recompress = FALSE], 1)
                               EXCEPT !.count = @ + n.count],
           quicklistNew(q.fill, q.compress), q.nodes)

\* Node i keeps the entries on its side of offset, the others go to a new node.
_quicklistSplitNode(n, offset, after) ==
  LET kept == zlDeleteRange(n.zl, IF after = 1 THEN offset + 1 ELSE 0,
                                       IF after = 1 THEN -1 ELSE offset)
      moved == zlDeleteRange(n.zl, IF after = 1 THEN 0 ELSE offset,
                                        IF after = 1 THEN offset + 1 ELSE -1)
  IN  [old |-> Filled(n, kept, Len(kept)), new |-> moved]

\* v goes before (after = 0) or after (1) the entry at position k, offset off,
\* of node i.  at_tail never holds: an entry's offset is below its node's count.
_quicklistInsert(q, i, off, k, v, after) ==
  LET full == ~_quicklistNodeAllowInsert(q, i, v)
      n == DecompressNodeForUse(q.nodes[i])
      at_tail == after = 1 /\ off = q.nodes[i].count
      at_head == after = 0 /\ off = 0
      nb == IF at_head THEN i - 1 ELSE i + 1
      atEdge == (at_tail \/ at_head) /\ nb \in 1..Length(q)
      full_nb == ~_quicklistNodeAllowInsert(q, nb, v)
      m == DecompressNodeForUse(q.nodes[nb])
      split == _quicklistSplitNode(n, off, after)
      new == quicklistCreateNode(IF after = 1 THEN <<v>> \o split.new ELSE Append(split.new, v))
      inserted ==
        IF ~full THEN quicklistRecompressOnly(Update(q, i, Filled(n, InsertAt(n.zl, k + after, v), n.count + 1)), i)
        ELSE IF atEdge /\ ~full_nb THEN
          quicklistRecompressOnly(
            Update(q, nb, Filled(m, IF at_head THEN Append(m.zl, v) ELSE <<v>> \o m.zl, m.count + 1)), nb)
        ELSE IF atEdge THEN __quicklistInsertNode(q, i, quicklistCreateNode(<<v>>), after)
        ELSE _quicklistMergeNodes(__quicklistInsertNode(Update(q, i, split.old), i, new, after),
                                  i + 1 - after)
  IN  [inserted EXCEPT !.count = @ + 1]
=============================================================================
