---------------------------- MODULE MCEncodings ------------------------------
EXTENDS Encodings, MCQuickList

\* Three keys of a dict; the first and the last share a bucket in every table of
\* up to four buckets, so chains are moved as well as single entries.
MCHash == [k \in Key |-> CASE k = 1 -> 1 [] k = 2 -> 2 [] k = 3 -> 5]

\* Ziplist values are named by the size of their payload.
MCPayload == [v \in ZLValues |-> v]
MCZLStarts == {-2, -1, 0, 1, 2}
MCZLCounts == {1, 2, 9}
MCOthers == {<<2>>, <<2, 6>>}

\* Both sides of every encoding boundary of a unit of two bits.
MCMembers == {-9, -8, -2, -1, 0, 1, 2, 8}

\* The structure in use.  No call reads the record of the one before: states that
\* differ in it alone have the same successors, and every step is checked.
MCView ==
  <<encoding, CASE encoding = "hashtable" -> <<d, canResize>>
                [] encoding = "quicklist" -> <<ql, iter>>
                [] encoding = "ziplist" -> <<zl, walk>>
                [] encoding = "intset" -> <<is>>
                [] encoding = "skiplist" -> <<zsl>>>>
=============================================================================
