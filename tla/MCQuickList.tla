---------------------------- MODULE MCQuickList ------------------------------
EXTENDS QuickList
MCBytes == [v \in Values |-> v]
MCSame == [v \in Values |-> 1]
MCSaving == [v \in Values |-> 2 * (v - 1)]
MCLevels == <<20, 20, 20, 20, 15>>
MCZiplists == {<<1, 2>>}
MCStarts == {-2, 0, 2}
MCRangeStarts == {-2, 0}
MCCounts == {0, 2, 3}

\* Nodes limited by count and by size, with and without compression, and the
\* values that do not fit their bit fields.
MCOptions == {<<2, 0>>, <<2, 2>>, <<-6, 0>>, <<-6, 1>>, <<8, 4>>}
MCShallow == {2, -6, 8} \X {1}
MCPlain == {2, -6, 8} \X {0}
=============================================================================
