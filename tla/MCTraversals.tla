---------------------------- MODULE MCTraversals -----------------------------
EXTENDS Traversals

\* For the scan, keys 1 and 3 part only in eight buckets, 3 and 4 only in
\* sixteen; for the iterator 1 and 3 share a bucket of up to four.
MCHash == [k \in Key |-> CASE k = 1 -> 1 [] k = 2 -> 3 [] k = 3 -> 5 [] k = 4 -> 13]
=============================================================================
