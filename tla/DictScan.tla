------------------------------ MODULE DictScan -------------------------------
(***************************************************************************)
(* dictScan: a stateless iteration whose only state is the cursor the      *)
(* caller hands back.  Between two calls the dict may be changed, expanded,*)
(* shrunk and rehashed.  The cursor counts with its bits reversed, so that *)
(* a position means the same set of hashes in every table size.            *)
(***************************************************************************)
EXTENDS DictOps, FiniteSetsExt

CONSTANTS
  CursorBits,    \* the width of the cursor; 64 in the code
  RehashBatch,   \* buckets moved by one dictRehashMilliseconds batch
  MaxRatio       \* bound on the ratio of the two table sizes of a rehash

ASSUME CursorAssumption == \A s \in TableSizes : s <= 2^CursorBits
ASSUME BatchAssumption == RehashBatch \in Nat \ {0}

VARIABLES
  d,          \* the dict
  v,          \* the cursor
  scanning,   \* a scan was started and has not returned 0
  emitted,    \* the keys the callback saw during this scan
  steady      \* the keys present at every moment since the scan started

vars == <<d, v, scanning, emitted, steady>>

Keys(x) == {e.key : e \in AllEntries(x)}

-----------------------------------------------------------------------------

Word == 2^CursorBits
Bit(n, i) == (n \div 2^i) % 2
rev(n) == MapThenSumSet(LAMBDA i : Bit(n, i) * 2^(CursorBits - 1 - i),
                        0..(CursorBits - 1))

\* Fault: the cursor stops short of the wrap to 0.
StuckCursor(cur, s) ==
  LET r == rev((cur % s) + (Word - s)) IN rev(IF r = Word - 1 THEN r ELSE r + 1)

\* v |= ~m0; v = rev(v); v++; v = rev(v), with m0 the mask of a table of size s
NextCursor(cur, s) == rev((rev((cur % s) + (Word - s)) + 1) % Word)

Smaller(x) == IF x.ht0.size > x.ht1.size THEN x.ht1 ELSE x.ht0
Larger(x)  == IF x.ht0.size > x.ht1.size THEN x.ht0 ELSE x.ht1

\* The do-while loop over the larger table: from the cursor's own index, adding
\* to the bits the smaller mask lacks, until they wrap to zero.
Expansions(cur, s0, s1) ==
  {(cur % s0) + s0 * j : j \in ((cur % s1) \div s0)..((s1 \div s0) - 1)}

\* Fault: only the smaller table is looked at during a rehash.
EmitsSmaller(x, cur) ==
  IF dictSize(x) = 0 THEN {}
  ELSE IF ~dictIsRehashing(x) THEN x.ht0.table[cur % x.ht0.size]
  ELSE Smaller(x).table[cur % Smaller(x).size]

\* The entries one call hands to the callback, and the cursor it returns.
ScanEmits(x, cur) ==
  IF dictSize(x) = 0 THEN {}
  ELSE IF ~dictIsRehashing(x) THEN x.ht0.table[cur % x.ht0.size]
  ELSE LET t0 == Smaller(x)
           t1 == Larger(x)
       IN  t0.table[cur % t0.size] \cup
             UNION {t1.table[i] : i \in Expansions(cur, t0.size, t1.size)}
ScanReturns(x, cur) ==
  IF dictSize(x) = 0 THEN 0
  ELSE NextCursor(cur, IF dictIsRehashing(x) THEN Smaller(x).size ELSE x.ht0.size)

-----------------------------------------------------------------------------

Init ==
  /\ d = NewDict
  /\ v = 0 /\ scanning = FALSE /\ emitted = {} /\ steady = {}

\* One call of dictScan; a call with cursor 0 while no scan is on starts one.
Scan ==
  /\ UNCHANGED d
  /\ v' = ScanReturns(d, v) /\ scanning' = (v' # 0)
  /\ emitted' = (IF scanning THEN emitted ELSE {}) \cup {e.key : e \in ScanEmits(d, v)}
  /\ steady' = IF scanning THEN steady ELSE Keys(d)

\* What other code does to the dict between two calls.
Becomes(x) ==
  /\ dictIsRehashing(x) => Larger(x).size <= MaxRatio * Smaller(x).size
  /\ d' = x
  /\ steady' = steady \cap Keys(x)
  /\ UNCHANGED <<v, scanning, emitted>>

Add(k, val) == k \notin Keys(d) /\ Becomes(dictAdd(d, k, val, TRUE))
Delete(k) == k \in Keys(d) /\ Becomes(dictDelete(d, k))
Find == dictIsRehashing(d) /\ Becomes(AfterFind(d))
Resize == Becomes(dictResize(d, TRUE))
Expand(n) == Becomes(dictExpand(d, n))
RehashMilliseconds == dictIsRehashing(d) /\ Becomes(dictRehash(d, RehashBatch))

Next ==
  \/ Scan
  \/ \E k \in Key, val \in Val : Add(k, val)
  \/ \E k \in Key : Delete(k)
  \/ Find \/ Resize \/ RehashMilliseconds
  \/ \E n \in TableSizes : Expand(n)

Spec == Init /\ [][Next]_vars

\* The caller of a scan keeps calling.
Fairness == WF_vars(scanning /\ Scan)

-----------------------------------------------------------------------------

\* "The function guarantees all elements present in the dictionary get
\* returned between the start and end of the iteration": when dictScan has
\* returned 0, every key that was there all the time was handed to the
\* callback, however the table grew, shrank and was rehashed meanwhile.  It
\* holds when each resize is by a factor of two, and fails (MCDictScanShrink)
\* when one is by more: the loop over the larger table starts at the cursor's
\* own index and counts the extra bits upwards, while the cursor visits them
\* in bit-reversed order, so some expansions are visited by neither.
ScanComplete == ~scanning => steady \subseteq emitted

\* Every scan ends, even when the table keeps being resized under it.
ScanEnds == scanning ~> ~scanning
=============================================================================
