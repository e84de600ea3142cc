------------------------------- MODULE DictOps -------------------------------
(***************************************************************************)
(* The hash table of dict.c / dict.h as operators on one value, the        *)
(* "struct dict".  A dict owns two tables; while rehashidx # -1 it is      *)
(* being moved, bucket by bucket, from ht0 to ht1, and every lookup, add   *)
(* and delete pays for one step of the move.                               *)
(*                                                                         *)
(* A bucket (a chain of dictEntry linked by ->next) is the SET of its      *)
(* entries: no result depends on the order of a chain, and an entry added  *)
(* twice is still visible in the counter "used".  The pointers an iterator *)
(* keeps into a chain are the subject of DictIter.                         *)
(***************************************************************************)
EXTENDS Integers, FiniteSets

CONSTANTS
  Key,                    \* the keys (whatever keyCompare tells apart)
  Val,                    \* the values
  Hash,                   \* d->type->hashFunction, as a function on Key
  DICT_HT_INITIAL_SIZE,   \* dict.h; 4 in the code
  MaxDoublings,           \* how often a table can double before memory ends
  EmptyVisitsPerStep,     \* dictRehash visits n*10 empty buckets: 10
  ForceResizeRatio        \* dict_force_resize_ratio: 5

\* _dictNextPower starts from DICT_HT_INITIAL_SIZE and doubles.
TableSizes == {DICT_HT_INITIAL_SIZE * 2^i : i \in 0..MaxDoublings}

ASSUME KeyAssumption == IsFiniteSet(Key)
ASSUME HashAssumption == Hash \in [Key -> Nat]
ASSUME StepAssumption ==
  EmptyVisitsPerStep \in Nat \ {0} /\ ForceResizeRatio \in Nat
\* Table sizes are positive, DICT_HT_INITIAL_SIZE is the least of them, and
\* there is one large enough for twice the number of keys (zcalloc aborts the
\* process when it fails, so a dict never sees an allocation error).
ASSUME SizeAssumption ==
  /\ TableSizes \subseteq Nat \ {0}
  /\ DICT_HT_INITIAL_SIZE \in TableSizes
  /\ \A s \in TableSizes : DICT_HT_INITIAL_SIZE <= s
  /\ \E s \in TableSizes : 2 * Cardinality(Key) <= s

-----------------------------------------------------------------------------
(* The data structures.                                                    *)

Entry == [key : Key, val : Val]

dictht(size, used, table) == [size |-> size, used |-> used, table |-> table]

\* A dictht with n empty buckets; n = 0 is what _dictReset leaves.
NewTable(n) == dictht(n, 0, [i \in 0..(n - 1) |-> {}])

\* _dictInit
NewDict ==
  [ht0 |-> NewTable(0), ht1 |-> NewTable(0), rehashidx |-> -1, iterators |-> 0]

Entries(t) == UNION {t.table[i] : i \in 0..(t.size - 1)}
AllEntries(d) == Entries(d.ht0) \cup Entries(d.ht1)

dictIsRehashing(d) == d.rehashidx # -1
dictSize(d) == d.ht0.used + d.ht1.used

\* dictHashKey(d,key) & ht.sizemask: sizes are powers of two.
Slot(t, k) == Hash[k] % t.size

Least(S) == CHOOSE x \in S : \A y \in S : x <= y

-----------------------------------------------------------------------------
(* Growing and moving.                                                     *)

\* Fault: the size asked for, not rounded up.
UnroundedPower(size) == size

\* Sizes from LONG_MAX on have a branch of their own in the code; no table has one.
_dictNextPower(size) == Least({s \in TableSizes : s >= size})

\* The early returns of dictExpand: DICT_ERR.
ExpandFails(d, size) ==
  \/ dictIsRehashing(d)
  \/ d.ht0.used > size
  \/ _dictNextPower(size) = d.ht0.size

dictExpand(d, size) ==
  LET n == NewTable(_dictNextPower(size)) IN
  IF ExpandFails(d, size) THEN d
  ELSE IF d.ht0.size = 0 THEN [d EXCEPT !.ht0 = n]
  ELSE [ht0 |-> d.ht0, ht1 |-> n, rehashidx |-> 0, iterators |-> d.iterators]

\* The entries of the buckets from rehashidx up to, not including, j.
MovedEntries(d, j) == UNION {d.ht0.table[i] : i \in d.rehashidx..(j - 1)}

\* The index at which the loops of dictRehash(d,n) stop: n non-empty buckets
\* were moved, or n*10 empty ones were visited, or ht[0].used reached 0.
StopIndex(d, n) ==
  LET nonEmpty(j) == {i \in d.rehashidx..(j - 1) : d.ht0.table[i] # {}}
      moved(j)    == Cardinality(nonEmpty(j))
  IN  Least({j \in d.rehashidx..d.ht0.size :
               \/ moved(j) = n
               \/ j - d.rehashidx - moved(j) = n * EmptyVisitsPerStep
               \/ d.ht0.used = Cardinality(MovedEntries(d, j))})

\* Every entry below j goes to the bucket of ht1 its hash selects.
MoveBuckets(d, j) ==
  LET moved == MovedEntries(d, j)
      keep(i) == IF i \in d.rehashidx..(j - 1) THEN {} ELSE d.ht0.table[i]
      gain(i) == {e \in moved : Slot(d.ht1, e.key) = i}
  IN  [ht0 |-> dictht(d.ht0.size, d.ht0.used - Cardinality(moved),
                      [i \in 0..(d.ht0.size - 1) |-> keep(i)]),
       ht1 |-> dictht(d.ht1.size, d.ht1.used + Cardinality(moved),
                      [i \in 0..(d.ht1.size - 1) |-> d.ht1.table[i] \cup gain(i)]),
       rehashidx |-> j,
       iterators |-> d.iterators]

\* The whole table was rehashed: ht1 takes the place of ht0.
FinishRehash(d) ==
  [d EXCEPT !.ht0 = d.ht1, !.ht1 = NewTable(0), !.rehashidx = -1]

dictRehash(d, n) ==
  LET m == MoveBuckets(d, StopIndex(d, n)) IN
  IF ~dictIsRehashing(d) THEN d
  ELSE IF m.ht0.used = 0 THEN FinishRehash(m) ELSE m

\* Fault: the step is left out.
StepLeftOut(x) == x

_dictRehashStep(d) == IF d.iterators = 0 THEN dictRehash(d, 1) ELSE d

\* "if (dictIsRehashing(d)) _dictRehashStep(d)", the prologue of every call.
StepIfRehashing(d) == IF dictIsRehashing(d) THEN _dictRehashStep(d) ELSE d

\* The size _dictExpandIfNeeded asks dictExpand for; 0 when it asks for none.
WantedSize(d, canResize) ==
  IF dictIsRehashing(d) THEN 0
  ELSE IF d.ht0.size = 0 THEN DICT_HT_INITIAL_SIZE
  ELSE IF /\ d.ht0.used >= d.ht0.size
          /\ canResize \/ d.ht0.used \div d.ht0.size > ForceResizeRatio
       THEN d.ht0.used * 2
  ELSE 0

ExpandIfNeededFails(d, canResize) ==
  WantedSize(d, canResize) # 0 /\ ExpandFails(d, WantedSize(d, canResize))

_dictExpandIfNeeded(d, canResize) ==
  IF WantedSize(d, canResize) = 0 THEN d
  ELSE dictExpand(d, WantedSize(d, canResize))

-----------------------------------------------------------------------------
(* Looking up.                                                             *)

\* The entries for k in the one bucket of t that can hold it.
InTable(t, k) == {e \in t.table[Slot(t, k)] : e.key = k}

\* The probe of ht[0] and, while rehashing, of ht[1].
Probe(d, k) ==
  InTable(d.ht0, k) \cup
    (IF dictIsRehashing(d) THEN InTable(d.ht1, k) ELSE {})

\* Fault: a lookup that stops after the old table.
FindInOldTable(d, k) ==
  IF dictSize(d) = 0 THEN {} ELSE InTable((StepIfRehashing(d)).ht0, k)

\* dictFind: the dict it leaves (the lookup of a non-empty dict moves a
\* bucket) and the entries it can return ({} is NULL).
AfterFind(d) == IF dictSize(d) = 0 THEN d ELSE StepIfRehashing(d)
dictFind(d, k) == IF dictSize(d) = 0 THEN {} ELSE Probe(AfterFind(d), k)

\* The buckets dictGetRandomKey draws from: an index h in
\* rehashidx .. size0+size1-1 that addresses ht[0] and then ht[1].
RandomBuckets(d) ==
  IF dictIsRehashing(d)
  THEN {IF h >= d.ht0.size THEN d.ht1.table[h - d.ht0.size] ELSE d.ht0.table[h]
          : h \in d.rehashidx..(d.ht0.size + d.ht1.size - 1)}
  ELSE {d.ht0.table[h] : h \in 0..(d.ht0.size - 1)}
dictGetRandomKey(d) ==
  IF dictSize(d) = 0 THEN {} ELSE UNION RandomBuckets(AfterFind(d))

-----------------------------------------------------------------------------
(* Changing.                                                               *)

\* t with the chain B in bucket i, and n entries counted.
WithBucket(t, i, B, n) == dictht(t.size, n, [t.table EXCEPT ![i] = B])

\* Add entry e at the bucket of t its key selects.
Insert(t, e) ==
  LET i == Slot(t, e.key) IN WithBucket(t, i, t.table[i] \cup {e}, t.used + 1)

\* Fault: used is not decremented.
UnlinkUncounted(t, e) ==
  LET i == Slot(t, e.key) IN WithBucket(t, i, t.table[i] \ {e}, t.used)

\* Unlink entry e from t.
Unlink(t, e) ==
  LET i == Slot(t, e.key) IN WithBucket(t, i, t.table[i] \ {e}, t.used - 1)

\* Overwrite the value of entry e of t by v.
SetVal(t, e, v) ==
  LET i == Slot(t, e.key)
  IN  WithBucket(t, i, (t.table[i] \ {e}) \cup {[key |-> e.key, val |-> v]}, t.used)

\* dictAddRaw up to the decision: one rehash step, then _dictKeyIndex.
AddReady(d, canResize) == _dictExpandIfNeeded(StepIfRehashing(d), canResize)
AddFails(d, k, canResize) ==
  \/ ExpandIfNeededFails(StepIfRehashing(d), canResize)
  \/ Probe(AddReady(d, canResize), k) # {}

\* Fault: a new key goes to the old table during a rehash.
AddToOldTable(d, k, v, canResize) ==
  LET r == AddReady(d, canResize)
      e == [key |-> k, val |-> v]
  IN  IF AddFails(d, k, canResize) THEN r ELSE [r EXCEPT !.ht0 = Insert(r.ht0, e)]

dictAdd(d, k, v, canResize) ==
  LET r == AddReady(d, canResize)
      e == [key |-> k, val |-> v]
  IN  IF AddFails(d, k, canResize) THEN r
      ELSE IF dictIsRehashing(r) THEN [r EXCEPT !.ht1 = Insert(r.ht1, e)]
      ELSE [r EXCEPT !.ht0 = Insert(r.ht0, e)]

\* The entry a successful lookup of k returns, and a store through it.
Found(d, k) == CHOOSE e \in Probe(d, k) : TRUE
Store(d, k, v) ==
  IF InTable(d.ht0, k) # {} THEN [d EXCEPT !.ht0 = SetVal(d.ht0, Found(d, k), v)]
  ELSE [d EXCEPT !.ht1 = SetVal(d.ht1, Found(d, k), v)]

\* dictReplace: dictAdd, and when the key is there, dictFind and a new value.
dictReplace(d, k, v, canResize) ==
  LET r == dictAdd(d, k, v, canResize)
  IN  IF ~AddFails(d, k, canResize) THEN r ELSE Store(AfterFind(r), k, v)

\* dictReplaceRaw: dictFind first, dictAddRaw only when it finds nothing; the
\* caller stores v through the entry returned.
dictReplaceRaw(d, k, v, canResize) ==
  IF dictFind(d, k) = {} THEN dictAdd(AfterFind(d), k, v, canResize)
  ELSE Store(AfterFind(d), k, v)

\* dictGenericDelete; DeleteFinds is when it returns DICT_OK.
AfterDeleteStep(d) == IF d.ht0.size = 0 THEN d ELSE StepIfRehashing(d)
DeleteFinds(d, k) == d.ht0.size # 0 /\ Probe(AfterDeleteStep(d), k) # {}
dictDelete(d, k) ==
  LET r == AfterDeleteStep(d)
  IN  IF ~DeleteFinds(d, k) THEN r
      ELSE IF InTable(r.ht0, k) # {}
           THEN [r EXCEPT !.ht0 = Unlink(r.ht0, Found(r, k))]
      ELSE [r EXCEPT !.ht1 = Unlink(r.ht1, Found(r, k))]

\* dictResize shrinks (or grows) ht0 to the least size that fits.
dictResize(d, canResize) ==
  LET minimal == IF d.ht0.used < DICT_HT_INITIAL_SIZE
                 THEN DICT_HT_INITIAL_SIZE ELSE d.ht0.used
  IN  IF ~canResize \/ dictIsRehashing(d) THEN d ELSE dictExpand(d, minimal)

\* dictEmpty clears both tables; it also forgets the running iterators.
dictEmpty(d) == NewDict
=============================================================================
