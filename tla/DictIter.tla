------------------------------ MODULE DictIter -------------------------------
(***************************************************************************)
(* A safe iterator (dictGetSafeIterator, dictNext, dictReleaseIterator)    *)
(* over a dict that its own user changes during the iteration.  The        *)
(* iterator keeps pointers into a chain: the entry it returned and the one *)
(* that followed it, read before the user gets control.                    *)
(*                                                                         *)
(* The order of a chain is whatever the insertions made it; it is chosen   *)
(* lazily, when the iterator follows ->next.  Entries the user adds to a   *)
(* chain go to its head, so they are never ahead of the iterator.          *)
(***************************************************************************)
EXTENDS DictOps

CONSTANTS
  IterKey,   \* the keys the user adds
  NoEntry    \* NULL

ASSUME IterAssumption == IterKey \subseteq Key /\ NoEntry \notin Key

VARIABLES
  itDict,     \* the dict
  it,         \* the iterator: [live, table, index, entry, nextEntry, rest, over]
  returned,   \* keys returned by this iterator and not deleted since
  twice,      \* a key was returned that had been returned before
  itSteady    \* keys present at every moment since the first dictNext

itvars == <<itDict, it, returned, twice, itSteady>>

KeysOf(x) == {e.key : e \in AllEntries(x)}
KeysIn(chain) == {e.key : e \in chain}

\* dictGetSafeIterator; live is FALSE before it and after the release.  rest is
\* the part of the chain behind nextEntry; over says dictNext returned NULL.
NewIterator ==
  [live |-> TRUE, table |-> 0, index |-> -1, entry |-> NoEntry,
   nextEntry |-> NoEntry, rest |-> {}, over |-> FALSE]

Started == ~(it.index = -1 /\ it.table = 0)

\* Fault: the second table is never entered.
AheadInTable ==
  LET here == IF it.table = 0 THEN itDict.ht0 ELSE itDict.ht1
  IN  {<<it.table, i>> : i \in {j \in (it.index + 1)..(here.size - 1) : here.table[j] # {}}}

\* The non-empty buckets ahead of the iterator, as pairs <<table, index>> in
\* the order the loop of dictNext meets them: the rest of its table and then,
\* when a rehash is on and it is in ht[0], the whole of ht[1].
Ahead ==
  LET here == IF it.table = 0 THEN itDict.ht0 ELSE itDict.ht1
  IN  {<<it.table, i>> : i \in {j \in (it.index + 1)..(here.size - 1) :
                                  here.table[j] # {}}}
      \cup
      (IF dictIsRehashing(itDict) /\ it.table = 0
       THEN {<<1, i>> : i \in {j \in 0..(itDict.ht1.size - 1) : itDict.ht1.table[j] # {}}}
       ELSE {})
Before(p, q) == p[1] < q[1] \/ (p[1] = q[1] /\ p[2] < q[2])
NextBucket == CHOOSE p \in Ahead : \A q \in Ahead : p = q \/ Before(p, q)
ChainAt(p) == KeysIn(IF p[1] = 0 THEN itDict.ht0.table[p[2]] ELSE itDict.ht1.table[p[2]])

\* Return entry k, whose successor is one of the keys behind it, or NULL.
Return(k, behind, table, index) ==
  \E n \in IF behind = {} THEN {NoEntry} ELSE behind :
    /\ it' = [it EXCEPT !.entry = k, !.nextEntry = n, !.rest = behind \ {n},
                        !.table = table, !.index = index]
    /\ returned' = returned \cup {k}
    /\ twice' = (twice \/ k \in returned)

-----------------------------------------------------------------------------

IterInit ==
  /\ itDict = NewDict
  /\ it = [NewIterator EXCEPT !.live = FALSE]
  /\ returned = {} /\ twice = FALSE /\ itSteady = {}

dictGetSafeIterator ==
  /\ ~it.live
  /\ it' = NewIterator
  /\ returned' = {} /\ itSteady' = KeysOf(itDict) /\ UNCHANGED <<itDict, twice>>

\* The head of dictNext: the first call counts the iterator in d->iterators.
CountIterator ==
  /\ itDict' = IF Started THEN itDict ELSE [itDict EXCEPT !.iterators = @ + 1]
  /\ itSteady' = IF Started THEN itSteady ELSE KeysOf(itDict)

\* dictNext with a successor saved: it is returned without being looked up.
dictNextInChain ==
  /\ it.live /\ ~it.over /\ it.nextEntry # NoEntry
  /\ Return(it.nextEntry, it.rest, it.table, it.index)
  /\ UNCHANGED <<itDict, itSteady>>

\* dictNext at the end of a chain: the next non-empty bucket.
dictNextBucket ==
  /\ it.live /\ ~it.over /\ it.nextEntry = NoEntry /\ Ahead # {}
  /\ CountIterator
  /\ \E k \in ChainAt(NextBucket) :
       Return(k, ChainAt(NextBucket) \ {k}, NextBucket[1], NextBucket[2])

\* dictNext with nothing left: NULL, the index past the end of a table.
dictNextOver ==
  /\ it.live /\ ~it.over /\ it.nextEntry = NoEntry /\ Ahead = {}
  /\ CountIterator
  /\ it' = [it EXCEPT !.over = TRUE, !.entry = NoEntry,
              !.table = IF dictIsRehashing(itDict) THEN 1 ELSE @,
              !.index = IF dictIsRehashing(itDict) THEN itDict.ht1.size
                        ELSE IF it.table = 0 THEN itDict.ht0.size ELSE itDict.ht1.size]
  /\ UNCHANGED <<returned, twice>>

dictReleaseIterator ==
  /\ it.live
  /\ itDict' = IF Started THEN [itDict EXCEPT !.iterators = @ - 1] ELSE itDict
  /\ it' = [it EXCEPT !.live = FALSE, !.over = FALSE, !.table = 0, !.index = -1,
              !.entry = NoEntry, !.nextEntry = NoEntry, !.rest = {}]
  /\ returned' = {} /\ itSteady' = {} /\ UNCHANGED twice

\* What the user does between two calls of dictNext.
UserBecomes(x) ==
  /\ UNCHANGED twice
  /\ itDict' = x
  /\ itSteady' = itSteady \cap KeysOf(x)

UserAdd(k, v) ==
  /\ k \notin KeysOf(itDict)
  /\ UserBecomes(dictAdd(itDict, k, v, TRUE)) /\ UNCHANGED <<it, returned>>

UserFind == UNCHANGED <<it, returned>> /\ UserBecomes(AfterFind(itDict))

UserResize == UserBecomes(dictResize(itDict, TRUE)) /\ UNCHANGED <<it, returned>>

\* While it iterates a user deletes only the entry it was given last: nothing
\* protects the saved successor from a deletion (dict.h is silent about it).
UserDelete(k) ==
  /\ k \in KeysOf(itDict)
  /\ Started => k = it.entry
  /\ UserBecomes(dictDelete(itDict, k))
  /\ it' = [it EXCEPT !.rest = @ \ {k}]
  /\ returned' = returned \ {k}

IterNext ==
  \/ \E k \in Key : UserDelete(k)
  \/ \E k \in IterKey, v \in Val : UserAdd(k, v)
  \/ UserFind \/ UserResize
  \/ dictGetSafeIterator \/ dictReleaseIterator
  \/ dictNextInChain \/ dictNextBucket \/ dictNextOver

IterSpec == IterInit /\ [][IterNext]_itvars

\* Nothing but calls moves buckets (no thread, and serverCron is empty), so
\* progress needs lookups to keep coming at moments when no iterator is open
\* and the dict is not empty; users release their iterators.
IterFairness ==
  /\ SF_itvars(itDict.iterators = 0 /\ dictSize(itDict) # 0 /\ UserFind)
  /\ WF_itvars(dictReleaseIterator)

-----------------------------------------------------------------------------

\* "We need to save the 'next' here, the iterator user may delete the entry we
\* are returning": the saved successor is still an entry of the dict whenever
\* dictNext comes to use it.  A freed entry here is a use after free.
SuccessorLives == it.nextEntry # NoEntry => it.nextEntry \in KeysOf(itDict)

\* "some element can be missed or duplicated": no key is returned twice, though
\* the user adds keys, starts a rehash by adding, and looks keys up (which
\* would move buckets between the tables but for d->iterators).
NeverTwice == ~twice

\* An iteration that ran to its end returned every key that was there all the
\* time, in whichever table it was.
NeverMissed == it.over => itSteady \subseteq returned

\* d->iterators counts the iterators in use, also one released before its first
\* dictNext: a stale count would stop every later rehash for good.
CountBalanced == itDict.iterators = IF it.live /\ Started THEN 1 ELSE 0

\* A safe iteration is exact: the four facts above, of one iterator.
IterationExact == SuccessorLives /\ NeverTwice /\ NeverMissed /\ CountBalanced

\* No rehash is stuck: each comes to its end, or the dict becomes empty, though
\* every iterator stops it for a while.  (A lookup in an empty dict returns
\* before the rehash step: the old, empty table stays until the dict has a key
\* again.)
RehashMovesOn == dictIsRehashing(itDict) ~> (~dictIsRehashing(itDict) \/ dictSize(itDict) = 0)
=============================================================================
