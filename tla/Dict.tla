-------------------------------- MODULE Dict ---------------------------------
(***************************************************************************)
(* One dictionary of dict.c as a state machine: every public call is an    *)
(* action, in any order, with the global dict_can_resize switched at will  *)
(* and safe iterators opened and released in between (each of them stops   *)
(* the incremental rehash).                                                *)
(***************************************************************************)
EXTENDS DictOps

CONSTANTS
  ExpandSizes,    \* the sizes callers ask dictExpand for
  RehashBatch,    \* dictRehashMilliseconds moves 100 buckets at a time
  MaxIterators    \* bound on the safe iterators open at once

ASSUME ExpandAssumption ==
  /\ ExpandSizes \subseteq Nat
  /\ \A n \in ExpandSizes : \E s \in TableSizes : n <= s
ASSUME BatchAssumption == RehashBatch \in Nat \ {0}
ASSUME IteratorAssumption == MaxIterators \in Nat

VARIABLES
  d,           \* the struct dict
  canResize,   \* dict_can_resize
  call,        \* the last call that is about keys, with its arguments
  ret          \* its answer

vars == <<d, canResize, call, ret>>

Answer(ok, found) == [ok |-> ok, found |-> found]

\* dictCreate
Init == d = NewDict /\ canResize = TRUE /\ call = <<"clear">> /\ ret = Answer(TRUE, {})

Add(k, v) ==
  /\ d' = dictAdd(d, k, v, canResize)
  /\ call' = <<"add", k, v>> /\ ret' = Answer(~AddFails(d, k, canResize), {})
  /\ UNCHANGED canResize

Replace(k, v) ==
  /\ d' = dictReplace(d, k, v, canResize)
  /\ call' = <<"replace", k, v>> /\ ret' = Answer(~AddFails(d, k, canResize), {})
  /\ UNCHANGED canResize

\* dictReplaceRaw, with the store its callers do through the entry it returns.
ReplaceRaw(k, v) ==
  /\ d' = dictReplaceRaw(d, k, v, canResize)
  /\ call' = <<"replace", k, v>> /\ ret' = Answer(dictFind(d, k) = {}, {})
  /\ UNCHANGED canResize

Delete(k) ==
  /\ d' = dictDelete(d, k)
  /\ call' = <<"delete", k>> /\ ret' = Answer(DeleteFinds(d, k), {})
  /\ UNCHANGED canResize

Find(k) ==
  /\ d' = AfterFind(d)
  /\ call' = <<"find", k>> /\ ret' = Answer(dictFind(d, k) # {}, dictFind(d, k))
  /\ UNCHANGED canResize

RandomKey ==
  /\ d' = AfterFind(d)
  /\ call' = <<"random">>
  /\ IF dictSize(d) = 0 THEN ret' = Answer(FALSE, {})
     ELSE \E e \in dictGetRandomKey(d) : ret' = Answer(TRUE, {e})
  /\ UNCHANGED canResize

\* dictEmpty zeroes d->iterators, so its callers hold no iterator.
Empty ==
  /\ d.iterators = 0
  /\ d' = dictEmpty(d)
  /\ call' = <<"clear">> /\ ret' = Answer(TRUE, {})
  /\ UNCHANGED canResize

Resize == d' = dictResize(d, canResize) /\ UNCHANGED <<canResize, call, ret>>

Expand(n) == d' = dictExpand(d, n) /\ UNCHANGED <<canResize, call, ret>>

\* dictRehashMilliseconds stops when its time is up, after at least one batch:
\* a call that does several is several of these steps.  It does not look at
\* d->iterators.
RehashMilliseconds == d' = dictRehash(d, RehashBatch) /\ UNCHANGED <<canResize, call, ret>>

\* The first dictNext of a safe iterator, and dictReleaseIterator.
OpenIterator ==
  /\ d.iterators < MaxIterators
  /\ d' = [d EXCEPT !.iterators = @ + 1]
  /\ UNCHANGED <<canResize, call, ret>>

ReleaseIterator ==
  /\ d.iterators > 0
  /\ d' = [d EXCEPT !.iterators = @ - 1]
  /\ UNCHANGED <<canResize, call, ret>>

\* dictEnableResize, dictDisableResize
EnableResize  == canResize' = TRUE  /\ UNCHANGED <<d, call, ret>>
DisableResize == canResize' = FALSE /\ UNCHANGED <<d, call, ret>>

Next ==
  \/ \E k \in Key, v \in Val : Add(k, v) \/ Replace(k, v) \/ ReplaceRaw(k, v)
  \/ \E k \in Key : Delete(k) \/ Find(k)
  \/ RandomKey \/ Empty
  \/ Resize \/ (\E n \in ExpandSizes : Expand(n)) \/ RehashMilliseconds
  \/ OpenIterator \/ ReleaseIterator
  \/ EnableResize \/ DisableResize

Spec == Init /\ [][Next]_vars

-----------------------------------------------------------------------------
(* The inductive invariant.                                                *)

Table(n) == [size : {n}, used : Nat, table : [0..(n - 1) -> SUBSET Entry]]
IsTable(t) == t.size \in TableSizes \cup {0} /\ t \in Table(t.size)
IsDict(x) ==
  /\ IsTable(x.ht0) /\ IsTable(x.ht1)
  /\ x \in [ht0 : {x.ht0}, ht1 : {x.ht1}, rehashidx : Int, iterators : Nat]

\* The calls about keys.
Calls == ({"add", "replace"} \X Key \X Val) \cup ({"delete", "find"} \X Key)
         \cup {<<"random">>, <<"clear">>}

\* The variables have the types dict.h gives them: in particular a table has
\* exactly size buckets, and size is 0 or a power _dictNextPower can return.
TypeOK ==
  /\ IsDict(d)
  /\ canResize \in BOOLEAN
  /\ call \in Calls /\ ret \in [ok : BOOLEAN, found : SUBSET Entry]

\* Every entry of t is in the bucket its hash selects.
Placed(t) == \A i \in 0..(t.size - 1) : \A e \in t.table[i] : Slot(t, e.key) = i

\* No key has two entries in t.
KeysUnique(t) == \A e, f \in Entries(t) : e.key = f.key => e = f

\* The counter "used", which decides when to expand and when a rehash is over,
\* is the number of entries of the table.
Counted(t) == IsFiniteSet(Entries(t)) /\ t.used = Cardinality(Entries(t))

GoodTable(t) == IsTable(t) /\ Placed(t) /\ KeysUnique(t) /\ Counted(t)

\* The two tables of a dict share no key: a lookup that finds k in ht[0] does
\* not look in ht[1], and a delete stops at the first entry it meets.
KeysApart(x) ==
  \A e \in Entries(x.ht0), f \in Entries(x.ht1) : e.key # f.key

\* Outside a rehash the second table is the reset one; during a rehash both
\* are allocated, rehashidx addresses a bucket of ht[0] (dictRehash and
\* dictGetRandomKey index ht[0] with it unchecked, the assert is commented
\* out) and the buckets below it are empty (dictGetRandomKey skips them).
RehashShape(x) ==
  /\ x.rehashidx = -1 => x.ht1 = NewTable(0)
  /\ x.rehashidx # -1 =>
       /\ x.ht1.size # 0
       /\ x.rehashidx \in 0..(x.ht0.size - 1)
       /\ \A i \in 0..(x.rehashidx - 1) : x.ht0.table[i] = {}

\* The state of a dict between two calls.
GoodDict(x) ==
  /\ IsDict(x)
  /\ GoodTable(x.ht0) /\ GoodTable(x.ht1)
  /\ KeysApart(x)
  /\ RehashShape(x)

\* Whatever the order of calls, both tables stay well formed, share no key and
\* are exactly as far into the move as rehashidx says: an entry is in one
\* bucket only, counted once, and reachable by a lookup.  It can be drawn too:
\* dictGetRandomKey never looks below rehashidx, and none of the bindings is
\* beyond its reach.
TablesConsistent ==
  /\ GoodDict(d)
  /\ dictSize(d) # 0 => dictGetRandomKey(d) = AllEntries(d)

-----------------------------------------------------------------------------
(* What callers rely on.                                                   *)

Map == INSTANCE FiniteMap WITH bindings <- AllEntries(d)

\* Seen through its calls, a dict is a finite map: the incremental rehash,
\* expansions and shrinkings change no binding and no answer.  The call is part
\* of what is seen, so each answer is about the key that was asked for: dictAdd
\* fails exactly on a bound key (never because an expansion was refused),
\* dictFind and dictDelete find every bound key in whichever table it is, and
\* dictGetRandomKey draws a binding whenever there is one.
ImplementsMap == Map!Spec

\* A rehash never goes backwards: as long as the pair of tables is the same,
\* rehashidx only grows and no key of the new table is ever found in the old
\* one again (dictAdd puts new keys in ht[1], so the old table only drains).
\* And every lookup while no safe iterator is open pays for it: it moves
\* rehashidx, or ends the rehash.  Together this bounds the life of the second
\* table to one table's worth of calls.
RehashForward ==
  [][ /\ /\ dictIsRehashing(d) /\ dictIsRehashing(d')
         /\ d'.ht0.size = d.ht0.size /\ d'.ht1.size = d.ht1.size
         => /\ d'.rehashidx >= d.rehashidx
            /\ \A e \in Entries(d'.ht0) : \E f \in Entries(d.ht0) : f.key = e.key
      /\ \A k \in Key :
           Find(k) /\ dictIsRehashing(d) /\ d.iterators = 0 /\ dictSize(d) # 0
             => d'.rehashidx = -1 \/ d'.rehashidx > d.rehashidx ]_vars
=============================================================================
