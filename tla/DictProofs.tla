----------------------------- MODULE DictProofs ------------------------------
(***************************************************************************)
(* Proofs about Dict for every set of keys, every hash function and every  *)
(* sequence of table sizes.                                                *)
(***************************************************************************)
EXTENDS Dict, DictIter, FiniteSetTheorems, WellFoundedInduction, TLAPS

-----------------------------------------------------------------------------
(* Tables.                                                                 *)

\* Entries, element by element.
LEMMA EntriesMember ==
  ASSUME NEW t, NEW e
  PROVE  e \in Entries(t) <=> \E i \in 0..(t.size - 1) : e \in t.table[i]
BY DEF Entries

\* A table of positive size has the fields of a dictht and an index for every
\* key: "hash & sizemask" never leaves the array.
LEMMA TableShape ==
  ASSUME NEW t, IsTable(t)
  PROVE  /\ t.size \in TableSizes \cup {0} /\ t.size \in Nat /\ t.used \in Nat
         /\ t.table \in [0..(t.size - 1) -> SUBSET Entry]
         /\ t = [size |-> t.size, used |-> t.used, table |-> t.table]
         /\ t.size # 0 => \A k \in Key : Slot(t, k) \in 0..(t.size - 1)
<1>1. PICK n \in TableSizes \cup {0} : t \in Table(n)
  BY DEF IsTable
<1>2. n \in Nat
  BY SizeAssumption
<1>3. /\ t.size = n /\ t.used \in Nat
      /\ t.table \in [0..(n - 1) -> SUBSET Entry]
      /\ t = [size |-> t.size, used |-> t.used, table |-> t.table]
  BY <1>1 DEF Table
<1>4. ASSUME t.size # 0, NEW k \in Key PROVE Slot(t, k) \in 0..(t.size - 1)
  <2>1. Hash[k] \in Nat
    BY HashAssumption
  <2>2. Hash[k] % n \in 0..(n - 1)
    BY <1>2, <1>3, <1>4, <2>1
  <2> QED BY <1>3, <2>2 DEF Slot
<1> QED BY <1>1, <1>2, <1>3, <1>4

\* The converse: what has these fields is a table.
LEMMA TableIntro ==
  ASSUME NEW n \in TableSizes \cup {0}, NEW u \in Nat,
         NEW b \in [0..(n - 1) -> SUBSET Entry]
  PROVE  IsTable([size |-> n, used |-> u, table |-> b])
BY DEF IsTable, Table

\* An entry is in a good table exactly when it is in the bucket of its key.
LEMMA EntryInSlot ==
  ASSUME NEW t, IsTable(t), Placed(t), t.size # 0, NEW e \in Entry
  PROVE  e \in Entries(t) <=> e \in t.table[Slot(t, e.key)]
<1>1. e.key \in Key /\ Slot(t, e.key) \in 0..(t.size - 1)
  BY TableShape DEF Entry
<1> QED BY <1>1 DEF Entries, Placed

\* The entries of a table are entries.
LEMMA EntriesType ==
  ASSUME NEW t, IsTable(t)
  PROVE  Entries(t) \subseteq Entry
BY TableShape DEF Entries

\* A table without entries is good.
LEMMA NewTableGood ==
  ASSUME NEW n \in TableSizes \cup {0}
  PROVE  /\ GoodTable(NewTable(n)) /\ Entries(NewTable(n)) = {}
         /\ NewTable(n).size = n /\ NewTable(n).used = 0
<1> DEFINE t == NewTable(n)
<1>1. t.size = n /\ t.used = 0 /\ t.table = [i \in 0..(n - 1) |-> {}]
  BY DEF NewTable, dictht
<1>2. IsTable(t)
  BY TableIntro DEF NewTable, dictht
<1>3. Entries(t) = {}
  BY <1>1 DEF Entries
<1>4. Placed(t)
  BY <1>1 DEF Placed
<1>5. KeysUnique(t)
  BY <1>3 DEF KeysUnique
<1>6. Counted(t)
  BY <1>1, <1>3, FS_EmptySet DEF Counted
<1> QED BY <1>1, <1>2, <1>3, <1>4, <1>5, <1>6 DEF GoodTable

\* A table without buckets holds nothing.
LEMMA NoBuckets ==
  ASSUME NEW t, IsTable(t), t.size = 0
  PROVE  Entries(t) = {}
BY DEF Entries

\* Rewriting one bucket of a placed table, with entries that belong there.
LEMMA BucketUpdate ==
  ASSUME NEW t, IsTable(t), Placed(t), NEW s \in 0..(t.size - 1), NEW n \in Nat,
         NEW B \in SUBSET Entry, \A e \in B : Slot(t, e.key) = s
  PROVE  LET u == WithBucket(t, s, B, n)
         IN  /\ IsTable(u) /\ Placed(u) /\ u.size = t.size /\ u.used = n
             /\ \A f : f \in Entries(u) <=>
                        (f \in Entries(t) /\ f \notin t.table[s]) \/ f \in B
<1> DEFINE u == WithBucket(t, s, B, n)
<1>1. /\ t.size \in TableSizes \cup {0} /\ t.size \in Nat
      /\ t.table \in [0..(t.size - 1) -> SUBSET Entry]
  BY TableShape
<1>2. [t.table EXCEPT ![s] = B] \in [0..(t.size - 1) -> SUBSET Entry]
  BY <1>1
<1>3. IsTable(u)
  BY <1>1, <1>2, TableIntro DEF WithBucket, dictht
<1>4. /\ u.size = t.size /\ u.used = n
      /\ \A i \in 0..(t.size - 1) :
           u.table[i] = IF i = s THEN B ELSE t.table[i]
  BY <1>1 DEF WithBucket, dictht
<1> HIDE DEF u
<1>5. Placed(u)
  <2> SUFFICES ASSUME NEW i \in 0..(t.size - 1), NEW f \in u.table[i]
               PROVE  Slot(t, f.key) = i
    BY <1>4 DEF Placed, Slot
  <2> QED BY <1>4 DEF Placed
<1>6. ASSUME NEW f
      PROVE  f \in Entries(u) <=>
               (f \in Entries(t) /\ f \notin t.table[s]) \/ f \in B
  <2>1. f \in Entries(u) <=> \E i \in 0..(t.size - 1) : f \in u.table[i]
    BY <1>4, EntriesMember
  <2>2. f \in Entries(t) <=> \E i \in 0..(t.size - 1) : f \in t.table[i]
    BY EntriesMember
  <2>3. \A i \in 0..(t.size - 1) : f \in t.table[i] /\ f \in t.table[s] => i = s
    BY DEF Placed
  <2> QED BY <1>4, <2>1, <2>2, <2>3
<1> QED BY <1>3, <1>4, <1>5, <1>6 DEF u

\* dictAddRaw links one entry at the head of a chain: the table stays good when
\* the key was not in it.
LEMMA InsertGood ==
  ASSUME NEW t, GoodTable(t), t.size # 0, NEW e \in Entry,
         \A f \in Entries(t) : f.key # e.key
  PROVE  /\ GoodTable(Insert(t, e)) /\ Insert(t, e).size = t.size
         /\ Entries(Insert(t, e)) = Entries(t) \cup {e}
<1> DEFINE s == Slot(t, e.key)
           B == t.table[s] \cup {e}
           n == t.used + 1
           u == Insert(t, e)
<1>1. /\ IsTable(t) /\ Placed(t) /\ KeysUnique(t)
      /\ IsFiniteSet(Entries(t)) /\ t.used = Cardinality(Entries(t))
  BY DEF GoodTable, Counted
<1>2. /\ s \in 0..(t.size - 1) /\ t.size \in Nat /\ n \in Nat
      /\ t.table \in [0..(t.size - 1) -> SUBSET Entry]
  BY <1>1, TableShape DEF Entry
<1>3. u = WithBucket(t, s, B, n)
  BY DEF Insert
<1>4. B \in SUBSET Entry /\ \A f \in B : Slot(t, f.key) = s
  <2>1. \A f \in t.table[s] : Slot(t, f.key) = s
    BY <1>1, <1>2 DEF Placed
  <2>2. t.table[s] \in SUBSET Entry
    BY <1>1, <1>2
  <2> HIDE DEF s
  <2> QED BY <2>1, <2>2 DEF s
<1> HIDE DEF u, s, B, n
<1>5. /\ IsTable(u) /\ Placed(u) /\ u.size = t.size /\ u.used = n
      /\ \A f : f \in Entries(u) <=>
                 (f \in Entries(t) /\ f \notin t.table[s]) \/ f \in B
  BY <1>1, <1>2, <1>3, <1>4, BucketUpdate
<1>6. t.table[s] \subseteq Entries(t)
  BY <1>2, EntriesMember
<1>7. Entries(u) = Entries(t) \cup {e}
  BY <1>5, <1>6 DEF B
<1>8. KeysUnique(u)
  BY <1>1, <1>7 DEF KeysUnique
<1>9. Counted(u)
  <2>1. e \notin Entries(t)
    OBVIOUS
  <2> QED BY <2>1, <1>1, <1>5, <1>7, FS_AddElement DEF Counted, n
<1> QED BY <1>5, <1>7, <1>8, <1>9 DEF GoodTable, u

\* dictGenericDelete unlinks one entry from its chain.
LEMMA UnlinkGood ==
  ASSUME NEW t, GoodTable(t), NEW e \in Entries(t)
  PROVE  /\ GoodTable(Unlink(t, e)) /\ Unlink(t, e).size = t.size
         /\ Entries(Unlink(t, e)) = Entries(t) \ {e}
<1> DEFINE s == Slot(t, e.key)
           B == t.table[s] \ {e}
           n == t.used - 1
           u == Unlink(t, e)
<1>1. /\ IsTable(t) /\ Placed(t) /\ KeysUnique(t)
      /\ IsFiniteSet(Entries(t)) /\ t.used = Cardinality(Entries(t))
  BY DEF GoodTable, Counted
<1>2. e \in Entry /\ t.size # 0
  BY <1>1, EntriesType, NoBuckets
<1>3. /\ s \in 0..(t.size - 1) /\ t.size \in Nat /\ t.used \in Nat
      /\ t.table \in [0..(t.size - 1) -> SUBSET Entry]
  BY <1>1, <1>2, TableShape DEF Entry
<1>4. n \in Nat
  BY <1>1, <1>3, FS_EmptySet
<1>5. u = WithBucket(t, s, B, n)
  BY DEF Unlink
<1>6. B \in SUBSET Entry /\ \A f \in B : Slot(t, f.key) = s
  <2>1. \A f \in t.table[s] : Slot(t, f.key) = s
    BY <1>1, <1>3 DEF Placed
  <2>2. t.table[s] \in SUBSET Entry
    BY <1>1, <1>3
  <2> HIDE DEF s
  <2> QED BY <2>1, <2>2 DEF s
<1>7. e \in t.table[s]
  BY <1>1, <1>2, EntryInSlot
<1> HIDE DEF u, s, B, n
<1>8. /\ IsTable(u) /\ Placed(u) /\ u.size = t.size /\ u.used = n
      /\ \A f : f \in Entries(u) <=>
                 (f \in Entries(t) /\ f \notin t.table[s]) \/ f \in B
  BY <1>1, <1>3, <1>4, <1>5, <1>6, BucketUpdate
<1>9. t.table[s] \subseteq Entries(t)
  BY <1>3, EntriesMember
<1>10. Entries(u) = Entries(t) \ {e}
  BY <1>7, <1>8, <1>9 DEF B
<1>11. KeysUnique(u)
  BY <1>1, <1>10 DEF KeysUnique
<1>12. Counted(u)
  BY <1>1, <1>8, <1>10, FS_RemoveElement DEF Counted, n
<1> QED BY <1>8, <1>10, <1>11, <1>12 DEF GoodTable, u

\* dictSetVal on an entry of the table changes one value and no key.
LEMMA SetValGood ==
  ASSUME NEW t, GoodTable(t), NEW e \in Entries(t), NEW v \in Val
  PROVE  /\ GoodTable(SetVal(t, e, v)) /\ SetVal(t, e, v).size = t.size
         /\ Entries(SetVal(t, e, v)) =
              (Entries(t) \ {e}) \cup {[key |-> e.key, val |-> v]}
<1> DEFINE s == Slot(t, e.key)
           g == [key |-> e.key, val |-> v]
           B == (t.table[s] \ {e}) \cup {g}
           n == t.used
           u == SetVal(t, e, v)
<1>1. /\ IsTable(t) /\ Placed(t) /\ KeysUnique(t)
      /\ IsFiniteSet(Entries(t)) /\ t.used = Cardinality(Entries(t))
  BY DEF GoodTable, Counted
<1>2. e \in Entry /\ t.size # 0
  BY <1>1, EntriesType, NoBuckets
<1>3. /\ s \in 0..(t.size - 1) /\ t.size \in Nat /\ n \in Nat
      /\ t.table \in [0..(t.size - 1) -> SUBSET Entry]
  BY <1>1, <1>2, TableShape DEF Entry
<1>4. g \in Entry /\ g.key = e.key
  BY <1>2 DEF Entry
<1>5. u = WithBucket(t, s, B, n)
  BY DEF SetVal
<1>6. B \in SUBSET Entry /\ \A f \in B : Slot(t, f.key) = s
  <2>1. \A f \in t.table[s] : Slot(t, f.key) = s
    BY <1>1, <1>3 DEF Placed
  <2>2. t.table[s] \in SUBSET Entry
    BY <1>3
  <2>3. Slot(t, g.key) = s
    BY <1>4
  <2> HIDE DEF s, g
  <2> QED BY <1>4, <2>1, <2>2, <2>3
<1>7. e \in t.table[s]
  BY <1>1, <1>2, EntryInSlot
<1> HIDE DEF u, s, B, n, g
<1>8. /\ IsTable(u) /\ Placed(u) /\ u.size = t.size /\ u.used = n
      /\ \A f : f \in Entries(u) <=>
                 (f \in Entries(t) /\ f \notin t.table[s]) \/ f \in B
  BY <1>1, <1>3, <1>5, <1>6, BucketUpdate
<1>9. t.table[s] \subseteq Entries(t)
  BY <1>3, EntriesMember
<1>10. Entries(u) = (Entries(t) \ {e}) \cup {g}
  BY <1>7, <1>8, <1>9 DEF B
<1>11. \A f \in Entries(t) \ {e} : f.key # g.key
  BY <1>1, <1>4 DEF KeysUnique
<1>12. KeysUnique(u)
  BY <1>1, <1>10, <1>11 DEF KeysUnique
<1>13. Counted(u)
  <2> DEFINE R == Entries(t) \ {e}
  <2>1. IsFiniteSet(R) /\ Cardinality(R) = Cardinality(Entries(t)) - 1
    BY <1>1, FS_RemoveElement
  <2>2. g \notin R
    BY <1>11
  <2> HIDE DEF R
  <2>3. IsFiniteSet(R \cup {g}) /\ Cardinality(R \cup {g}) = Cardinality(R) + 1
    BY <2>1, <2>2, FS_AddElement
  <2>4. Cardinality(Entries(t)) \in Nat
    BY <1>1, <1>3 DEF n
  <2> QED BY <1>1, <1>8, <1>10, <2>1, <2>3, <2>4 DEF Counted, R, n
<1> QED BY <1>8, <1>10, <1>12, <1>13 DEF GoodTable, u, g

-----------------------------------------------------------------------------
(* Moving buckets.                                                         *)

\* Least is the least element of a non-empty set of naturals.
LEMMA LeastIsLeast ==
  ASSUME NEW S \in SUBSET Nat, S # {}
  PROVE  Least(S) \in S /\ \A y \in S : Least(S) <= y
<1>1. IsWellFoundedOn(OpToRel(<, Nat), Nat)
  BY NatLessThanWellFounded
<1>2. S \subseteq Nat
  OBVIOUS
<1>3. \E x \in S : \A y \in S : ~ (<<y, x>> \in OpToRel(<, Nat))
  BY <1>1, <1>2, WFMin, Zenon
<1>4. \A y, x \in Nat : y < x => <<y, x>> \in OpToRel(<, Nat)
  BY Zenon DEF OpToRel
<1>5. \E x \in S : \A y \in S : ~ (y < x)
  BY <1>2, <1>3, <1>4, Zenon
<1>6. \E x \in S : \A y \in S : x <= y
  BY <1>2, <1>5
<1> QED BY <1>6 DEF Least

\* The fields of a dict.
LEMMA DictShape ==
  ASSUME NEW x, IsDict(x)
  PROVE  /\ IsTable(x.ht0) /\ IsTable(x.ht1)
         /\ x.rehashidx \in Int /\ x.iterators \in Nat
         /\ x = [ht0 |-> x.ht0, ht1 |-> x.ht1, rehashidx |-> x.rehashidx,
                 iterators |-> x.iterators]
BY DEF IsDict

\* The buckets a move takes hold entries of ht[0]; a move up to the end of the
\* table takes them all, because the buckets below rehashidx are empty.
LEMMA MovedFromHt0 ==
  ASSUME NEW x, GoodDict(x), dictIsRehashing(x),
         NEW j \in x.rehashidx..x.ht0.size
  PROVE  /\ MovedEntries(x, j) \subseteq Entries(x.ht0)
         /\ \A e : e \in MovedEntries(x, j) <=>
                   \E i \in x.rehashidx..(j - 1) : e \in x.ht0.table[i]
         /\ j = x.ht0.size => MovedEntries(x, j) = Entries(x.ht0)
<1>1. /\ x.rehashidx \in 0..(x.ht0.size - 1) /\ x.ht0.size \in Nat
      /\ \A i \in 0..(x.rehashidx - 1) : x.ht0.table[i] = {}
  BY DictShape, TableShape DEF GoodDict, RehashShape, dictIsRehashing
<1>2. \A e : e \in MovedEntries(x, j) <=>
             \E i \in x.rehashidx..(j - 1) : e \in x.ht0.table[i]
  BY DEF MovedEntries
<1>3. \A e : e \in Entries(x.ht0) <=>
             \E i \in 0..(x.ht0.size - 1) : e \in x.ht0.table[i]
  BY EntriesMember
<1>4. \A i \in x.rehashidx..(j - 1) : i \in 0..(x.ht0.size - 1)
  BY <1>1
<1>5. MovedEntries(x, j) \subseteq Entries(x.ht0)
  BY <1>2, <1>3, <1>4
<1>6. ASSUME j = x.ht0.size PROVE Entries(x.ht0) \subseteq MovedEntries(x, j)
  <2> SUFFICES ASSUME NEW e \in Entries(x.ht0) PROVE e \in MovedEntries(x, j)
    OBVIOUS
  <2>1. PICK i \in 0..(x.ht0.size - 1) : e \in x.ht0.table[i]
    BY <1>3
  <2>2. i \notin 0..(x.rehashidx - 1)
    BY <1>1, <2>1
  <2>3. i \in x.rehashidx..(j - 1)
    BY <1>1, <1>6, <2>2
  <2> QED BY <1>2, <2>1, <2>3
<1> QED BY <1>2, <1>5, <1>6

\* The old table after a move: the moved entries, and no others, are gone, and
\* the buckets below j are empty.
LEMMA MoveDrainsHt0 ==
  ASSUME NEW x, GoodDict(x), dictIsRehashing(x),
         NEW j \in x.rehashidx..x.ht0.size
  PROVE  LET m == MoveBuckets(x, j)
         IN  /\ GoodTable(m.ht0) /\ m.ht0.size = x.ht0.size
             /\ Entries(m.ht0) = Entries(x.ht0) \ MovedEntries(x, j)
             /\ \A i \in 0..(j - 1) : m.ht0.table[i] = {}
<1> DEFINE m == MoveBuckets(x, j)
           M == MovedEntries(x, j)
           t == x.ht0
           u == m.ht0
           r == x.rehashidx
<1>1. /\ IsDict(x) /\ GoodTable(t) /\ IsTable(t) /\ Placed(t) /\ KeysUnique(t)
      /\ IsFiniteSet(Entries(t)) /\ t.used = Cardinality(Entries(t))
  BY DEF GoodDict, GoodTable, Counted
<1>2. /\ t.size \in Nat /\ t.used \in Nat /\ t.size \in TableSizes \cup {0}
      /\ t.table \in [0..(t.size - 1) -> SUBSET Entry]
  BY <1>1, TableShape
<1>3. /\ r \in 0..(t.size - 1) /\ \A i \in 0..(r - 1) : t.table[i] = {}
  BY DEF GoodDict, RehashShape, dictIsRehashing
<1>4. /\ M \subseteq Entries(t)
      /\ \A e : e \in M <=> \E i \in r..(j - 1) : e \in t.table[i]
  BY MovedFromHt0
<1>5. u = dictht(t.size, t.used - Cardinality(M),
                 [i \in 0..(t.size - 1) |->
                    IF i \in r..(j - 1) THEN {} ELSE t.table[i]])
  BY DEF MoveBuckets
<1> HIDE DEF m, M
<1>6. /\ IsFiniteSet(M) /\ Cardinality(M) \in Nat
      /\ IsFiniteSet(Entries(t) \ M)
      /\ Cardinality(Entries(t) \ M) = t.used - Cardinality(M)
  <2>1. IsFiniteSet(M) /\ Cardinality(M) \in Nat
    BY <1>1, <1>4, FS_Subset, FS_CardinalityType
  <2>2. Entries(t) \cap M = M
    BY <1>4
  <2>3. /\ IsFiniteSet(Entries(t) \ M)
        /\ Cardinality(Entries(t) \ M) =
             Cardinality(Entries(t)) - Cardinality(Entries(t) \cap M)
    BY <1>1, FS_Difference
  <2> QED BY <1>1, <2>1, <2>2, <2>3
<1>7. t.used - Cardinality(M) \in Nat
  BY <1>6, FS_CardinalityType
<1>8. IsTable(u)
  <2>1. [i \in 0..(t.size - 1) |-> IF i \in r..(j - 1) THEN {} ELSE t.table[i]]
          \in [0..(t.size - 1) -> SUBSET Entry]
    BY <1>2
  <2> QED BY <1>2, <1>5, <1>7, <2>1, TableIntro DEF dictht
<1>9. /\ u.size = t.size /\ u.used = t.used - Cardinality(M)
      /\ \A i \in 0..(t.size - 1) :
           u.table[i] = IF i \in r..(j - 1) THEN {} ELSE t.table[i]
  BY <1>5 DEF dictht
<1> HIDE DEF u
<1>10. Entries(u) = Entries(t) \ M
  <2>1. ASSUME NEW e PROVE e \in Entries(u) <=> e \in Entries(t) /\ e \notin M
    <3>1. e \in Entries(u) <=> \E i \in 0..(t.size - 1) : e \in u.table[i]
      BY <1>9, EntriesMember
    <3>2. e \in Entries(t) <=> \E i \in 0..(t.size - 1) : e \in t.table[i]
      BY EntriesMember
    <3>3. \A i \in r..(j - 1) : i \in 0..(t.size - 1)
      BY <1>2, <1>3
    <3>4. \A i, k \in 0..(t.size - 1) : e \in t.table[i] /\ e \in t.table[k] => i = k
      BY <1>1 DEF Placed
    <3> QED BY <1>4, <1>9, <3>1, <3>2, <3>3, <3>4
  <2> QED BY <2>1
<1>11. Placed(u)
  BY <1>1, <1>9 DEF Placed, Slot
<1>12. KeysUnique(u)
  BY <1>1, <1>10 DEF KeysUnique
<1>13. Counted(u)
  BY <1>6, <1>9, <1>10 DEF Counted
<1>14. \A i \in 0..(j - 1) : u.table[i] = {}
  <2> SUFFICES ASSUME NEW i \in 0..(j - 1) PROVE u.table[i] = {}
    OBVIOUS
  <2>1. i \in 0..(t.size - 1) /\ (i \in r..(j - 1) \/ i \in 0..(r - 1))
    BY <1>2, <1>3
  <2> QED BY <1>3, <1>9, <2>1
<1> QED BY <1>8, <1>9, <1>10, <1>11, <1>12, <1>13, <1>14 DEF GoodTable, u, m, M

\* The new table after a move: it gains exactly the moved entries, each in the
\* bucket its hash selects there.
LEMMA MoveFillsHt1 ==
  ASSUME NEW x, GoodDict(x), dictIsRehashing(x),
         NEW j \in x.rehashidx..x.ht0.size
  PROVE  LET m == MoveBuckets(x, j)
         IN  /\ GoodTable(m.ht1) /\ m.ht1.size = x.ht1.size
             /\ Entries(m.ht1) = Entries(x.ht1) \cup MovedEntries(x, j)
<1> DEFINE m == MoveBuckets(x, j)
           M == MovedEntries(x, j)
           t == x.ht1
           u == m.ht1
<1>1. /\ IsDict(x) /\ IsTable(t) /\ Placed(t) /\ KeysUnique(t)
      /\ IsFiniteSet(Entries(t)) /\ t.used = Cardinality(Entries(t))
  BY DEF GoodDict, GoodTable, Counted
<1>2. /\ t.size \in Nat /\ t.used \in Nat /\ t.size \in TableSizes \cup {0}
      /\ t.table \in [0..(t.size - 1) -> SUBSET Entry]
      /\ \A k \in Key : Slot(t, k) \in 0..(t.size - 1)
  BY <1>1, TableShape DEF GoodDict, RehashShape, dictIsRehashing
<1>3. /\ M \subseteq Entries(x.ht0) /\ M \subseteq Entry
      /\ IsFiniteSet(Entries(x.ht0)) /\ KeysUnique(x.ht0)
      /\ \A e \in M, f \in Entries(t) : e.key # f.key
  BY MovedFromHt0, EntriesType DEF GoodDict, GoodTable, Counted, KeysApart
<1>4. u = dictht(t.size, t.used + Cardinality(M),
                 [i \in 0..(t.size - 1) |->
                    t.table[i] \cup {e \in M : Slot(t, e.key) = i}])
  BY DEF MoveBuckets
<1> HIDE DEF m, M
<1>5. /\ IsFiniteSet(M) /\ Cardinality(M) \in Nat
  BY <1>3, FS_Subset, FS_CardinalityType
<1>6. /\ IsFiniteSet(Entries(t) \cup M)
      /\ Cardinality(Entries(t) \cup M) = t.used + Cardinality(M)
  <2>1. Entries(t) \cap M = {}
    BY <1>3
  <2>2. /\ IsFiniteSet(Entries(t) \cup M)
        /\ Cardinality(Entries(t) \cup M) =
             Cardinality(Entries(t)) + Cardinality(M) - Cardinality(Entries(t) \cap M)
    BY <1>1, <1>5, FS_Union
  <2>3. Cardinality(Entries(t) \cap M) = 0
    BY <2>1, FS_EmptySet
  <2> QED BY <1>1, <1>2, <1>5, <2>2, <2>3
<1>7. t.used + Cardinality(M) \in Nat
  BY <1>2, <1>5
<1>8. IsTable(u)
  <2>1. [i \in 0..(t.size - 1) |-> t.table[i] \cup {e \in M : Slot(t, e.key) = i}]
          \in [0..(t.size - 1) -> SUBSET Entry]
    BY <1>2, <1>3
  <2> QED BY <1>2, <1>4, <1>7, <2>1, TableIntro DEF dictht
<1>9. /\ u.size = t.size /\ u.used = t.used + Cardinality(M)
      /\ \A i \in 0..(t.size - 1) :
           u.table[i] = t.table[i] \cup {e \in M : Slot(t, e.key) = i}
  BY <1>4 DEF dictht
<1> HIDE DEF u
<1>10. Entries(u) = Entries(t) \cup M
  <2>1. ASSUME NEW e PROVE e \in Entries(u) <=> e \in Entries(t) \/ e \in M
    <3>1. e \in Entries(u) <=> \E i \in 0..(t.size - 1) : e \in u.table[i]
      BY <1>9, EntriesMember
    <3>2. e \in Entries(t) <=> \E i \in 0..(t.size - 1) : e \in t.table[i]
      BY EntriesMember
    <3>3. e \in M => Slot(t, e.key) \in 0..(t.size - 1)
      BY <1>2, <1>3 DEF Entry
    <3> QED BY <1>9, <3>1, <3>2, <3>3
  <2> QED BY <2>1
<1>11. Placed(u)
  <2> SUFFICES ASSUME NEW i \in 0..(t.size - 1), NEW f \in u.table[i]
               PROVE  Slot(t, f.key) = i
    BY <1>9 DEF Placed, Slot
  <2> QED BY <1>1, <1>9 DEF Placed
<1>12. KeysUnique(u)
  BY <1>1, <1>3, <1>10 DEF KeysUnique
<1>13. Counted(u)
  BY <1>6, <1>9, <1>10 DEF Counted
<1> QED BY <1>8, <1>9, <1>10, <1>11, <1>12, <1>13 DEF GoodTable, u, m, M

\* dictRehash loses nothing, duplicates nothing and leaves a good dict; a call
\* while a rehash is on either ends it or increases rehashidx.  In particular
\* rehashidx stays inside ht[0] ("rehashidx can't overflow").
LEMMA RehashGood ==
  ASSUME NEW x, GoodDict(x), NEW n \in Nat \ {0}
  PROVE  LET y == dictRehash(x, n)
         IN  /\ GoodDict(y) /\ AllEntries(y) = AllEntries(x)
             /\ y.iterators = x.iterators
             /\ dictIsRehashing(x) =>
                  \/ y.rehashidx = -1 /\ y.ht0.size = x.ht1.size
                  \/ /\ y.rehashidx > x.rehashidx
                     /\ y.ht0.size = x.ht0.size /\ y.ht1.size = x.ht1.size
                     /\ Entries(y.ht0) \subseteq Entries(x.ht0)
<1> DEFINE y == dictRehash(x, n)
<1>1. CASE ~dictIsRehashing(x)
  BY <1>1 DEF dictRehash
<1>2. CASE dictIsRehashing(x)
  <2> DEFINE r == x.rehashidx
             moved(j) == Cardinality({i \in r..(j - 1) : x.ht0.table[i] # {}})
             Stops == {j \in r..x.ht0.size :
                         \/ moved(j) = n
                         \/ j - r - moved(j) = n * EmptyVisitsPerStep
                         \/ x.ht0.used = Cardinality(MovedEntries(x, j))}
             j == StopIndex(x, n)
             m == MoveBuckets(x, j)
  <2>1. /\ r \in 0..(x.ht0.size - 1) /\ x.ht0.size \in Nat /\ x.ht1.size # 0
        /\ IsDict(x)
        /\ x.ht0.used = Cardinality(Entries(x.ht0)) /\ IsFiniteSet(Entries(x.ht0))
    BY <1>2, TableShape DEF GoodDict, GoodTable, Counted, RehashShape, dictIsRehashing
  <2>2. x.ht0.size \in Stops
    BY <1>2, <2>1, MovedFromHt0
  <2>3. Stops \in SUBSET Nat
    BY <2>1
  <2>4. j = Least(Stops)
    BY DEF StopIndex
  <2>5. j \in Stops
    <3> HIDE DEF Stops, j
    <3> QED BY <2>2, <2>3, <2>4, LeastIsLeast
  <2>6. j \in r..x.ht0.size
    BY <2>5
  <2>7. ASSUME j = r PROVE x.ht0.used = Cardinality(MovedEntries(x, j))
    <3>1. {i \in r..(r - 1) : x.ht0.table[i] # {}} = {}
      BY <2>1
    <3>2. moved(r) = 0
      BY <3>1, FS_EmptySet
    <3>3. r - r - moved(r) = 0
      BY <2>1, <3>2
    <3>4. n * EmptyVisitsPerStep # 0 /\ n # 0
      BY StepAssumption
    <3> HIDE DEF moved, j, r
    <3> QED BY <2>5, <2>7, <3>2, <3>3, <3>4 DEF Stops
  <2> HIDE DEF j, Stops
  <2>8. /\ GoodTable(m.ht0) /\ m.ht0.size = x.ht0.size
        /\ Entries(m.ht0) = Entries(x.ht0) \ MovedEntries(x, j)
        /\ \A i \in 0..(j - 1) : m.ht0.table[i] = {}
    BY <1>2, <2>6, MoveDrainsHt0
  <2>9. /\ GoodTable(m.ht1) /\ m.ht1.size = x.ht1.size
        /\ Entries(m.ht1) = Entries(x.ht1) \cup MovedEntries(x, j)
    BY <1>2, <2>6, MoveFillsHt1
  <2>10. /\ m.rehashidx = j /\ m.iterators = x.iterators /\ IsDict(m)
    <3>1. IsTable(m.ht0) /\ IsTable(m.ht1)
      BY <2>8, <2>9 DEF GoodTable
    <3>2. m = [ht0 |-> m.ht0, ht1 |-> m.ht1, rehashidx |-> j, iterators |-> x.iterators]
      BY DEF MoveBuckets
    <3>3. j \in Int /\ x.iterators \in Nat
      BY <2>1, <2>6, DictShape
    <3> HIDE DEF m
    <3> QED BY <3>1, <3>2, <3>3 DEF IsDict
  <2>11. MovedEntries(x, j) \subseteq Entries(x.ht0)
    BY <1>2, <2>6, MovedFromHt0
  <2>12. y = IF m.ht0.used = 0 THEN FinishRehash(m) ELSE m
    BY <1>2 DEF dictRehash, j
  <2> HIDE DEF m
  <2>13. /\ AllEntries(m) = AllEntries(x) /\ KeysApart(m)
    BY <2>8, <2>9, <2>11 DEF AllEntries, KeysApart, GoodDict, GoodTable, KeysUnique
  <2>14. m.ht0.used = 0 <=> Entries(m.ht0) = {}
    BY <2>8, FS_EmptySet DEF GoodTable, Counted
  <2>15. CASE m.ht0.used = 0
    <3>1. y = [ht0 |-> m.ht1, ht1 |-> NewTable(0), rehashidx |-> -1,
               iterators |-> m.iterators]
      BY <2>10, <2>12, <2>15, DictShape DEF FinishRehash
    <3>2. GoodTable(NewTable(0)) /\ Entries(NewTable(0)) = {}
      BY NewTableGood
    <3> HIDE DEF y
    <3>3. /\ y.ht0 = m.ht1 /\ y.ht1 = NewTable(0) /\ y.rehashidx = -1
          /\ y.iterators = m.iterators
      BY <3>1
    <3>4. IsDict(y)
      BY <2>9, <2>10, <3>1, <3>2, DictShape DEF IsDict, GoodTable
    <3>5. KeysApart(y) /\ RehashShape(y) /\ GoodTable(y.ht0) /\ GoodTable(y.ht1)
      BY <2>9, <3>2, <3>3 DEF KeysApart, RehashShape
    <3>6. AllEntries(y) = AllEntries(x)
      BY <2>13, <2>14, <2>15, <3>2, <3>3 DEF AllEntries
    <3>7. y.ht0.size = x.ht1.size
      BY <2>9, <3>3
    <3> QED BY <2>10, <3>3, <3>4, <3>5, <3>6, <3>7 DEF GoodDict, y
  <2>16. CASE m.ht0.used # 0
    <3>1. y = m
      BY <2>12, <2>16
    <3>2. j # x.ht0.size
      <4>1. ASSUME j = x.ht0.size PROVE FALSE
        <5>1. Entries(m.ht0) = {}
          BY <1>2, <2>6, <2>8, <4>1, MovedFromHt0
        <5> QED BY <2>14, <2>16, <5>1
      <4> QED BY <4>1
    <3>3. j # r
      <4>1. ASSUME j = r PROVE FALSE
        <5>1. Cardinality(MovedEntries(x, j)) = Cardinality(Entries(x.ht0))
          BY <2>1, <2>7, <4>1
        <5>2. MovedEntries(x, j) = Entries(x.ht0)
          BY <2>1, <2>11, <5>1, FS_Subset
        <5> QED BY <2>8, <2>14, <2>16, <5>2
      <4> QED BY <4>1
    <3>4. j \in 0..(x.ht0.size - 1) /\ j > r /\ j # -1
      BY <2>1, <2>6, <3>2, <3>3
    <3>5. RehashShape(m)
      BY <2>1, <2>8, <2>9, <2>10, <3>4 DEF RehashShape
    <3> HIDE DEF y
    <3> QED BY <2>8, <2>9, <2>10, <2>13, <3>1, <3>4, <3>5 DEF GoodDict, y
  <2> QED BY <2>15, <2>16
<1> QED BY <1>1, <1>2

-----------------------------------------------------------------------------
(* Steps taken inside the calls.                                           *)

\* The bindings of a dict, and those of one key.
Same(y, x) ==
  GoodDict(y) /\ AllEntries(y) = AllEntries(x) /\ y.iterators = x.iterators
Bound(x, k) == {e \in AllEntries(x) : e.key = k}

\* _dictNextPower returns a table size that is large enough.
LEMMA NextPower ==
  ASSUME NEW n \in Nat, \E s \in TableSizes : n <= s
  PROVE  /\ _dictNextPower(n) \in TableSizes /\ _dictNextPower(n) >= n
         /\ _dictNextPower(n) \in Nat \ {0}
<1> DEFINE S == {s \in TableSizes : s >= n}
<1>1. S \in SUBSET Nat /\ S # {}
  BY SizeAssumption
<1>2. Least(S) \in S
  <2> HIDE DEF S
  <2> QED BY <1>1, LeastIsLeast
<1> QED BY <1>2, SizeAssumption DEF _dictNextPower

\* dictExpand only adds empty buckets.
LEMMA ExpandGood ==
  ASSUME NEW x, GoodDict(x), NEW n \in Nat, \E s \in TableSizes : n <= s
  PROVE  LET y == dictExpand(x, n)
         IN  /\ Same(y, x)
             /\ x.ht0.size # 0 => y.ht0.size # 0
             /\ ~ExpandFails(x, n) => y.ht0.size # 0
             /\ dictIsRehashing(x) => y = x
<1> DEFINE y == dictExpand(x, n)
           p == _dictNextPower(n)
           t == NewTable(p)
<1>1. p \in TableSizes /\ p # 0
  BY NextPower
<1>2. GoodTable(t) /\ Entries(t) = {} /\ t.size = p /\ t.used = 0 /\ IsTable(t)
  BY <1>1, NewTableGood DEF GoodTable
<1>3. /\ IsDict(x) /\ x.ht0.size \in Nat /\ GoodTable(x.ht0)
  BY DictShape, TableShape DEF GoodDict
<1>4. CASE ExpandFails(x, n)
  BY <1>4 DEF dictExpand, Same
<1>5. CASE ~ExpandFails(x, n) /\ x.ht0.size = 0
  <2>1. y = [x EXCEPT !.ht0 = t]
    BY <1>5 DEF dictExpand
  <2>2. x.rehashidx = -1 /\ Entries(x.ht0) = {}
    BY <1>3, <1>5, NoBuckets DEF ExpandFails, dictIsRehashing, GoodTable
  <2> HIDE DEF y, t
  <2>3. /\ y.ht0 = t /\ y.ht1 = x.ht1 /\ y.rehashidx = x.rehashidx
        /\ y.iterators = x.iterators /\ IsDict(y)
    BY <1>2, <1>3, <2>1 DEF IsDict
  <2>4. KeysApart(y) /\ RehashShape(y) /\ AllEntries(y) = AllEntries(x)
    BY <1>2, <2>2, <2>3 DEF KeysApart, RehashShape, GoodDict, AllEntries
  <2>5. GoodDict(y)
    BY <1>2, <2>3, <2>4 DEF GoodDict
  <2>6. ~dictIsRehashing(x) /\ y.ht0.size # 0
    BY <1>1, <1>2, <2>2, <2>3 DEF dictIsRehashing
  <2> QED BY <2>3, <2>4, <2>5, <2>6 DEF Same, y
<1>6. CASE ~ExpandFails(x, n) /\ x.ht0.size # 0
  <2>1. y = [ht0 |-> x.ht0, ht1 |-> t, rehashidx |-> 0, iterators |-> x.iterators]
    BY <1>6 DEF dictExpand
  <2>2. x.rehashidx = -1 /\ x.ht1 = NewTable(0) /\ Entries(x.ht1) = {}
    BY <1>6, NewTableGood DEF ExpandFails, dictIsRehashing, GoodDict, RehashShape
  <2> HIDE DEF y, t
  <2>3. /\ y.ht0 = x.ht0 /\ y.ht1 = t /\ y.rehashidx = 0
        /\ y.iterators = x.iterators /\ IsDict(y)
    BY <1>2, <1>3, <2>1, DictShape DEF IsDict
  <2>4. KeysApart(y) /\ RehashShape(y) /\ AllEntries(y) = AllEntries(x)
    BY <1>1, <1>2, <1>3, <1>6, <2>2, <2>3 DEF KeysApart, RehashShape, AllEntries
  <2>5. GoodDict(y)
    BY <1>2, <1>3, <2>3, <2>4 DEF GoodDict
  <2>6. ~dictIsRehashing(x) /\ y.ht0.size # 0
    BY <1>6, <2>2, <2>3 DEF dictIsRehashing
  <2> QED BY <2>3, <2>4, <2>5, <2>6 DEF Same, y
<1> QED BY <1>4, <1>5, <1>6

\* The rehash step at the head of every call.
LEMMA StepGood ==
  ASSUME NEW x, GoodDict(x)
  PROVE  LET y == StepIfRehashing(x)
         IN  /\ Same(y, x)
             /\ x.ht0.size # 0 => y.ht0.size # 0
             /\ dictIsRehashing(x) /\ x.iterators = 0 =>
                  y.rehashidx = -1 \/ y.rehashidx > x.rehashidx
<1>1. 1 \in Nat \ {0}
  OBVIOUS
<1>2. CASE dictIsRehashing(x) /\ x.iterators = 0
  <2>1. x.ht1.size # 0
    BY <1>2 DEF GoodDict, RehashShape, dictIsRehashing
  <2>2. StepIfRehashing(x) = dictRehash(x, 1)
    BY <1>2 DEF StepIfRehashing, _dictRehashStep
  <2> QED BY <1>1, <1>2, <2>1, <2>2, RehashGood DEF Same
<1>3. CASE ~(dictIsRehashing(x) /\ x.iterators = 0)
  BY <1>3 DEF StepIfRehashing, _dictRehashStep, Same
<1> QED BY <1>2, <1>3

\* An empty dict is one that counts no entry; a dict with an entry has buckets.
LEMMA SizeZero ==
  ASSUME NEW x, GoodDict(x)
  PROVE  /\ dictSize(x) = 0 <=> AllEntries(x) = {}
         /\ AllEntries(x) # {} => x.ht0.size # 0
<1>1. /\ IsTable(x.ht0) /\ IsTable(x.ht1)
      /\ IsFiniteSet(Entries(x.ht0)) /\ IsFiniteSet(Entries(x.ht1))
      /\ x.ht0.used = Cardinality(Entries(x.ht0))
      /\ x.ht1.used = Cardinality(Entries(x.ht1))
      /\ x.ht0.used \in Nat /\ x.ht1.used \in Nat /\ x.ht0.size \in Nat
  BY TableShape DEF GoodDict, GoodTable, Counted
<1>2. /\ x.ht0.used = 0 <=> Entries(x.ht0) = {}
      /\ x.ht1.used = 0 <=> Entries(x.ht1) = {}
  BY <1>1, FS_EmptySet
<1>3. dictSize(x) = 0 <=> AllEntries(x) = {}
  BY <1>1, <1>2 DEF dictSize, AllEntries
<1>4. ASSUME x.ht0.size = 0 PROVE AllEntries(x) = {}
  <2>1. Entries(x.ht0) = {}
    BY <1>1, <1>4, NoBuckets
  <2>2. x.rehashidx = -1
    BY <1>1, <1>4 DEF GoodDict, RehashShape
  <2>3. Entries(x.ht1) = {}
    BY <2>2, NewTableGood DEF GoodDict, RehashShape
  <2> QED BY <2>1, <2>3 DEF AllEntries
<1> QED BY <1>3, <1>4

\* A table never holds more entries than there are keys.
LEMMA UsedBounded ==
  ASSUME NEW t, GoodTable(t)
  PROVE  /\ t.used \in Nat /\ t.used <= Cardinality(Key)
         /\ \E s \in TableSizes : t.used <= s
         /\ \E s \in TableSizes : t.used * 2 <= s
<1>1. /\ IsTable(t) /\ KeysUnique(t) /\ Entries(t) \subseteq Entry
      /\ t.used = Cardinality(Entries(t)) /\ t.used \in Nat
  BY TableShape, EntriesType DEF GoodTable, Counted
<1> DEFINE f == [e \in Entries(t) |-> e.key]
<1>2. f \in Injection(Entries(t), Key)
  BY <1>1 DEF Injection, IsInjective, KeysUnique, Entry
<1>3. t.used <= Cardinality(Key) /\ Cardinality(Key) \in Nat
  <2> HIDE DEF f
  <2> QED BY <1>1, <1>2, KeyAssumption, FS_Injection, FS_CardinalityType
<1>4. PICK s \in TableSizes : 2 * Cardinality(Key) <= s
  BY SizeAssumption
<1>5. s \in Nat
  BY SizeAssumption
<1>6. t.used <= s /\ t.used * 2 <= s
  BY <1>1, <1>3, <1>4, <1>5
<1> QED BY <1>1, <1>3, <1>6

\* The probe of the one bucket per table that can hold k sees every entry for
\* k, and a dict holds at most one.
LEMMA ProbeFinds ==
  ASSUME NEW x, GoodDict(x), x.ht0.size # 0, NEW k \in Key
  PROVE  /\ Probe(x, k) = Bound(x, k)
         /\ InTable(x.ht0, k) = {e \in Entries(x.ht0) : e.key = k}
         /\ \A e, f \in Bound(x, k) : e = f
<1>1. ASSUME NEW t, GoodTable(t), t.size # 0
      PROVE  InTable(t, k) = {e \in Entries(t) : e.key = k}
  <2>1. IsTable(t) /\ Placed(t) /\ Entries(t) \subseteq Entry
    BY <1>1, EntriesType DEF GoodTable
  <2>2. Slot(t, k) \in 0..(t.size - 1) /\ t.table[Slot(t, k)] \subseteq Entry
    BY <1>1, <2>1, TableShape
  <2>3. \A e \in Entry : e \in Entries(t) <=> e \in t.table[Slot(t, e.key)]
    BY <1>1, <2>1, EntryInSlot
  <2> QED BY <2>1, <2>2, <2>3 DEF InTable
<1>2. GoodTable(x.ht0) /\ GoodTable(x.ht1)
  BY DEF GoodDict
<1>3. InTable(x.ht0, k) = {e \in Entries(x.ht0) : e.key = k}
  BY <1>1, <1>2
<1>4. CASE dictIsRehashing(x)
  <2>1. InTable(x.ht1, k) = {e \in Entries(x.ht1) : e.key = k}
    BY <1>1, <1>2, <1>4 DEF GoodDict, RehashShape, dictIsRehashing
  <2> QED BY <1>2, <1>3, <1>4, <2>1
          DEF Probe, Bound, AllEntries, GoodDict, KeysApart, GoodTable, KeysUnique
<1>5. CASE ~dictIsRehashing(x)
  <2>1. Entries(x.ht1) = {}
    BY <1>5, NewTableGood DEF GoodDict, RehashShape, dictIsRehashing
  <2> QED BY <1>2, <1>3, <1>5, <2>1 DEF Probe, Bound, AllEntries, GoodTable, KeysUnique
<1> QED BY <1>4, <1>5

\* _dictExpandIfNeeded never fails, so dictAdd is never refused for it, and it
\* leaves a table with buckets.
LEMMA ExpandIfNeededGood ==
  ASSUME NEW x, GoodDict(x), NEW c \in BOOLEAN
  PROVE  /\ ~ExpandIfNeededFails(x, c)
         /\ Same(_dictExpandIfNeeded(x, c), x)
         /\ _dictExpandIfNeeded(x, c).ht0.size # 0
<1> DEFINE w == WantedSize(x, c)
           y == _dictExpandIfNeeded(x, c)
<1>1. /\ IsTable(x.ht0) /\ x.ht0.size \in Nat /\ x.ht0.used \in Nat
      /\ \E s \in TableSizes : x.ht0.used * 2 <= s
  BY TableShape, UsedBounded DEF GoodDict, GoodTable
<1>2. x.ht0.size = 0 => x.ht0.used = 0
  BY <1>1, NoBuckets, FS_EmptySet DEF GoodDict, GoodTable, Counted
<1>3. CASE w = 0
  <2>1. x.ht0.size # 0
    <3>1. DICT_HT_INITIAL_SIZE # 0
      BY SizeAssumption
    <3>2. dictIsRehashing(x) => x.ht0.size # 0
      BY <1>1 DEF GoodDict, RehashShape, dictIsRehashing
    <3> QED BY <1>3, <3>1, <3>2 DEF WantedSize
  <2> QED BY <1>3, <2>1 DEF ExpandIfNeededFails, _dictExpandIfNeeded, Same
<1>4. CASE w # 0
  <2>1. y = dictExpand(x, w)
    BY <1>4 DEF _dictExpandIfNeeded
  <2>2. ~dictIsRehashing(x)
    BY <1>4 DEF WantedSize
  <2>3. /\ w \in Nat /\ \E s \in TableSizes : w <= s
        /\ \/ w = DICT_HT_INITIAL_SIZE /\ x.ht0.size = 0
           \/ w = x.ht0.used * 2 /\ x.ht0.used >= x.ht0.size /\ x.ht0.size # 0
    <3>1. \/ w = DICT_HT_INITIAL_SIZE /\ x.ht0.size = 0
          \/ w = x.ht0.used * 2 /\ x.ht0.used >= x.ht0.size /\ x.ht0.size # 0
      BY <1>4, <2>2, Zenon DEF WantedSize
    <3>2. DICT_HT_INITIAL_SIZE \in Nat /\ x.ht0.used * 2 \in Nat
      BY <1>1, SizeAssumption
    <3>3. \E s \in TableSizes : DICT_HT_INITIAL_SIZE <= s
      BY <3>2, SizeAssumption
    <3> HIDE DEF w
    <3>4. CASE w = DICT_HT_INITIAL_SIZE /\ x.ht0.size = 0
      BY <3>2, <3>3, <3>4
    <3>5. CASE w = x.ht0.used * 2 /\ x.ht0.used >= x.ht0.size /\ x.ht0.size # 0
      BY <1>1, <3>2, <3>5
    <3> QED BY <3>1, <3>4, <3>5
  <2> HIDE DEF w
  <2>4. _dictNextPower(w) \in Nat /\ _dictNextPower(w) >= w /\ _dictNextPower(w) # 0
    BY <2>3, NextPower
  <2>5. x.ht0.used <= w /\ _dictNextPower(w) # x.ht0.size
    BY <1>1, <1>2, <2>3, <2>4, SizeAssumption
  <2>6. ~ExpandFails(x, w)
    BY <1>1, <2>2, <2>3, <2>5 DEF ExpandFails
  <2> QED BY <2>1, <2>3, <2>6, ExpandGood DEF ExpandIfNeededFails, w
<1> QED BY <1>3, <1>4

\* Replacing ht[0] by a good table of the same size whose keys ht[1] lacks
\* (and which the old ht[0] had, when a rehash is on).
LEMMA NewHt0Good ==
  ASSUME NEW x, GoodDict(x), NEW t, GoodTable(t), t.size = x.ht0.size,
         \A e \in Entries(t), f \in Entries(x.ht1) : e.key # f.key,
         dictIsRehashing(x) =>
           \A e \in Entries(t) : \E f \in Entries(x.ht0) : f.key = e.key
  PROVE  LET y == [x EXCEPT !.ht0 = t]
         IN  /\ GoodDict(y) /\ y.iterators = x.iterators
             /\ y.ht0 = t /\ y.ht1 = x.ht1 /\ y.rehashidx = x.rehashidx
             /\ AllEntries(y) = Entries(t) \cup Entries(x.ht1)
<1> DEFINE y == [x EXCEPT !.ht0 = t]
<1>1. /\ IsDict(x) /\ IsTable(t) /\ Placed(t)
      /\ GoodTable(x.ht0) /\ IsTable(x.ht0) /\ Placed(x.ht0)
      /\ x.ht0.size \in Nat /\ x.rehashidx \in Int
  BY DictShape, TableShape DEF GoodDict, GoodTable
<1>2. /\ y.ht0 = t /\ y.ht1 = x.ht1 /\ y.rehashidx = x.rehashidx
      /\ y.iterators = x.iterators /\ IsDict(y)
  BY <1>1 DEF IsDict
<1> HIDE DEF y
<1>3. KeysApart(y) /\ AllEntries(y) = Entries(t) \cup Entries(x.ht1)
  BY <1>2 DEF KeysApart, AllEntries
<1>4. RehashShape(y)
  <2>1. CASE x.rehashidx = -1
    BY <1>2, <2>1 DEF RehashShape, GoodDict
  <2>2. CASE x.rehashidx # -1
    <3>1. /\ x.ht1.size # 0 /\ x.rehashidx \in 0..(x.ht0.size - 1)
          /\ \A i \in 0..(x.rehashidx - 1) : x.ht0.table[i] = {}
      BY <2>2 DEF GoodDict, RehashShape
    <3>2. ASSUME NEW i \in 0..(x.rehashidx - 1) PROVE t.table[i] = {}
      <4>1. SUFFICES ASSUME NEW e \in t.table[i] PROVE FALSE
        OBVIOUS
      <4>2. i \in 0..(t.size - 1)
        BY <1>1, <3>1
      <4>3. e \in Entries(t) /\ Slot(t, e.key) = i
        BY <1>1, <4>2, EntriesMember DEF Placed
      <4>4. PICK f \in Entries(x.ht0) : f.key = e.key
        BY <2>2, <4>3 DEF dictIsRehashing
      <4>5. f \in Entry /\ Slot(x.ht0, f.key) = i
        BY <1>1, <4>3, <4>4, EntriesType DEF Slot
      <4>6. f \in x.ht0.table[i]
        BY <1>1, <3>1, <4>5, EntryInSlot
      <4> QED BY <3>1, <4>6
    <3> QED BY <1>2, <2>2, <3>1, <3>2 DEF RehashShape
  <2> QED BY <2>1, <2>2
<1> QED BY <1>2, <1>3, <1>4 DEF GoodDict, y

\* The same for ht[1] during a rehash.
LEMMA NewHt1Good ==
  ASSUME NEW x, GoodDict(x), dictIsRehashing(x),
         NEW t, GoodTable(t), t.size = x.ht1.size,
         \A e \in Entries(t), f \in Entries(x.ht0) : e.key # f.key
  PROVE  LET y == [x EXCEPT !.ht1 = t]
         IN  /\ GoodDict(y) /\ y.iterators = x.iterators
             /\ y.ht0 = x.ht0 /\ y.ht1 = t /\ y.rehashidx = x.rehashidx
             /\ AllEntries(y) = Entries(x.ht0) \cup Entries(t)
<1> DEFINE y == [x EXCEPT !.ht1 = t]
<1>1. IsDict(x) /\ IsTable(t)
  BY DEF GoodDict, GoodTable
<1>2. /\ y.ht0 = x.ht0 /\ y.ht1 = t /\ y.rehashidx = x.rehashidx
      /\ y.iterators = x.iterators /\ IsDict(y)
  BY <1>1 DEF IsDict
<1> HIDE DEF y
<1>3. KeysApart(y) /\ AllEntries(y) = Entries(x.ht0) \cup Entries(t)
  BY <1>2 DEF KeysApart, AllEntries
<1>4. RehashShape(y)
  BY <1>2 DEF RehashShape, GoodDict, dictIsRehashing
<1> QED BY <1>2, <1>3, <1>4 DEF GoodDict, y

-----------------------------------------------------------------------------
(* What each call does to the bindings.                                    *)

\* dictFind, dictGetRandomKey: the bindings are untouched, the answer is right.
LEMMA FindGood ==
  ASSUME NEW x, GoodDict(x), NEW k \in Key
  PROVE  /\ Same(AfterFind(x), x)
         /\ dictFind(x, k) = Bound(x, k)
         /\ AllEntries(x) # {} => AfterFind(x).ht0.size # 0
         /\ dictIsRehashing(x) /\ x.iterators = 0 /\ dictSize(x) # 0 =>
              AfterFind(x).rehashidx = -1 \/ AfterFind(x).rehashidx > x.rehashidx
<1>1. CASE dictSize(x) = 0
  <2>1. AllEntries(x) = {}
    BY <1>1, SizeZero
  <2> QED BY <1>1, <2>1 DEF AfterFind, dictFind, Same, Bound
<1>2. CASE dictSize(x) # 0
  <2> DEFINE y == AfterFind(x)
  <2>1. AllEntries(x) # {} /\ x.ht0.size # 0
    BY <1>2, SizeZero
  <2>2. y = StepIfRehashing(x)
    BY <1>2 DEF AfterFind
  <2>3. /\ Same(y, x) /\ y.ht0.size # 0
        /\ dictIsRehashing(x) /\ x.iterators = 0 =>
             y.rehashidx = -1 \/ y.rehashidx > x.rehashidx
    BY <2>1, <2>2, StepGood
  <2>4. dictFind(x, k) = Probe(y, k)
    BY <1>2 DEF dictFind
  <2> HIDE DEF y
  <2>5. Probe(y, k) = Bound(y, k)
    BY <2>3, ProbeFinds DEF Same
  <2> QED BY <2>3, <2>4, <2>5 DEF Same, Bound, y
<1> QED BY <1>1, <1>2

\* dictAdd: refused exactly when the key is bound; otherwise one binding more.
LEMMA AddGood ==
  ASSUME NEW x, GoodDict(x), NEW k \in Key, NEW v \in Val, NEW c \in BOOLEAN
  PROVE  LET y == dictAdd(x, k, v, c)
         IN  /\ GoodDict(y) /\ y.iterators = x.iterators
             /\ AddFails(x, k, c) <=> Bound(x, k) # {}
             /\ AllEntries(y) = IF Bound(x, k) = {}
                                THEN AllEntries(x) \cup {[key |-> k, val |-> v]}
                                ELSE AllEntries(x)
<1> DEFINE y == dictAdd(x, k, v, c)
           s == StepIfRehashing(x)
           r == AddReady(x, c)
           e == [key |-> k, val |-> v]
<1>1. Same(s, x)
  BY StepGood
<1>2. /\ ~ExpandIfNeededFails(s, c) /\ Same(r, s) /\ r.ht0.size # 0
  BY <1>1, ExpandIfNeededGood DEF AddReady, Same
<1>3. Same(r, x)
  BY <1>1, <1>2 DEF Same
<1>4. AddFails(x, k, c) <=> Probe(r, k) # {}
  BY <1>2 DEF AddFails
<1>5. y = IF AddFails(x, k, c) THEN r
          ELSE IF dictIsRehashing(r) THEN [r EXCEPT !.ht1 = Insert(r.ht1, e)]
          ELSE [r EXCEPT !.ht0 = Insert(r.ht0, e)]
  BY DEF dictAdd
<1>6. e \in Entry /\ e.key = k
  BY DEF Entry
<1> HIDE DEF y, s, r, e
<1>7. Probe(r, k) = Bound(x, k) /\ GoodDict(r)
  BY <1>2, <1>3, ProbeFinds DEF Same, Bound
<1>8. CASE AddFails(x, k, c)
  BY <1>3, <1>4, <1>5, <1>7, <1>8 DEF Same, y
<1>9. CASE ~AddFails(x, k, c)
  <2>1. \A f \in AllEntries(r) : f.key # k
    BY <1>3, <1>4, <1>7, <1>9 DEF Bound, Same
  <2>2. CASE dictIsRehashing(r)
    <3> DEFINE t == Insert(r.ht1, e)
    <3>1. GoodTable(t) /\ t.size = r.ht1.size /\ Entries(t) = Entries(r.ht1) \cup {e}
      BY <1>6, <1>7, <2>1, <2>2, InsertGood
         DEF AllEntries, GoodDict, RehashShape, dictIsRehashing
    <3>2. y = [r EXCEPT !.ht1 = t]
      BY <1>5, <1>9, <2>2
    <3> HIDE DEF t
    <3>3. \A a \in Entries(t), b \in Entries(r.ht0) : a.key # b.key
      BY <1>6, <1>7, <2>1, <3>1 DEF GoodDict, KeysApart, AllEntries
    <3>4. /\ GoodDict(y) /\ y.iterators = r.iterators
          /\ AllEntries(y) = Entries(r.ht0) \cup Entries(t)
      BY <1>7, <2>2, <3>1, <3>2, <3>3, NewHt1Good
    <3> QED BY <1>3, <1>4, <1>7, <1>9, <3>1, <3>4 DEF Same, AllEntries, y, e
  <2>3. CASE ~dictIsRehashing(r)
    <3> DEFINE t == Insert(r.ht0, e)
    <3>1. GoodTable(t) /\ t.size = r.ht0.size /\ Entries(t) = Entries(r.ht0) \cup {e}
      BY <1>2, <1>6, <1>7, <2>1, InsertGood DEF AllEntries, GoodDict
    <3>2. y = [r EXCEPT !.ht0 = t]
      BY <1>5, <1>9, <2>3
    <3> HIDE DEF t
    <3>3. \A a \in Entries(t), b \in Entries(r.ht1) : a.key # b.key
      BY <1>6, <1>7, <2>1, <3>1 DEF GoodDict, KeysApart, AllEntries
    <3>4. /\ GoodDict(y) /\ y.iterators = r.iterators
          /\ AllEntries(y) = Entries(t) \cup Entries(r.ht1)
      BY <1>7, <2>3, <3>1, <3>2, <3>3, NewHt0Good
    <3> QED BY <1>3, <1>4, <1>7, <1>9, <3>1, <3>4 DEF Same, AllEntries, y, e
  <2> QED BY <2>2, <2>3
<1> QED BY <1>8, <1>9

\* A lookup that succeeds returns the one binding of the key.
LEMMA FoundIs ==
  ASSUME NEW x, GoodDict(x), x.ht0.size # 0, NEW k \in Key, Bound(x, k) # {}
  PROVE  LET e == Found(x, k)
         IN  /\ Bound(x, k) = {e} /\ e.key = k
             /\ IF InTable(x.ht0, k) # {} THEN e \in Entries(x.ht0)
                ELSE e \in Entries(x.ht1) /\ dictIsRehashing(x)
<1> DEFINE e == Found(x, k)
<1>1. /\ Probe(x, k) = Bound(x, k)
      /\ InTable(x.ht0, k) = {f \in Entries(x.ht0) : f.key = k}
      /\ \A f, g \in Bound(x, k) : f = g
  BY ProbeFinds
<1>2. e \in Bound(x, k)
  BY <1>1 DEF Found
<1> HIDE DEF e
<1>3. Bound(x, k) = {e} /\ e.key = k /\ e \in AllEntries(x)
  BY <1>1, <1>2 DEF Bound
<1>4. CASE InTable(x.ht0, k) # {}
  BY <1>1, <1>3, <1>4 DEF Bound, AllEntries, e
<1>5. CASE InTable(x.ht0, k) = {}
  <2>1. e \in Entries(x.ht1)
    BY <1>1, <1>3, <1>5 DEF AllEntries
  <2>2. dictIsRehashing(x)
    BY <2>1, NewTableGood DEF GoodDict, RehashShape, dictIsRehashing
  <2> QED BY <1>3, <1>5, <2>1, <2>2 DEF e
<1> QED BY <1>4, <1>5

\* dictSetVal through the entry found: one binding changes its value.
LEMMA StoreGood ==
  ASSUME NEW x, GoodDict(x), x.ht0.size # 0, NEW k \in Key, NEW v \in Val,
         Bound(x, k) # {}
  PROVE  LET y == Store(x, k, v)
         IN  /\ GoodDict(y) /\ y.iterators = x.iterators
             /\ AllEntries(y) =
                  (AllEntries(x) \ Bound(x, k)) \cup {[key |-> k, val |-> v]}
<1> DEFINE y == Store(x, k, v)
           e == Found(x, k)
           g == [key |-> k, val |-> v]
<1>1. /\ Bound(x, k) = {e} /\ e.key = k
      /\ IF InTable(x.ht0, k) # {} THEN e \in Entries(x.ht0)
         ELSE e \in Entries(x.ht1) /\ dictIsRehashing(x)
  BY FoundIs
<1>2. y = IF InTable(x.ht0, k) # {} THEN [x EXCEPT !.ht0 = SetVal(x.ht0, e, v)]
          ELSE [x EXCEPT !.ht1 = SetVal(x.ht1, e, v)]
  BY DEF Store
<1>3. g.key = k
  OBVIOUS
<1>4. /\ GoodTable(x.ht0) /\ GoodTable(x.ht1) /\ KeysApart(x)
      /\ KeysUnique(x.ht0) /\ KeysUnique(x.ht1)
  BY DEF GoodDict, GoodTable
<1> HIDE DEF y, e, g
<1>5. CASE InTable(x.ht0, k) # {}
  <2> DEFINE t == SetVal(x.ht0, e, v)
  <2>1. /\ GoodTable(t) /\ t.size = x.ht0.size
        /\ Entries(t) = (Entries(x.ht0) \ {e}) \cup {g}
    BY <1>1, <1>4, <1>5, SetValGood DEF g
  <2>2. y = [x EXCEPT !.ht0 = t]
    BY <1>2, <1>5
  <2> HIDE DEF t
  <2>3. /\ \A a \in Entries(t), b \in Entries(x.ht1) : a.key # b.key
        /\ \A a \in Entries(t) : \E b \in Entries(x.ht0) : b.key = a.key
    BY <1>1, <1>3, <1>4, <1>5, <2>1 DEF KeysApart
  <2>4. /\ GoodDict(y) /\ y.iterators = x.iterators
        /\ AllEntries(y) = Entries(t) \cup Entries(x.ht1)
    BY <2>1, <2>2, <2>3, NewHt0Good
  <2>5. e \notin Entries(x.ht1)
    BY <1>1, <1>4, <1>5 DEF KeysApart
  <2>6. AllEntries(y) = (AllEntries(x) \ Bound(x, k)) \cup {g}
    BY <1>1, <2>1, <2>4, <2>5 DEF AllEntries
  <2> QED BY <2>4, <2>6 DEF y, g
<1>6. CASE InTable(x.ht0, k) = {}
  <2> DEFINE t == SetVal(x.ht1, e, v)
  <2>1. /\ GoodTable(t) /\ t.size = x.ht1.size
        /\ Entries(t) = (Entries(x.ht1) \ {e}) \cup {g}
    BY <1>1, <1>4, <1>6, SetValGood DEF g
  <2>2. y = [x EXCEPT !.ht1 = t]
    BY <1>2, <1>6
  <2> HIDE DEF t
  <2>3. \A a \in Entries(t), b \in Entries(x.ht0) : a.key # b.key
    BY <1>1, <1>3, <1>4, <1>6, <2>1 DEF KeysApart
  <2>4. /\ GoodDict(y) /\ y.iterators = x.iterators
        /\ AllEntries(y) = Entries(x.ht0) \cup Entries(t)
    BY <1>1, <1>6, <2>1, <2>2, <2>3, NewHt1Good
  <2>5. e \notin Entries(x.ht0)
    BY <1>1, <1>4, <1>6 DEF KeysApart
  <2>6. AllEntries(y) = (AllEntries(x) \ Bound(x, k)) \cup {g}
    BY <1>1, <2>1, <2>4, <2>5 DEF AllEntries
  <2> QED BY <2>4, <2>6 DEF y, g
<1> QED BY <1>5, <1>6

\* dictReplace: the key is bound to v afterwards, and it was new exactly when
\* dictAdd succeeded.
LEMMA ReplaceGood ==
  ASSUME NEW x, GoodDict(x), NEW k \in Key, NEW v \in Val, NEW c \in BOOLEAN
  PROVE  LET y == dictReplace(x, k, v, c)
         IN  /\ GoodDict(y) /\ y.iterators = x.iterators
             /\ AllEntries(y) =
                  (AllEntries(x) \ Bound(x, k)) \cup {[key |-> k, val |-> v]}
<1> DEFINE y == dictReplace(x, k, v, c)
           r == dictAdd(x, k, v, c)
           f == AfterFind(r)
<1>1. /\ GoodDict(r) /\ r.iterators = x.iterators
      /\ AddFails(x, k, c) <=> Bound(x, k) # {}
      /\ AllEntries(r) = IF Bound(x, k) = {}
                         THEN AllEntries(x) \cup {[key |-> k, val |-> v]}
                         ELSE AllEntries(x)
  BY AddGood
<1>2. y = IF ~AddFails(x, k, c) THEN r ELSE Store(f, k, v)
  BY DEF dictReplace
<1> HIDE DEF y, r
<1>3. CASE Bound(x, k) = {}
  BY <1>1, <1>2, <1>3 DEF y
<1>4. CASE Bound(x, k) # {}
  <2>1. Bound(r, k) = Bound(x, k) /\ AllEntries(r) # {}
    BY <1>1, <1>4 DEF Bound
  <2>2. Same(f, r) /\ f.ht0.size # 0
    BY <1>1, <2>1, FindGood
  <2>3. y = Store(f, k, v)
    BY <1>1, <1>2, <1>4
  <2> HIDE DEF f
  <2>4. /\ GoodDict(f) /\ Bound(f, k) = Bound(x, k) /\ AllEntries(f) = AllEntries(x)
        /\ f.iterators = x.iterators
    BY <1>1, <1>4, <2>2 DEF Same, Bound
  <2> QED BY <1>4, <2>2, <2>3, <2>4, StoreGood DEF y
<1> QED BY <1>3, <1>4

\* dictReplaceRaw and the store of its caller do the same.
LEMMA ReplaceRawGood ==
  ASSUME NEW x, GoodDict(x), NEW k \in Key, NEW v \in Val, NEW c \in BOOLEAN
  PROVE  LET y == dictReplaceRaw(x, k, v, c)
         IN  /\ GoodDict(y) /\ y.iterators = x.iterators
             /\ AllEntries(y) =
                  (AllEntries(x) \ Bound(x, k)) \cup {[key |-> k, val |-> v]}
<1> DEFINE y == dictReplaceRaw(x, k, v, c)
           f == AfterFind(x)
<1>1. /\ Same(f, x) /\ dictFind(x, k) = Bound(x, k)
      /\ AllEntries(x) # {} => f.ht0.size # 0
  BY FindGood
<1>2. y = IF dictFind(x, k) = {} THEN dictAdd(f, k, v, c) ELSE Store(f, k, v)
  BY DEF dictReplaceRaw
<1> HIDE DEF y, f
<1>3. /\ GoodDict(f) /\ Bound(f, k) = Bound(x, k) /\ AllEntries(f) = AllEntries(x)
      /\ f.iterators = x.iterators
  BY <1>1 DEF Same, Bound
<1>4. CASE Bound(x, k) = {}
  BY <1>1, <1>2, <1>3, <1>4, AddGood DEF y
<1>5. CASE Bound(x, k) # {}
  <2>1. f.ht0.size # 0
    BY <1>1, <1>5 DEF Bound
  <2> QED BY <1>1, <1>2, <1>3, <1>5, <2>1, StoreGood DEF y
<1> QED BY <1>4, <1>5

\* dictDelete: removes the binding of the key, if there is one, and says so.
LEMMA DeleteGood ==
  ASSUME NEW x, GoodDict(x), NEW k \in Key
  PROVE  LET y == dictDelete(x, k)
         IN  /\ GoodDict(y) /\ y.iterators = x.iterators
             /\ DeleteFinds(x, k) <=> Bound(x, k) # {}
             /\ AllEntries(y) = AllEntries(x) \ Bound(x, k)
<1> DEFINE y == dictDelete(x, k)
           r == AfterDeleteStep(x)
           e == Found(r, k)
<1>1. y = IF ~DeleteFinds(x, k) THEN r
          ELSE IF InTable(r.ht0, k) # {} THEN [r EXCEPT !.ht0 = Unlink(r.ht0, e)]
          ELSE [r EXCEPT !.ht1 = Unlink(r.ht1, e)]
  BY DEF dictDelete
<1>2. DeleteFinds(x, k) <=> x.ht0.size # 0 /\ Probe(r, k) # {}
  BY DEF DeleteFinds
<1>3. Same(r, x) /\ (x.ht0.size # 0 => r.ht0.size # 0)
  BY StepGood DEF AfterDeleteStep, Same
<1> HIDE DEF y, r
<1>4. GoodDict(r) /\ Bound(r, k) = Bound(x, k)
  BY <1>3 DEF Same, Bound
<1>5. DeleteFinds(x, k) <=> Bound(x, k) # {}
  <2>1. Bound(x, k) # {} => x.ht0.size # 0
    BY SizeZero DEF Bound
  <2>2. x.ht0.size # 0 => Probe(r, k) = Bound(x, k)
    BY <1>3, <1>4, ProbeFinds
  <2> QED BY <1>2, <2>1, <2>2
<1>6. CASE Bound(x, k) = {}
  <2>1. y = r
    BY <1>1, <1>5, <1>6
  <2> QED BY <1>3, <1>5, <1>6, <2>1 DEF Same, y
<1>7. CASE Bound(x, k) # {}
  <2>1. r.ht0.size # 0
    BY <1>2, <1>3, <1>5, <1>7
  <2>2. /\ Bound(r, k) = {e} /\ e.key = k
        /\ IF InTable(r.ht0, k) # {} THEN e \in Entries(r.ht0)
           ELSE e \in Entries(r.ht1) /\ dictIsRehashing(r)
    BY <1>4, <1>7, <2>1, FoundIs
  <2>3. GoodTable(r.ht0) /\ GoodTable(r.ht1) /\ KeysApart(r)
    BY <1>4 DEF GoodDict
  <2> HIDE DEF e
  <2>4. CASE InTable(r.ht0, k) # {}
    <3> DEFINE t == Unlink(r.ht0, e)
    <3>1. GoodTable(t) /\ t.size = r.ht0.size /\ Entries(t) = Entries(r.ht0) \ {e}
      BY <2>2, <2>3, <2>4, UnlinkGood
    <3>2. y = [r EXCEPT !.ht0 = t]
      BY <1>1, <1>5, <1>7, <2>4
    <3> HIDE DEF t
    <3>3. /\ \A a \in Entries(t), b \in Entries(r.ht1) : a.key # b.key
          /\ \A a \in Entries(t) : \E b \in Entries(r.ht0) : b.key = a.key
      BY <2>3, <3>1 DEF KeysApart
    <3>4. /\ GoodDict(y) /\ y.iterators = r.iterators
          /\ AllEntries(y) = Entries(t) \cup Entries(r.ht1)
      BY <1>4, <3>1, <3>2, <3>3, NewHt0Good
    <3>5. e \notin Entries(r.ht1)
      BY <2>2, <2>3, <2>4 DEF KeysApart
    <3>6. AllEntries(y) = AllEntries(r) \ Bound(r, k)
      BY <2>2, <3>1, <3>4, <3>5 DEF AllEntries
    <3> QED BY <1>3, <1>4, <1>5, <3>4, <3>6 DEF Same, y
  <2>5. CASE InTable(r.ht0, k) = {}
    <3> DEFINE t == Unlink(r.ht1, e)
    <3>1. GoodTable(t) /\ t.size = r.ht1.size /\ Entries(t) = Entries(r.ht1) \ {e}
      BY <2>2, <2>3, <2>5, UnlinkGood
    <3>2. y = [r EXCEPT !.ht1 = t]
      BY <1>1, <1>5, <1>7, <2>5
    <3> HIDE DEF t
    <3>3. \A a \in Entries(t), b \in Entries(r.ht0) : a.key # b.key
      BY <2>3, <3>1 DEF KeysApart
    <3>4. /\ GoodDict(y) /\ y.iterators = r.iterators
          /\ AllEntries(y) = Entries(r.ht0) \cup Entries(t)
      BY <1>4, <2>2, <2>5, <3>1, <3>2, <3>3, NewHt1Good
    <3>5. e \notin Entries(r.ht0)
      BY <2>2, <2>3, <2>5 DEF KeysApart
    <3>6. AllEntries(y) = AllEntries(r) \ Bound(r, k)
      BY <2>2, <3>1, <3>4, <3>5 DEF AllEntries
    <3> QED BY <1>3, <1>4, <1>5, <3>4, <3>6 DEF Same, y
  <2> QED BY <2>4, <2>5
<1> QED BY <1>6, <1>7

\* dictGetRandomKey can return every binding and nothing else, although it
\* draws no bucket below rehashidx.
LEMMA RandomKeyGood ==
  ASSUME NEW x, GoodDict(x), dictSize(x) # 0
  PROVE  dictGetRandomKey(x) = AllEntries(x)
<1> DEFINE y == StepIfRehashing(x)
           s0 == y.ht0.size
           s1 == y.ht1.size
<1>1. Same(y, x)
  BY StepGood
<1>2. dictGetRandomKey(x) = UNION RandomBuckets(y)
  BY DEF dictGetRandomKey, AfterFind
<1> HIDE DEF y
<1>3. GoodDict(y) /\ AllEntries(y) = AllEntries(x) /\ s0 \in Nat /\ s1 \in Nat
  BY <1>1, DictShape, TableShape DEF Same, GoodDict
<1>4. CASE ~dictIsRehashing(y)
  <2>1. Entries(y.ht1) = {}
    BY <1>3, <1>4, NewTableGood DEF GoodDict, RehashShape, dictIsRehashing
  <2>2. UNION RandomBuckets(y) = Entries(y.ht0)
    BY <1>4 DEF RandomBuckets, Entries
  <2> QED BY <1>2, <1>3, <2>1, <2>2 DEF AllEntries
<1>5. CASE dictIsRehashing(y)
  <2> DEFINE r == y.rehashidx
             B(h) == IF h >= s0 THEN y.ht1.table[h - s0] ELSE y.ht0.table[h]
  <2>1. /\ r \in 0..(s0 - 1) /\ \A i \in 0..(r - 1) : y.ht0.table[i] = {}
    BY <1>3, <1>5 DEF GoodDict, RehashShape, dictIsRehashing
  <2>2. \A e : e \in UNION RandomBuckets(y) <=>
               \E h \in r..(s0 + s1 - 1) : e \in B(h)
    BY <1>5 DEF RandomBuckets
  <2>3. \A e : /\ e \in Entries(y.ht0) <=> \E i \in 0..(s0 - 1) : e \in y.ht0.table[i]
               /\ e \in Entries(y.ht1) <=> \E i \in 0..(s1 - 1) : e \in y.ht1.table[i]
    BY EntriesMember
  <2>4. ASSUME NEW e \in UNION RandomBuckets(y) PROVE e \in AllEntries(y)
    <3>1. PICK h \in r..(s0 + s1 - 1) : e \in B(h)
      BY <2>2, <2>4
    <3>2. CASE h >= s0
      <4>1. h - s0 \in 0..(s1 - 1) /\ e \in y.ht1.table[h - s0]
        BY <1>3, <2>1, <3>1, <3>2
      <4> QED BY <2>3, <4>1 DEF AllEntries
    <3>3. CASE ~(h >= s0)
      <4>1. h \in 0..(s0 - 1) /\ e \in y.ht0.table[h]
        BY <1>3, <2>1, <3>1, <3>3
      <4> QED BY <2>3, <4>1 DEF AllEntries
    <3> QED BY <3>2, <3>3
  <2>5. ASSUME NEW e \in AllEntries(y) PROVE e \in UNION RandomBuckets(y)
    <3>1. CASE e \in Entries(y.ht0)
      <4>1. PICK i \in 0..(s0 - 1) : e \in y.ht0.table[i]
        BY <2>3, <3>1
      <4>2. i \notin 0..(r - 1)
        BY <2>1, <4>1
      <4>3. i \in r..(s0 + s1 - 1) /\ ~(i >= s0)
        BY <1>3, <2>1, <4>2
      <4>4. e \in B(i)
        BY <4>1, <4>3
      <4> QED BY <2>2, <4>3, <4>4
    <3>2. CASE e \in Entries(y.ht1)
      <4>1. PICK i \in 0..(s1 - 1) : e \in y.ht1.table[i]
        BY <2>3, <3>2
      <4>2. i + s0 \in r..(s0 + s1 - 1) /\ i + s0 >= s0 /\ (i + s0) - s0 = i
        BY <1>3, <2>1
      <4>3. e \in B(i + s0)
        BY <4>1, <4>2
      <4> QED BY <2>2, <4>2, <4>3
    <3> QED BY <2>5, <3>1, <3>2 DEF AllEntries
  <2> QED BY <1>2, <1>3, <2>4, <2>5
<1> QED BY <1>4, <1>5

\* dictResize asks for a size that holds the entries.
LEMMA ResizeGood ==
  ASSUME NEW x, GoodDict(x), NEW c \in BOOLEAN
  PROVE  Same(dictResize(x, c), x)
<1> DEFINE m == IF x.ht0.used < DICT_HT_INITIAL_SIZE
                THEN DICT_HT_INITIAL_SIZE ELSE x.ht0.used
<1>1. m \in Nat /\ \E s \in TableSizes : m <= s
  <2>1. x.ht0.used \in Nat /\ \E s \in TableSizes : x.ht0.used <= s
    BY UsedBounded DEF GoodDict
  <2>2. DICT_HT_INITIAL_SIZE \in Nat /\ \E s \in TableSizes : DICT_HT_INITIAL_SIZE <= s
    BY SizeAssumption
  <2> QED BY <2>1, <2>2
<1>2. dictResize(x, c) = x \/ dictResize(x, c) = dictExpand(x, m)
  BY DEF dictResize
<1> HIDE DEF m
<1> QED BY <1>1, <1>2, ExpandGood DEF Same

\* dictCreate and dictEmpty leave an empty dict.
LEMMA NewDictGood == GoodDict(NewDict) /\ AllEntries(NewDict) = {} /\ NewDict.iterators = 0
<1>1. GoodTable(NewTable(0)) /\ Entries(NewTable(0)) = {}
  BY NewTableGood
<1>2. IsDict(NewDict)
  BY <1>1 DEF NewDict, IsDict, GoodTable
<1>3. /\ NewDict.ht0 = NewTable(0) /\ NewDict.ht1 = NewTable(0)
      /\ NewDict.rehashidx = -1 /\ NewDict.iterators = 0
  BY DEF NewDict
<1> QED BY <1>1, <1>2, <1>3 DEF GoodDict, KeysApart, RehashShape, AllEntries

-----------------------------------------------------------------------------
(* The theorems.                                                           *)

\* The strengthening the induction needs: the types and the tables.
IInv == TypeOK /\ GoodDict(d)

\* An answer has the type of ret.
LEMMA AnswerType ==
  ASSUME NEW b \in BOOLEAN, NEW F \in SUBSET Entry
  PROVE  Answer(b, F) \in [ok : BOOLEAN, found : SUBSET Entry]
BY DEF Answer

\* The bindings of a good dict are entries.
LEMMA BindingsType ==
  ASSUME NEW x, GoodDict(x)
  PROVE  AllEntries(x) \subseteq Entry
BY EntriesType DEF GoodDict, GoodTable, AllEntries

\* Every action maps to an action of FiniteMap, or leaves its variables alone,
\* and preserves the invariant.
LEMMA StepSimulates ==
  ASSUME IInv, [Next]_vars
  PROVE  IInv' /\ [Map!Next]_(Map!fmvars)
<1>1. /\ GoodDict(d) /\ canResize \in BOOLEAN
      /\ call \in Calls /\ ret \in [ok : BOOLEAN, found : SUBSET Entry]
      /\ AllEntries(d) \subseteq Entry /\ {} \subseteq Entry
  BY BindingsType DEF IInv, TypeOK
<1>2. SUFFICES /\ GoodDict(d') /\ canResize' \in BOOLEAN
               /\ call' \in Calls /\ ret' \in [ok : BOOLEAN, found : SUBSET Entry]
               /\ Map!Next \/ (AllEntries(d') = AllEntries(d) /\ UNCHANGED <<call, ret>>)
  BY <1>2 DEF IInv, TypeOK, GoodDict, Map!fmvars
<1>3. \A k : Map!BindingsOf(k) = Bound(d, k) /\ Bound(d, k) \subseteq Entry
  BY <1>1 DEF Map!BindingsOf, Bound
<1>4. \A b, F : Map!Answer(b, F) = Answer(b, F)
  BY DEF Map!Answer, Answer
<1>5. \A k, v : Map!Bind(k, v) = [key |-> k, val |-> v]
  BY DEF Map!Bind
<1>6. ASSUME NEW k \in Key, NEW v \in Val, Add(k, v)
      PROVE  GoodDict(d') /\ canResize' \in BOOLEAN
             /\ call' \in Calls /\ ret' \in [ok : BOOLEAN, found : SUBSET Entry]
             /\ Map!Add(k, v)
  <2>1. /\ GoodDict(d') /\ (AddFails(d, k, canResize) <=> Bound(d, k) # {})
        /\ AllEntries(d') = IF Bound(d, k) = {}
                            THEN AllEntries(d) \cup {[key |-> k, val |-> v]}
                            ELSE AllEntries(d)
    BY <1>1, <1>6, AddGood DEF Add
  <2>2. /\ call' = <<"add", k, v>> /\ call' \in Calls /\ canResize' = canResize
        /\ ret' = Answer(Bound(d, k) = {}, {})
    BY <1>6, <2>1 DEF Add, Calls
  <2> QED BY <1>1, <1>3, <1>4, <1>5, <2>1, <2>2, AnswerType DEF Map!Add
<1>7. ASSUME NEW k \in Key, NEW v \in Val, Replace(k, v) \/ ReplaceRaw(k, v)
      PROVE  GoodDict(d') /\ canResize' \in BOOLEAN
             /\ call' \in Calls /\ ret' \in [ok : BOOLEAN, found : SUBSET Entry]
             /\ Map!Replace(k, v)
  <2>1. /\ GoodDict(d')
        /\ AllEntries(d') = (AllEntries(d) \ Bound(d, k)) \cup {[key |-> k, val |-> v]}
    BY <1>1, <1>7, ReplaceGood, ReplaceRawGood DEF Replace, ReplaceRaw
  <2>2. /\ AddFails(d, k, canResize) <=> Bound(d, k) # {}
        /\ dictFind(d, k) = Bound(d, k)
    BY <1>1, AddGood, FindGood
  <2>3. /\ call' = <<"replace", k, v>> /\ call' \in Calls /\ canResize' = canResize
        /\ ret' = Answer(Bound(d, k) = {}, {})
    BY <1>7, <2>2 DEF Replace, ReplaceRaw, Calls
  <2> QED BY <1>1, <1>3, <1>4, <1>5, <2>1, <2>3, AnswerType DEF Map!Replace
<1>8. ASSUME NEW k \in Key, Delete(k)
      PROVE  GoodDict(d') /\ canResize' \in BOOLEAN
             /\ call' \in Calls /\ ret' \in [ok : BOOLEAN, found : SUBSET Entry]
             /\ Map!Delete(k)
  <2>1. /\ GoodDict(d') /\ (DeleteFinds(d, k) <=> Bound(d, k) # {})
        /\ AllEntries(d') = AllEntries(d) \ Bound(d, k)
    BY <1>1, <1>8, DeleteGood DEF Delete
  <2>2. /\ call' = <<"delete", k>> /\ call' \in Calls /\ canResize' = canResize
        /\ ret' = Answer(Bound(d, k) # {}, {})
    <3>1. DeleteFinds(d, k) = (Bound(d, k) # {})
      BY <2>1 DEF DeleteFinds
    <3> QED BY <1>8, <3>1 DEF Delete, Calls
  <2> QED BY <1>1, <1>3, <1>4, <2>1, <2>2, AnswerType DEF Map!Delete
<1>9. ASSUME NEW k \in Key, Find(k)
      PROVE  GoodDict(d') /\ canResize' \in BOOLEAN
             /\ call' \in Calls /\ ret' \in [ok : BOOLEAN, found : SUBSET Entry]
             /\ Map!Find(k)
  <2>1. GoodDict(d') /\ AllEntries(d') = AllEntries(d) /\ dictFind(d, k) = Bound(d, k)
    BY <1>1, <1>9, FindGood DEF Find, Same
  <2>2. /\ call' = <<"find", k>> /\ call' \in Calls /\ canResize' = canResize
        /\ ret' = Answer(Bound(d, k) # {}, Bound(d, k))
    BY <1>9, <2>1 DEF Find, Calls
  <2> QED BY <1>1, <1>3, <1>4, <2>1, <2>2, AnswerType DEF Map!Find
<1>10. ASSUME RandomKey
       PROVE  GoodDict(d') /\ canResize' \in BOOLEAN
              /\ call' \in Calls /\ ret' \in [ok : BOOLEAN, found : SUBSET Entry]
              /\ Map!RandomKey
  <2>1. GoodDict(d') /\ AllEntries(d') = AllEntries(d) /\ canResize' = canResize
    BY <1>1, <1>10, StepGood DEF RandomKey, AfterFind, Same
  <2>5. call' = <<"random">> /\ call' \in Calls
    BY <1>10 DEF RandomKey, Calls
  <2>2. dictSize(d) = 0 <=> AllEntries(d) = {}
    BY <1>1, SizeZero
  <2>3. CASE AllEntries(d) = {}
    <3>1. ret' = Answer(FALSE, {})
      BY <1>10, <2>2, <2>3 DEF RandomKey
    <3> QED BY <1>1, <1>4, <2>1, <2>3, <2>5, <3>1, AnswerType DEF Map!RandomKey
  <2>4. CASE AllEntries(d) # {}
    <3>1. dictGetRandomKey(d) = AllEntries(d)
      BY <1>1, <2>2, <2>4, RandomKeyGood
    <3>2. PICK e \in AllEntries(d) : ret' = Answer(TRUE, {e})
      BY <1>10, <2>2, <2>4, <3>1 DEF RandomKey
    <3>3. {e} \in SUBSET Entry
      BY <1>1
    <3> QED BY <1>1, <1>4, <2>1, <2>4, <2>5, <3>2, <3>3, AnswerType DEF Map!RandomKey
  <2> QED BY <2>3, <2>4
<1>11. ASSUME Empty
       PROVE  GoodDict(d') /\ canResize' \in BOOLEAN
              /\ call' \in Calls /\ ret' \in [ok : BOOLEAN, found : SUBSET Entry]
              /\ Map!Clear
  BY <1>1, <1>4, <1>11, NewDictGood, AnswerType DEF Empty, dictEmpty, Map!Clear, Calls
<1>12. ASSUME \/ Resize \/ (\E n \in ExpandSizes : Expand(n)) \/ RehashMilliseconds
              \/ OpenIterator \/ ReleaseIterator
              \/ EnableResize \/ DisableResize \/ UNCHANGED vars
       PROVE  /\ GoodDict(d') /\ AllEntries(d') = AllEntries(d)
              /\ canResize' \in BOOLEAN /\ call' = call /\ ret' = ret
  <2>1. CASE Resize
    BY <1>1, <2>1, ResizeGood DEF Resize, Same
  <2>2. CASE \E n \in ExpandSizes : Expand(n)
    BY <1>1, <2>2, ExpandGood, ExpandAssumption DEF Expand, Same
  <2>3. CASE RehashMilliseconds
    BY <1>1, <2>3, RehashGood, BatchAssumption DEF RehashMilliseconds
  <2>4. CASE OpenIterator \/ ReleaseIterator
    <3>1. PICK n \in Nat : d' = [d EXCEPT !.iterators = n]
      BY <1>1, <2>4, DictShape DEF OpenIterator, ReleaseIterator, GoodDict
    <3>2. /\ d'.ht0 = d.ht0 /\ d'.ht1 = d.ht1 /\ d'.rehashidx = d.rehashidx
          /\ IsDict(d')
      BY <1>1, <3>1 DEF GoodDict, IsDict
    <3>3. GoodDict(d') /\ AllEntries(d') = AllEntries(d)
      BY <1>1, <3>2 DEF GoodDict, KeysApart, RehashShape, AllEntries
    <3> QED BY <1>1, <2>4, <3>3 DEF OpenIterator, ReleaseIterator
  <2>5. CASE EnableResize \/ DisableResize \/ UNCHANGED vars
    BY <1>1, <2>5 DEF EnableResize, DisableResize, vars
  <2> QED BY <1>12, <2>1, <2>2, <2>3, <2>4, <2>5
<1>13. QED
  BY <1>1, <1>6, <1>7, <1>8, <1>9, <1>10, <1>11, <1>12 DEF Next, Map!Next

\* The initial dict is good and stands for the empty map.
LEMMA InitSimulates ==
  ASSUME Init
  PROVE  IInv /\ Map!Init
<1>1. ret \in [ok : BOOLEAN, found : SUBSET Entry]
  BY AnswerType DEF Init
<1>2. GoodDict(d) /\ AllEntries(d) = {} /\ canResize \in BOOLEAN
  BY NewDictGood DEF Init
<1> QED BY <1>1, <1>2
        DEF Init, IInv, TypeOK, Calls, GoodDict, Map!Init, Map!Answer, Answer

\* For every set of keys, every hash function and every order of calls, the
\* variables keep the types dict.h gives them.
THEOREM TypeCorrect == Spec => []TypeOK
<1>1. IInv /\ [Next]_vars => IInv'
  BY StepSimulates
<1>2. IInv => TypeOK
  BY DEF IInv
<1> QED BY <1>1, <1>2, InitSimulates, PTL DEF Spec

\* ... and the two tables stay consistent: each entry in its bucket, counted
\* once, in one table only, drawn by some dictGetRandomKey, and rehashidx inside
\* ht[0] above empty buckets.
THEOREM AlwaysConsistent == Spec => []TablesConsistent
<1>1. IInv /\ [Next]_vars => IInv'
  BY StepSimulates
<1>2. IInv => TablesConsistent
  BY RandomKeyGood DEF IInv, TablesConsistent
<1> QED BY <1>1, <1>2, InitSimulates, PTL DEF Spec

\* ... and a dict implements a finite map: no rehash step, expansion, shrinking
\* or resize policy is visible in the bindings or in the answers.
THEOREM DictImplementsMap == Spec => ImplementsMap
<1>1. IInv /\ [Next]_vars => IInv' /\ [Map!Next]_(Map!fmvars)
  BY StepSimulates
<1> QED BY <1>1, InitSimulates, PTL DEF Spec, ImplementsMap, Map!Spec

\* A lookup of a non-empty dict without open iterators advances the rehash or
\* ends it.
LEMMA EveryLookupPays ==
  ASSUME IInv, NEW k \in Key, Find(k), dictIsRehashing(d), d.iterators = 0, dictSize(d) # 0
  PROVE  d'.rehashidx = -1 \/ d'.rehashidx > d.rehashidx
<1>1. GoodDict(d)
  BY DEF IInv
<1> QED BY <1>1, FindGood DEF Find

-----------------------------------------------------------------------------
(* The rehash only goes forward.                                           *)

\* Between the same two tables: further on, and no key came back to ht[0].
TableKeys(t) == {e.key : e \in Entries(t)}
Drains(x, y) ==
  /\ dictIsRehashing(y)
  /\ y.ht0.size = x.ht0.size /\ y.ht1.size = x.ht1.size
  /\ y.rehashidx >= x.rehashidx
  /\ TableKeys(y.ht0) \subseteq TableKeys(x.ht0)

\* The next rehash, from the table the last one filled to one of another size
Renewed(x, y) == y.ht0.size = x.ht1.size /\ y.ht1.size # y.ht0.size

\* What a rehash step, an expansion, and a change of one entry do to x
Steps(x, y) ==
  IF dictIsRehashing(x)
  THEN Drains(x, y) \/ (~dictIsRehashing(y) /\ y.ht0.size = x.ht1.size)
  ELSE y = x
Grows(x, y) ==
  IF dictIsRehashing(x) THEN y = x
  ELSE x.ht0.size # 0 => /\ y.ht0.size = x.ht0.size
                         /\ dictIsRehashing(y) => y.ht1.size # y.ht0.size
Touches(x, y) ==
  /\ y.ht0.size = x.ht0.size /\ y.ht1.size = x.ht1.size
  /\ y.rehashidx = x.rehashidx
  /\ dictIsRehashing(x) => TableKeys(y.ht0) \subseteq TableKeys(x.ht0)

\* A whole call: from one rehash into the same one or into a new one
Forward(x, y) ==
  dictIsRehashing(x) /\ dictIsRehashing(y) => Drains(x, y) \/ Renewed(x, y)

LEMMA RehashSteps ==
  ASSUME NEW x, GoodDict(x), NEW n \in Nat \ {0}
  PROVE  Steps(x, dictRehash(x, n))
<1> DEFINE y == dictRehash(x, n)
<1>1. x.rehashidx \in Int /\ GoodDict(y) /\ y.rehashidx \in Int
  BY RehashGood, DictShape DEF GoodDict
<1>2. CASE ~dictIsRehashing(x)
  BY <1>2 DEF Steps, dictRehash
<1>3. CASE dictIsRehashing(x)
  <2>1. \/ y.rehashidx = -1 /\ y.ht0.size = x.ht1.size
        \/ /\ y.rehashidx > x.rehashidx
           /\ y.ht0.size = x.ht0.size /\ y.ht1.size = x.ht1.size
           /\ Entries(y.ht0) \subseteq Entries(x.ht0)
    BY <1>3, RehashGood
  <2>2. x.rehashidx >= 0
    BY <1>3 DEF GoodDict, RehashShape, dictIsRehashing
  <2> HIDE DEF y
  <2>3. Entries(y.ht0) \subseteq Entries(x.ht0) => TableKeys(y.ht0) \subseteq TableKeys(x.ht0)
    BY DEF TableKeys
  <2>4. Steps(x, y)
    BY <1>1, <1>3, <2>1, <2>2, <2>3 DEF Steps, Drains, dictIsRehashing
  <2> QED BY <2>4 DEF y
<1> QED BY <1>2, <1>3

LEMMA StaysSteps ==
  ASSUME NEW x, GoodDict(x)
  PROVE  Steps(x, x) /\ Touches(x, x)
<1>1. x.rehashidx \in Int
  BY DictShape DEF GoodDict
<1> QED BY <1>1 DEF Steps, Drains, Touches

\* The prologue of every call, and dictFind
LEMMA PrologueSteps ==
  ASSUME NEW x, GoodDict(x)
  PROVE  Steps(x, StepIfRehashing(x)) /\ Steps(x, AfterFind(x))
BY RehashSteps, StaysSteps DEF StepIfRehashing, _dictRehashStep, AfterFind

LEMMA ExpandGrows ==
  ASSUME NEW x, NEW n
  PROVE  Grows(x, dictExpand(x, n))
<1> DEFINE p == _dictNextPower(n)
<1>1. CASE ExpandFails(x, n) \/ dictIsRehashing(x)
  BY <1>1 DEF dictExpand, Grows, ExpandFails
<1>2. CASE ~ExpandFails(x, n) /\ ~dictIsRehashing(x) /\ x.ht0.size # 0
  <2>1. dictExpand(x, n) = [ht0 |-> x.ht0, ht1 |-> NewTable(p), rehashidx |-> 0,
                            iterators |-> x.iterators]
    BY <1>2 DEF dictExpand
  <2>2. NewTable(p).size = p
    BY DEF NewTable, dictht
  <2>3. p # x.ht0.size
    BY <1>2 DEF ExpandFails
  <2> HIDE DEF p
  <2> QED BY <1>2, <2>1, <2>2, <2>3 DEF Grows
<1>3. CASE x.ht0.size = 0 /\ ~dictIsRehashing(x)
  BY <1>3 DEF Grows
<1> QED BY <1>1, <1>2, <1>3

LEMMA ExpandIfNeededGrows ==
  ASSUME NEW x, NEW c
  PROVE  Grows(x, _dictExpandIfNeeded(x, c))
BY ExpandGrows DEF _dictExpandIfNeeded, Grows

\* How these compose
LEMMA StepsTwice ==
  ASSUME NEW x, NEW y, NEW z, GoodDict(x), GoodDict(y), GoodDict(z),
         Steps(x, y), Steps(y, z)
  PROVE  Steps(x, z)
<1>1. x.rehashidx \in Int /\ y.rehashidx \in Int /\ z.rehashidx \in Int
  BY DictShape DEF GoodDict
<1> QED BY <1>1 DEF Steps, Drains

LEMMA StepsThenGrows ==
  ASSUME NEW x, NEW y, NEW z, GoodDict(x), Steps(x, y), Grows(y, z)
  PROVE  Forward(x, z)
<1>1. dictIsRehashing(x) => x.ht1.size # 0
  BY DEF GoodDict, RehashShape, dictIsRehashing
<1> SUFFICES ASSUME dictIsRehashing(x), dictIsRehashing(z)
             PROVE  Drains(x, z) \/ Renewed(x, z)
  BY DEF Forward
<1>2. CASE Drains(x, y)
  <2>1. z = y
    BY <1>2 DEF Drains, Grows
  <2> QED BY <1>2, <2>1
<1>3. CASE ~dictIsRehashing(y) /\ y.ht0.size = x.ht1.size
  BY <1>1, <1>3 DEF Grows, Renewed
<1> QED BY <1>2, <1>3 DEF Steps

LEMMA StepsForward ==
  ASSUME NEW x, NEW y, Steps(x, y)
  PROVE  Forward(x, y)
BY DEF Steps, Forward

LEMMA ForwardThenSteps ==
  ASSUME NEW x, NEW y, NEW z, GoodDict(x), GoodDict(y), GoodDict(z),
         Forward(x, y), Steps(y, z)
  PROVE  Forward(x, z)
<1>1. x.rehashidx \in Int /\ y.rehashidx \in Int /\ z.rehashidx \in Int
  BY DictShape DEF GoodDict
<1> QED BY <1>1 DEF Steps, Drains, Forward, Renewed

LEMMA ForwardThenTouches ==
  ASSUME NEW x, NEW y, NEW z, Forward(x, y), Touches(y, z)
  PROVE  Forward(x, z)
BY DEF Touches, Drains, Forward, Renewed, dictIsRehashing

\* A store through an entry and the end of a delete
LEMMA StoreTouches ==
  ASSUME NEW x, GoodDict(x), x.ht0.size # 0, NEW k \in Key, NEW v \in Val,
         Bound(x, k) # {}
  PROVE  Touches(x, Store(x, k, v))
<1> DEFINE e == Found(x, k)
<1>1. /\ e.key = k
      /\ IF InTable(x.ht0, k) # {} THEN e \in Entries(x.ht0) ELSE e \in Entries(x.ht1)
  BY FoundIs
<1>2. GoodTable(x.ht0) /\ GoodTable(x.ht1)
      /\ x = [ht0 |-> x.ht0, ht1 |-> x.ht1, rehashidx |-> x.rehashidx,
              iterators |-> x.iterators]
  BY DictShape DEF GoodDict
<1> HIDE DEF e
<1>3. CASE InTable(x.ht0, k) # {}
  <2> DEFINE t == SetVal(x.ht0, e, v)
  <2>1. Store(x, k, v) = [ht0 |-> t, ht1 |-> x.ht1, rehashidx |-> x.rehashidx,
                          iterators |-> x.iterators]
    BY <1>2, <1>3 DEF Store, e
  <2>2. t.size = x.ht0.size /\ Entries(t) = (Entries(x.ht0) \ {e}) \cup {[key |-> e.key, val |-> v]}
    BY <1>1, <1>2, <1>3, SetValGood
  <2>3. TableKeys(t) \subseteq TableKeys(x.ht0)
    BY <1>1, <1>3, <2>2 DEF TableKeys
  <2> HIDE DEF t
  <2> QED BY <2>1, <2>2, <2>3 DEF Touches
<1>4. CASE InTable(x.ht0, k) = {}
  <2> DEFINE t == SetVal(x.ht1, e, v)
  <2>1. Store(x, k, v) = [ht0 |-> x.ht0, ht1 |-> t, rehashidx |-> x.rehashidx,
                          iterators |-> x.iterators]
    BY <1>2, <1>4 DEF Store, e
  <2>2. t.size = x.ht1.size
    BY <1>1, <1>2, <1>4, SetValGood
  <2> HIDE DEF t
  <2> QED BY <2>1, <2>2 DEF Touches
<1> QED BY <1>3, <1>4

LEMMA AddForward ==
  ASSUME NEW x, GoodDict(x), NEW k \in Key, NEW v \in Val, NEW c \in BOOLEAN
  PROVE  \A w : GoodDict(w) /\ Steps(w, x) => Forward(w, dictAdd(x, k, v, c))
<1> SUFFICES ASSUME NEW w, GoodDict(w), Steps(w, x)
             PROVE  Forward(w, dictAdd(x, k, v, c))
  OBVIOUS
<1> DEFINE s == StepIfRehashing(x)
           r == AddReady(x, c)
           e == [key |-> k, val |-> v]
<1>1. GoodDict(s) /\ GoodDict(r) /\ r.ht0.size # 0
  BY StepGood, ExpandIfNeededGood DEF AddReady, Same
<1>2. Forward(w, r)
  <2>1. Steps(w, s)
    BY <1>1, PrologueSteps, StepsTwice
  <2> QED BY <2>1, ExpandIfNeededGrows, StepsThenGrows DEF AddReady
<1>3. r = [ht0 |-> r.ht0, ht1 |-> r.ht1, rehashidx |-> r.rehashidx,
           iterators |-> r.iterators]
  BY <1>1, DictShape DEF GoodDict
<1> HIDE DEF r
<1>4. CASE AddFails(x, k, c)
  BY <1>2, <1>4 DEF dictAdd, r
<1>5. CASE ~AddFails(x, k, c) /\ dictIsRehashing(r)
  <2>1. dictAdd(x, k, v, c) = [ht0 |-> r.ht0, ht1 |-> Insert(r.ht1, e),
                               rehashidx |-> r.rehashidx, iterators |-> r.iterators]
    BY <1>3, <1>5 DEF dictAdd, r
  <2>2. Insert(r.ht1, e).size = r.ht1.size
    BY DEF Insert, WithBucket, dictht
  <2>3. Touches(r, dictAdd(x, k, v, c))
    BY <2>1, <2>2 DEF Touches
  <2> QED BY <1>2, <2>3, ForwardThenTouches
<1>6. CASE ~AddFails(x, k, c) /\ ~dictIsRehashing(r)
  <2>1. dictAdd(x, k, v, c) = [ht0 |-> Insert(r.ht0, e), ht1 |-> r.ht1,
                               rehashidx |-> r.rehashidx, iterators |-> r.iterators]
    BY <1>3, <1>6 DEF dictAdd, r
  <2>2. ~dictIsRehashing(dictAdd(x, k, v, c))
    BY <1>6, <2>1 DEF dictIsRehashing
  <2> QED BY <2>2 DEF Forward
<1> QED BY <1>4, <1>5, <1>6

LEMMA ReplaceForward ==
  ASSUME NEW x, GoodDict(x), NEW k \in Key, NEW v \in Val, NEW c \in BOOLEAN
  PROVE  Forward(x, dictReplace(x, k, v, c)) /\ Forward(x, dictReplaceRaw(x, k, v, c))
<1> DEFINE a == dictAdd(x, k, v, c)
           g == AfterFind(a)
           f == AfterFind(x)
<1>1. Forward(x, a) /\ GoodDict(a)
  BY AddForward, AddGood, StaysSteps
<1>2. GoodDict(f) /\ Steps(x, f)
  BY FindGood, PrologueSteps DEF Same
<1>3. ASSUME ~AddFails(x, k, c) PROVE Forward(x, dictReplace(x, k, v, c))
  BY <1>1, <1>3 DEF dictReplace
<1>4. ASSUME AddFails(x, k, c) PROVE Forward(x, dictReplace(x, k, v, c))
  <2>1. Bound(a, k) # {} /\ AllEntries(a) # {}
    BY <1>4, AddGood DEF Bound
  <2>2. GoodDict(g) /\ Bound(g, k) # {} /\ g.ht0.size # 0 /\ Steps(a, g)
    BY <1>1, <2>1, FindGood, PrologueSteps DEF Same, Bound
  <2>3. Forward(x, g)
    BY <1>1, <2>2, ForwardThenSteps
  <2>4. Touches(g, Store(g, k, v))
    BY <2>2, StoreTouches
  <2>5. dictReplace(x, k, v, c) = Store(g, k, v)
    BY <1>4 DEF dictReplace
  <2> QED BY <2>3, <2>4, <2>5, ForwardThenTouches
<1>5. ASSUME dictFind(x, k) = {} PROVE Forward(x, dictReplaceRaw(x, k, v, c))
  <2>1. dictReplaceRaw(x, k, v, c) = dictAdd(f, k, v, c)
    BY <1>5 DEF dictReplaceRaw
  <2> QED BY <1>2, <2>1, AddForward
<1>6. ASSUME dictFind(x, k) # {} PROVE Forward(x, dictReplaceRaw(x, k, v, c))
  <2>1. Bound(f, k) # {} /\ f.ht0.size # 0
    BY <1>6, FindGood DEF Same, Bound
  <2>2. Touches(f, Store(f, k, v)) /\ Forward(x, f)
    BY <1>2, <2>1, StoreTouches, StepsForward
  <2>3. dictReplaceRaw(x, k, v, c) = Store(f, k, v)
    BY <1>6 DEF dictReplaceRaw
  <2> QED BY <2>2, <2>3, ForwardThenTouches
<1> QED BY <1>1, <1>3, <1>4, <1>5, <1>6

LEMMA DeleteForward ==
  ASSUME NEW x, GoodDict(x), NEW k \in Key
  PROVE  Forward(x, dictDelete(x, k))
<1> DEFINE r == AfterDeleteStep(x)
           e == Found(r, k)
<1>1. Same(r, x) /\ (x.ht0.size # 0 => r.ht0.size # 0) /\ Forward(x, r) /\ GoodDict(r)
  BY StepGood, PrologueSteps, StaysSteps, StepsForward DEF AfterDeleteStep, Same
<1>2. CASE ~DeleteFinds(x, k)
  BY <1>1, <1>2 DEF dictDelete
<1>3. CASE DeleteFinds(x, k)
  <2>1. r.ht0.size # 0 /\ Bound(r, k) # {}
    BY <1>1, <1>3, ProbeFinds DEF DeleteFinds
  <2>2. IF InTable(r.ht0, k) # {} THEN e \in Entries(r.ht0) ELSE e \in Entries(r.ht1)
    BY <1>1, <2>1, FoundIs
  <2>3. /\ GoodTable(r.ht0) /\ GoodTable(r.ht1)
        /\ r = [ht0 |-> r.ht0, ht1 |-> r.ht1, rehashidx |-> r.rehashidx,
                iterators |-> r.iterators]
    BY <1>1, DictShape DEF GoodDict
  <2> HIDE DEF r, e
  <2>4. CASE InTable(r.ht0, k) # {}
    <3> DEFINE t == Unlink(r.ht0, e)
    <3>1. dictDelete(x, k) = [ht0 |-> t, ht1 |-> r.ht1, rehashidx |-> r.rehashidx,
                              iterators |-> r.iterators]
      BY <1>3, <2>3, <2>4 DEF dictDelete, r, e
    <3>2. t.size = r.ht0.size /\ TableKeys(t) \subseteq TableKeys(r.ht0)
      BY <2>2, <2>3, <2>4, UnlinkGood DEF TableKeys
    <3> HIDE DEF t
    <3>3. Touches(r, dictDelete(x, k))
      BY <3>1, <3>2 DEF Touches
    <3> QED BY <1>1, <3>3, ForwardThenTouches
  <2>5. CASE InTable(r.ht0, k) = {}
    <3> DEFINE t == Unlink(r.ht1, e)
    <3>1. dictDelete(x, k) = [ht0 |-> r.ht0, ht1 |-> t, rehashidx |-> r.rehashidx,
                              iterators |-> r.iterators]
      BY <1>3, <2>3, <2>5 DEF dictDelete, r, e
    <3>2. t.size = r.ht1.size
      BY <2>2, <2>3, <2>5, UnlinkGood
    <3> HIDE DEF t
    <3>3. Touches(r, dictDelete(x, k))
      BY <3>1, <3>2 DEF Touches
    <3> QED BY <1>1, <3>3, ForwardThenTouches
  <2> QED BY <2>4, <2>5
<1> QED BY <1>2, <1>3

LEMMA ResizeForward ==
  ASSUME NEW x, GoodDict(x), NEW c, NEW n
  PROVE  Forward(x, dictExpand(x, n)) /\ Forward(x, dictResize(x, c))
<1>1. Steps(x, x)
  BY StaysSteps
<1>2. \A m : Forward(x, dictExpand(x, m))
  BY <1>1, ExpandGrows, StepsThenGrows
<1>3. Forward(x, x)
  BY <1>1, StepsForward
<1> QED BY <1>2, <1>3 DEF dictResize

\* No step of a dict takes back what the rehash has done: while the two tables
\* are the same, rehashidx does not fall and the old table gains no key; and a
\* lookup of a non-empty dict without open iterators moves it on or ends it.
THEOREM RehashGoesForward == Spec => RehashForward
<1>1. IInv /\ [Next]_vars => IInv'
  BY StepSimulates
<1>2. ASSUME IInv, [Next]_vars
      PROVE  \/ Forward(d, d')
             \/ UNCHANGED d
  <2>1. GoodDict(d) /\ canResize \in BOOLEAN
    BY <1>2 DEF IInv, TypeOK
  <2>2. ASSUME NEW k \in Key, NEW v \in Val, Add(k, v) \/ Replace(k, v) \/ ReplaceRaw(k, v)
        PROVE  Forward(d, d')
    BY <2>1, <2>2, AddForward, ReplaceForward, StaysSteps DEF Add, Replace, ReplaceRaw
  <2>3. ASSUME NEW k \in Key, Delete(k) \/ Find(k)
        PROVE  Forward(d, d')
    BY <2>1, <2>3, DeleteForward, PrologueSteps, StepsForward DEF Delete, Find
  <2>4. ASSUME RandomKey PROVE Forward(d, d')
    BY <2>1, <2>4, PrologueSteps, StepsForward DEF RandomKey
  <2>5. ASSUME Empty PROVE Forward(d, d')
    BY <2>5 DEF Empty, dictEmpty, NewDict, Forward, dictIsRehashing
  <2>6. ASSUME Resize \/ \E n \in ExpandSizes : Expand(n) PROVE Forward(d, d')
    BY <2>1, <2>6, ResizeForward DEF Resize, Expand
  <2>7. ASSUME RehashMilliseconds PROVE Forward(d, d')
    BY <2>1, <2>7, RehashSteps, StepsForward, BatchAssumption DEF RehashMilliseconds
  <2>8. ASSUME OpenIterator \/ ReleaseIterator PROVE Forward(d, d')
    <3>1. d'.ht0 = d.ht0 /\ d'.ht1 = d.ht1 /\ d'.rehashidx = d.rehashidx
      BY <2>1, <2>8, DictShape DEF OpenIterator, ReleaseIterator, GoodDict
    <3>2. Touches(d, d') /\ Forward(d, d)
      BY <2>1, <3>1, StaysSteps, StepsForward DEF Touches
    <3> QED BY <3>2, ForwardThenTouches
  <2>9. ASSUME EnableResize \/ DisableResize \/ UNCHANGED vars PROVE UNCHANGED d
    BY <2>9 DEF EnableResize, DisableResize, vars
  <2> QED BY <1>2, <2>2, <2>3, <2>4, <2>5, <2>6, <2>7, <2>8, <2>9 DEF Next
<1>3. ASSUME IInv, Forward(d, d') \/ UNCHANGED d
      PROVE  /\ dictIsRehashing(d) /\ dictIsRehashing(d')
             /\ d'.ht0.size = d.ht0.size /\ d'.ht1.size = d.ht1.size
             => /\ d'.rehashidx >= d.rehashidx
                /\ \A e \in Entries(d'.ht0) : \E f \in Entries(d.ht0) : f.key = e.key
  <2>1. GoodDict(d) /\ d.rehashidx \in Int
    BY <1>3, DictShape DEF IInv, GoodDict
  <2>2. CASE UNCHANGED d
    BY <2>1, <2>2
  <2>3. CASE Forward(d, d')
    <3> SUFFICES ASSUME dictIsRehashing(d), dictIsRehashing(d'),
                        d'.ht0.size = d.ht0.size, d'.ht1.size = d.ht1.size
                 PROVE  /\ d'.rehashidx >= d.rehashidx
                        /\ \A e \in Entries(d'.ht0) : \E f \in Entries(d.ht0) : f.key = e.key
      OBVIOUS
    <3>1. Drains(d, d')
      BY <2>3 DEF Forward, Renewed
    <3> QED BY <3>1 DEF Drains, TableKeys
  <2> QED BY <1>3, <2>2, <2>3
<1>4. IInv /\ [Next]_vars =>
        [/\ /\ dictIsRehashing(d) /\ dictIsRehashing(d')
            /\ d'.ht0.size = d.ht0.size /\ d'.ht1.size = d.ht1.size
            => /\ d'.rehashidx >= d.rehashidx
               /\ \A e \in Entries(d'.ht0) : \E f \in Entries(d.ht0) : f.key = e.key
         /\ \A k \in Key :
              Find(k) /\ dictIsRehashing(d) /\ d.iterators = 0 /\ dictSize(d) # 0
                => d'.rehashidx = -1 \/ d'.rehashidx > d.rehashidx]_vars
  <2> SUFFICES ASSUME IInv, [Next]_vars
               PROVE  /\ /\ dictIsRehashing(d) /\ dictIsRehashing(d')
                         /\ d'.ht0.size = d.ht0.size /\ d'.ht1.size = d.ht1.size
                         => /\ d'.rehashidx >= d.rehashidx
                            /\ \A e \in Entries(d'.ht0) : \E f \in Entries(d.ht0) : f.key = e.key
                      /\ \A k \in Key :
                           Find(k) /\ dictIsRehashing(d) /\ d.iterators = 0 /\ dictSize(d) # 0
                             => d'.rehashidx = -1 \/ d'.rehashidx > d.rehashidx
    OBVIOUS
  <2>1. Forward(d, d') \/ UNCHANGED d
    BY <1>2
  <2> QED BY <1>3, <2>1, EveryLookupPays
<1> QED BY <1>1, <1>4, InitSimulates, PTL DEF Spec, RehashForward

-----------------------------------------------------------------------------
(* The safe iterator of DictIter.                                          *)

\* Where a key is, seen from the iterator at bucket i of table t: in the bucket
\* the iterator is at, or in one it has yet to visit.
Holds(t, k) == \E e \in Entries(t) : e.key = k
KeyHere(x, t, i, k) ==
  \/ t = 0 /\ Holds(x.ht0, k) /\ Slot(x.ht0, k) = i
  \/ t = 1 /\ Holds(x.ht1, k) /\ Slot(x.ht1, k) = i
KeyAhead(x, t, i, k) ==
  \/ t = 0 /\ Holds(x.ht0, k) /\ Slot(x.ht0, k) > i
  \/ t = 0 /\ Holds(x.ht1, k)
  \/ t = 1 /\ Holds(x.ht1, k) /\ Slot(x.ht1, k) > i

\* The keys of the chain the iterator has not returned yet.
Pending == it.rest \cup (IF it.nextEntry = NoEntry THEN {} ELSE {it.nextEntry})

IterType ==
  /\ GoodDict(itDict) /\ CountBalanced
  /\ it \in [live : BOOLEAN, table : {0, 1}, index : Nat \cup {-1},
             entry : Key \cup {NoEntry}, nextEntry : Key \cup {NoEntry},
             rest : SUBSET Key, over : BOOLEAN]
  /\ returned \subseteq KeysOf(itDict) /\ itSteady \subseteq KeysOf(itDict)
  /\ it.index = -1 => it.table = 0

\* Before its first dictNext, and after its release, an iterator points nowhere.
IterIdle ==
  ~(it.live /\ Started) =>
    /\ ~Started /\ ~it.over /\ it.nextEntry = NoEntry /\ it.rest = {}
    /\ returned = {}

\* A running iterator is at a bucket of the table it says, and what it saved of
\* the chain is still there: d->iterators stops every move of a bucket.
IterPlaced ==
  /\ it.nextEntry = NoEntry => it.rest = {}
  /\ it.nextEntry \notin it.rest /\ it.entry \notin Pending
  /\ it.live /\ Started /\ ~it.over =>
       /\ itDict.ht0.size # 0 /\ (it.table = 1 => dictIsRehashing(itDict))
       /\ \A k \in Pending : KeyHere(itDict, it.table, it.index, k)

\* Nothing that was returned can be met again, and what was there all the time
\* was returned or will be met.
IterProgress ==
  /\ ~twice
  /\ it.over => itSteady \subseteq returned /\ it.nextEntry = NoEntry
  /\ it.live /\ Started /\ ~it.over =>
       /\ \A k \in returned : k \notin Pending /\ ~KeyAhead(itDict, it.table, it.index, k)
       /\ \A k \in itSteady : k \in returned \/ k \in Pending
                              \/ KeyAhead(itDict, it.table, it.index, k)

IterInv == IterType /\ IterIdle /\ IterPlaced /\ IterProgress

\* What a call does to a dict with an iterator open: no key that stays changes
\* its table or its bucket.
Stays(x, y) ==
  /\ GoodDict(y) /\ y.iterators = x.iterators
  /\ y.ht0.size = x.ht0.size
  /\ dictIsRehashing(x) => dictIsRehashing(y) /\ y.ht1.size = x.ht1.size
  /\ \A k \in KeysOf(x) \cap KeysOf(y) :
       /\ Holds(y.ht0, k) <=> Holds(x.ht0, k)
       /\ Holds(y.ht1, k) <=> Holds(x.ht1, k)

\* The keys of a dict are those of its two tables, and a key is in one of them.
LEMMA KeyTables ==
  ASSUME NEW x, GoodDict(x), NEW k
  PROVE  /\ k \in KeysOf(x) <=> Holds(x.ht0, k) \/ Holds(x.ht1, k)
         /\ ~(Holds(x.ht0, k) /\ Holds(x.ht1, k))
         /\ k \in KeysOf(x) => k \in Key
         /\ Holds(x.ht1, k) => dictIsRehashing(x)
         /\ Holds(x.ht0, k) => x.ht0.size # 0
<1>1. GoodTable(x.ht0) /\ GoodTable(x.ht1) /\ KeysApart(x)
  BY DEF GoodDict
<1>2. Entries(x.ht0) \subseteq Entry /\ Entries(x.ht1) \subseteq Entry
  BY <1>1, EntriesType DEF GoodTable
<1>3. k \in KeysOf(x) <=> Holds(x.ht0, k) \/ Holds(x.ht1, k)
  BY DEF KeysOf, Holds, AllEntries
<1>4. ~(Holds(x.ht0, k) /\ Holds(x.ht1, k))
  BY <1>1 DEF KeysApart, Holds
<1>5. k \in KeysOf(x) => k \in Key
  BY <1>2, <1>3 DEF Holds, Entry
<1>6. Holds(x.ht1, k) => dictIsRehashing(x)
  BY NewTableGood DEF GoodDict, RehashShape, dictIsRehashing, Holds
<1>7. Holds(x.ht0, k) => x.ht0.size # 0
  BY <1>1, NoBuckets DEF GoodTable, Holds
<1> QED BY <1>3, <1>4, <1>5, <1>6, <1>7

\* The rehash step is skipped while an iterator is open.
LEMMA StepSkipped ==
  ASSUME NEW x, x.iterators # 0
  PROVE  StepIfRehashing(x) = x /\ AfterFind(x) = x /\ AfterDeleteStep(x) = x
BY DEF StepIfRehashing, _dictRehashStep, AfterFind, AfterDeleteStep

\* An expansion moves nothing: it can only start a rehash.
LEMMA ExpandStays ==
  ASSUME NEW x, GoodDict(x), x.ht0.size # 0, NEW n \in Nat, \E s \in TableSizes : n <= s
  PROVE  Stays(x, dictExpand(x, n))
<1> DEFINE y == dictExpand(x, n)
<1>1. Same(y, x) /\ (dictIsRehashing(x) => y = x)
  BY ExpandGood
<1>2. y.ht0 = x.ht0
  BY DEF dictExpand
<1> HIDE DEF y
<1>3. ASSUME NEW k \in KeysOf(x) \cap KeysOf(y)
      PROVE  /\ Holds(y.ht0, k) <=> Holds(x.ht0, k)
             /\ Holds(y.ht1, k) <=> Holds(x.ht1, k)
  BY <1>1, <1>2, KeyTables DEF Same
<1> QED BY <1>1, <1>2, <1>3 DEF Stays, Same, y

\* So does _dictExpandIfNeeded, and dictResize.
LEMMA ResizeStays ==
  ASSUME NEW x, GoodDict(x), x.ht0.size # 0, NEW c \in BOOLEAN
  PROVE  Stays(x, _dictExpandIfNeeded(x, c)) /\ Stays(x, dictResize(x, c))
<1>1. x.ht0.used \in Nat /\ x.ht0.used * 2 \in Nat
      /\ (\E s \in TableSizes : x.ht0.used <= s)
      /\ (\E s \in TableSizes : x.ht0.used * 2 <= s)
  BY UsedBounded DEF GoodDict
<1>2. DICT_HT_INITIAL_SIZE \in Nat /\ \E s \in TableSizes : DICT_HT_INITIAL_SIZE <= s
  BY SizeAssumption
<1>3. Stays(x, x)
  BY DEF Stays
<1>4. Stays(x, dictExpand(x, DICT_HT_INITIAL_SIZE))
  BY <1>2, ExpandStays
<1>5. Stays(x, dictExpand(x, x.ht0.used)) /\ Stays(x, dictExpand(x, x.ht0.used * 2))
  BY <1>1, ExpandStays
<1>6. \/ dictResize(x, c) = x
      \/ dictResize(x, c) = dictExpand(x, DICT_HT_INITIAL_SIZE)
      \/ dictResize(x, c) = dictExpand(x, x.ht0.used)
  BY DEF dictResize
<1>7. \/ _dictExpandIfNeeded(x, c) = x
      \/ _dictExpandIfNeeded(x, c) = dictExpand(x, x.ht0.used * 2)
      \/ _dictExpandIfNeeded(x, c) = dictExpand(x, DICT_HT_INITIAL_SIZE)
  BY DEF _dictExpandIfNeeded, WantedSize
<1> QED BY <1>3, <1>4, <1>5, <1>6, <1>7

\* A table that changes in one key: what it holds of the others.
LEMMA HoldsAfter ==
  ASSUME NEW t, NEW u, NEW e, NEW k, k # e.key,
         Entries(u) = Entries(t) \cup {e} \/ Entries(u) = Entries(t) \ {e}
  PROVE  Holds(u, k) <=> Holds(t, k)
BY DEF Holds

\* dictAdd with an iterator open: the new key goes to a chain's head, the others
\* stay where they are.
LEMMA AddStays ==
  ASSUME NEW x, GoodDict(x), x.ht0.size # 0, x.iterators # 0,
         NEW k \in Key, NEW v \in Val, NEW c \in BOOLEAN, k \notin KeysOf(x)
  PROVE  /\ Stays(x, dictAdd(x, k, v, c))
         /\ KeysOf(dictAdd(x, k, v, c)) = KeysOf(x) \cup {k}
<1> DEFINE y == dictAdd(x, k, v, c)
           r == _dictExpandIfNeeded(x, c)
           e == [key |-> k, val |-> v]
<1>1. AddReady(x, c) = r
  BY StepSkipped DEF AddReady
<1>2. Stays(x, r)
  BY ResizeStays
<1>3. Same(r, x)
  BY ExpandIfNeededGood
<1>4. Bound(x, k) = {}
  BY DEF Bound, KeysOf
<1>5. /\ GoodDict(y) /\ y.iterators = x.iterators
      /\ ~AddFails(x, k, c) /\ AllEntries(y) = AllEntries(x) \cup {e}
  BY <1>4, AddGood
<1>6. y = IF dictIsRehashing(r) THEN [r EXCEPT !.ht1 = Insert(r.ht1, e)]
          ELSE [r EXCEPT !.ht0 = Insert(r.ht0, e)]
  BY <1>1, <1>5 DEF dictAdd
<1>7. e \in Entry /\ e.key = k
  BY DEF Entry
<1> HIDE DEF y, r, e
<1>8. \A f \in AllEntries(r) : f.key # k
  BY <1>3, <1>4 DEF Same, Bound
<1>9. GoodDict(r) /\ r.ht0.size # 0 /\ r.ht0.size = x.ht0.size
  BY <1>2 DEF Stays
<1>10. KeysOf(y) = KeysOf(x) \cup {k} /\ KeysOf(r) = KeysOf(x)
  BY <1>3, <1>5, <1>7 DEF KeysOf, Same
<1>11. CASE dictIsRehashing(r)
  <2> DEFINE t == Insert(r.ht1, e)
  <2>1. t.size = r.ht1.size /\ Entries(t) = Entries(r.ht1) \cup {e}
    BY <1>7, <1>8, <1>9, <1>11, InsertGood
       DEF AllEntries, GoodDict, RehashShape, dictIsRehashing
  <2> HIDE DEF t
  <2>2. y.ht0 = r.ht0 /\ y.ht1 = t /\ y.rehashidx = r.rehashidx
    BY <1>6, <1>9, <1>11 DEF GoodDict, IsDict, t
  <2>3. \A q : q # k => (Holds(y.ht1, q) <=> Holds(r.ht1, q))
    BY <1>7, <2>1, <2>2, HoldsAfter
  <2> QED BY <1>2, <1>5, <1>10, <1>11, <2>1, <2>2, <2>3 DEF Stays, y, dictIsRehashing
<1>12. CASE ~dictIsRehashing(r)
  <2> DEFINE t == Insert(r.ht0, e)
  <2>1. t.size = r.ht0.size /\ Entries(t) = Entries(r.ht0) \cup {e}
    BY <1>7, <1>8, <1>9, InsertGood DEF AllEntries, GoodDict
  <2> HIDE DEF t
  <2>2. y.ht1 = r.ht1 /\ y.ht0 = t /\ y.rehashidx = r.rehashidx
    BY <1>6, <1>9, <1>12 DEF GoodDict, IsDict, t
  <2>3. \A q : q # k => (Holds(y.ht0, q) <=> Holds(r.ht0, q))
    BY <1>7, <2>1, <2>2, HoldsAfter
  <2> QED BY <1>2, <1>5, <1>10, <1>12, <2>1, <2>2, <2>3 DEF Stays, y, dictIsRehashing
<1> QED BY <1>11, <1>12

\* dictDelete with an iterator open unlinks one entry and moves none.
LEMMA DeleteStays ==
  ASSUME NEW x, GoodDict(x), x.iterators # 0, NEW k \in Key
  PROVE  /\ Stays(x, dictDelete(x, k))
         /\ KeysOf(dictDelete(x, k)) = KeysOf(x) \ {k}
<1> DEFINE y == dictDelete(x, k)
           e == Found(x, k)
<1>1. /\ GoodDict(y) /\ y.iterators = x.iterators
      /\ DeleteFinds(x, k) <=> Bound(x, k) # {}
      /\ AllEntries(y) = AllEntries(x) \ Bound(x, k)
  BY DeleteGood
<1>2. KeysOf(y) = KeysOf(x) \ {k}
  <2> HIDE DEF y
  <2> QED BY <1>1 DEF KeysOf, Bound
<1>3. y = IF ~DeleteFinds(x, k) THEN x
          ELSE IF InTable(x.ht0, k) # {} THEN [x EXCEPT !.ht0 = Unlink(x.ht0, e)]
          ELSE [x EXCEPT !.ht1 = Unlink(x.ht1, e)]
  BY StepSkipped DEF dictDelete
<1>4. CASE ~DeleteFinds(x, k)
  BY <1>1, <1>2, <1>3, <1>4 DEF Stays
<1>5. CASE DeleteFinds(x, k)
  <2>1. Bound(x, k) # {} /\ x.ht0.size # 0
    BY <1>1, <1>5 DEF DeleteFinds
  <2>2. /\ e.key = k
        /\ IF InTable(x.ht0, k) # {} THEN e \in Entries(x.ht0)
           ELSE e \in Entries(x.ht1) /\ dictIsRehashing(x)
    BY <2>1, FoundIs
  <2>3. GoodTable(x.ht0) /\ GoodTable(x.ht1)
    BY DEF GoodDict
  <2> HIDE DEF e, y
  <2>4. CASE InTable(x.ht0, k) # {}
    <3> DEFINE t == Unlink(x.ht0, e)
    <3>1. t.size = x.ht0.size /\ Entries(t) = Entries(x.ht0) \ {e}
      BY <2>2, <2>3, <2>4, UnlinkGood
    <3> HIDE DEF t
    <3>2. y.ht0 = t /\ y.ht1 = x.ht1 /\ y.rehashidx = x.rehashidx
      BY <1>3, <1>5, <2>4 DEF GoodDict, IsDict, t
    <3>3. \A q : q # k => (Holds(y.ht0, q) <=> Holds(x.ht0, q))
      BY <2>2, <3>1, <3>2, HoldsAfter
    <3> QED BY <1>1, <1>2, <3>1, <3>2, <3>3 DEF Stays, y, dictIsRehashing
  <2>5. CASE InTable(x.ht0, k) = {}
    <3> DEFINE t == Unlink(x.ht1, e)
    <3>1. t.size = x.ht1.size /\ Entries(t) = Entries(x.ht1) \ {e}
      BY <2>2, <2>3, <2>5, UnlinkGood
    <3> HIDE DEF t
    <3>2. y.ht1 = t /\ y.ht0 = x.ht0 /\ y.rehashidx = x.rehashidx
      BY <1>3, <1>5, <2>5 DEF GoodDict, IsDict, t
    <3>3. \A q : q # k => (Holds(y.ht1, q) <=> Holds(x.ht1, q))
      BY <2>2, <3>1, <3>2, HoldsAfter
    <3> QED BY <1>1, <1>2, <3>1, <3>2, <3>3 DEF Stays, y, dictIsRehashing
  <2> QED BY <2>4, <2>5
<1> QED BY <1>4, <1>5

\* A key that stays is seen at the same place.
LEMMA SeenSame ==
  ASSUME NEW x, GoodDict(x), NEW y, Stays(x, y), NEW k \in KeysOf(x) \cap KeysOf(y), NEW t, NEW i
  PROVE  /\ KeyHere(x, t, i, k) <=> KeyHere(y, t, i, k)
         /\ KeyAhead(x, t, i, k) <=> KeyAhead(y, t, i, k)
<1>1. /\ Holds(y.ht0, k) <=> Holds(x.ht0, k)
      /\ Holds(y.ht1, k) <=> Holds(x.ht1, k)
      /\ y.ht0.size = x.ht0.size
      /\ dictIsRehashing(x) => y.ht1.size = x.ht1.size
  BY DEF Stays
<1>2. Slot(y.ht0, k) = Slot(x.ht0, k)
  BY <1>1 DEF Slot
<1>3. Holds(x.ht1, k) => Slot(y.ht1, k) = Slot(x.ht1, k)
  BY <1>1, KeyTables DEF Slot
<1> QED BY <1>1, <1>2, <1>3 DEF KeyHere, KeyAhead

\* A step of the user that removes the keys D, none of them the saved successor,
\* and moves no key under a running iterator.
UserStep(D) ==
  /\ GoodDict(itDict') /\ itDict'.iterators = itDict.iterators
  /\ it.live /\ Started /\ ~it.over => Stays(itDict, itDict')
  /\ KeysOf(itDict) \ D \subseteq KeysOf(itDict') /\ D \cap KeysOf(itDict') = {}
  /\ it.nextEntry \notin D
  /\ it' = [it EXCEPT !.rest = it.rest \ D]
  /\ returned' = returned \ D /\ twice' = twice
  /\ itSteady' = itSteady \cap KeysOf(itDict')

LEMMA UserStepKeeps ==
  ASSUME IterInv, NEW D, UserStep(D)
  PROVE  IterInv'
<1> DEFINE I == [live : BOOLEAN, table : {0, 1}, index : Nat \cup {-1},
                 entry : Key \cup {NoEntry}, nextEntry : Key \cup {NoEntry},
                 rest : SUBSET Key, over : BOOLEAN]
<1>1. it \in I /\ it' = [it EXCEPT !.rest = it.rest \ D]
  BY DEF IterInv, IterType, UserStep
<1>2. /\ it' \in I /\ it'.live = it.live /\ it'.table = it.table /\ it'.index = it.index
      /\ it'.entry = it.entry /\ it'.nextEntry = it.nextEntry /\ it'.over = it.over
      /\ it'.rest = it.rest \ D
  BY <1>1
<1>3. Started' <=> Started
  BY <1>2 DEF Started
<1>4. Pending' = Pending \ D
  <2>1. it.nextEntry \notin D
    BY DEF UserStep
  <2> QED BY <1>2, <2>1 DEF Pending
<1>5. IterType'
  <2>1. CountBalanced'
    BY <1>2, <1>3 DEF CountBalanced, UserStep, IterInv, IterType
  <2>2. returned' \subseteq KeysOf(itDict') /\ itSteady' \subseteq KeysOf(itDict')
    BY DEF UserStep, IterInv, IterType
  <2> QED BY <1>2, <2>1, <2>2 DEF IterType, UserStep, IterInv
<1>6. IterIdle'
  BY <1>2, <1>3 DEF IterIdle, IterInv, UserStep
<1>7. /\ it'.nextEntry = NoEntry => it'.rest = {}
      /\ it'.nextEntry \notin it'.rest /\ it'.entry \notin Pending'
  BY <1>2, <1>4 DEF IterInv, IterPlaced
<1>8. ~twice' /\ (it'.over => itSteady' \subseteq returned' /\ it'.nextEntry = NoEntry)
  BY <1>2 DEF IterInv, IterProgress, UserStep
<1>9. CASE ~(it.live /\ Started /\ ~it.over)
  BY <1>2, <1>3, <1>5, <1>6, <1>7, <1>8, <1>9 DEF IterInv, IterPlaced, IterProgress
<1>10. CASE it.live /\ Started /\ ~it.over
  <2>1. /\ Stays(itDict, itDict') /\ GoodDict(itDict)
        /\ KeysOf(itDict) \ D \subseteq KeysOf(itDict') /\ D \cap KeysOf(itDict') = {}
    BY <1>10 DEF UserStep, IterInv, IterType
  <2>2. \A k \in KeysOf(itDict) \cap KeysOf(itDict') :
          /\ KeyHere(itDict, it.table, it.index, k) <=> KeyHere(itDict', it.table, it.index, k)
          /\ KeyAhead(itDict, it.table, it.index, k) <=> KeyAhead(itDict', it.table, it.index, k)
    BY <2>1, SeenSame
  <2>3. itDict'.ht0.size # 0 /\ (it'.table = 1 => dictIsRehashing(itDict'))
    BY <1>2, <1>10, <2>1 DEF Stays, IterInv, IterPlaced
  <2>4. \A k \in Pending' : KeyHere(itDict', it'.table, it'.index, k)
    <3> SUFFICES ASSUME NEW k \in Pending' PROVE KeyHere(itDict', it'.table, it'.index, k)
      OBVIOUS
    <3>1. k \in Pending /\ k \notin D /\ KeyHere(itDict, it.table, it.index, k)
      BY <1>4, <1>10 DEF IterInv, IterPlaced
    <3>2. k \in KeysOf(itDict)
      BY <2>1, <3>1, KeyTables DEF KeyHere
    <3> QED BY <1>2, <2>1, <2>2, <3>1, <3>2
  <2>5. \A k \in returned' : k \notin Pending' /\ ~KeyAhead(itDict', it'.table, it'.index, k)
    <3> SUFFICES ASSUME NEW k \in returned'
                 PROVE  k \notin Pending' /\ ~KeyAhead(itDict', it'.table, it'.index, k)
      OBVIOUS
    <3>1. k \in returned /\ k \notin D /\ k \in KeysOf(itDict)
      BY DEF UserStep, IterInv, IterType
    <3>2. k \notin Pending /\ ~KeyAhead(itDict, it.table, it.index, k)
      BY <1>10, <3>1 DEF IterInv, IterProgress
    <3> QED BY <1>2, <1>4, <2>1, <2>2, <3>1, <3>2
  <2>6. \A k \in itSteady' : k \in returned' \/ k \in Pending'
                             \/ KeyAhead(itDict', it'.table, it'.index, k)
    <3> SUFFICES ASSUME NEW k \in itSteady'
                 PROVE  k \in returned' \/ k \in Pending'
                        \/ KeyAhead(itDict', it'.table, it'.index, k)
      OBVIOUS
    <3>1. k \in itSteady /\ k \in KeysOf(itDict) /\ k \in KeysOf(itDict') /\ k \notin D
      BY <2>1 DEF UserStep, IterInv, IterType
    <3>2. k \in returned \/ k \in Pending \/ KeyAhead(itDict, it.table, it.index, k)
      BY <1>10, <3>1 DEF IterInv, IterProgress
    <3>3. returned' = returned \ D
      BY DEF UserStep
    <3> QED BY <1>2, <1>4, <2>2, <3>1, <3>2, <3>3
  <2> QED BY <1>5, <1>6, <1>7, <1>8, <2>3, <2>4, <2>5, <2>6
       DEF IterInv, IterPlaced, IterProgress
<1> QED BY <1>9, <1>10

\* The four things a user does between two calls of dictNext are such steps.
LEMMA UserKeeps ==
  ASSUME IterInv,
         \/ \E k \in Key : UserDelete(k)
         \/ \E k \in IterKey, v \in Val : UserAdd(k, v)
         \/ UserFind \/ UserResize
  PROVE  IterInv'
<1>1. /\ GoodDict(itDict) /\ it = [it EXCEPT !.rest = it.rest \ {}] /\ TRUE \in BOOLEAN
  BY DEF IterInv, IterType
<1>2. it.live /\ Started => itDict.iterators # 0
  BY DEF IterInv, IterType, CountBalanced
<1>3. it.live /\ Started /\ ~it.over => itDict.ht0.size # 0
  BY DEF IterInv, IterPlaced
<1>4. ASSUME NEW k \in Key, UserDelete(k) PROVE IterInv'
  <2>1. itDict' = dictDelete(itDict, k) /\ (Started => k = it.entry)
    BY <1>4 DEF UserDelete, UserBecomes
  <2>2. /\ GoodDict(itDict') /\ itDict'.iterators = itDict.iterators
        /\ AllEntries(itDict') = AllEntries(itDict) \ Bound(itDict, k)
    BY <1>1, <2>1, DeleteGood
  <2>3. KeysOf(itDict) \ {k} \subseteq KeysOf(itDict') /\ {k} \cap KeysOf(itDict') = {}
    BY <2>2 DEF KeysOf, Bound
  <2>4. it.live /\ Started /\ ~it.over => Stays(itDict, itDict')
    BY <1>1, <1>2, <2>1, DeleteStays
  <2>5. it.nextEntry \notin {k}
    BY <2>1, IterAssumption DEF IterInv, IterPlaced, IterIdle, Pending
  <2>6. UserStep({k})
    BY <1>4, <2>2, <2>3, <2>4, <2>5 DEF UserStep, UserDelete, UserBecomes
  <2> QED BY <2>6, UserStepKeeps
<1>5. ASSUME NEW k \in IterKey, NEW v \in Val, UserAdd(k, v) PROVE IterInv'
  <2>1. itDict' = dictAdd(itDict, k, v, TRUE) /\ k \notin KeysOf(itDict) /\ k \in Key
    BY <1>5, IterAssumption DEF UserAdd, UserBecomes
  <2>2. Bound(itDict, k) = {}
    BY <2>1 DEF Bound, KeysOf
  <2>3. /\ GoodDict(itDict') /\ itDict'.iterators = itDict.iterators
        /\ AllEntries(itDict) \subseteq AllEntries(itDict')
    BY <1>1, <2>1, <2>2, AddGood
  <2>4. KeysOf(itDict) \ {} \subseteq KeysOf(itDict') /\ {} \cap KeysOf(itDict') = {}
    BY <2>3 DEF KeysOf
  <2>5. it.live /\ Started /\ ~it.over => Stays(itDict, itDict')
    BY <1>1, <1>2, <1>3, <2>1, AddStays
  <2>6. UserStep({})
    BY <1>1, <1>5, <2>3, <2>4, <2>5 DEF UserStep, UserAdd, UserBecomes
  <2> QED BY <2>6, UserStepKeeps
<1>6. ASSUME NEW y, Same(y, itDict), it.live /\ Started /\ ~it.over => Stays(itDict, y),
             UserBecomes(y), UNCHANGED <<it, returned>>
      PROVE  IterInv'
  <2>1. itDict' = y /\ KeysOf(y) = KeysOf(itDict)
    BY <1>6 DEF UserBecomes, Same, KeysOf
  <2>2. UserStep({})
    BY <1>1, <1>6, <2>1 DEF UserStep, UserBecomes, Same
  <2> QED BY <2>2, UserStepKeeps
<1>7. ASSUME UserFind PROVE IterInv'
  <2>1. Same(AfterFind(itDict), itDict)
    BY <1>1, StepGood DEF AfterFind, Same
  <2>2. it.live /\ Started => Stays(itDict, AfterFind(itDict))
    BY <1>1, <1>2, StepSkipped DEF Stays
  <2> QED BY <1>6, <1>7, <2>1, <2>2 DEF UserFind
<1>8. ASSUME UserResize PROVE IterInv'
  <2>1. Same(dictResize(itDict, TRUE), itDict)
    BY <1>1, ResizeGood
  <2>2. it.live /\ Started /\ ~it.over => Stays(itDict, dictResize(itDict, TRUE))
    BY <1>1, <1>3, ResizeStays
  <2> QED BY <1>6, <1>8, <2>1, <2>2 DEF UserResize
<1> QED BY <1>4, <1>5, <1>7, <1>8

\* A bucket holds the keys of its table whose slot it is.
LEMMA BucketKeys ==
  ASSUME NEW t, GoodTable(t), NEW i \in 0..(t.size - 1), NEW k
  PROVE  k \in KeysIn(t.table[i]) <=> Holds(t, k) /\ Slot(t, k) = i
<1>1. IsTable(t) /\ Placed(t) /\ t.size \in Nat
  BY TableShape DEF GoodTable
<1>2. ASSUME NEW e \in t.table[i] PROVE e \in Entries(t) /\ Slot(t, e.key) = i
  BY <1>1, EntriesMember DEF Placed
<1>3. ASSUME NEW e \in Entries(t), Slot(t, e.key) = i PROVE e \in t.table[i]
  <2>1. PICK j \in 0..(t.size - 1) : e \in t.table[j]
    BY EntriesMember
  <2> QED BY <1>1, <1>3, <2>1 DEF Placed
<1> QED BY <1>2, <1>3 DEF KeysIn, Holds

\* Every key of a table is in one of its buckets.
LEMMA SlotInTable ==
  ASSUME NEW t, GoodTable(t), NEW k, Holds(t, k)
  PROVE  /\ Slot(t, k) \in 0..(t.size - 1) /\ t.size \in Nat
         /\ t.table[Slot(t, k)] # {}
<1>1. IsTable(t) /\ Placed(t) /\ t.size \in Nat
  BY TableShape DEF GoodTable
<1>2. PICK e \in Entries(t) : e.key = k
  BY DEF Holds
<1>3. PICK j \in 0..(t.size - 1) : e \in t.table[j]
  BY EntriesMember
<1> QED BY <1>1, <1>2, <1>3 DEF Placed

\* The buckets ahead of the iterator hold the keys ahead of it.
LEMMA AheadKeys ==
  ASSUME GoodDict(itDict), it.table \in {0, 1}, it.index \in Nat \cup {-1},
         it.table = 1 => dictIsRehashing(itDict)
  PROVE  /\ \A q \in Ahead :
              /\ q = <<q[1], q[2]>> /\ q[1] \in {0, 1} /\ q[2] \in Nat
              /\ Before(<<it.table, it.index>>, q)
              /\ ChainAt(q) # {}
              /\ \A k : k \in ChainAt(q) <=> KeyHere(itDict, q[1], q[2], k)
         /\ \A k : KeyAhead(itDict, it.table, it.index, k)
                     => \E q \in Ahead : KeyHere(itDict, q[1], q[2], k)
<1>1. /\ GoodTable(itDict.ht0) /\ GoodTable(itDict.ht1)
      /\ itDict.ht0.size \in Nat /\ itDict.ht1.size \in Nat
  BY TableShape DEF GoodDict, GoodTable
<1>2. ASSUME NEW q \in Ahead
      PROVE  /\ q = <<q[1], q[2]>> /\ q[1] \in {0, 1} /\ q[2] \in Nat
             /\ Before(<<it.table, it.index>>, q)
             /\ q[1] = 0 => q[2] \in 0..(itDict.ht0.size - 1) /\ itDict.ht0.table[q[2]] # {}
             /\ q[1] = 1 => q[2] \in 0..(itDict.ht1.size - 1) /\ itDict.ht1.table[q[2]] # {}
  <2> DEFINE here == IF it.table = 0 THEN itDict.ht0 ELSE itDict.ht1
  <2>0. here.size \in Nat
    BY <1>1
  <2>1. CASE \E i \in (it.index + 1)..(here.size - 1) :
               q = <<it.table, i>> /\ here.table[i] # {}
    <3>1. PICK i \in (it.index + 1)..(here.size - 1) :
                 q = <<it.table, i>> /\ here.table[i] # {}
      BY <2>1
    <3>2. i \in 0..(here.size - 1) /\ i > it.index /\ i \in Nat
      BY <2>0, <3>1
    <3> QED BY <3>1, <3>2 DEF Before
  <2>2. CASE it.table = 0 /\ \E i \in 0..(itDict.ht1.size - 1) :
                               q = <<1, i>> /\ itDict.ht1.table[i] # {}
    BY <1>1, <2>2 DEF Before
  <2> QED BY <1>2, <2>1, <2>2 DEF Ahead
<1>3. ASSUME NEW q \in Ahead, NEW k
      PROVE  k \in ChainAt(q) <=> KeyHere(itDict, q[1], q[2], k)
  BY <1>1, <1>2, BucketKeys DEF ChainAt, KeyHere
<1>4. ASSUME NEW q \in Ahead PROVE ChainAt(q) # {}
  BY <1>2 DEF ChainAt, KeysIn
<1>5. ASSUME NEW k, KeyAhead(itDict, it.table, it.index, k)
      PROVE  \E q \in Ahead : KeyHere(itDict, q[1], q[2], k)
  <2>1. CASE it.table = 0 /\ Holds(itDict.ht0, k) /\ Slot(itDict.ht0, k) > it.index
    <3> DEFINE i == Slot(itDict.ht0, k)
    <3>1. i \in 0..(itDict.ht0.size - 1) /\ itDict.ht0.table[i] # {}
      BY <1>1, <2>1, SlotInTable
    <3> HIDE DEF i
    <3>2. i \in (it.index + 1)..(itDict.ht0.size - 1)
      BY <1>1, <2>1, <3>1 DEF i
    <3>3. <<0, i>> \in Ahead
      BY <2>1, <3>1, <3>2 DEF Ahead
    <3> QED BY <2>1, <3>3 DEF KeyHere, i
  <2>2. CASE it.table = 0 /\ Holds(itDict.ht1, k)
    <3> DEFINE i == Slot(itDict.ht1, k)
    <3>1. /\ i \in 0..(itDict.ht1.size - 1) /\ itDict.ht1.table[i] # {}
          /\ dictIsRehashing(itDict)
      BY <1>1, <2>2, SlotInTable, KeyTables
    <3> HIDE DEF i
    <3>2. <<1, i>> \in Ahead
      BY <2>2, <3>1 DEF Ahead
    <3> QED BY <2>2, <3>2 DEF KeyHere, i
  <2>3. CASE it.table = 1 /\ Holds(itDict.ht1, k) /\ Slot(itDict.ht1, k) > it.index
    <3> DEFINE i == Slot(itDict.ht1, k)
    <3>1. i \in 0..(itDict.ht1.size - 1) /\ itDict.ht1.table[i] # {}
      BY <1>1, <2>3, SlotInTable
    <3> HIDE DEF i
    <3>2. i \in (it.index + 1)..(itDict.ht1.size - 1)
      BY <1>1, <2>3, <3>1 DEF i
    <3>3. <<1, i>> \in Ahead
      BY <2>3, <3>1, <3>2 DEF Ahead
    <3> QED BY <2>3, <3>3 DEF KeyHere, i
  <2> QED BY <1>5, <2>1, <2>2, <2>3 DEF KeyAhead
<1> QED BY <1>2, <1>3, <1>4, <1>5

\* The loop of dictNext stops at the first of them.
LEMMA NextBucketIsFirst ==
  ASSUME GoodDict(itDict), it.table \in {0, 1}, it.index \in Nat \cup {-1},
         it.table = 1 => dictIsRehashing(itDict), Ahead # {}
  PROVE  NextBucket \in Ahead /\ \A q \in Ahead : NextBucket = q \/ Before(NextBucket, q)
<1>1. \A q \in Ahead : q = <<q[1], q[2]>> /\ q[1] \in Nat /\ q[2] \in Nat
  BY AheadKeys
<1> DEFINE T == {q[1] : q \in Ahead}
           t == Least(T)
           J == {q[2] : q \in {r \in Ahead : r[1] = t}}
           j == Least(J)
<1>2. T \in SUBSET Nat /\ T # {}
  BY <1>1
<1>3. t \in T /\ \A s \in T : t <= s
  <2> HIDE DEF T
  <2> QED BY <1>2, LeastIsLeast
<1>4. J \in SUBSET Nat /\ J # {}
  BY <1>1, <1>3
<1>5. j \in J /\ \A s \in J : j <= s
  <2> HIDE DEF J
  <2> QED BY <1>4, LeastIsLeast
<1> HIDE DEF t, j
<1>6. PICK p \in Ahead : p[1] = t /\ p[2] = j
  BY <1>5
<1>7. ASSUME NEW q \in Ahead PROVE p = q \/ Before(p, q)
  <2>1. q[1] \in T /\ (q[1] = t => q[2] \in J)
    OBVIOUS
  <2>2. t <= q[1] /\ (q[1] = t => j <= q[2])
    BY <1>3, <1>5, <2>1
  <2>3. t < q[1] \/ (t = q[1] /\ j < q[2]) \/ (t = q[1] /\ j = q[2])
    BY <1>1, <1>6, <2>2
  <2> QED BY <1>1, <1>6, <2>3 DEF Before
<1> QED BY <1>6, <1>7 DEF NextBucket

\* d->iterators is no part of the tables.
SameTables(y, x) ==
  y.ht0 = x.ht0 /\ y.ht1 = x.ht1 /\ y.rehashidx = x.rehashidx
LEMMA TablesOnly ==
  ASSUME NEW x, NEW y, SameTables(y, x)
  PROVE  /\ KeysOf(y) = KeysOf(x) /\ (dictIsRehashing(y) <=> dictIsRehashing(x))
         /\ \A t, i, k : /\ KeyHere(y, t, i, k) <=> KeyHere(x, t, i, k)
                         /\ KeyAhead(y, t, i, k) <=> KeyAhead(x, t, i, k)
BY DEF SameTables, KeysOf, AllEntries, dictIsRehashing, KeyHere, KeyAhead
LEMMA CountChange ==
  ASSUME NEW x, GoodDict(x), NEW n \in Nat
  PROVE  LET y == [x EXCEPT !.iterators = n]
         IN  GoodDict(y) /\ SameTables(y, x) /\ y.iterators = n
<1> DEFINE y == [x EXCEPT !.iterators = n]
<1>1. SameTables(y, x) /\ y.iterators = n /\ IsDict(y)
  BY DEF GoodDict, IsDict, SameTables
<1> HIDE DEF y
<1>2. GoodDict(y)
  BY <1>1 DEF SameTables, GoodDict, KeysApart, RehashShape
<1> QED BY <1>1, <1>2 DEF y

\* The first dictNext counts the iterator, and takes note of the keys present.
LEMMA CountIteratorCounts ==
  ASSUME IterInv, it.live, CountIterator
  PROVE  /\ GoodDict(itDict') /\ SameTables(itDict', itDict) /\ itDict'.iterators = 1
         /\ itSteady' = IF Started THEN itSteady ELSE KeysOf(itDict)
<1>1. GoodDict(itDict) /\ itDict.iterators = IF Started THEN 1 ELSE 0
  BY DEF IterInv, IterType, CountBalanced
<1>2. CASE Started
  BY <1>1, <1>2 DEF CountIterator, SameTables
<1>3. CASE ~Started
  <2>1. itDict' = [itDict EXCEPT !.iterators = 1]
    BY <1>1, <1>3 DEF CountIterator
  <2>2. 1 \in Nat
    OBVIOUS
  <2>3. GoodDict(itDict') /\ SameTables(itDict', itDict) /\ itDict'.iterators = 1
    BY <1>1, <2>1, <2>2, CountChange
  <2> QED BY <1>3, <2>3 DEF CountIterator
<1> QED BY <1>2, <1>3

\* dictNext returns k of bucket i of table t, with the chain behind it saved.
LEMMA ReturnKeeps ==
  ASSUME IterInv, it.live, ~it.over, NEW t \in {0, 1}, NEW i \in Nat,
         NEW k \in Key, NEW behind \in SUBSET Key, k \notin behind,
         Return(k, behind, t, i), k \notin returned,
         GoodDict(itDict'), SameTables(itDict', itDict), itDict'.iterators = 1,
         itDict.ht0.size # 0, t = 1 => dictIsRehashing(itDict),
         \A q \in behind \cup {k} : KeyHere(itDict, t, i, q),
         \A q \in returned : q \notin behind /\ ~KeyAhead(itDict, t, i, q),
         itSteady' \subseteq KeysOf(itDict),
         \A q \in itSteady' : q \in returned \/ q \in behind \/ q = k
                              \/ KeyAhead(itDict, t, i, q)
  PROVE  IterInv'
<1> DEFINE I == [live : BOOLEAN, table : {0, 1}, index : Nat \cup {-1},
                 entry : Key \cup {NoEntry}, nextEntry : Key \cup {NoEntry},
                 rest : SUBSET Key, over : BOOLEAN]
<1>1. PICK n \in IF behind = {} THEN {NoEntry} ELSE behind :
        /\ it' = [it EXCEPT !.entry = k, !.nextEntry = n, !.rest = behind \ {n},
                            !.table = t, !.index = i]
        /\ returned' = returned \cup {k} /\ twice' = (twice \/ k \in returned)
  BY DEF Return
<1>2. it \in I /\ ~twice /\ n \in Key \cup {NoEntry} /\ NoEntry \notin Key
  BY IterAssumption DEF IterInv, IterType, IterProgress
<1>3. /\ it' \in I /\ it'.entry = k /\ it'.nextEntry = n /\ it'.rest = behind \ {n}
      /\ it'.table = t /\ it'.index = i /\ it'.live /\ ~it'.over /\ ~twice'
  BY <1>1, <1>2
<1>4. Started'
  BY <1>3 DEF Started
<1>5. Pending' = behind
  BY <1>1, <1>2, <1>3 DEF Pending
<1>6. /\ KeysOf(itDict') = KeysOf(itDict)
      /\ dictIsRehashing(itDict') <=> dictIsRehashing(itDict)
      /\ \A q : /\ KeyHere(itDict', t, i, q) <=> KeyHere(itDict, t, i, q)
                /\ KeyAhead(itDict', t, i, q) <=> KeyAhead(itDict, t, i, q)
      /\ itDict'.ht0.size # 0
  BY TablesOnly DEF SameTables
<1>7. GoodDict(itDict) /\ returned \subseteq KeysOf(itDict)
  BY DEF IterInv, IterType
<1>8. k \in KeysOf(itDict) /\ ~KeyAhead(itDict, t, i, k)
  <2>1. KeyHere(itDict, t, i, k)
    OBVIOUS
  <2>2. /\ k \in KeysOf(itDict) <=> Holds(itDict.ht0, k) \/ Holds(itDict.ht1, k)
        /\ ~(Holds(itDict.ht0, k) /\ Holds(itDict.ht1, k))
    BY <1>7, KeyTables
  <2> QED BY <2>1, <2>2 DEF KeyHere, KeyAhead
<1>9. IterType'
  <2>1. CountBalanced'
    BY <1>3, <1>4 DEF CountBalanced
  <2>2. returned' \subseteq KeysOf(itDict') /\ itSteady' \subseteq KeysOf(itDict')
    BY <1>1, <1>6, <1>7, <1>8
  <2>3. it'.index # -1
    BY <1>3
  <2> QED BY <1>3, <2>1, <2>2, <2>3 DEF IterType
<1>10. IterIdle'
  BY <1>3, <1>4 DEF IterIdle
<1>11. IterPlaced'
  <2>1. it'.nextEntry = NoEntry => it'.rest = {}
    BY <1>1, <1>2, <1>3
  <2>2. it'.nextEntry \notin it'.rest /\ it'.entry \notin Pending'
    BY <1>3, <1>5
  <2>3. \A q \in Pending' : KeyHere(itDict', it'.table, it'.index, q)
    BY <1>3, <1>5, <1>6
  <2> QED BY <1>3, <1>6, <2>1, <2>2, <2>3 DEF IterPlaced
<1>12. IterProgress'
  <2>1. \A q \in returned' : q \notin Pending' /\ ~KeyAhead(itDict', it'.table, it'.index, q)
    BY <1>1, <1>3, <1>5, <1>6, <1>8
  <2>2. \A q \in itSteady' : q \in returned' \/ q \in Pending'
                             \/ KeyAhead(itDict', it'.table, it'.index, q)
    BY <1>1, <1>3, <1>5, <1>6
  <2> QED BY <1>3, <2>1, <2>2 DEF IterProgress
<1> QED BY <1>9, <1>10, <1>11, <1>12 DEF IterInv

\* dictNext along the chain.
LEMMA InChainKeeps ==
  ASSUME IterInv, dictNextInChain
  PROVE  IterInv'
<1>1. /\ it.live /\ ~it.over /\ it.nextEntry # NoEntry
      /\ Return(it.nextEntry, it.rest, it.table, it.index)
      /\ itDict' = itDict /\ itSteady' = itSteady
  BY DEF dictNextInChain
<1>2. Started /\ Pending = it.rest \cup {it.nextEntry} /\ it.nextEntry \notin it.rest
  BY <1>1 DEF IterInv, IterIdle, IterPlaced, Pending
<1>3. /\ it.table \in {0, 1} /\ it.index \in Nat /\ it.nextEntry \in Key
      /\ it.rest \in SUBSET Key /\ GoodDict(itDict) /\ itSteady \subseteq KeysOf(itDict)
      /\ itDict.iterators = 1
  <2>1. it.table \in {0, 1} /\ it.index \in Nat \cup {-1} /\ it.nextEntry \in Key \cup {NoEntry}
        /\ it.rest \in SUBSET Key /\ (it.index = -1 => it.table = 0)
    BY DEF IterInv, IterType
  <2>2. it.index # -1
    BY <1>2, <2>1 DEF Started
  <2> QED BY <1>1, <1>2, <2>1, <2>2 DEF IterInv, IterType, CountBalanced
<1>4. /\ itDict.ht0.size # 0 /\ (it.table = 1 => dictIsRehashing(itDict))
      /\ \A k \in Pending : KeyHere(itDict, it.table, it.index, k)
  BY <1>1, <1>2 DEF IterInv, IterPlaced
<1>5. /\ \A k \in returned : k \notin Pending /\ ~KeyAhead(itDict, it.table, it.index, k)
      /\ \A k \in itSteady : k \in returned \/ k \in Pending
                             \/ KeyAhead(itDict, it.table, it.index, k)
  BY <1>1, <1>2 DEF IterInv, IterProgress
<1>6. SameTables(itDict, itDict)
  BY DEF SameTables
<1> QED BY <1>1, <1>2, <1>3, <1>4, <1>5, <1>6, ReturnKeeps

\* What is ahead of an iterator that is at the end of a chain, or not started.
LEMMA AtChainEnd ==
  ASSUME IterInv, it.live, ~it.over, it.nextEntry = NoEntry, CountIterator
  PROVE  /\ GoodDict(itDict) /\ it.table \in {0, 1} /\ it.index \in Nat \cup {-1}
         /\ it.table = 1 => dictIsRehashing(itDict)
         /\ itSteady' \subseteq KeysOf(itDict)
         /\ \A k \in returned : ~KeyAhead(itDict, it.table, it.index, k)
         /\ \A k \in itSteady' : k \in returned \/ KeyAhead(itDict, it.table, it.index, k)
<1>1. /\ GoodDict(itDict) /\ it.table \in {0, 1} /\ it.index \in Nat \cup {-1}
      /\ itSteady \subseteq KeysOf(itDict)
  BY DEF IterInv, IterType
<1>2. itSteady' = IF Started THEN itSteady ELSE KeysOf(itDict)
  BY DEF CountIterator
<1>3. CASE Started
  <2>1. Pending = {}
    BY DEF IterInv, IterPlaced, Pending
  <2> QED BY <1>1, <1>2, <1>3, <2>1 DEF IterInv, IterPlaced, IterProgress
<1>4. CASE ~Started
  <2>1. it.table = 0 /\ it.index = -1 /\ returned = {}
    BY <1>4 DEF Started, IterInv, IterIdle
  <2>2. ASSUME NEW k \in KeysOf(itDict) PROVE KeyAhead(itDict, 0, -1, k)
    <3>1. Holds(itDict.ht0, k) \/ Holds(itDict.ht1, k)
      BY <1>1, KeyTables
    <3>2. Holds(itDict.ht0, k) => Slot(itDict.ht0, k) > -1
      BY <1>1, SlotInTable DEF GoodDict
    <3> QED BY <3>1, <3>2 DEF KeyAhead
  <2> QED BY <1>1, <1>2, <1>4, <2>1, <2>2
<1> QED BY <1>3, <1>4

\* dictNext to the next bucket.
LEMMA NextBucketKeeps ==
  ASSUME IterInv, dictNextBucket
  PROVE  IterInv'
<1> DEFINE p == NextBucket
<1>1. it.live /\ ~it.over /\ it.nextEntry = NoEntry /\ Ahead # {} /\ CountIterator
  BY DEF dictNextBucket
<1>2. PICK k \in ChainAt(p) : Return(k, ChainAt(p) \ {k}, p[1], p[2])
  BY DEF dictNextBucket
<1>3. /\ GoodDict(itDict) /\ it.table \in {0, 1} /\ it.index \in Nat \cup {-1}
      /\ it.table = 1 => dictIsRehashing(itDict)
      /\ itSteady' \subseteq KeysOf(itDict)
      /\ \A q \in returned : ~KeyAhead(itDict, it.table, it.index, q)
      /\ \A q \in itSteady' : q \in returned \/ KeyAhead(itDict, it.table, it.index, q)
  BY <1>1, AtChainEnd
<1>4. /\ \A q \in Ahead :
              /\ q = <<q[1], q[2]>> /\ q[1] \in {0, 1} /\ q[2] \in Nat
              /\ Before(<<it.table, it.index>>, q)
              /\ \A r : r \in ChainAt(q) <=> KeyHere(itDict, q[1], q[2], r)
      /\ \A r : KeyAhead(itDict, it.table, it.index, r)
                     => \E q \in Ahead : KeyHere(itDict, q[1], q[2], r)
  BY <1>3, AheadKeys
<1>5. p \in Ahead /\ \A q \in Ahead : p = q \/ Before(p, q)
  BY <1>1, <1>3, NextBucketIsFirst
<1> HIDE DEF p
<1>6. /\ p[1] \in {0, 1} /\ p[2] \in Nat /\ Before(<<it.table, it.index>>, p)
      /\ \A r : r \in ChainAt(p) <=> KeyHere(itDict, p[1], p[2], r)
  BY <1>4, <1>5
<1>7. \A r \in ChainAt(p) : r \in Key /\ itDict.ht0.size # 0
  BY <1>3, <1>6, KeyTables, SizeZero DEF KeyHere, Holds, AllEntries
<1>8. ASSUME NEW r, KeyAhead(itDict, it.table, it.index, r)
      PROVE  r \in ChainAt(p) \/ KeyAhead(itDict, p[1], p[2], r)
  <2>1. PICK q \in Ahead : KeyHere(itDict, q[1], q[2], r)
    BY <1>4, <1>8
  <2>2. CASE p = q
    BY <1>6, <2>1, <2>2
  <2>3. CASE Before(p, q)
    <3>1. q[1] \in {0, 1} /\ q[2] \in Nat
      BY <1>4
    <3> QED BY <1>6, <2>1, <2>3, <3>1 DEF Before, KeyHere, KeyAhead
  <2> QED BY <1>5, <2>2, <2>3
<1>9. ASSUME NEW r, KeyHere(itDict, p[1], p[2], r) \/ KeyAhead(itDict, p[1], p[2], r)
      PROVE  KeyAhead(itDict, it.table, it.index, r)
  <2>1. it.table < p[1] \/ (it.table = p[1] /\ it.index < p[2])
    BY <1>6 DEF Before
  <2>2. /\ Holds(itDict.ht0, r) => Slot(itDict.ht0, r) \in Nat
        /\ Holds(itDict.ht1, r) => Slot(itDict.ht1, r) \in Nat
    BY <1>3, SlotInTable DEF GoodDict
  <2>3. CASE it.table = 0 /\ p[1] = 1
    BY <1>9, <2>3 DEF KeyHere, KeyAhead
  <2>4. CASE it.table = p[1] /\ it.index < p[2]
    BY <1>3, <1>6, <1>9, <2>2, <2>4 DEF KeyHere, KeyAhead
  <2> QED BY <1>3, <1>6, <2>1, <2>3, <2>4
<1>10. /\ \A q \in ChainAt(p) : KeyHere(itDict, p[1], p[2], q) /\ q \notin returned
       /\ \A q \in returned : ~KeyAhead(itDict, p[1], p[2], q)
       /\ \A q \in itSteady' : q \in returned \/ q \in ChainAt(p) \ {k} \/ q = k
                               \/ KeyAhead(itDict, p[1], p[2], q)
  BY <1>3, <1>6, <1>8, <1>9
<1>11. p[1] = 1 => dictIsRehashing(itDict)
  BY <1>2, <1>3, <1>6, KeyTables DEF KeyHere
<1>12. GoodDict(itDict') /\ SameTables(itDict', itDict) /\ itDict'.iterators = 1
  BY <1>1, CountIteratorCounts
<1> DEFINE behind == ChainAt(p) \ {k}
<1>13. behind \in SUBSET Key /\ k \in Key /\ k \notin behind /\ itDict.ht0.size # 0
       /\ k \notin returned
  BY <1>2, <1>7, <1>10
<1>14. /\ \A q \in behind \cup {k} : KeyHere(itDict, p[1], p[2], q)
       /\ \A q \in returned : q \notin behind /\ ~KeyAhead(itDict, p[1], p[2], q)
  BY <1>2, <1>10
<1>15. Return(k, behind, p[1], p[2])
  BY <1>2
<1>16. \A q \in itSteady' : q \in returned \/ q \in behind \/ q = k
                            \/ KeyAhead(itDict, p[1], p[2], q)
  BY <1>10
<1> HIDE DEF behind
<1> QED BY <1>1, <1>3, <1>6, <1>11, <1>12, <1>13, <1>14, <1>15, <1>16, ReturnKeeps

\* dictNext at the end.
LEMMA OverKeeps ==
  ASSUME IterInv, dictNextOver
  PROVE  IterInv'
<1> DEFINE I == [live : BOOLEAN, table : {0, 1}, index : Nat \cup {-1},
                 entry : Key \cup {NoEntry}, nextEntry : Key \cup {NoEntry},
                 rest : SUBSET Key, over : BOOLEAN]
           tab == IF dictIsRehashing(itDict) THEN 1 ELSE it.table
           idx == IF dictIsRehashing(itDict) THEN itDict.ht1.size
                  ELSE IF it.table = 0 THEN itDict.ht0.size ELSE itDict.ht1.size
<1>1. /\ it.live /\ ~it.over /\ it.nextEntry = NoEntry /\ Ahead = {} /\ CountIterator
      /\ returned' = returned /\ twice' = twice
      /\ it' = [it EXCEPT !.over = TRUE, !.entry = NoEntry, !.table = tab, !.index = idx]
  BY DEF dictNextOver
<1>2. /\ GoodDict(itDict) /\ it.table \in {0, 1} /\ it.index \in Nat \cup {-1}
      /\ it.table = 1 => dictIsRehashing(itDict)
      /\ itSteady' \subseteq KeysOf(itDict)
      /\ \A q \in itSteady' : q \in returned \/ KeyAhead(itDict, it.table, it.index, q)
  BY <1>1, AtChainEnd
<1>3. itSteady' \subseteq returned
  BY <1>1, <1>2, AheadKeys
<1>4. it \in I /\ tab \in {0, 1} /\ idx \in Nat
  BY <1>2, TableShape DEF IterInv, IterType, GoodDict, GoodTable
<1> HIDE DEF tab, idx
<1>5. /\ it' \in I /\ it'.over /\ it'.live /\ it'.entry = NoEntry /\ it'.index = idx
      /\ it'.nextEntry = NoEntry /\ it'.rest = it.rest
  BY <1>1, <1>4
<1>6. /\ GoodDict(itDict') /\ itDict'.iterators = 1 /\ KeysOf(itDict') = KeysOf(itDict)
  BY <1>1, CountIteratorCounts, TablesOnly
<1>7. Started' /\ it'.index # -1
  BY <1>4, <1>5 DEF Started
<1>8. it'.rest = {} /\ Pending' = {} /\ returned \subseteq KeysOf(itDict) /\ ~twice
  BY <1>1, <1>5 DEF IterInv, IterPlaced, IterType, IterProgress, Pending
<1>9. IterType'
  BY <1>1, <1>2, <1>5, <1>6, <1>7, <1>8 DEF IterType, CountBalanced
<1> QED BY <1>1, <1>3, <1>5, <1>7, <1>8, <1>9
         DEF IterInv, IterIdle, IterPlaced, IterProgress

\* dictReleaseIterator gives the count back, if the iterator was counted.
LEMMA ReleaseKeeps ==
  ASSUME IterInv, dictReleaseIterator
  PROVE  IterInv'
<1> DEFINE I == [live : BOOLEAN, table : {0, 1}, index : Nat \cup {-1},
                 entry : Key \cup {NoEntry}, nextEntry : Key \cup {NoEntry},
                 rest : SUBSET Key, over : BOOLEAN]
<1>1. /\ it.live /\ itSteady' = {} /\ returned' = {} /\ twice' = twice
      /\ itDict' = IF Started THEN [itDict EXCEPT !.iterators = itDict.iterators - 1] ELSE itDict
      /\ it' = [it EXCEPT !.live = FALSE, !.over = FALSE, !.table = 0, !.index = -1,
                          !.entry = NoEntry, !.nextEntry = NoEntry, !.rest = {}]
  BY DEF dictReleaseIterator
<1>2. GoodDict(itDict) /\ itDict.iterators = (IF Started THEN 1 ELSE 0) /\ it \in I /\ ~twice
  BY <1>1 DEF IterInv, IterType, CountBalanced, IterProgress
<1>3. GoodDict(itDict') /\ itDict'.iterators = 0
  <2>1. Started => itDict' = [itDict EXCEPT !.iterators = 0]
    BY <1>1, <1>2
  <2>2. 0 \in Nat
    OBVIOUS
  <2> QED BY <1>1, <1>2, <2>1, <2>2, CountChange
<1>4. /\ it' \in I /\ ~it'.live /\ ~it'.over /\ it'.table = 0 /\ it'.index = -1
      /\ it'.entry = NoEntry /\ it'.nextEntry = NoEntry /\ it'.rest = {}
  BY <1>1, <1>2
<1>5. ~Started' /\ Pending' = {}
  BY <1>4 DEF Started, Pending
<1> QED BY <1>1, <1>2, <1>3, <1>4, <1>5
         DEF IterInv, IterType, CountBalanced, IterIdle, IterPlaced, IterProgress

\* dictGetSafeIterator
LEMMA GetIteratorKeeps ==
  ASSUME IterInv, dictGetSafeIterator
  PROVE  IterInv'
<1>1. /\ ~it.live /\ it' = NewIterator /\ returned' = {} /\ twice' = twice
      /\ itSteady' = KeysOf(itDict) /\ itDict' = itDict
  BY DEF dictGetSafeIterator
<1>2. GoodDict(itDict) /\ itDict.iterators = 0 /\ ~twice
  BY <1>1 DEF IterInv, IterType, CountBalanced, IterProgress
<1>3. /\ it'.live /\ ~it'.over /\ it'.table = 0 /\ it'.index = -1
      /\ it'.entry = NoEntry /\ it'.nextEntry = NoEntry /\ it'.rest = {}
      /\ it' \in [live : BOOLEAN, table : {0, 1}, index : Nat \cup {-1},
                  entry : Key \cup {NoEntry}, nextEntry : Key \cup {NoEntry},
                  rest : SUBSET Key, over : BOOLEAN]
  BY <1>1 DEF NewIterator
<1>4. ~Started' /\ Pending' = {}
  BY <1>3 DEF Started, Pending
<1> QED BY <1>1, <1>2, <1>3, <1>4
         DEF IterInv, IterType, CountBalanced, IterIdle, IterPlaced, IterProgress

LEMMA IterInitially ==
  ASSUME IterInit
  PROVE  IterInv
<1>1. it = [live |-> FALSE, table |-> 0, index |-> -1, entry |-> NoEntry,
            nextEntry |-> NoEntry, rest |-> {}, over |-> FALSE]
  BY DEF IterInit, NewIterator
<1>2. ~Started /\ Pending = {}
  BY <1>1 DEF Started, Pending
<1>3. GoodDict(itDict) /\ itDict.iterators = 0
  BY NewDictGood DEF IterInit
<1>4. ~twice /\ returned = {} /\ itSteady = {}
  BY DEF IterInit
<1>5. /\ it.live \in BOOLEAN /\ ~it.live /\ ~it.over /\ it.nextEntry = NoEntry
      /\ it.rest = {} /\ it.table = 0 /\ it.index = -1 /\ it.entry = NoEntry
      /\ it \in [live : BOOLEAN, table : {0, 1}, index : Nat \cup {-1},
                 entry : Key \cup {NoEntry}, nextEntry : Key \cup {NoEntry},
                 rest : SUBSET Key, over : BOOLEAN]
  BY <1>1
<1>6. IterType
  BY <1>2, <1>3, <1>4, <1>5 DEF IterType, CountBalanced
<1> QED BY <1>2, <1>4, <1>5, <1>6
         DEF IterInv, IterIdle, IterPlaced, IterProgress

\* A safe iteration over a dict that its user changes is exact: the successor it
\* saved is never freed under it, no key is returned twice, a key that was there
\* all the time is returned, and d->iterators is right, whatever the hash
\* function does to the chains and whenever a rehash starts.
THEOREM SafeIterationIsExact == IterSpec => []IterationExact
<1>1. IterInit => IterInv
  BY IterInitially
<1>2. IterInv /\ [IterNext]_itvars => IterInv'
  <2> SUFFICES ASSUME IterInv, [IterNext]_itvars PROVE IterInv'
    OBVIOUS
  <2>1. CASE IterNext
    BY <2>1, UserKeeps, GetIteratorKeeps, ReleaseKeeps, InChainKeeps, NextBucketKeeps,
       OverKeeps DEF IterNext
  <2>2. CASE UNCHANGED itvars
    BY <2>2 DEF itvars, IterInv, IterType, CountBalanced, IterIdle, IterPlaced,
       IterProgress, Pending, Started, KeyHere, KeyAhead
  <2> QED BY <2>1, <2>2
<1>3. IterInv => IterationExact
  <2> SUFFICES ASSUME IterInv PROVE IterationExact
    OBVIOUS
  <2>1. SuccessorLives
    <3> SUFFICES ASSUME it.nextEntry # NoEntry PROVE it.nextEntry \in KeysOf(itDict)
      BY DEF SuccessorLives
    <3>1. it.live /\ Started /\ ~it.over /\ it.nextEntry \in Pending
      BY DEF IterInv, IterIdle, IterProgress, Pending
    <3>2. KeyHere(itDict, it.table, it.index, it.nextEntry) /\ GoodDict(itDict)
      BY <3>1 DEF IterInv, IterPlaced, IterType
    <3> QED BY <3>2, KeyTables DEF KeyHere
  <2> QED BY <2>1 DEF IterationExact, NeverTwice, NeverMissed, CountBalanced, IterInv,
                      IterType, IterProgress
<1> QED BY <1>1, <1>2, <1>3, PTL DEF IterSpec
=============================================================================
