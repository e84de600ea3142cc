------------------------- MODULE TransactionsProofs --------------------------
(***************************************************************************)
(* The watch tables of the clients and the databases agree, references are *)
(* counted exactly and EXEC is refused exactly when it has to be, for any  *)
(* clients, databases, keys, objects and requests.                         *)
(*                                                                         *)
(* A reference is a pair of who holds it and the object held.  Between two *)
(* steps of a request, ref counts a set R of references: at rest that is   *)
(* Refs(t), inside a request the arguments count as well, and what is      *)
(* being let go of no longer does although the lists still name it.        *)
(***************************************************************************)
EXTENDS Transactions, ListFacts

Flags == {MULTI, DIRTY_CAS, DIRTY_EXEC}
Watch == [key : Obj, db : Db]
ArgvType == Seq(Obj)
ClientRec == [live : BOOLEAN, db : Db, flags : SUBSET Flags, watched : Seq(Watch), commands : Seq(ArgvType)]
Entry == [key : Obj, clients : Seq(Client)]
Table == UNION {[K -> Entry] : K \in SUBSET Name}
State == [client : [Client -> ClientRec], watched : [Db -> Table], ref : [Obj -> Nat],
          name : [Obj -> Name \cup {Nobody}], panic : {FALSE}]

\* References
ListRef(c, i, o) == <<<<"list", c, i>>, o>>
TableRef(d, k, o) == <<<<"table", d, k>>, o>>
QueueRef(c, i, j, o) == <<<<"queue", c, <<i, j>>>>, o>>
ArgRef(i, o) == <<<<"arg", i, i>>, o>>

Lists(x) == UNION {{ListRef(c, i, x.client[c].watched[i].key) : i \in DOMAIN x.client[c].watched} : c \in Client}
Tables(x) == UNION {{TableRef(d, k, x.watched[d][k].key) : k \in DOMAIN x.watched[d]} : d \in Db}
Queues(x) == UNION {UNION {{QueueRef(c, i, j, x.client[c].commands[i][j]) : j \in DOMAIN x.client[c].commands[i]}
                             : i \in DOMAIN x.client[c].commands} : c \in Client}
Refs(x) == Lists(x) \cup Tables(x) \cup Queues(x)

Of(R, o) == {g \in R : g[2] = o}
Held(R, o) == \E g \in R : g[2] = o

\* The counts are those of R, and what is referred to is alive.
Counted(x, R) ==
  \A o \in Obj : /\ IsFiniteSet(Of(R, o)) /\ x.ref[o] = Cardinality(Of(R, o))
                 /\ Held(R, o) => x.name[o] \in Name

\* The list of c from its n-th element on holds the pairs of P, each once.
Pair(x, c, i) == <<x.client[c].watched[i].db, x.name[x.client[c].watched[i].key]>>
Listed(x, c, n, P) ==
  /\ \A i \in DOMAIN x.client[c].watched : i > n => Pair(x, c, i) \in P
  /\ \A p \in P : \E i \in DOMAIN x.client[c].watched : i > n /\ Pair(x, c, i) = p
  /\ \A i, j \in DOMAIN x.client[c].watched : i > n /\ j > n /\ Pair(x, c, i) = Pair(x, c, j) => i = j

\* The tables hold the pairs of A, under their names.
EntryOk(x, A, d, k) ==
  /\ x.name[x.watched[d][k].key] = k /\ Distinct(x.watched[d][k].clients)
  /\ \A c \in Client : c \in ToSet(x.watched[d][k].clients) <=> <<d, k>> \in A[c]
Tabled(x, A) ==
  \A d \in Db : \A k \in Name :
    /\ k \in DOMAIN x.watched[d] <=> \E c \in Client : <<d, k>> \in A[c]
    /\ k \in DOMAIN x.watched[d] => EntryOk(x, A, d, k)

AskedType == [Client -> SUBSET (Db \X Name)]

\* The data between two requests: A is what the clients have asked for.
Rest(x, A) ==
  /\ x \in State /\ Counted(x, Refs(x)) /\ Tabled(x, A)
  /\ \A c \in Client : Listed(x, c, 0, A[c])

DeadAreEmpty(x) == \A c \in Client : ~x.client[c].live => x.client[c] = NoClient

TransInv ==
  /\ asked \in AskedType /\ keys \in [Db -> SUBSET Name] /\ stale \in AskedType
  /\ Rest(t, asked) /\ DeadAreEmpty(t) /\ AbortsRightly

-----------------------------------------------------------------------------
(* References.                                                             *)

LEMMA RefFacts ==
  /\ \A c, i, o, c2, i2, o2 : ListRef(c, i, o) = ListRef(c2, i2, o2) <=> c = c2 /\ i = i2 /\ o = o2
  /\ \A d, k, o, d2, k2, o2 : TableRef(d, k, o) = TableRef(d2, k2, o2) <=> d = d2 /\ k = k2 /\ o = o2
  /\ \A c, i, j, o, c2, i2, j2, o2 :
       QueueRef(c, i, j, o) = QueueRef(c2, i2, j2, o2) <=> c = c2 /\ i = i2 /\ j = j2 /\ o = o2
  /\ \A i, o, i2, o2 : ArgRef(i, o) = ArgRef(i2, o2) <=> i = i2 /\ o = o2
BY DEF ListRef, TableRef, QueueRef, ArgRef

LEMMA RefKinds ==
  /\ \A c, i, o, d, k, p : ListRef(c, i, o) # TableRef(d, k, p)
  /\ \A c, i, o, c2, i2, j2, p : ListRef(c, i, o) # QueueRef(c2, i2, j2, p)
  /\ \A c, i, o, j, p : ListRef(c, i, o) # ArgRef(j, p)
  /\ \A d, k, o, c2, i2, j2, p : TableRef(d, k, o) # QueueRef(c2, i2, j2, p)
  /\ \A d, k, o, j, p : TableRef(d, k, o) # ArgRef(j, p)
  /\ \A c, i, j, o, i2, p : QueueRef(c, i, j, o) # ArgRef(i2, p)
BY DEF ListRef, TableRef, QueueRef, ArgRef

LEMMA RefObject ==
  /\ \A c, i, o : ListRef(c, i, o)[2] = o
  /\ \A d, k, o : TableRef(d, k, o)[2] = o
  /\ \A c, i, j, o : QueueRef(c, i, j, o)[2] = o
  /\ \A i, o : ArgRef(i, o)[2] = o
BY DEF ListRef, TableRef, QueueRef, ArgRef

LEMMA RefMembers ==
  ASSUME NEW x, NEW g
  PROVE  /\ g \in Lists(x) <=> \E c \in Client : \E i \in DOMAIN x.client[c].watched :
                                 g = ListRef(c, i, x.client[c].watched[i].key)
         /\ g \in Tables(x) <=> \E d \in Db : \E k \in DOMAIN x.watched[d] :
                                 g = TableRef(d, k, x.watched[d][k].key)
         /\ g \in Queues(x) <=> \E c \in Client : \E i \in DOMAIN x.client[c].commands :
                                 \E j \in DOMAIN x.client[c].commands[i] :
                                   g = QueueRef(c, i, j, x.client[c].commands[i][j])
         /\ g \in Refs(x) <=> g \in Lists(x) \/ g \in Tables(x) \/ g \in Queues(x)
BY DEF Lists, Tables, Queues, Refs

LEMMA HeldOf ==
  ASSUME NEW R, NEW o
  PROVE  Held(R, o) <=> Of(R, o) # {}
BY DEF Held, Of

-----------------------------------------------------------------------------
(* Counting.                                                               *)

LEMMA OfAdd ==
  ASSUME NEW R, NEW g, g \notin R, NEW o
  PROVE  /\ g[2] = o => Of(R \cup {g}, o) = Of(R, o) \cup {g} /\ g \notin Of(R, o)
         /\ g[2] # o => Of(R \cup {g}, o) = Of(R, o)
BY DEF Of

LEMMA OfRemove ==
  ASSUME NEW R, NEW g \in R, NEW o
  PROVE  /\ g[2] = o => Of(R \ {g}, o) = Of(R, o) \ {g} /\ g \in Of(R, o)
         /\ g[2] # o => Of(R \ {g}, o) = Of(R, o)
BY DEF Of

\* y is x after the references S were dropped from R.
Drops(x, y, R, S) ==
  /\ y \in State /\ y.client = x.client /\ y.watched = x.watched
  /\ Counted(y, R \ S)
  /\ \A o \in Obj : Held(R \ S, o) => y.name[o] = x.name[o]

\* y is x after the references S were added to R.
Takes(x, y, R, S) ==
  /\ y \in State /\ y.client = x.client /\ y.watched = x.watched /\ y.name = x.name
  /\ Counted(y, R \cup S)

LEMMA DropsSelf ==
  ASSUME NEW x \in State, NEW R, Counted(x, R)
  PROVE  Drops(x, x, R, {})
<1>1. R \ {} = R
  OBVIOUS
<1> QED BY <1>1 DEF Drops

LEMMA DropsTrans ==
  ASSUME NEW x, NEW y, NEW z, NEW R, NEW S, NEW T, Drops(x, y, R, S), Drops(y, z, R \ S, T)
  PROVE  Drops(x, z, R, S \cup T)
<1>1. (R \ S) \ T = R \ (S \cup T)
  OBVIOUS
<1>2. ASSUME NEW o \in Obj, Held(R \ (S \cup T), o) PROVE Held(R \ S, o)
  BY <1>2 DEF Held
<1> QED BY <1>1, <1>2 DEF Drops

LEMMA TakesSelf ==
  ASSUME NEW x \in State, NEW R, Counted(x, R)
  PROVE  Takes(x, x, R, {})
<1>1. R \cup {} = R
  OBVIOUS
<1> QED BY <1>1 DEF Takes

LEMMA TakesTrans ==
  ASSUME NEW x, NEW y, NEW z, NEW R, NEW S, NEW T, Takes(x, y, R, S), Takes(y, z, R \cup S, T)
  PROVE  Takes(x, z, R, S \cup T)
<1>1. (R \cup S) \cup T = R \cup (S \cup T)
  OBVIOUS
<1> QED BY <1>1 DEF Takes

LEMMA IncrTakes ==
  ASSUME NEW x \in State, NEW R, Counted(x, R), NEW g, g \notin R, NEW o \in Obj, g[2] = o,
         x.name[o] \in Name
  PROVE  Takes(x, incrRefCount(x, o), R, {g})
<1> DEFINE y == incrRefCount(x, o)
           Q == R \cup {g}
<1>1. /\ x.ref \in [Obj -> Nat] /\ y.ref = [x.ref EXCEPT ![o] = @ + 1]
      /\ y.client = x.client /\ y.watched = x.watched /\ y.name = x.name /\ y \in State
  <2> DEFINE r == [x.ref EXCEPT ![o] = @ + 1]
  <2>1. /\ x.ref \in [Obj -> Nat] /\ x.name \in [Obj -> Name \cup {Nobody}] /\ r \in [Obj -> Nat]
    BY DEF State
  <2>2. y = [x EXCEPT !.ref = r]
    BY DEF incrRefCount
  <2> HIDE DEF r, y
  <2>3. /\ y.client = x.client /\ y.watched = x.watched /\ y.name = x.name /\ y \in State /\ y.ref = r
    BY <2>1, <2>2 DEF State
  <2> QED BY <2>1, <2>3 DEF r
<1> HIDE DEF y
<1>2. ASSUME NEW p \in Obj
      PROVE  /\ IsFiniteSet(Of(Q, p)) /\ y.ref[p] = Cardinality(Of(Q, p))
             /\ Held(Q, p) => y.name[p] \in Name
  <2>1. IsFiniteSet(Of(R, p)) /\ x.ref[p] = Cardinality(Of(R, p)) /\ (Held(R, p) => x.name[p] \in Name)
    BY DEF Counted
  <2>2. CASE p = o
    <3>1. Of(Q, p) = Of(R, p) \cup {g} /\ g \notin Of(R, p)
      BY <2>2, OfAdd
    <3>2. IsFiniteSet(Of(Q, p)) /\ Cardinality(Of(Q, p)) = Cardinality(Of(R, p)) + 1
      <4> HIDE DEF Q
      <4> QED BY <2>1, <3>1, FS_AddElement
    <3> QED BY <1>1, <2>1, <2>2, <3>2
  <2>3. CASE p # o
    <3>1. Of(Q, p) = Of(R, p)
      BY <2>3, OfAdd
    <3>2. Held(Q, p) => Held(R, p)
      BY <3>1, HeldOf
    <3> QED BY <1>1, <2>1, <2>3, <3>1, <3>2
  <2> QED BY <2>2, <2>3
<1> QED BY <1>1, <1>2 DEF Takes, Counted, y

LEMMA DecrDrops ==
  ASSUME NEW x \in State, NEW R, Counted(x, R), NEW g \in R, NEW o \in Obj, g[2] = o
  PROVE  Drops(x, decrRefCount(x, o), R, {g})
<1> DEFINE y == decrRefCount(x, o)
           Q == R \ {g}
<1>1. /\ IsFiniteSet(Of(R, o)) /\ x.ref[o] = Cardinality(Of(R, o)) /\ x.ref \in [Obj -> Nat]
      /\ x.name \in [Obj -> Name \cup {Nobody}] /\ x.panic = FALSE
  BY DEF Counted, State
<1>2. Of(Q, o) = Of(R, o) \ {g} /\ g \in Of(R, o)
  BY OfRemove
<1>3. IsFiniteSet(Of(Q, o)) /\ Cardinality(Of(Q, o)) = x.ref[o] - 1 /\ x.ref[o] # 0
  <2>1. IsFiniteSet(Of(Q, o)) /\ Cardinality(Of(Q, o)) = Cardinality(Of(R, o)) - 1
    <3> HIDE DEF Q
    <3> QED BY <1>1, <1>2, FS_RemoveElement
  <2>2. Cardinality(Of(Q, o)) \in Nat
    BY <2>1, FS_CardinalityType
  <2> QED BY <1>1, <2>1, <2>2
<1>4. /\ y \in State /\ y.client = x.client /\ y.watched = x.watched
      /\ y.ref = [x.ref EXCEPT ![o] = @ - 1]
      /\ y.name = IF x.ref[o] = 1 THEN [x.name EXCEPT ![o] = Nobody] ELSE x.name
  <2>1. CASE x.ref[o] = 1
    <3>1. y = [x EXCEPT !.ref[o] = 0, !.name[o] = Nobody]
      BY <2>1 DEF decrRefCount
    <3>2. /\ y \in State /\ y.client = x.client /\ y.watched = x.watched
          /\ y.ref = [x.ref EXCEPT ![o] = 0] /\ y.name = [x.name EXCEPT ![o] = Nobody]
      <4> DEFINE r == [x.ref EXCEPT ![o] = 0]
                 n == [x.name EXCEPT ![o] = Nobody]
      <4>1. r \in [Obj -> Nat] /\ n \in [Obj -> Name \cup {Nobody}]
        BY <1>1
      <4>2. y = [x EXCEPT !.ref = r, !.name = n]
        BY <3>1
      <4> HIDE DEF r, n, y
      <4>3. y \in State /\ y.client = x.client /\ y.watched = x.watched /\ y.ref = r /\ y.name = n
        BY <4>1, <4>2 DEF State
      <4> QED BY <4>3 DEF r, n
    <3>3. [x.ref EXCEPT ![o] = 0] = [x.ref EXCEPT ![o] = @ - 1]
      <4> QED BY <1>1, <2>1
    <3> QED BY <2>1, <3>2, <3>3
  <2>2. CASE x.ref[o] # 1
    <3>1. y = [x EXCEPT !.ref[o] = @ - 1]
      BY <1>3, <2>2 DEF decrRefCount
    <3>2. x.ref[o] - 1 \in Nat
      BY <1>1, <1>3
    <3> DEFINE r == [x.ref EXCEPT ![o] = @ - 1]
    <3>3. r \in [Obj -> Nat]
      BY <1>1, <3>2
    <3>4. y = [x EXCEPT !.ref = r]
      BY <3>1
    <3> HIDE DEF r, y
    <3>5. y \in State /\ y.client = x.client /\ y.watched = x.watched /\ y.ref = r /\ y.name = x.name
      BY <1>1, <3>3, <3>4 DEF State
    <3> QED BY <2>2, <3>5 DEF r
  <2> QED BY <2>1, <2>2
<1> HIDE DEF y
<1>5. ASSUME NEW p \in Obj
      PROVE  /\ IsFiniteSet(Of(Q, p)) /\ y.ref[p] = Cardinality(Of(Q, p))
             /\ Held(Q, p) => y.name[p] = x.name[p] /\ x.name[p] \in Name
  <2>1. IsFiniteSet(Of(R, p)) /\ x.ref[p] = Cardinality(Of(R, p)) /\ (Held(R, p) => x.name[p] \in Name)
    BY DEF Counted
  <2>2. CASE p = o
    <3>1. ASSUME Held(Q, p) PROVE y.name[p] = x.name[p] /\ x.name[p] \in Name
      <4>1. Held(R, p)
        BY <3>1 DEF Held
      <4>2. Of(Q, p) # {}
        BY <3>1, HeldOf
      <4>3. Cardinality(Of(Q, p)) # 0
        BY <1>3, <2>2, <4>2, FS_EmptySet
      <4>4. x.ref[o] # 1
        BY <1>3, <2>2, <4>3
      <4> QED BY <1>4, <2>1, <4>1, <4>4
    <3>2. y.ref[p] = x.ref[o] - 1
      BY <1>1, <1>4, <2>2
    <3> QED BY <1>3, <2>2, <3>1, <3>2
  <2>3. CASE p # o
    <3>1. Of(Q, p) = Of(R, p)
      BY <2>3, OfRemove
    <3>2. Held(Q, p) => Held(R, p)
      BY <3>1, HeldOf
    <3>3. y.ref[p] = x.ref[p] /\ y.name[p] = x.name[p]
      BY <1>1, <1>4, <2>3
    <3> QED BY <2>1, <3>1, <3>2, <3>3
  <2> QED BY <2>2, <2>3
<1> QED BY <1>4, <1>5 DEF Drops, Counted, y

\* The references f[1], .. f[i]
Upto(f, i) == {f[j] : j \in 1..i}

LEMMA UptoNext ==
  ASSUME NEW f, NEW n \in Nat, NEW i \in 1..n, \A a, b \in 1..n : f[a] = f[b] => a = b
  PROVE  /\ Upto(f, i) = Upto(f, i - 1) \cup {f[i]} /\ f[i] \notin Upto(f, i - 1)
         /\ Upto(f, 0) = {}
<1>1. /\ 1..i = (1..(i - 1)) \cup {i} /\ i \notin 1..(i - 1) /\ 1..(i - 1) \subseteq 1..n
      /\ 1..0 = {}
  OBVIOUS
<1>2. Upto(f, i) = Upto(f, i - 1) \cup {f[i]}
  BY <1>1 DEF Upto
<1>3. f[i] \notin Upto(f, i - 1)
  BY <1>1 DEF Upto
<1>4. Upto(f, 0) = {}
  BY <1>1 DEF Upto
<1> QED BY <1>2, <1>3, <1>4

\* f names the references to the objects of a list.
Names(f, objs, R) ==
  /\ \A i \in 1..Len(objs) : f[i] \in R /\ f[i][2] = objs[i]
  /\ \A i, j \in 1..Len(objs) : f[i] = f[j] => i = j

DecrOp(p, r, o) == decrRefCount(r, o)
DecrGood(p, i, r) == Drops(p[1], r, p[2], Upto(p[3], i))
Decrs == INSTANCE FoldFacts WITH Op <- DecrOp, Good <- DecrGood

LEMMA DecrAllDrops ==
  ASSUME NEW x \in State, NEW R, Counted(x, R), NEW objs \in Seq(Obj), NEW f, Names(f, objs, R)
  PROVE  Drops(x, decrAll(x, objs), R, Upto(f, Len(objs)))
<1> DEFINE p == <<x, R, f>>
           n == Len(objs)
<1>1. p[1] = x /\ p[2] = R /\ p[3] = f /\ n \in Nat
  OBVIOUS
<1> HIDE DEF p
<1>2. decrAll(x, objs) = Decrs!Fold(p, x, objs)
  BY DEF decrAll, Decrs!Fold, DecrOp, FoldLeft, MapThenFoldSet, Max,
         Decrs!FoldLeft, Decrs!MapThenFoldSet, Decrs!Max
<1>3. DecrGood(p, 0, x)
  <2>1. Upto(f, 0) = {}
    BY DEF Upto
  <2> QED BY <1>1, <2>1, DropsSelf DEF DecrGood
<1>4. ASSUME NEW r, NEW i \in 1..n, DecrGood(p, i - 1, r)
      PROVE  DecrGood(p, i, DecrOp(p, r, objs[i]))
  <2> DEFINE S == Upto(f, i - 1)
             g == f[i]
             o == objs[i]
  <2>1. Drops(x, r, R, S)
    BY <1>1, <1>4 DEF DecrGood
  <2>2. /\ Upto(f, i) = S \cup {g} /\ g \notin S
    <3>1. \A a, b \in 1..n : f[a] = f[b] => a = b
      BY DEF Names
    <3> HIDE DEF n
    <3> QED BY <1>1, <3>1, UptoNext
  <2>3. g \in R /\ g[2] = o /\ o \in Obj
    BY DEF Names
  <2> HIDE DEF S, g, o
  <2>4. r \in State /\ Counted(r, R \ S) /\ g \in R \ S
    BY <2>1, <2>2, <2>3 DEF Drops
  <2>5. Drops(r, decrRefCount(r, o), R \ S, {g})
    BY <2>3, <2>4, DecrDrops
  <2>6. Drops(x, decrRefCount(r, o), R, S \cup {g})
    BY <2>1, <2>5, DropsTrans
  <2> QED BY <1>1, <2>2, <2>6 DEF DecrGood, DecrOp, o
<1>5. DecrGood(p, n, Decrs!Fold(p, x, objs))
  BY <1>3, <1>4, Decrs!FoldKeeps
<1> QED BY <1>1, <1>2, <1>5 DEF DecrGood

IncrOp(p, r, o) == incrRefCount(r, o)
IncrGood(p, i, r) == Takes(p[1], r, p[2], Upto(p[3], i))
Incrs == INSTANCE FoldFacts WITH Op <- IncrOp, Good <- IncrGood

LEMMA IncrAllTakes ==
  ASSUME NEW x \in State, NEW R, Counted(x, R), NEW objs \in Seq(Obj), NEW f, NEW Q, Names(f, objs, Q),
         Q \cap R = {}, \A i \in 1..Len(objs) : x.name[objs[i]] \in Name
  PROVE  Takes(x, incrAll(x, objs), R, Upto(f, Len(objs)))
<1> DEFINE p == <<x, R, f>>
           n == Len(objs)
<1>1. p[1] = x /\ p[2] = R /\ p[3] = f /\ n \in Nat
  OBVIOUS
<1> HIDE DEF p
<1>2. incrAll(x, objs) = Incrs!Fold(p, x, objs)
  BY DEF incrAll, Incrs!Fold, IncrOp, FoldLeft, MapThenFoldSet, Max,
         Incrs!FoldLeft, Incrs!MapThenFoldSet, Incrs!Max
<1>3. IncrGood(p, 0, x)
  <2>1. Upto(f, 0) = {}
    BY DEF Upto
  <2> QED BY <1>1, <2>1, TakesSelf DEF IncrGood
<1>4. ASSUME NEW r, NEW i \in 1..n, IncrGood(p, i - 1, r)
      PROVE  IncrGood(p, i, IncrOp(p, r, objs[i]))
  <2> DEFINE S == Upto(f, i - 1)
             g == f[i]
             o == objs[i]
  <2>1. Takes(x, r, R, S)
    BY <1>1, <1>4 DEF IncrGood
  <2>2. /\ Upto(f, i) = S \cup {g} /\ g \notin S
    <3>1. \A a, b \in 1..n : f[a] = f[b] => a = b
      BY DEF Names
    <3> HIDE DEF n
    <3> QED BY <1>1, <3>1, UptoNext
  <2>3. g \in Q /\ g[2] = o /\ o \in Obj /\ x.name[o] \in Name
    BY DEF Names
  <2> HIDE DEF S, g, o
  <2>4. r \in State /\ Counted(r, R \cup S) /\ g \notin R \cup S /\ r.name[o] \in Name
    BY <2>1, <2>2, <2>3 DEF Takes
  <2>5. Takes(r, incrRefCount(r, o), R \cup S, {g})
    BY <2>3, <2>4, IncrTakes
  <2>6. Takes(x, incrRefCount(r, o), R, S \cup {g})
    BY <2>1, <2>5, TakesTrans
  <2> QED BY <1>1, <2>2, <2>6 DEF IncrGood, IncrOp, o
<1>5. IncrGood(p, n, Incrs!Fold(p, x, objs))
  BY <1>3, <1>4, Incrs!FoldKeeps
<1> QED BY <1>1, <1>2, <1>5 DEF IncrGood

-----------------------------------------------------------------------------
(* The queue of a client.                                                  *)

\* The references from the first n queued commands of c
Queued(x, c, n) ==
  UNION {{QueueRef(c, i, j, x.client[c].commands[i][j]) : j \in DOMAIN x.client[c].commands[i]} : i \in 1..n}

FreeOp(p, r, argv) == decrAll(r, argv)
FreeGood(p, i, r) == Drops(p[1], r, p[2], Queued(p[1], p[3], i))
Frees == INSTANCE FoldFacts WITH Op <- FreeOp, Good <- FreeGood

LEMMA FreeDrops ==
  ASSUME NEW x \in State, NEW R, Counted(x, R), NEW c \in Client,
         Queued(x, c, Len(x.client[c].commands)) \subseteq R
  PROVE  Drops(x, freeClientMultiState(x, c), R, Queued(x, c, Len(x.client[c].commands)))
<1> DEFINE p == <<x, R, c>>
           q == x.client[c].commands
           n == Len(q)
<1>1. p[1] = x /\ p[2] = R /\ p[3] = c
  OBVIOUS
<1> HIDE DEF p
<1>0. q \in Seq(ArgvType) /\ n \in Nat
  BY DEF State, ClientRec
<1>2. freeClientMultiState(x, c) = Frees!Fold(p, x, q)
  BY DEF freeClientMultiState, Frees!Fold, FreeOp, FoldLeft, MapThenFoldSet, Max,
         Frees!FoldLeft, Frees!MapThenFoldSet, Frees!Max
<1>3. FreeGood(p, 0, x)
  <2>1. Queued(x, c, 0) = {}
    BY DEF Queued
  <2> QED BY <1>1, <2>1, DropsSelf DEF FreeGood
<1>4. ASSUME NEW r, NEW i \in 1..n, FreeGood(p, i - 1, r)
      PROVE  FreeGood(p, i, FreeOp(p, r, q[i]))
  <2> DEFINE S == Queued(x, c, i - 1)
             objs == q[i]
             f == [j \in 1..Len(objs) |-> QueueRef(c, i, j, objs[j])]
             T == Upto(f, Len(objs))
  <2>1. Drops(x, r, R, S)
    BY <1>1, <1>4 DEF FreeGood
  <2>2. objs \in Seq(Obj) /\ Len(objs) \in Nat /\ DOMAIN objs = 1..Len(objs)
    BY <1>0 DEF ArgvType
  <2>3. 1..i = (1..(i - 1)) \cup {i} /\ i \notin 1..(i - 1) /\ i \in 1..n /\ 1..(i - 1) \subseteq 1..n
    BY <1>0
  <2>4. T = {QueueRef(c, i, j, objs[j]) : j \in DOMAIN objs}
    BY <2>2 DEF Upto
  <2>5. Queued(x, c, i) = S \cup T
    BY <2>3, <2>4 DEF Queued
  <2>6. T \subseteq R
    BY <1>0, <2>3, <2>4 DEF Queued
  <2>7. T \cap S = {}
    BY <2>3, <2>4, RefFacts DEF Queued
  <2>8. r \in State /\ Counted(r, R \ S)
    BY <2>1 DEF Drops
  <2>9. Names(f, objs, R \ S)
    <3>1. \A j \in 1..Len(objs) : f[j] \in T
      BY DEF Upto
    <3>2. \A j \in 1..Len(objs) : f[j][2] = objs[j]
      BY RefObject
    <3>3. \A a, b \in 1..Len(objs) : f[a] = f[b] => a = b
      BY RefFacts
    <3> HIDE DEF T, S, f, objs
    <3> QED BY <2>6, <2>7, <3>1, <3>2, <3>3 DEF Names
  <2> HIDE DEF f, objs, S
  <2>10. Drops(r, decrAll(r, objs), R \ S, T)
    BY <2>2, <2>8, <2>9, DecrAllDrops
  <2> HIDE DEF T
  <2>11. Drops(x, decrAll(r, objs), R, S \cup T)
    BY <2>1, <2>10, DropsTrans
  <2> QED BY <1>1, <2>5, <2>11 DEF FreeGood, FreeOp, objs
<1>5. FreeGood(p, n, Frees!Fold(p, x, q))
  <2> HIDE DEF q
  <2> QED BY <1>0, <1>3, <1>4, Frees!FoldKeeps
<1> QED BY <1>1, <1>2, <1>5 DEF FreeGood

-----------------------------------------------------------------------------
(* Lists and tables while names stay.                                      *)

LEMMA StateFacts ==
  ASSUME NEW x \in State
  PROVE  /\ x.client \in [Client -> ClientRec] /\ x.watched \in [Db -> Table]
         /\ x.ref \in [Obj -> Nat] /\ x.name \in [Obj -> Name \cup {Nobody}] /\ x.panic = FALSE
         /\ \A c \in Client : /\ x.client[c] \in ClientRec /\ x.client[c].db \in Db
                              /\ x.client[c].watched \in Seq(Watch)
                              /\ x.client[c].commands \in Seq(ArgvType)
                              /\ x.client[c].flags \subseteq Flags
         /\ \A d \in Db : x.watched[d] \in Table
BY DEF State, ClientRec

LEMMA TableFacts ==
  ASSUME NEW f \in Table
  PROVE  /\ DOMAIN f \subseteq Name /\ f = [k \in DOMAIN f |-> f[k]]
         /\ \A k \in DOMAIN f : f[k] \in Entry /\ f[k].key \in Obj /\ f[k].clients \in Seq(Client)
<1>1. PICK K \in SUBSET Name : f \in [K -> Entry]
  BY DEF Table
<1>2. \A k \in K : f[k] \in Entry
  BY <1>1
<1>3. DOMAIN f = K
  BY <1>1
<1>4. \A e \in Entry : e.key \in Obj /\ e.clients \in Seq(Client)
  BY DEF Entry
<1>5. f = [k \in DOMAIN f |-> f[k]]
  BY <1>1
<1> QED BY <1>1, <1>2, <1>3, <1>4, <1>5

LEMMA WatchFacts ==
  ASSUME NEW x \in State, NEW c \in Client, NEW i \in DOMAIN x.client[c].watched
  PROVE  x.client[c].watched[i].key \in Obj /\ x.client[c].watched[i].db \in Db
<1> DEFINE w == x.client[c].watched
<1>1. w \in Seq(Watch) /\ i \in DOMAIN w
  BY StateFacts
<1> HIDE DEF w
<1>2. w[i] \in Watch
  BY <1>1
<1>3. w[i].key \in Obj /\ w[i].db \in Db
  BY <1>2 DEF Watch
<1> QED BY <1>3 DEF w

LEMMA ListedKept ==
  ASSUME NEW x, NEW y, NEW c, NEW n, NEW P, Listed(x, c, n, P),
         y.client[c].watched = x.client[c].watched,
         \A i \in DOMAIN x.client[c].watched :
           i > n => y.name[x.client[c].watched[i].key] = x.name[x.client[c].watched[i].key]
  PROVE  Listed(y, c, n, P)
<1>1. \A i \in DOMAIN x.client[c].watched : i > n => Pair(y, c, i) = Pair(x, c, i)
  BY DEF Pair
<1>2. DOMAIN y.client[c].watched = DOMAIN x.client[c].watched
  OBVIOUS
<1> QED BY <1>1, <1>2, Zenon DEF Listed

\* The elements of c's list after the n-th are held.
ListHeld(x, c, n, R) ==
  \A i \in DOMAIN x.client[c].watched : i > n => ListRef(c, i, x.client[c].watched[i].key) \in R

LEMMA HeldNames ==
  ASSUME NEW x \in State, NEW y, NEW R, NEW S, Drops(x, y, R, S)
  PROVE  /\ \A g \in R \ S : g[2] \in Obj => y.name[g[2]] = x.name[g[2]]
         /\ y \in State
BY DEF Drops, Held

LEMMA DropsListed ==
  ASSUME NEW x \in State, NEW y, NEW R, NEW S, Drops(x, y, R, S), NEW c \in Client, NEW n, NEW P,
         Listed(x, c, n, P), ListHeld(x, c, n, R \ S)
  PROVE  Listed(y, c, n, P)
<1>1. y.client[c].watched = x.client[c].watched
  BY DEF Drops
<1>2. ASSUME NEW i \in DOMAIN x.client[c].watched, i > n
      PROVE  y.name[x.client[c].watched[i].key] = x.name[x.client[c].watched[i].key]
  <2> DEFINE o == x.client[c].watched[i].key
             g == ListRef(c, i, o)
  <2>1. g \in R \ S /\ g[2] = o /\ o \in Obj
    BY <1>2, RefObject, WatchFacts DEF ListHeld
  <2> HIDE DEF g, o
  <2>2. y.name[o] = x.name[o]
    BY <2>1, HeldNames
  <2> QED BY <2>2 DEF o
<1> QED BY <1>1, <1>2, ListedKept

LEMMA DropsTabled ==
  ASSUME NEW x \in State, NEW y, NEW R, NEW S, Drops(x, y, R, S), NEW A,
         Tabled(x, A), Tables(x) \subseteq R \ S
  PROVE  Tabled(y, A)
<1>1. y.watched = x.watched
  BY DEF Drops
<1>2. ASSUME NEW d \in Db, NEW k \in DOMAIN x.watched[d]
      PROVE  y.name[x.watched[d][k].key] = x.name[x.watched[d][k].key]
  <2> DEFINE o == x.watched[d][k].key
             g == TableRef(d, k, o)
  <2>1. g \in R \ S /\ g[2] = o
    BY RefObject, RefMembers
  <2>2. o \in Obj
    BY StateFacts, TableFacts
  <2> HIDE DEF g, o
  <2>3. y.name[o] = x.name[o]
    BY <2>1, <2>2, HeldNames
  <2> QED BY <2>3 DEF o
<1>3. ASSUME NEW d \in Db, NEW k \in DOMAIN x.watched[d], EntryOk(x, A, d, k)
      PROVE  EntryOk(y, A, d, k)
  <2>1. y.watched[d][k] = x.watched[d][k]
    BY <1>1
  <2> QED BY <1>2, <1>3, <2>1 DEF EntryOk
<1>4. ASSUME NEW d \in Db, NEW k \in Name
      PROVE  /\ k \in DOMAIN y.watched[d] <=> \E c \in Client : <<d, k>> \in A[c]
             /\ k \in DOMAIN y.watched[d] => EntryOk(y, A, d, k)
  <2>1. /\ k \in DOMAIN x.watched[d] <=> \E c \in Client : <<d, k>> \in A[c]
        /\ k \in DOMAIN x.watched[d] => EntryOk(x, A, d, k)
    BY DEF Tabled
  <2>2. DOMAIN y.watched[d] = DOMAIN x.watched[d]
    BY <1>1
  <2> QED BY <1>3, <2>1, <2>2
<1> QED BY <1>4 DEF Tabled

-----------------------------------------------------------------------------
(* UNWATCH.                                                                *)

\* x with another table for d
WithTable(x, d, f) == [x EXCEPT !.watched[d] = f]
OneTable(x, y, d, f) ==
  /\ y \in State /\ y.client = x.client /\ y.ref = x.ref /\ y.name = x.name
  /\ y.watched[d] = f /\ \A b \in Db : b # d => y.watched[b] = x.watched[b]

LEMMA WithTableFacts ==
  ASSUME NEW x \in State, NEW d \in Db, NEW f \in Table, NEW y, y = WithTable(x, d, f)
  PROVE  OneTable(x, y, d, f)
<1> DEFINE w == [x.watched EXCEPT ![d] = f]
<1>1. x.watched \in [Db -> Table]
  BY StateFacts
<1>2. w \in [Db -> Table] /\ w[d] = f /\ \A b \in Db : b # d => w[b] = x.watched[b]
  BY <1>1
<1>3. y = [x EXCEPT !.watched = w]
  BY DEF WithTable
<1> HIDE DEF w
<1>4. y \in State /\ y.client = x.client /\ y.ref = x.ref /\ y.name = x.name /\ y.watched = w
  BY <1>2, <1>3 DEF State
<1> QED BY <1>2, <1>4 DEF OneTable

Without(A, c, d, k) == [A EXCEPT ![c] = @ \ {<<d, k>>}]

LEMMA WithoutFacts ==
  ASSUME NEW A \in AskedType, NEW c \in Client, NEW d, NEW k
  PROVE  /\ Without(A, c, d, k) \in AskedType
         /\ \A b \in Client : \A p : p \in Without(A, c, d, k)[b] <=> p \in A[b] /\ ~(b = c /\ p = <<d, k>>)
BY DEF Without, AskedType

\* Entries of the other pairs are as they were.
SameElse(x, y, A, B, d, k) ==
  \A b \in Db : \A n \in Name :
    <<b, n>> # <<d, k>> => /\ n \in DOMAIN y.watched[b] <=> n \in DOMAIN x.watched[b]
                           /\ n \in DOMAIN x.watched[b] => y.watched[b][n] = x.watched[b][n]
                           /\ \A c \in Client : <<b, n>> \in B[c] <=> <<b, n>> \in A[c]

LEMMA OtherEntries ==
  ASSUME NEW x, NEW y, NEW A, NEW B, NEW d \in Db, NEW k \in Name, Tabled(x, A), y.name = x.name,
         SameElse(x, y, A, B, d, k),
         k \in DOMAIN y.watched[d] <=> \E c \in Client : <<d, k>> \in B[c],
         k \in DOMAIN y.watched[d] => EntryOk(y, B, d, k)
  PROVE  Tabled(y, B)
<1> SUFFICES ASSUME NEW b \in Db, NEW n \in Name
             PROVE  /\ n \in DOMAIN y.watched[b] <=> \E c \in Client : <<b, n>> \in B[c]
                    /\ n \in DOMAIN y.watched[b] => EntryOk(y, B, b, n)
  BY DEF Tabled
<1>1. CASE b = d /\ n = k
  BY <1>1
<1>2. CASE ~(b = d /\ n = k)
  <2>1. <<b, n>> # <<d, k>>
    BY <1>2
  <2>2. /\ n \in DOMAIN y.watched[b] <=> n \in DOMAIN x.watched[b]
        /\ n \in DOMAIN x.watched[b] => y.watched[b][n] = x.watched[b][n]
        /\ \A c \in Client : <<b, n>> \in B[c] <=> <<b, n>> \in A[c]
    BY <2>1 DEF SameElse
  <2>3. /\ n \in DOMAIN x.watched[b] <=> \E c \in Client : <<b, n>> \in A[c]
        /\ n \in DOMAIN x.watched[b] => EntryOk(x, A, b, n)
    BY DEF Tabled
  <2>4. ASSUME n \in DOMAIN x.watched[b] PROVE EntryOk(y, B, b, n)
    BY <2>2, <2>3, <2>4 DEF EntryOk
  <2> QED BY <2>2, <2>3, <2>4
<1> QED BY <1>1, <1>2

\* In y, c is no longer with k in the table of d, and T is referred to.
HasLeft(x, y, A, c, d, k, T) ==
  /\ y \in State /\ y.client = x.client /\ y.ref = x.ref /\ y.name = x.name
  /\ Tabled(y, Without(A, c, d, k)) /\ Tables(y) = T

\* The last client leaves: the entry goes.
LEMMA EntryGoes ==
  ASSUME NEW x \in State, NEW A \in AskedType, Tabled(x, A), NEW c \in Client, NEW d \in Db, NEW k \in Name,
         k \in DOMAIN x.watched[d], ToSet(x.watched[d][k].clients) = {c},
         NEW y, y = WithTable(x, d, Restrict(x.watched[d], DOMAIN x.watched[d] \ {k}))
  PROVE  HasLeft(x, y, A, c, d, k, Tables(x) \ {TableRef(d, k, x.watched[d][k].key)})
<1> DEFINE f == x.watched[d]
           K == DOMAIN f \ {k}
           h == Restrict(f, K)
           B == Without(A, c, d, k)
<1>1. DOMAIN f \subseteq Name /\ \A n \in DOMAIN f : f[n] \in Entry
  BY StateFacts, TableFacts
<1>2. h \in [K -> Entry] /\ \A n \in K : h[n] = f[n]
  BY <1>1 DEF Restrict
<1>3. h \in Table /\ DOMAIN h = K
  BY <1>1, <1>2 DEF Table
<1>4. y = WithTable(x, d, h)
  OBVIOUS
<1> HIDE DEF h
<1>5. /\ y \in State /\ y.client = x.client /\ y.ref = x.ref /\ y.name = x.name
      /\ y.watched[d] = h /\ \A b \in Db : b # d => y.watched[b] = x.watched[b]
  <2>1. OneTable(x, y, d, h)
    BY <1>3, <1>4, WithTableFacts
  <2> QED BY <2>1 DEF OneTable
<1>6. ASSUME NEW b \in Db, NEW n, b # d \/ n # k
      PROVE  /\ n \in DOMAIN y.watched[b] <=> n \in DOMAIN x.watched[b]
             /\ n \in DOMAIN x.watched[b] => y.watched[b][n] = x.watched[b][n]
  BY <1>2, <1>3, <1>5, <1>6
<1>7. k \notin DOMAIN y.watched[d]
  BY <1>3, <1>5
<1>8. Tabled(y, B)
  <2>1. ASSUME NEW b \in Client PROVE <<d, k>> \notin B[b]
    <3>1. \A a \in Client : a \in ToSet(x.watched[d][k].clients) <=> <<d, k>> \in A[a]
      BY DEF Tabled, EntryOk
    <3> QED BY <3>1, WithoutFacts
  <2>2. ASSUME NEW b \in Db, NEW n \in Name, <<b, n>> # <<d, k>>
        PROVE  /\ n \in DOMAIN y.watched[b] <=> n \in DOMAIN x.watched[b]
               /\ n \in DOMAIN x.watched[b] => y.watched[b][n] = x.watched[b][n]
               /\ \A a \in Client : <<b, n>> \in B[a] <=> <<b, n>> \in A[a]
    <3>1. b # d \/ n # k
      BY <2>2
    <3>2. \A a \in Client : <<b, n>> \in B[a] <=> <<b, n>> \in A[a]
      BY <2>2, WithoutFacts
    <3> QED BY <1>6, <3>1, <3>2
  <2>3. SameElse(x, y, A, B, d, k)
    BY <2>2 DEF SameElse
  <2> HIDE DEF B
  <2> QED BY <1>5, <1>7, <2>1, <2>3, OtherEntries
<1>9. ASSUME NEW g
      PROVE  g \in Tables(y) <=> g \in Tables(x) /\ g # TableRef(d, k, x.watched[d][k].key)
  <2>1. ASSUME g \in Tables(y) PROVE g \in Tables(x) /\ g # TableRef(d, k, x.watched[d][k].key)
    <3>1. PICK b \in Db : \E n \in DOMAIN y.watched[b] : g = TableRef(b, n, y.watched[b][n].key)
      BY <2>1, RefMembers
    <3>0. PICK n \in DOMAIN y.watched[b] : g = TableRef(b, n, y.watched[b][n].key)
      BY <3>1
    <3>2. b # d \/ n # k
      BY <1>7, <3>0
    <3>3. n \in DOMAIN x.watched[b] /\ g = TableRef(b, n, x.watched[b][n].key)
      BY <1>6, <3>0, <3>2
    <3> QED BY <3>2, <3>3, RefMembers, RefFacts
  <2>2. ASSUME g \in Tables(x), g # TableRef(d, k, x.watched[d][k].key) PROVE g \in Tables(y)
    <3>1. PICK b \in Db : \E n \in DOMAIN x.watched[b] : g = TableRef(b, n, x.watched[b][n].key)
      BY <2>2, RefMembers
    <3>0. PICK n \in DOMAIN x.watched[b] : g = TableRef(b, n, x.watched[b][n].key)
      BY <3>1
    <3>2. b # d \/ n # k
      BY <2>2, <3>0
    <3>3. n \in DOMAIN y.watched[b] /\ g = TableRef(b, n, y.watched[b][n].key)
      BY <1>6, <3>0, <3>2
    <3> QED BY <3>3, RefMembers
  <2> QED BY <2>1, <2>2
<1>10. Tables(y) = Tables(x) \ {TableRef(d, k, x.watched[d][k].key)}
  BY <1>9
<1> QED BY <1>5, <1>8, <1>10 DEF HasLeft

\* Others stay: their list without c.
LEMMA EntryStays ==
  ASSUME NEW x \in State, NEW A \in AskedType, Tabled(x, A), NEW c \in Client, NEW d \in Db, NEW k \in Name,
         k \in DOMAIN x.watched[d], NEW l \in Seq(Client), Distinct(l), l # <<>>,
         ToSet(l) = ToSet(x.watched[d][k].clients) \ {c},
         NEW y, y = WithTable(x, d, [x.watched[d] EXCEPT ![k].clients = l])
  PROVE  HasLeft(x, y, A, c, d, k, Tables(x))
<1> DEFINE f == x.watched[d]
           e == [f[k] EXCEPT !.clients = l]
           h == [f EXCEPT ![k] = e]
           B == Without(A, c, d, k)
<1>1. DOMAIN f \subseteq Name /\ (\A n \in DOMAIN f : f[n] \in Entry) /\ f = [n \in DOMAIN f |-> f[n]]
  BY StateFacts, TableFacts
<1>2. e \in Entry /\ e.key = f[k].key /\ e.clients = l
  <2> DEFINE e0 == f[k]
  <2>1. e0 \in Entry
    BY <1>1
  <2> HIDE DEF e0
  <2>2. [e0 EXCEPT !.clients = l] \in Entry /\ [e0 EXCEPT !.clients = l].key = e0.key
        /\ [e0 EXCEPT !.clients = l].clients = l
    BY <2>1 DEF Entry
  <2> QED BY <2>2 DEF e0
<1>4. y = WithTable(x, d, h)
  OBVIOUS
<1> HIDE DEF e
<1>3. h \in Table /\ DOMAIN h = DOMAIN f /\ h[k] = e /\ \A n \in DOMAIN f : n # k => h[n] = f[n]
  <2>1. f \in [DOMAIN f -> Entry]
    BY <1>1
  <2>2. h \in [DOMAIN f -> Entry]
    BY <1>2, <2>1
  <2>3. h \in Table
    BY <1>1, <2>2 DEF Table
  <2> QED BY <2>1, <2>3
<1> HIDE DEF h
<1>5. /\ y \in State /\ y.client = x.client /\ y.ref = x.ref /\ y.name = x.name
      /\ y.watched[d] = h /\ \A b \in Db : b # d => y.watched[b] = x.watched[b]
  <2>1. OneTable(x, y, d, h)
    BY <1>3, <1>4, WithTableFacts
  <2> QED BY <2>1 DEF OneTable
<1>6. ASSUME NEW b \in Db, NEW n, b # d \/ n # k
      PROVE  /\ n \in DOMAIN y.watched[b] <=> n \in DOMAIN x.watched[b]
             /\ n \in DOMAIN x.watched[b] => y.watched[b][n] = x.watched[b][n]
  BY <1>3, <1>5, <1>6
<1>7. k \in DOMAIN y.watched[d] /\ y.watched[d][k] = e
  BY <1>3, <1>5
<1>0. /\ x.name[f[k].key] = k
      /\ \A a \in Client : a \in ToSet(f[k].clients) <=> <<d, k>> \in A[a]
  BY DEF Tabled, EntryOk
<1>8. Tabled(y, B)
  <2>1. EntryOk(y, B, d, k)
    <3>1. \A a \in Client : a \in ToSet(l) <=> <<d, k>> \in B[a]
      BY <1>0, WithoutFacts
    <3> HIDE DEF B
    <3> QED BY <1>0, <1>2, <1>5, <1>7, <3>1 DEF EntryOk
  <2>3. \E a \in Client : <<d, k>> \in B[a]
    <3>1. 1 \in DOMAIN l /\ l[1] \in Client
      OBVIOUS
    <3>2. l[1] \in ToSet(l)
      BY <3>1, ToSetMember
    <3> QED BY <1>0, <3>1, <3>2, WithoutFacts
  <2>2. ASSUME NEW b \in Db, NEW n \in Name, <<b, n>> # <<d, k>>
        PROVE  /\ n \in DOMAIN y.watched[b] <=> n \in DOMAIN x.watched[b]
               /\ n \in DOMAIN x.watched[b] => y.watched[b][n] = x.watched[b][n]
               /\ \A a \in Client : <<b, n>> \in B[a] <=> <<b, n>> \in A[a]
    <3>1. b # d \/ n # k
      BY <2>2
    <3>2. \A a \in Client : <<b, n>> \in B[a] <=> <<b, n>> \in A[a]
      BY <2>2, WithoutFacts
    <3> QED BY <1>6, <3>1, <3>2
  <2>4. SameElse(x, y, A, B, d, k)
    BY <2>2 DEF SameElse
  <2> HIDE DEF B
  <2> QED BY <1>5, <1>7, <2>1, <2>3, <2>4, OtherEntries
<1>9. ASSUME NEW b \in Db, NEW n PROVE /\ n \in DOMAIN y.watched[b] <=> n \in DOMAIN x.watched[b]
                                       /\ n \in DOMAIN x.watched[b] => y.watched[b][n].key = x.watched[b][n].key
  <2>1. CASE b = d /\ n = k
    BY <1>2, <1>7, <2>1
  <2>2. CASE b # d \/ n # k
    BY <1>6, <2>2
  <2> QED BY <2>1, <2>2
<1>10. ASSUME NEW g PROVE g \in Tables(y) <=> g \in Tables(x)
  <2>1. g \in Tables(y) <=> \E b \in Db : \E n \in DOMAIN y.watched[b] : g = TableRef(b, n, y.watched[b][n].key)
    BY DEF Tables
  <2>2. g \in Tables(x) <=> \E b \in Db : \E n \in DOMAIN x.watched[b] : g = TableRef(b, n, x.watched[b][n].key)
    BY DEF Tables
  <2> QED BY <1>9, <2>1, <2>2
<1>11. Tables(y) = Tables(x)
  BY <1>10
<1> QED BY <1>5, <1>8, <1>11 DEF HasLeft

LEMMA CountedSame ==
  ASSUME NEW x, NEW y, NEW R, Counted(x, R), y.ref = x.ref, y.name = x.name
  PROVE  Counted(y, R)
BY DEF Counted

\* unwatchAllKeys has let go of the first n keys of c's list.
Gone(x, c, n) == {ListRef(c, i, x.client[c].watched[i].key) : i \in 1..n}
Left(x, c, n) == (Lists(x) \ Gone(x, c, n)) \cup Tables(x) \cup Queues(x)
From(b, c, n) == IF b = c THEN n ELSE 0

Mid(x, A, c, n) ==
  /\ x \in State /\ A \in AskedType /\ Tabled(x, A) /\ Counted(x, Left(x, c, n))
  /\ \A b \in Client : Listed(x, b, From(b, c, n), A[b])

LEMMA ClientRefs ==
  ASSUME NEW x, NEW y, y.client = x.client
  PROVE  /\ Lists(y) = Lists(x) /\ Queues(y) = Queues(x)
         /\ \A c, n : Gone(y, c, n) = Gone(x, c, n)
BY DEF Lists, Queues, Gone

LEMMA TablesSame ==
  ASSUME NEW x, NEW y, y.watched = x.watched
  PROVE  Tables(y) = Tables(x)
BY DEF Tables

LEMMA ListsLeft ==
  ASSUME NEW x \in State, NEW c \in Client, NEW b \in Client, NEW n \in Nat
  PROVE  ListHeld(x, b, From(b, c, n), Left(x, c, n))
<1> SUFFICES ASSUME NEW i \in DOMAIN x.client[b].watched, i > From(b, c, n)
             PROVE  ListRef(b, i, x.client[b].watched[i].key) \in Left(x, c, n)
  BY DEF ListHeld
<1> DEFINE g == ListRef(b, i, x.client[b].watched[i].key)
<1>1. g \in Lists(x)
  BY RefMembers
<1>2. g \notin Gone(x, c, n)
  <2>1. ~(b = c /\ i \in 1..n)
    BY DEF From
  <2>2. \A j \in 1..n : g = ListRef(c, j, x.client[c].watched[j].key) => b = c /\ i = j
    BY RefFacts
  <2> QED BY <2>1, <2>2 DEF Gone
<1> QED BY <1>1, <1>2 DEF Left

\* What is counted after one more key of the list, and with it possibly the
\* entry it was in.
LeavesTwo(x, y, c, i, g, h) ==
  Tables(y) = Tables(x) \ {h} => /\ (Left(x, c, i - 1) \ {h}) \ {g} = Left(y, c, i)
                                 /\ g \in Left(x, c, i - 1) \ {h}
                                 /\ h \in Tables(x) => h \in Left(x, c, i - 1)

LEMMA LeftNext ==
  ASSUME NEW x \in State, NEW c \in Client, NEW i \in DOMAIN x.client[c].watched,
         NEW g, g = ListRef(c, i, x.client[c].watched[i].key),
         NEW y, y.client = x.client
  PROVE  /\ g \in Left(x, c, i - 1)
         /\ Tables(y) = Tables(x) => Left(x, c, i - 1) \ {g} = Left(y, c, i)
         /\ \A d, k, o : LeavesTwo(x, y, c, i, g, TableRef(d, k, o))
<1>0. i \in Nat \ {0}
  <2>1. x.client[c].watched \in Seq(Watch)
    BY StateFacts
  <2> QED BY <2>1
<1>1. 1..i = (1..(i - 1)) \cup {i} /\ i \notin 1..(i - 1)
  BY <1>0
<1>2. Gone(x, c, i) = Gone(x, c, i - 1) \cup {g}
  BY <1>1 DEF Gone
<1>3. g \notin Gone(x, c, i - 1)
  BY <1>1, RefFacts DEF Gone
<1>4. g \in Lists(x)
  BY RefMembers
<1>5. g \notin Tables(x) /\ g \notin Queues(x)
  BY RefKinds, RefMembers
<1>6. \A d, k, o : TableRef(d, k, o) \notin Lists(x) /\ TableRef(d, k, o) \notin Queues(x) /\ TableRef(d, k, o) # g
  BY RefKinds, RefMembers
<1>7. Lists(y) = Lists(x) /\ Queues(y) = Queues(x) /\ Gone(y, c, i) = Gone(x, c, i)
  BY ClientRefs
<1>8. g \in Left(x, c, i - 1)
  BY <1>3, <1>4 DEF Left
<1>9. ASSUME Tables(y) = Tables(x) PROVE Left(x, c, i - 1) \ {g} = Left(y, c, i)
  BY <1>2, <1>5, <1>7, <1>9 DEF Left
<1>10. ASSUME NEW d, NEW k, NEW o, Tables(y) = Tables(x) \ {TableRef(d, k, o)}
       PROVE  /\ (Left(x, c, i - 1) \ {TableRef(d, k, o)}) \ {g} = Left(y, c, i)
              /\ g \in Left(x, c, i - 1) \ {TableRef(d, k, o)}
              /\ TableRef(d, k, o) \in Tables(x) => TableRef(d, k, o) \in Left(x, c, i - 1)
  <2> DEFINE h == TableRef(d, k, o)
  <2>1. h \notin Lists(x) /\ h \notin Queues(x) /\ h # g /\ Tables(y) = Tables(x) \ {h}
    BY <1>6, <1>10
  <2> HIDE DEF h
  <2>2. (Left(x, c, i - 1) \ {h}) \ {g} = Left(y, c, i)
    BY <1>2, <1>5, <1>7, <2>1 DEF Left
  <2>3. g \in Left(x, c, i - 1) \ {h}
    BY <1>8, <2>1
  <2>4. h \in Tables(x) => h \in Left(x, c, i - 1)
    BY DEF Left
  <2> QED BY <2>2, <2>3, <2>4 DEF h
<1> QED BY <1>8, <1>9, <1>10 DEF LeavesTwo

DroppedOne(x, y, A, c, i, d, k) ==
  \E v \in State : \E S :
    /\ v.client = x.client /\ v.name = x.name /\ v.ref = x.ref
    /\ Tabled(v, Without(A, c, d, k))
    /\ Drops(v, y, Left(x, c, i - 1), S) /\ Left(x, c, i - 1) \ S = Left(y, c, i)

LEMMA UnwatchedDrops ==
  ASSUME NEW x, NEW A, NEW c \in Client, NEW i \in DOMAIN x.client[c].watched, Mid(x, A, c, i - 1),
         NEW d, NEW k, d = x.client[c].watched[i].db, k = x.name[x.client[c].watched[i].key],
         NEW y, y = Unwatched(x, c, x.client[c].watched[i])
  PROVE  DroppedOne(x, y, A, c, i, d, k)
<1> DEFINE w == x.client[c].watched[i]
           o == w.key
           R == Left(x, c, i - 1)
           g == ListRef(c, i, o)
           e == x.watched[d][k]
           left == RemoveFirst(e.clients, c)
           h == TableRef(d, k, e.key)
<1>1. x \in State /\ A \in AskedType /\ Tabled(x, A) /\ Counted(x, R) /\ o \in Obj /\ d \in Db
  BY WatchFacts DEF Mid
<1>2. g \in R /\ g[2] = o
  BY <1>1, LeftNext, RefObject
<1>3. k \in Name
  <2> HIDE DEF R, g, o
  <2>1. x.name[o] \in Name
    BY <1>1, <1>2 DEF Counted, Held
  <2> QED BY <2>1 DEF o
<1>4. <<d, k>> \in A[c]
  <2>1. Listed(x, c, i - 1, A[c])
    BY DEF Mid, From
  <2>2. i > i - 1
    <3>1. x.client[c].watched \in Seq(Watch)
      BY <1>1, StateFacts
    <3> QED BY <3>1
  <2> QED BY <2>1, <2>2 DEF Listed, Pair
<1>5. k \in DOMAIN x.watched[d] /\ EntryOk(x, A, d, k)
  BY <1>1, <1>3, <1>4 DEF Tabled
<1>6. e \in Entry /\ e.key \in Obj /\ e.clients \in Seq(Client)
  BY <1>1, <1>5, StateFacts, TableFacts
<1>7. c \in ToSet(e.clients) /\ Distinct(e.clients)
  BY <1>4, <1>5 DEF EntryOk
<1>8. left \in Seq(Client) /\ Distinct(left) /\ ToSet(left) = ToSet(e.clients) \ {c}
  <2> DEFINE l == e.clients
  <2>1. l \in Seq(Client) /\ c \in ToSet(l) /\ Distinct(l)
    BY <1>6, <1>7
  <2> HIDE DEF l
  <2>2. RemoveFirst(l, c) \in Seq(Client) /\ Distinct(RemoveFirst(l, c)) /\ ToSet(RemoveFirst(l, c)) = ToSet(l) \ {c}
    BY <2>1, RemoveFirstFacts
  <2> QED BY <2>2 DEF l
<1>9. CASE left = <<>>
  <2> DEFINE v == WithTable(x, d, Restrict(x.watched[d], DOMAIN x.watched[d] \ {k}))
             u == decrRefCount(v, e.key)
  <2>1. y = decrRefCount(u, o)
    BY <1>5, <1>7, <1>9 DEF Unwatched, WithTable
  <2>2. ToSet(e.clients) = {c}
    <3>1. ToSet(<<>>) = {}
      BY DEF ToSet
    <3> HIDE DEF left
    <3> QED BY <1>7, <1>8, <1>9, <3>1
  <2>3. /\ v \in State /\ v.client = x.client /\ v.ref = x.ref /\ v.name = x.name
        /\ Tabled(v, Without(A, c, d, k)) /\ Tables(v) = Tables(x) \ {h}
    <3>1. v = WithTable(x, d, Restrict(x.watched[d], DOMAIN x.watched[d] \ {k}))
      OBVIOUS
    <3> HIDE DEF v
    <3>2. HasLeft(x, v, A, c, d, k, Tables(x) \ {h})
      BY <1>1, <1>3, <1>5, <2>2, <3>1, EntryGoes
    <3> QED BY <3>2 DEF HasLeft
  <2> HIDE DEF v, R
  <2>4. Counted(v, R)
    BY <1>1, <2>3, CountedSame
  <2>5. h \in R /\ h[2] = e.key /\ g \in R \ {h}
    <3>1. h \in Tables(x)
      BY <1>1, <1>5, RefMembers
    <3>2. LeavesTwo(x, v, c, i, g, h)
      BY <1>1, <2>3, LeftNext
    <3>3. h[2] = e.key
      BY DEF TableRef
    <3> HIDE DEF h, g
    <3> QED BY <2>3, <3>1, <3>2, <3>3 DEF LeavesTwo, R
  <2> DEFINE ek == e.key
  <2>6. Drops(v, u, R, {h})
    <3>1. ek \in Obj /\ h[2] = ek /\ u = decrRefCount(v, ek)
      BY <1>6, <2>5
    <3> HIDE DEF ek, h, u
    <3> QED BY <2>3, <2>4, <2>5, <3>1, DecrDrops
  <2> HIDE DEF u, h, g, o
  <2>7. u \in State /\ Counted(u, R \ {h})
    BY <2>6 DEF Drops
  <2>8. Drops(u, y, R \ {h}, {g})
    BY <1>1, <1>2, <2>1, <2>5, <2>7, DecrDrops
  <2>9. Drops(v, y, R, {h} \cup {g})
    BY <2>6, <2>8, DropsTrans
  <2>10. R \ ({h} \cup {g}) = Left(y, c, i)
    <3>1. y.client = x.client /\ Tables(y) = Tables(x) \ {h}
      <4>1. y.client = v.client /\ y.watched = v.watched
        BY <2>9 DEF Drops
      <4> QED BY <2>3, <4>1, TablesSame
    <3>2. LeavesTwo(x, y, c, i, g, h)
      BY <1>1, <3>1, LeftNext DEF h, g, o
    <3>3. (R \ {h}) \ {g} = Left(y, c, i)
      BY <3>1, <3>2 DEF LeavesTwo, R
    <3> QED BY <3>3
  <2> QED BY <2>3, <2>9, <2>10 DEF R, DroppedOne
<1>10. CASE left # <<>>
  <2> DEFINE v == WithTable(x, d, [x.watched[d] EXCEPT ![k].clients = left])
  <2>1. y = decrRefCount(v, o)
    BY <1>5, <1>7, <1>10 DEF Unwatched, WithTable
  <2>3. /\ v \in State /\ v.client = x.client /\ v.ref = x.ref /\ v.name = x.name
        /\ Tabled(v, Without(A, c, d, k)) /\ Tables(v) = Tables(x)
    <3> HIDE DEF left
    <3>1. v = WithTable(x, d, [x.watched[d] EXCEPT ![k].clients = left])
      OBVIOUS
    <3> HIDE DEF v
    <3>2. HasLeft(x, v, A, c, d, k, Tables(x))
      BY <1>1, <1>3, <1>5, <1>8, <1>10, <3>1, EntryStays
    <3> QED BY <3>2 DEF HasLeft
  <2> HIDE DEF v, R
  <2>4. Counted(v, R)
    BY <1>1, <2>3, CountedSame
  <2>9. Drops(v, y, R, {g})
    <3> HIDE DEF g, o
    <3> QED BY <1>1, <1>2, <2>1, <2>3, <2>4, DecrDrops
  <2>10. R \ {g} = Left(y, c, i)
    <3>1. y.client = x.client /\ Tables(y) = Tables(x)
      <4>1. y.client = v.client /\ y.watched = v.watched
        BY <2>9 DEF Drops
      <4> QED BY <2>3, <4>1, TablesSame
    <3> QED BY <1>1, <3>1, LeftNext DEF R
  <2> QED BY <2>3, <2>9, <2>10 DEF R, DroppedOne
<1> QED BY <1>9, <1>10

Stepped(x, y, A, c, i) ==
  \E B : Mid(y, B, c, i) /\ y.client = x.client /\ \A b \in Client \ {c} : B[b] = A[b]

LEMMA UnwatchedStep ==
  ASSUME NEW x, NEW A, NEW c \in Client, NEW i \in DOMAIN x.client[c].watched, Mid(x, A, c, i - 1),
         NEW y, y = Unwatched(x, c, x.client[c].watched[i])
  PROVE  Stepped(x, y, A, c, i)
<1> DEFINE d == x.client[c].watched[i].db
           k == x.name[x.client[c].watched[i].key]
           R == Left(x, c, i - 1)
           B == Without(A, c, d, k)
<1>1. x \in State /\ A \in AskedType /\ \A b \in Client : Listed(x, b, From(b, c, i - 1), A[b])
  BY DEF Mid
<1>0. i \in Nat \ {0} /\ i - 1 \in Nat /\ \A j \in DOMAIN x.client[c].watched : j \in Nat
  <2>1. x.client[c].watched \in Seq(Watch)
    BY <1>1, StateFacts
  <2> QED BY <2>1
<1>2. PICK v \in State : \E S :
           /\ v.client = x.client /\ v.name = x.name /\ v.ref = x.ref
           /\ Tabled(v, Without(A, c, d, k))
           /\ Drops(v, y, Left(x, c, i - 1), S) /\ Left(x, c, i - 1) \ S = Left(y, c, i)
  <2>1. d = x.client[c].watched[i].db /\ k = x.name[x.client[c].watched[i].key]
    OBVIOUS
  <2> HIDE DEF d, k
  <2>2. DroppedOne(x, y, A, c, i, d, k)
    BY <2>1, UnwatchedDrops
  <2> QED BY <2>2 DEF DroppedOne
<1>3. PICK S :
           /\ v.client = x.client /\ v.name = x.name /\ v.ref = x.ref
           /\ Tabled(v, B)
           /\ Drops(v, y, R, S) /\ R \ S = Left(y, c, i)
  BY <1>2
<1>4. y \in State /\ Counted(y, Left(y, c, i)) /\ y.client = v.client /\ y.watched = v.watched
  BY <1>3 DEF Drops
<1>5. B \in AskedType /\ \A b \in Client : \A p : p \in B[b] <=> p \in A[b] /\ ~(b = c /\ p = <<d, k>>)
  BY <1>1, WithoutFacts
<1>6. \A b \in Client \ {c} : B[b] = A[b]
  BY <1>5 DEF Without, AskedType
<1>7. ASSUME NEW b \in Client PROVE Listed(v, b, From(b, c, i), B[b])
  <2>1. \A j : Pair(v, b, j) = Pair(x, b, j)
    BY <1>3 DEF Pair
  <2>2. CASE b = c
    <3>1. Listed(x, c, i - 1, A[c])
      BY <1>1, <2>2 DEF From
    <3>2. Pair(x, c, i) = <<d, k>>
      BY DEF Pair
    <3>3. \A j \in DOMAIN x.client[c].watched : /\ j > i => j > i - 1 /\ j # i
                                                /\ j > i - 1 => j = i \/ j > i
      BY <1>0
    <3>4. i > i - 1
      BY <1>0
    <3> DEFINE W == DOMAIN x.client[c].watched
               P == A[c]
               Q == B[c]
    <3>5. \A p : p \in Q <=> p \in P /\ p # <<d, k>>
      BY <1>5
    <3>6. DOMAIN v.client[c].watched = W
      BY <1>3
    <3> HIDE DEF Q, d, k
    <3>7. \A j \in W : j > i => Pair(x, c, j) \in Q
      BY <3>1, <3>2, <3>3, <3>4, <3>5 DEF Listed
    <3>8. \A p \in Q : \E j \in W : j > i /\ Pair(x, c, j) = p
      BY <3>1, <3>2, <3>3, <3>5 DEF Listed
    <3>9. \A j, l \in W : j > i /\ l > i /\ Pair(x, c, j) = Pair(x, c, l) => j = l
      BY <3>1, <3>3 DEF Listed
    <3>10. Listed(v, c, i, Q)
      BY <2>1, <2>2, <3>6, <3>7, <3>8, <3>9 DEF Listed
    <3> QED BY <2>2, <3>10 DEF From, Q
  <2>3. CASE b # c
    <3>1. Listed(x, b, 0, A[b]) /\ B[b] = A[b]
      BY <1>1, <1>6, <2>3 DEF From
    <3>2. v.client[b].watched = x.client[b].watched /\ v.name = x.name
      BY <1>3
    <3>3. Listed(v, b, 0, A[b])
      BY <3>1, <3>2, ListedKept
    <3> QED BY <2>3, <3>1, <3>3 DEF From
  <2> QED BY <2>2, <2>3
<1> HIDE DEF B, R
<1>8. ASSUME NEW b \in Client PROVE Listed(y, b, From(b, c, i), B[b])
  <2>1. ListHeld(y, b, From(b, c, i), Left(y, c, i))
    BY <1>0, <1>4, ListsLeft
  <2>2. ListHeld(v, b, From(b, c, i), R \ S)
    BY <1>3, <1>4, <2>1 DEF ListHeld
  <2> QED BY <1>3, <1>7, <2>2, DropsListed
<1>9. Tabled(y, B)
  <2>1. Tables(v) \subseteq R \ S
    <3>1. Tables(v) = Tables(y)
      BY <1>4, TablesSame
    <3> QED BY <1>3, <3>1 DEF Left
  <2> QED BY <1>3, <2>1, DropsTabled
<1>10. Mid(y, B, c, i)
  BY <1>4, <1>5, <1>8, <1>9 DEF Mid
<1> QED BY <1>3, <1>4, <1>6, <1>10 DEF Stepped

UnOp(p, r, w) == Unwatched(r, p[1], w)
UnGood(p, i, r) == \E B : Mid(r, B, p[1], i) /\ r.client = p[2] /\ \A b \in Client \ {p[1]} : B[b] = p[3][b]
Uns == INSTANCE FoldFacts WITH Op <- UnOp, Good <- UnGood

\* x with other fields for c
WithClient(x, c, r) == [x EXCEPT !.client[c] = r]
OneClient(x, y, c, r) ==
  /\ y \in State /\ y.watched = x.watched /\ y.ref = x.ref /\ y.name = x.name
  /\ y.client = [x.client EXCEPT ![c] = r]
  /\ y.client[c] = r /\ \A b \in Client : b # c => y.client[b] = x.client[b]

LEMMA WithClientFacts ==
  ASSUME NEW x \in State, NEW c \in Client, NEW r \in ClientRec, NEW y, y = WithClient(x, c, r)
  PROVE  OneClient(x, y, c, r)
<1> DEFINE w == [x.client EXCEPT ![c] = r]
<1>1. x.client \in [Client -> ClientRec]
  BY StateFacts
<1>2. w \in [Client -> ClientRec] /\ w[c] = r /\ \A b \in Client : b # c => w[b] = x.client[b]
  BY <1>1
<1>3. y = [x EXCEPT !.client = w]
  BY DEF WithClient
<1> HIDE DEF w
<1>4. y \in State /\ y.watched = x.watched /\ y.ref = x.ref /\ y.name = x.name /\ y.client = w
  BY <1>2, <1>3 DEF State
<1> QED BY <1>2, <1>4 DEF OneClient, w

\* The fields of a client with another list, queue, flags
Relisted(r, w) == [r EXCEPT !.watched = w]
Requeued(r, q) == [r EXCEPT !.commands = q]
Reflagged(r, f) == [r EXCEPT !.flags = f]

LEMMA FieldFacts ==
  ASSUME NEW r \in ClientRec
  PROVE  /\ \A w \in Seq(Watch) : /\ Relisted(r, w) \in ClientRec /\ Relisted(r, w).watched = w
                                  /\ Relisted(r, w).commands = r.commands /\ Relisted(r, w).flags = r.flags
                                  /\ Relisted(r, w).db = r.db /\ Relisted(r, w).live = r.live
         /\ \A q \in Seq(ArgvType) : /\ Requeued(r, q) \in ClientRec /\ Requeued(r, q).watched = r.watched
                                     /\ Requeued(r, q).commands = q /\ Requeued(r, q).flags = r.flags
                                     /\ Requeued(r, q).db = r.db /\ Requeued(r, q).live = r.live
         /\ \A f \in SUBSET Flags : /\ Reflagged(r, f) \in ClientRec /\ Reflagged(r, f).watched = r.watched
                                    /\ Reflagged(r, f).commands = r.commands /\ Reflagged(r, f).flags = f
                                    /\ Reflagged(r, f).db = r.db /\ Reflagged(r, f).live = r.live
<1>1. ASSUME NEW w \in Seq(Watch)
      PROVE  /\ Relisted(r, w) \in ClientRec /\ Relisted(r, w).watched = w
             /\ Relisted(r, w).commands = r.commands /\ Relisted(r, w).flags = r.flags
             /\ Relisted(r, w).db = r.db /\ Relisted(r, w).live = r.live
  BY DEF ClientRec, Relisted
<1>2. ASSUME NEW q \in Seq(ArgvType)
      PROVE  /\ Requeued(r, q) \in ClientRec /\ Requeued(r, q).watched = r.watched
             /\ Requeued(r, q).commands = q /\ Requeued(r, q).flags = r.flags
             /\ Requeued(r, q).db = r.db /\ Requeued(r, q).live = r.live
  BY DEF ClientRec, Requeued
<1>3. ASSUME NEW f \in SUBSET Flags
      PROVE  /\ Reflagged(r, f) \in ClientRec /\ Reflagged(r, f).watched = r.watched
             /\ Reflagged(r, f).commands = r.commands /\ Reflagged(r, f).flags = f
             /\ Reflagged(r, f).db = r.db /\ Reflagged(r, f).live = r.live
  BY DEF ClientRec, Reflagged
<1> QED BY <1>1, <1>2, <1>3

LEMMA QueuesKept ==
  ASSUME NEW x, NEW y, \A b \in Client : y.client[b].commands = x.client[b].commands
  PROVE  Queues(y) = Queues(x)
<1>1. ASSUME NEW g PROVE g \in Queues(y) <=> g \in Queues(x)
  BY RefMembers
<1> QED BY <1>1

LEMMA ListsKept ==
  ASSUME NEW x, NEW y, \A b \in Client : y.client[b].watched = x.client[b].watched
  PROVE  Lists(y) = Lists(x)
<1>1. ASSUME NEW g PROVE g \in Lists(y) <=> g \in Lists(x)
  BY RefMembers
<1> QED BY <1>1

LEMMA TabledSame ==
  ASSUME NEW x, NEW y, NEW A, Tabled(x, A), y.watched = x.watched, y.name = x.name
  PROVE  Tabled(y, A)
BY DEF Tabled, EntryOk

Asked(A, c, P) == [A EXCEPT ![c] = P]

LEMMA AskedFacts ==
  ASSUME NEW A \in AskedType, NEW c \in Client, NEW P \in SUBSET (Db \X Name)
  PROVE  /\ Asked(A, c, P) \in AskedType /\ Asked(A, c, P)[c] = P
         /\ \A b \in Client : b # c => Asked(A, c, P)[b] = A[b]
<1> DEFINE T == SUBSET (Db \X Name)
<1>1. A \in [Client -> T] /\ P \in T
  BY DEF AskedType
<1> HIDE DEF T
<1>2. /\ Asked(A, c, P) \in [Client -> T] /\ Asked(A, c, P)[c] = P
      /\ \A b \in Client : b # c => Asked(A, c, P)[b] = A[b]
  BY <1>1 DEF Asked
<1> QED BY <1>2 DEF AskedType, T

LEMMA AskedIs ==
  ASSUME NEW A \in AskedType, NEW B \in AskedType, NEW c \in Client,
         \A b \in Client \ {c} : B[b] = A[b]
  PROVE  B = Asked(A, c, B[c])
BY DEF AskedType, Asked

LEMMA UnwatchAll ==
  ASSUME NEW x, NEW A \in AskedType, Rest(x, A), NEW c \in Client, NEW y, y = unwatchAllKeys(x, c)
  PROVE  /\ Rest(y, Asked(A, c, {}))
         /\ y.client = [x.client EXCEPT ![c] = Relisted(x.client[c], <<>>)]
<1> DEFINE p == <<c, x.client, A>>
           w == x.client[c].watched
           n == Len(w)
           f == Uns!Fold(p, x, w)
           r == Relisted(f.client[c], <<>>)
<1>1. p[1] = c /\ p[2] = x.client /\ p[3] = A
  OBVIOUS
<1> HIDE DEF p
<1>2. w \in Seq(Watch) /\ n \in Nat /\ DOMAIN w = 1..n /\ x \in State
  <2>1. x \in State
    BY DEF Rest
  <2>2. w \in Seq(Watch)
    BY <2>1, StateFacts
  <2> HIDE DEF w
  <2> QED BY <2>1, <2>2
<1>3. y = WithClient(f, c, r)
  <2>1. f = FoldLeft(LAMBDA z, v : Unwatched(z, c, v), x, x.client[c].watched)
    BY <1>1 DEF Uns!Fold, UnOp, FoldLeft, MapThenFoldSet, Max,
                Uns!FoldLeft, Uns!MapThenFoldSet, Uns!Max
  <2> HIDE DEF f
  <2> QED BY <2>1 DEF unwatchAllKeys, WithClient, Relisted
<1>4. UnGood(p, 0, x)
  <2>1. Refs(x) = Left(x, c, 0)
    BY DEF Refs, Left, Gone
  <2>2. Mid(x, A, c, 0)
    BY <2>1 DEF Mid, Rest, From
  <2> QED BY <1>1, <2>2 DEF UnGood
<1>5. ASSUME NEW q, NEW i \in 1..n, UnGood(p, i - 1, q)
      PROVE  UnGood(p, i, UnOp(p, q, w[i]))
  <2>1. PICK B : Mid(q, B, c, i - 1) /\ q.client = x.client /\ \A b \in Client \ {c} : B[b] = A[b]
    BY <1>1, <1>5 DEF UnGood
  <2> DEFINE v == UnOp(p, q, w[i])
  <2>2. i \in DOMAIN q.client[c].watched /\ v = Unwatched(q, c, q.client[c].watched[i])
    BY <1>1, <1>2, <2>1 DEF UnOp
  <2> HIDE DEF v
  <2>3. PICK D : Mid(v, D, c, i) /\ v.client = q.client /\ \A b \in Client \ {c} : D[b] = B[b]
    <3>1. Stepped(q, v, B, c, i)
      BY <2>1, <2>2, UnwatchedStep
    <3> QED BY <3>1 DEF Stepped
  <2>4. v.client = x.client /\ \A b \in Client \ {c} : D[b] = A[b]
    BY <2>1, <2>3
  <2> QED BY <1>1, <2>3, <2>4 DEF UnGood, v
<1>6. UnGood(p, n, f)
  <2> HIDE DEF w
  <2> QED BY <1>2, <1>4, <1>5, Uns!FoldKeeps
<1> HIDE DEF f
<1>7. PICK B : Mid(f, B, c, n) /\ f.client = x.client /\ \A b \in Client \ {c} : B[b] = A[b]
  BY <1>1, <1>6 DEF UnGood
<1>8. /\ f \in State /\ B \in AskedType /\ Tabled(f, B) /\ Counted(f, Left(f, c, n))
      /\ \A b \in Client : Listed(f, b, From(b, c, n), B[b])
  BY <1>7 DEF Mid
<1>9. B = Asked(A, c, {})
  <2>1. B[c] = {}
    <3>1. Listed(f, c, n, B[c])
      BY <1>8 DEF From
    <3>2. DOMAIN f.client[c].watched = 1..n
      BY <1>2, <1>7
    <3>3. \A i \in 1..n : ~(i > n)
      BY <1>2
    <3> QED BY <3>1, <3>2, <3>3 DEF Listed
  <2>2. B = Asked(A, c, B[c])
    BY <1>7, <1>8, AskedIs
  <2> QED BY <2>1, <2>2
<1>10. r \in ClientRec /\ r.watched = <<>> /\ r.commands = f.client[c].commands
  <2>1. f.client[c] \in ClientRec
    BY <1>8, StateFacts
  <2>2. <<>> \in Seq(Watch)
    OBVIOUS
  <2> QED BY <2>1, <2>2, FieldFacts
<1>11. OneClient(f, y, c, r)
  <2> HIDE DEF r
  <2> QED BY <1>3, <1>8, <1>10, WithClientFacts
<1>12. y.client = [x.client EXCEPT ![c] = Relisted(x.client[c], <<>>)]
  BY <1>7, <1>11 DEF OneClient
<1> HIDE DEF r
<1>13. /\ y \in State /\ y.watched = f.watched /\ y.ref = f.ref /\ y.name = f.name
       /\ y.client[c] = r /\ \A b \in Client : b # c => y.client[b] = f.client[b]
  BY <1>11 DEF OneClient
<1>14. Refs(y) = Left(f, c, n)
  <2>1. Tables(y) = Tables(f)
    BY <1>13, TablesSame
  <2>2. Queues(y) = Queues(f)
    BY <1>10, <1>13, QueuesKept
  <2>3. ASSUME NEW g PROVE g \in Lists(y) <=> g \in Lists(f) /\ g \notin Gone(f, c, n)
    <3>1. g \in Lists(y) <=> \E b \in Client : \E i \in DOMAIN y.client[b].watched :
                               g = ListRef(b, i, y.client[b].watched[i].key)
      BY RefMembers
    <3>2. g \in Lists(f) <=> \E b \in Client : \E i \in DOMAIN f.client[b].watched :
                               g = ListRef(b, i, f.client[b].watched[i].key)
      BY RefMembers
    <3>3. g \in Gone(f, c, n) <=> \E i \in DOMAIN f.client[c].watched :
                                    g = ListRef(c, i, f.client[c].watched[i].key)
      BY <1>2, <1>7 DEF Gone
    <3>4. DOMAIN y.client[c].watched = {}
      BY <1>10, <1>13
    <3> QED BY <1>13, <3>1, <3>2, <3>3, <3>4, RefFacts
  <2> QED BY <2>1, <2>2, <2>3 DEF Refs, Left
<1>15. Counted(y, Refs(y))
  BY <1>8, <1>13, <1>14, CountedSame
<1>16. Tabled(y, B)
  BY <1>8, <1>13, TabledSame
<1>17. ASSUME NEW b \in Client PROVE Listed(y, b, 0, B[b])
  <2>1. CASE b = c
    <3>1. DOMAIN y.client[c].watched = {} /\ B[c] = {}
      <4>1. {} \in SUBSET (Db \X Name)
        OBVIOUS
      <4> QED BY <1>9, <1>10, <1>13, <4>1, AskedFacts
    <3> QED BY <2>1, <3>1 DEF Listed
  <2>2. CASE b # c
    <3>1. Listed(f, b, 0, B[b])
      BY <1>8, <2>2 DEF From
    <3> QED BY <1>13, <2>2, <3>1, ListedKept
  <2> QED BY <2>1, <2>2
<1> QED BY <1>9, <1>12, <1>13, <1>15, <1>16, <1>17 DEF Rest

-----------------------------------------------------------------------------
(* The other changes of a client.                                          *)

LEMMA RestSame ==
  ASSUME NEW x, NEW A, Rest(x, A), NEW y \in State, y.watched = x.watched, y.ref = x.ref, y.name = x.name,
         \A b \in Client : /\ y.client[b].watched = x.client[b].watched
                           /\ y.client[b].commands = x.client[b].commands
  PROVE  Rest(y, A)
<1>1. Refs(y) = Refs(x)
  BY QueuesKept, ListsKept, TablesSame DEF Refs
<1>2. Counted(y, Refs(y))
  BY <1>1, CountedSame DEF Rest
<1>3. Tabled(y, A)
  BY TabledSame DEF Rest
<1>4. ASSUME NEW b \in Client PROVE Listed(y, b, 0, A[b])
  <2>1. Listed(x, b, 0, A[b])
    BY DEF Rest
  <2>2. y.client[b].watched = x.client[b].watched
    OBVIOUS
  <2>3. \A i \in DOMAIN x.client[b].watched :
          i > 0 => y.name[x.client[b].watched[i].key] = x.name[x.client[b].watched[i].key]
    OBVIOUS
  <2> DEFINE z == 0
  <2> HIDE DEF z
  <2>4. Listed(x, b, z, A[b]) => Listed(y, b, z, A[b])
    BY <2>2, ListedKept
  <2> QED BY <2>1, <2>4 DEF z
<1> QED BY <1>2, <1>3, <1>4 DEF Rest

\* A client without its queue: r is what it becomes.
LEMMA ClearQueue ==
  ASSUME NEW x, NEW A, Rest(x, A), NEW c \in Client, NEW v, v = freeClientMultiState(x, c),
         NEW r \in ClientRec, r.commands = <<>>, r.watched = x.client[c].watched,
         NEW y, y = WithClient(v, c, r)
  PROVE  Rest(y, A) /\ OneClient(v, y, c, r) /\ v.client = x.client
<1> DEFINE n == Len(x.client[c].commands)
           Q == Queued(x, c, n)
           R == Refs(x)
<1>1. x \in State /\ Counted(x, R) /\ Tabled(x, A) /\ \A b \in Client : Listed(x, b, 0, A[b])
  BY DEF Rest
<1>2. x.client[c].commands \in Seq(ArgvType)
  BY <1>1, StateFacts
<1>3. n \in Nat /\ DOMAIN x.client[c].commands = 1..n
  BY <1>2
<1>4. \A g : g \in Q <=> \E i \in DOMAIN x.client[c].commands : \E j \in DOMAIN x.client[c].commands[i] :
                           g = QueueRef(c, i, j, x.client[c].commands[i][j])
  BY <1>3 DEF Queued
<1> HIDE DEF Q
<1>5. Q \subseteq Queues(x) /\ Q \subseteq R
  BY <1>4, RefMembers
<1>6. Drops(x, v, R, Q)
  BY <1>1, <1>5, FreeDrops DEF Q
<1>7. v \in State /\ v.client = x.client /\ v.watched = x.watched /\ Counted(v, R \ Q)
  BY <1>6 DEF Drops
<1>8. OneClient(v, y, c, r)
  BY <1>7, WithClientFacts
<1>9. /\ y \in State /\ y.watched = v.watched /\ y.ref = v.ref /\ y.name = v.name
      /\ y.client[c] = r /\ \A b \in Client : b # c => y.client[b] = v.client[b]
  BY <1>8 DEF OneClient
<1>10. Lists(x) \cap Q = {} /\ Tables(x) \cap Q = {}
  BY <1>4, RefKinds, RefMembers
<1>11. \A b \in Client : y.client[b].watched = x.client[b].watched
  BY <1>7, <1>9
<1>12. Refs(y) = R \ Q
  <2>1. Lists(y) = Lists(x)
    BY <1>11, ListsKept
  <2>2. Tables(y) = Tables(x)
    <3>1. y.watched = x.watched
      BY <1>7, <1>9
    <3> QED BY <3>1, TablesSame
  <2>3. ASSUME NEW g PROVE g \in Queues(y) <=> g \in Queues(x) /\ g \notin Q
    <3>1. g \in Queues(y) <=> \E b \in Client : \E i \in DOMAIN y.client[b].commands :
                                 \E j \in DOMAIN y.client[b].commands[i] :
                                   g = QueueRef(b, i, j, y.client[b].commands[i][j])
      BY RefMembers
    <3>2. g \in Queues(x) <=> \E b \in Client : \E i \in DOMAIN x.client[b].commands :
                                 \E j \in DOMAIN x.client[b].commands[i] :
                                   g = QueueRef(b, i, j, x.client[b].commands[i][j])
      BY RefMembers
    <3>3. DOMAIN y.client[c].commands = {}
      BY <1>9
    <3>4. \A b \in Client : b # c => y.client[b].commands = x.client[b].commands
      BY <1>7, <1>9
    <3> QED BY <1>4, <3>1, <3>2, <3>3, <3>4, RefFacts
  <2> QED BY <1>10, <2>1, <2>2, <2>3 DEF Refs
<1>13. Counted(y, Refs(y))
  BY <1>7, <1>9, <1>12, CountedSame
<1>14. Tabled(y, A)
  <2>1. Tabled(v, A)
    <3>1. Tables(x) \subseteq R \ Q
      BY <1>10 DEF Refs
    <3> HIDE DEF R
    <3> QED BY <1>1, <1>6, <3>1, DropsTabled
  <2> QED BY <1>9, <2>1, TabledSame
<1>15. ASSUME NEW b \in Client PROVE Listed(y, b, 0, A[b])
  <2> DEFINE z == 0
  <2>1. Listed(x, b, z, A[b])
    BY <1>1
  <2>2. ListHeld(x, b, z, R \ Q)
    <3> SUFFICES ASSUME NEW i \in DOMAIN x.client[b].watched
                 PROVE  ListRef(b, i, x.client[b].watched[i].key) \in R \ Q
      BY DEF ListHeld
    <3>1. ListRef(b, i, x.client[b].watched[i].key) \in Lists(x)
      BY RefMembers
    <3> QED BY <1>10, <3>1 DEF Refs
  <2> HIDE DEF z, R
  <2>3. Listed(v, b, z, A[b])
    BY <1>1, <1>6, <2>1, <2>2, DropsListed
  <2>4. y.client[b].watched = v.client[b].watched
    BY <1>7, <1>11
  <2>5. Listed(y, b, z, A[b])
    BY <1>9, <2>3, <2>4, ListedKept
  <2> QED BY <2>5 DEF z
<1> QED BY <1>7, <1>8, <1>9, <1>13, <1>14, <1>15 DEF Rest

LEMMA FlaggedFacts ==
  ASSUME NEW x, NEW A, Rest(x, A), NEW cs, NEW f \in Flags, NEW y, y = Flagged(x, cs, f)
  PROVE  /\ Rest(y, A)
         /\ \A b \in Client : y.client[b] = IF b \in cs THEN Reflagged(x.client[b], x.client[b].flags \cup {f})
                                            ELSE x.client[b]
<1> DEFINE v(b) == IF b \in cs THEN Reflagged(x.client[b], x.client[b].flags \cup {f}) ELSE x.client[b]
           w == [b \in Client |-> v(b)]
<1>1. x \in State
  BY DEF Rest
<1>2. ASSUME NEW b \in Client
      PROVE  /\ v(b) \in ClientRec /\ v(b).watched = x.client[b].watched /\ v(b).commands = x.client[b].commands
  <2>1. x.client[b] \in ClientRec /\ x.client[b].flags \cup {f} \in SUBSET Flags
    BY <1>1, StateFacts
  <2> QED BY <2>1, FieldFacts
<1>3. y = [x EXCEPT !.client = w]
  BY DEF Flagged, Reflagged
<1> HIDE DEF v
<1>4. w \in [Client -> ClientRec] /\ \A b \in Client : w[b] = v(b)
  BY <1>2
<1> HIDE DEF w
<1>5. y \in State /\ y.watched = x.watched /\ y.ref = x.ref /\ y.name = x.name /\ y.client = w
  BY <1>1, <1>3, <1>4 DEF State
<1>6. Rest(y, A)
  BY <1>2, <1>4, <1>5, RestSame
<1> QED BY <1>4, <1>5, <1>6 DEF v

-----------------------------------------------------------------------------
(* Inside a request: its arguments are referred to as well.                *)

ArgRefs(argv) == [j \in 1..Len(argv) |-> ArgRef(j, argv[j])]
Args(argv) == Upto(ArgRefs(argv), Len(argv))

Busy(x, A, argv) ==
  /\ x \in State /\ Tabled(x, A) /\ Counted(x, Refs(x) \cup Args(argv))
  /\ \A c \in Client : Listed(x, c, 0, A[c])

LEMMA ArgMembers ==
  ASSUME NEW argv
  PROVE  \A g : g \in Args(argv) <=> \E j \in 1..Len(argv) : g = ArgRef(j, argv[j])
BY DEF Args, ArgRefs, Upto

LEMMA ArgsApart ==
  ASSUME NEW x, NEW argv
  PROVE  Refs(x) \cap Args(argv) = {}
<1>1. ASSUME NEW g \in Args(argv) PROVE g \notin Lists(x) /\ g \notin Tables(x) /\ g \notin Queues(x)
  <2>1. PICK j \in 1..Len(argv) : g = ArgRef(j, argv[j])
    BY ArgMembers
  <2> QED BY <2>1, RefKinds, RefMembers
<1> QED BY <1>1 DEF Refs

\* resetClient lets go of them.
LEMMA Release ==
  ASSUME NEW x, NEW A, NEW argv \in Seq(Obj), Busy(x, A, argv), NEW y, y = decrAll(x, argv)
  PROVE  Rest(y, A) /\ y.client = x.client
<1> DEFINE f == ArgRefs(argv)
           S == Args(argv)
           R == Refs(x) \cup S
<1>1. x \in State /\ Tabled(x, A) /\ Counted(x, R) /\ \A c \in Client : Listed(x, c, 0, A[c])
  BY DEF Busy
<1>2. Names(f, argv, R)
  <2>1. \A j \in 1..Len(argv) : f[j] = ArgRef(j, argv[j])
    BY DEF ArgRefs
  <2> HIDE DEF f
  <2>2. \A j \in 1..Len(argv) : f[j] \in S /\ f[j][2] = argv[j]
    BY <2>1, ArgMembers, RefObject
  <2>3. \A i, j \in 1..Len(argv) : f[i] = f[j] => i = j
    BY <2>1, RefFacts
  <2> QED BY <2>2, <2>3 DEF Names
<1> HIDE DEF R
<1>3. Drops(x, y, R, S)
  BY <1>1, <1>2, DecrAllDrops DEF Args
<1>4. R \ S = Refs(x)
  BY ArgsApart DEF R
<1>5. y \in State /\ y.client = x.client /\ y.watched = x.watched /\ Counted(y, Refs(x))
  BY <1>3, <1>4 DEF Drops
<1>6. Refs(y) = Refs(x)
  BY <1>5, ClientRefs, TablesSame DEF Refs
<1> HIDE DEF S
<1>7. Tabled(y, A)
  <2>1. Tables(x) \subseteq R \ S
    BY <1>4 DEF Refs
  <2> QED BY <1>1, <1>3, <2>1, DropsTabled
<1>8. ASSUME NEW b \in Client PROVE Listed(y, b, 0, A[b])
  <2> DEFINE z == 0
  <2>1. Listed(x, b, z, A[b])
    BY <1>1
  <2>2. ListHeld(x, b, z, R \ S)
    BY <1>4, RefMembers DEF ListHeld
  <2> HIDE DEF z
  <2>3. Listed(y, b, z, A[b])
    BY <1>1, <1>3, <2>1, <2>2, DropsListed
  <2> QED BY <2>3 DEF z
<1> QED BY <1>5, <1>6, <1>7, <1>8 DEF Rest

LEMMA QueueBusy ==
  ASSUME NEW x, NEW A, NEW argv \in Seq(Obj), Busy(x, A, argv), NEW c \in Client,
         NEW y, y = queueMultiCommand(x, c, argv)
  PROVE  /\ Busy(y, A, argv)
         /\ y.client = [x.client EXCEPT ![c] = Requeued(x.client[c], Append(x.client[c].commands, argv))]
<1> DEFINE q == x.client[c].commands
           n == Len(q)
           p == Append(q, argv)
           r == Requeued(x.client[c], p)
           v == WithClient(x, c, r)
           f == [j \in 1..Len(argv) |-> QueueRef(c, n + 1, j, argv[j])]
           S == Upto(f, Len(argv))
           R == Refs(x) \cup Args(argv)
<1>1. x \in State /\ Tabled(x, A) /\ Counted(x, R) /\ \A b \in Client : Listed(x, b, 0, A[b])
  BY DEF Busy
<1>2. x.client[c] \in ClientRec /\ q \in Seq(ArgvType)
  BY <1>1, StateFacts
<1>3. argv \in ArgvType
  BY DEF ArgvType
<1>4. /\ p \in Seq(ArgvType) /\ n \in Nat /\ DOMAIN q = 1..n /\ DOMAIN p = 1..(n + 1)
      /\ p[n + 1] = argv /\ \A i \in 1..n : p[i] = q[i]
  <2> HIDE DEF q
  <2> QED BY <1>2, <1>3
<1>5. y = incrAll(v, argv)
  BY DEF queueMultiCommand, WithClient, Requeued
<1> HIDE DEF p
<1>6. r \in ClientRec /\ r.commands = p /\ r.watched = x.client[c].watched
  BY <1>2, <1>4, FieldFacts
<1> HIDE DEF r
<1>7. OneClient(x, v, c, r)
  BY <1>1, <1>6, WithClientFacts
<1> HIDE DEF v
<1>8. /\ v \in State /\ v.watched = x.watched /\ v.ref = x.ref /\ v.name = x.name
      /\ v.client[c] = r /\ \A b \in Client : b # c => v.client[b] = x.client[b]
      /\ v.client = [x.client EXCEPT ![c] = r]
  BY <1>7 DEF OneClient
<1>9. \A g : g \in S <=> \E j \in DOMAIN argv : g = QueueRef(c, n + 1, j, argv[j])
  <2>1. DOMAIN argv = 1..Len(argv)
    OBVIOUS
  <2> QED BY <2>1 DEF Upto
<1> HIDE DEF S, n
<1>10. ASSUME NEW g PROVE g \in Queues(v) <=> g \in Queues(x) \/ g \in S
  <2>1. g \in Queues(v) <=> \E b \in Client : \E i \in DOMAIN v.client[b].commands :
                               \E j \in DOMAIN v.client[b].commands[i] :
                                 g = QueueRef(b, i, j, v.client[b].commands[i][j])
    BY RefMembers
  <2>2. g \in Queues(x) <=> \E b \in Client : \E i \in DOMAIN x.client[b].commands :
                               \E j \in DOMAIN x.client[b].commands[i] :
                                 g = QueueRef(b, i, j, x.client[b].commands[i][j])
    BY RefMembers
  <2>3. v.client[c].commands = p /\ \A b \in Client : b # c => v.client[b].commands = x.client[b].commands
    BY <1>6, <1>8
  <2>4. \A i \in DOMAIN p : i = n + 1 \/ (i \in DOMAIN q /\ p[i] = q[i])
    BY <1>4
  <2>5. n + 1 \in DOMAIN p /\ \A i \in DOMAIN q : i \in DOMAIN p /\ p[i] = q[i]
    BY <1>4
  <2>6. ASSUME g \in Queues(v) PROVE g \in Queues(x) \/ g \in S
    <3>1. PICK b \in Client : \E i \in DOMAIN v.client[b].commands :
                               \E j \in DOMAIN v.client[b].commands[i] :
                                 g = QueueRef(b, i, j, v.client[b].commands[i][j])
      BY <2>1, <2>6
    <3>2. CASE b # c
      BY <2>2, <2>3, <3>1, <3>2
    <3>3. CASE b = c
      <4>1. PICK i \in DOMAIN p : \E j \in DOMAIN p[i] : g = QueueRef(c, i, j, p[i][j])
        BY <2>3, <3>1, <3>3
      <4>2. CASE i = n + 1
        BY <1>4, <1>9, <4>1, <4>2
      <4>3. CASE i # n + 1
        <5>1. i \in DOMAIN q /\ \E j \in DOMAIN q[i] : g = QueueRef(c, i, j, q[i][j])
          BY <2>4, <4>1, <4>3
        <5> QED BY <2>2, <5>1
      <4> QED BY <4>2, <4>3
    <3> QED BY <3>2, <3>3
  <2>7. ASSUME g \in Queues(x) PROVE g \in Queues(v)
    <3>1. PICK b \in Client : \E i \in DOMAIN x.client[b].commands :
                               \E j \in DOMAIN x.client[b].commands[i] :
                                 g = QueueRef(b, i, j, x.client[b].commands[i][j])
      BY <2>2, <2>7
    <3>2. CASE b # c
      BY <2>1, <2>3, <3>1, <3>2
    <3>3. CASE b = c
      <4>1. PICK i \in DOMAIN q : \E j \in DOMAIN q[i] : g = QueueRef(c, i, j, q[i][j])
        BY <3>1, <3>3
      <4>2. i \in DOMAIN p /\ \E j \in DOMAIN p[i] : g = QueueRef(c, i, j, p[i][j])
        BY <2>5, <4>1
      <4> QED BY <2>1, <2>3, <4>2
    <3> QED BY <3>2, <3>3
  <2>8. ASSUME g \in S PROVE g \in Queues(v)
    <3>1. n + 1 \in DOMAIN p /\ \E j \in DOMAIN p[n + 1] : g = QueueRef(c, n + 1, j, p[n + 1][j])
      BY <1>4, <1>9, <2>5, <2>8
    <3> QED BY <2>1, <2>3, <3>1
  <2> QED BY <2>6, <2>7, <2>8
<1>11. S \cap R = {}
  <2>1. ASSUME NEW g \in S PROVE g \notin Refs(x) /\ g \notin Args(argv)
    <3>1. PICK j \in DOMAIN argv : g = QueueRef(c, n + 1, j, argv[j])
      BY <1>9
    <3>2. g \notin Lists(x) /\ g \notin Tables(x) /\ g \notin Args(argv)
      BY <3>1, RefKinds, RefMembers, ArgMembers
    <3>3. g \notin Queues(x)
      <4>1. ASSUME NEW b \in Client, NEW i \in DOMAIN x.client[b].commands, NEW l,
                   g = QueueRef(b, i, l, x.client[b].commands[i][l])
            PROVE  FALSE
        <5>1. b = c /\ i = n + 1
          BY <3>1, <4>1, RefFacts
        <5>2. n + 1 \in 1..n
          BY <1>4, <5>1
        <5> QED BY <1>4, <5>2
      <4> QED BY <4>1, RefMembers
    <3> QED BY <3>2, <3>3 DEF Refs
  <2> QED BY <2>1
<1>12. Refs(v) = Refs(x) \cup S
  <2>1. Lists(v) = Lists(x)
    BY <1>6, <1>8, ListsKept
  <2>2. Tables(v) = Tables(x)
    BY <1>8, TablesSame
  <2> QED BY <1>10, <2>1, <2>2 DEF Refs
<1>13. Names(f, argv, S)
  <2>1. \A j \in 1..Len(argv) : f[j] \in S
    BY DEF S, Upto
  <2>2. \A j \in 1..Len(argv) : f[j][2] = argv[j]
    BY RefObject
  <2>3. \A i, j \in 1..Len(argv) : f[i] = f[j] => i = j
    BY RefFacts
  <2> QED BY <2>1, <2>2, <2>3 DEF Names
<1>14. \A i \in 1..Len(argv) : v.name[argv[i]] \in Name
  <2> TAKE i \in 1..Len(argv)
  <2>1. argv[i] \in Obj /\ ArgRef(i, argv[i]) \in R /\ ArgRef(i, argv[i])[2] = argv[i]
    BY ArgMembers, RefObject
  <2>2. Held(R, argv[i])
    BY <2>1 DEF Held
  <2> HIDE DEF R
  <2>3. x.name[argv[i]] \in Name
    BY <1>1, <2>1, <2>2 DEF Counted
  <2> QED BY <1>8, <2>3
<1> HIDE DEF R, f
<1>15. Counted(v, R)
  BY <1>1, <1>8, CountedSame
<1>16. Takes(v, y, R, S)
  <2>1. Takes(v, incrAll(v, argv), R, Upto(f, Len(argv)))
    BY <1>8, <1>11, <1>13, <1>14, <1>15, IncrAllTakes
  <2> QED BY <1>5, <2>1 DEF S, f
<1>17. y \in State /\ y.client = v.client /\ y.watched = v.watched /\ y.name = v.name /\ Counted(y, R \cup S)
  BY <1>16 DEF Takes
<1>18. Refs(y) \cup Args(argv) = R \cup S
  <2>1. Refs(y) = Refs(v)
    BY <1>17, ClientRefs, TablesSame DEF Refs
  <2> QED BY <1>12, <2>1 DEF R
<1>19. Tabled(y, A)
  BY <1>1, <1>8, <1>17, TabledSame
<1>20. ASSUME NEW b \in Client PROVE Listed(y, b, 0, A[b])
  <2> DEFINE z == 0
  <2>1. Listed(x, b, z, A[b])
    BY <1>1
  <2>2. y.client[b].watched = x.client[b].watched /\ y.name = x.name
    BY <1>6, <1>8, <1>17
  <2> HIDE DEF z
  <2>3. Listed(y, b, z, A[b])
    BY <2>1, <2>2, ListedKept
  <2> QED BY <2>3 DEF z
<1>21. Busy(y, A, argv)
  BY <1>17, <1>18, <1>19, <1>20 DEF Busy
<1> QED BY <1>8, <1>17, <1>21 DEF r, p

LEMMA SomeArgv ==
  ASSUME NEW F, IsFiniteSet(F), NEW n \in Nat, n <= Cardinality(F)
  PROVE  \E argv \in [1..n -> F] : IsInjective(argv)
<1>1. Cardinality(F) \in Nat /\ ExistsBijection(1..Cardinality(F), F)
  BY FS_CardinalityType
<1>2. PICK f : f \in Bijection(1..Cardinality(F), F)
  BY <1>1 DEF ExistsBijection
<1>3. f \in [1..Cardinality(F) -> F] /\ \A a, b \in 1..Cardinality(F) : f[a] = f[b] => a = b
  <2>1. f \in [1..Cardinality(F) -> F] /\ IsInjective(f)
    BY <1>2 DEF Bijection, Injection
  <2>2. DOMAIN f = 1..Cardinality(F)
    BY <2>1
  <2> QED BY <2>1, <2>2 DEF IsInjective
<1> DEFINE g == [i \in 1..n |-> f[i]]
<1>4. \A i \in 1..n : i \in 1..Cardinality(F)
  BY <1>1
<1>5. g \in [1..n -> F]
  BY <1>3, <1>4
<1>6. IsInjective(g)
  BY <1>3, <1>4 DEF IsInjective
<1> HIDE DEF g
<1> QED BY <1>5, <1>6

LEMMA ArgvFacts ==
  ASSUME NEW names \in Seq(Name), Len(names) <= Cardinality(Free), IsFiniteSet(Obj),
         NEW argv, argv = Argv(names)
  PROVE  /\ argv \in Seq(Obj) /\ Len(argv) = Len(names) /\ DOMAIN argv = 1..Len(names)
         /\ \A j \in 1..Len(names) : argv[j] \in Free
         /\ \A i, j \in 1..Len(names) : argv[i] = argv[j] => i = j
<1> DEFINE n == Len(names)
<1>1. n \in Nat
  OBVIOUS
<1>2. Free \subseteq Obj /\ IsFiniteSet(Free)
  <2>1. Free \subseteq Obj
    BY DEF Free
  <2> QED BY <2>1, FS_Subset
<1>3. n <= Cardinality(Free)
  OBVIOUS
<1> HIDE DEF n
<1>4. \E f \in [1..n -> Free] : IsInjective(f)
  BY <1>1, <1>2, <1>3, SomeArgv
<1>5. argv = CHOOSE f \in [1..n -> Free] : IsInjective(f)
  BY DEF Argv, n
<1>6. argv \in [1..n -> Free] /\ IsInjective(argv)
  BY <1>4, <1>5
<1>7. DOMAIN argv = 1..n /\ \A j \in 1..n : argv[j] \in Free
  BY <1>6
<1>8. \A i, j \in 1..n : argv[i] = argv[j] => i = j
  BY <1>6, <1>7 DEF IsInjective
<1>9. argv \in Seq(Obj) /\ Len(argv) = n
  <2>1. argv \in [1..n -> Obj]
    BY <1>2, <1>6
  <2> QED BY <1>1, <2>1
<1> QED BY <1>7, <1>8, <1>9 DEF n

LEMMA WithArgvBusy ==
  ASSUME NEW A, Rest(t, A), NEW names \in Seq(Name), Len(names) <= Cardinality(Free), IsFiniteSet(Obj),
         NEW argv, argv = Argv(names), NEW x, x = WithArgv(names)
  PROVE  /\ argv \in Seq(Obj) /\ Len(argv) = Len(names) /\ Busy(x, A, argv) /\ x.client = t.client
         /\ \A j \in 1..Len(names) : x.name[argv[j]] = names[j]
<1> DEFINE n == Len(names)
           new(o) == names[CHOOSE j \in DOMAIN argv : argv[j] = o]
           r == [o \in Obj |-> IF o \in ToSet(argv) THEN 1 ELSE t.ref[o]]
           m == [o \in Obj |-> IF o \in ToSet(argv) THEN new(o) ELSE t.name[o]]
<1>1. /\ argv \in Seq(Obj) /\ Len(argv) = n /\ DOMAIN argv = 1..n
      /\ \A j \in 1..n : argv[j] \in Free
      /\ \A i, j \in 1..n : argv[i] = argv[j] => i = j
  BY ArgvFacts
<1>2. t \in State /\ Counted(t, Refs(t)) /\ Tabled(t, A) /\ \A c \in Client : Listed(t, c, 0, A[c])
  BY DEF Rest
<1>3. /\ t.ref \in [Obj -> Nat] /\ t.name \in [Obj -> Name \cup {Nobody}]
  BY <1>2, StateFacts
<1>4. n \in Nat /\ \A j \in 1..n : names[j] \in Name
  OBVIOUS
<1> HIDE DEF n
<1>5. \A o : o \in ToSet(argv) <=> \E j \in 1..n : argv[j] = o
  BY <1>1, ToSetMember
<1>6. ToSet(argv) \subseteq Free /\ Free \subseteq Obj
  BY <1>1, <1>5 DEF Free
<1>7. \A j \in 1..n : new(argv[j]) = names[j]
  <2> TAKE j \in 1..n
  <2> DEFINE i == CHOOSE h \in DOMAIN argv : argv[h] = argv[j]
  <2>1. i \in DOMAIN argv /\ argv[i] = argv[j]
    BY <1>1
  <2>2. new(argv[j]) = names[i]
    OBVIOUS
  <2> HIDE DEF i
  <2>3. i = j
    BY <1>1, <2>1
  <2> QED BY <2>2, <2>3
<1>8. \A o \in ToSet(argv) : new(o) \in Name
  <2> HIDE DEF new
  <2> QED BY <1>4, <1>5, <1>7
<1>9. x = [t EXCEPT !.ref = r, !.name = m]
  BY DEF WithArgv
<1> HIDE DEF new
<1>10. /\ r \in [Obj -> Nat]
       /\ \A o \in Obj : r[o] = IF o \in ToSet(argv) THEN 1 ELSE t.ref[o]
  BY <1>3
<1>11. /\ m \in [Obj -> Name \cup {Nobody}]
       /\ \A o \in Obj : m[o] = IF o \in ToSet(argv) THEN new(o) ELSE t.name[o]
  BY <1>3, <1>8
<1> HIDE DEF r, m
<1>12. x \in State /\ x.client = t.client /\ x.watched = t.watched /\ x.ref = r /\ x.name = m
  BY <1>2, <1>9, <1>10, <1>11 DEF State
<1>13. \A o \in Free : Of(Refs(t), o) = {} /\ ~Held(Refs(t), o)
  <2> TAKE o \in Free
  <2>1. o \in Obj /\ t.ref[o] = 0
    BY DEF Free
  <2>2. IsFiniteSet(Of(Refs(t), o)) /\ Cardinality(Of(Refs(t), o)) = 0
    BY <1>2, <2>1 DEF Counted
  <2>3. Of(Refs(t), o) = {}
    BY <2>2, FS_EmptySet
  <2> QED BY <2>3, HeldOf
<1>14. \A o \in Obj : Held(Refs(t), o) => x.name[o] = t.name[o]
  BY <1>6, <1>11, <1>12, <1>13
<1> DEFINE R == Refs(t) \cup Args(argv)
<1>15. Counted(x, R)
  <2> SUFFICES ASSUME NEW o \in Obj
               PROVE  /\ IsFiniteSet(Of(R, o)) /\ x.ref[o] = Cardinality(Of(R, o))
                      /\ Held(R, o) => x.name[o] \in Name
    BY DEF Counted
  <2>1. Of(R, o) = Of(Refs(t), o) \cup Of(Args(argv), o)
    BY DEF Of
  <2>2. \A g : g \in Of(Args(argv), o) <=> \E j \in 1..n : g = ArgRef(j, o) /\ argv[j] = o
    BY <1>1, ArgMembers, RefObject DEF Of
  <2> HIDE DEF R
  <2>3. CASE o \in ToSet(argv)
    <3>1. PICK j \in 1..n : argv[j] = o
      BY <1>5, <2>3
    <3>2. Of(Args(argv), o) = {ArgRef(j, o)}
      BY <1>1, <2>2, <3>1
    <3>3. Of(R, o) = {ArgRef(j, o)}
      BY <1>6, <1>13, <2>1, <2>3, <3>2
    <3>4. IsFiniteSet({ArgRef(j, o)}) /\ Cardinality({ArgRef(j, o)}) = 1
      BY FS_Singleton
    <3>5. x.ref[o] = 1 /\ x.name[o] \in Name
      BY <1>8, <1>10, <1>11, <1>12, <2>3
    <3> QED BY <3>3, <3>4, <3>5
  <2>4. CASE o \notin ToSet(argv)
    <3>1. Of(Args(argv), o) = {}
      BY <1>5, <2>2, <2>4
    <3>2. Of(R, o) = Of(Refs(t), o)
      BY <2>1, <3>1
    <3>3. Held(R, o) <=> Held(Refs(t), o)
      BY <3>2, HeldOf
    <3>4. /\ IsFiniteSet(Of(Refs(t), o)) /\ t.ref[o] = Cardinality(Of(Refs(t), o))
          /\ Held(Refs(t), o) => t.name[o] \in Name
      BY <1>2 DEF Counted
    <3>5. x.ref[o] = t.ref[o] /\ x.name[o] = t.name[o]
      BY <1>10, <1>11, <1>12, <2>4
    <3> QED BY <3>2, <3>3, <3>4, <3>5
  <2> QED BY <2>3, <2>4
<1>16. Refs(x) = Refs(t)
  BY <1>12, ClientRefs, TablesSame DEF Refs
<1>18. Tabled(x, A)
  <2>1. ASSUME NEW d \in Db, NEW k \in DOMAIN t.watched[d]
        PROVE  x.name[t.watched[d][k].key] = t.name[t.watched[d][k].key]
    <3> DEFINE o == t.watched[d][k].key
    <3>1. o \in Obj
      BY <1>2, StateFacts, TableFacts
    <3>2. TableRef(d, k, o) \in Refs(t) /\ TableRef(d, k, o)[2] = o
      BY RefMembers, RefObject
    <3> HIDE DEF o
    <3>3. Held(Refs(t), o)
      BY <3>2 DEF Held
    <3>4. x.name[o] = t.name[o]
      BY <1>14, <3>1, <3>3
    <3> QED BY <3>4 DEF o
  <2> SUFFICES ASSUME NEW d \in Db, NEW k \in Name
               PROVE  /\ k \in DOMAIN x.watched[d] <=> \E c \in Client : <<d, k>> \in A[c]
                      /\ k \in DOMAIN x.watched[d] => EntryOk(x, A, d, k)
    BY DEF Tabled
  <2>2. /\ k \in DOMAIN t.watched[d] <=> \E c \in Client : <<d, k>> \in A[c]
        /\ k \in DOMAIN t.watched[d] => EntryOk(t, A, d, k)
    BY <1>2 DEF Tabled
  <2>3. ASSUME k \in DOMAIN t.watched[d] PROVE EntryOk(x, A, d, k)
    BY <1>12, <2>1, <2>2, <2>3 DEF EntryOk
  <2> QED BY <1>12, <2>2, <2>3
<1>19. ASSUME NEW b \in Client PROVE Listed(x, b, 0, A[b])
  <2> DEFINE z == 0
             w == t.client[b].watched
  <2>1. Listed(t, b, z, A[b])
    BY <1>2
  <2>2. x.client[b].watched = t.client[b].watched
    BY <1>12
  <2>3. \A i \in DOMAIN w : x.name[w[i].key] = t.name[w[i].key]
    <3> TAKE i \in DOMAIN w
    <3> DEFINE o == w[i].key
    <3>1. o \in Obj
      BY <1>2, WatchFacts
    <3>2. ListRef(b, i, o) \in Refs(t) /\ ListRef(b, i, o)[2] = o
      BY RefMembers, RefObject
    <3> HIDE DEF o
    <3>3. Held(Refs(t), o)
      BY <3>2 DEF Held
    <3>4. x.name[o] = t.name[o]
      BY <1>14, <3>1, <3>3
    <3> QED BY <3>4 DEF o
  <2> HIDE DEF z
  <2>4. Listed(x, b, z, A[b])
    BY <2>1, <2>2, <2>3, ListedKept
  <2> QED BY <2>4 DEF z
<1>20. Busy(x, A, argv)
  BY <1>12, <1>15, <1>16, <1>18, <1>19 DEF Busy
<1>21. \A j \in 1..n : x.name[argv[j]] = names[j]
  <2> TAKE j \in 1..n
  <2>1. argv[j] \in ToSet(argv) /\ argv[j] \in Obj
    BY <1>5, <1>6
  <2> QED BY <1>7, <1>11, <1>12, <2>1
<1> QED BY <1>1, <1>12, <1>20, <1>21 DEF n

-----------------------------------------------------------------------------
(* WATCH.                                                                  *)

Joined(A, c, d, k) == [A EXCEPT ![c] = @ \cup {<<d, k>>}]

LEMMA JoinedFacts ==
  ASSUME NEW A \in AskedType, NEW c \in Client, NEW d \in Db, NEW k \in Name
  PROVE  /\ Joined(A, c, d, k) \in AskedType
         /\ \A b \in Client : \A p : p \in Joined(A, c, d, k)[b] <=> p \in A[b] \/ (b = c /\ p = <<d, k>>)
BY DEF Joined, AskedType

HasJoined(x, y, A, c, d, k, T) ==
  /\ y \in State /\ y.client = x.client /\ y.ref = x.ref /\ y.name = x.name
  /\ Tabled(y, Joined(A, c, d, k)) /\ Tables(y) = T

KeysAlike(x, y) ==
  \A b \in Db : \A n :
    /\ n \in DOMAIN y.watched[b] <=> n \in DOMAIN x.watched[b]
    /\ n \in DOMAIN x.watched[b] => y.watched[b][n].key = x.watched[b][n].key

LEMMA TablesWithin ==
  ASSUME NEW x, NEW y, KeysAlike(x, y)
  PROVE  Tables(y) \subseteq Tables(x)
<1> SUFFICES ASSUME NEW g \in Tables(y) PROVE g \in Tables(x)
  OBVIOUS
<1>1. PICK b \in Db : \E n \in DOMAIN y.watched[b] : g = TableRef(b, n, y.watched[b][n].key)
  BY RefMembers
<1>2. PICK n \in DOMAIN y.watched[b] : g = TableRef(b, n, y.watched[b][n].key)
  BY <1>1
<1>3. n \in DOMAIN x.watched[b] /\ y.watched[b][n].key = x.watched[b][n].key
  BY <1>2 DEF KeysAlike
<1>4. g = TableRef(b, n, x.watched[b][n].key)
  BY <1>2, <1>3
<1> QED BY <1>3, <1>4, RefMembers

LEMMA TablesAlike ==
  ASSUME NEW x, NEW y, KeysAlike(x, y)
  PROVE  Tables(y) = Tables(x)
<1>1. KeysAlike(y, x)
  BY DEF KeysAlike
<1>2. Tables(y) \subseteq Tables(x)
  BY TablesWithin
<1>3. Tables(x) \subseteq Tables(y)
  BY <1>1, TablesWithin
<1> QED BY <1>2, <1>3

\* The name was in the table: c joins its list.
LEMMA EntryJoins ==
  ASSUME NEW x \in State, NEW A \in AskedType, Tabled(x, A), NEW c \in Client, NEW d \in Db, NEW k \in Name,
         k \in DOMAIN x.watched[d], <<d, k>> \notin A[c],
         NEW y, y = WithTable(x, d, [x.watched[d] EXCEPT ![k].clients = Append(@, c)])
  PROVE  HasJoined(x, y, A, c, d, k, Tables(x))
<1> DEFINE f == x.watched[d]
           l == Append(f[k].clients, c)
           e == [f[k] EXCEPT !.clients = l]
           h == [f EXCEPT ![k] = e]
           B == Joined(A, c, d, k)
<1>1. /\ DOMAIN f \subseteq Name /\ (\A n \in DOMAIN f : f[n] \in Entry) /\ f = [n \in DOMAIN f |-> f[n]]
      /\ f[k].clients \in Seq(Client)
  BY StateFacts, TableFacts
<1>4. y = WithTable(x, d, h)
  OBVIOUS
<1>0. /\ x.name[f[k].key] = k /\ Distinct(f[k].clients)
      /\ \A a \in Client : a \in ToSet(f[k].clients) <=> <<d, k>> \in A[a]
  BY DEF Tabled, EntryOk
<1>12. l \in Seq(Client) /\ Distinct(l) /\ ToSet(l) = ToSet(f[k].clients) \cup {c}
  <2> DEFINE m == f[k].clients
  <2>1. m \in Seq(Client) /\ Distinct(m) /\ c \notin ToSet(m)
    BY <1>0, <1>1
  <2> HIDE DEF m
  <2>2. Append(m, c) \in Seq(Client) /\ Distinct(Append(m, c)) /\ ToSet(Append(m, c)) = ToSet(m) \cup {c}
    BY <2>1, AppendFacts
  <2> QED BY <2>2 DEF m
<1> HIDE DEF l
<1>2. e \in Entry /\ e.key = f[k].key /\ e.clients = l
  <2> DEFINE e0 == f[k]
  <2>1. e0 \in Entry
    BY <1>1
  <2> HIDE DEF e0
  <2>2. [e0 EXCEPT !.clients = l] \in Entry /\ [e0 EXCEPT !.clients = l].key = e0.key
        /\ [e0 EXCEPT !.clients = l].clients = l
    BY <1>12, <2>1 DEF Entry
  <2> QED BY <2>2 DEF e0
<1> HIDE DEF e
<1>3. h \in Table /\ DOMAIN h = DOMAIN f /\ h[k] = e /\ \A n \in DOMAIN f : n # k => h[n] = f[n]
  <2>1. f \in [DOMAIN f -> Entry]
    BY <1>1
  <2>2. h \in [DOMAIN f -> Entry]
    BY <1>2, <2>1
  <2>3. h \in Table
    BY <1>1, <2>2 DEF Table
  <2> QED BY <2>1, <2>3
<1> HIDE DEF h
<1>5. /\ y \in State /\ y.client = x.client /\ y.ref = x.ref /\ y.name = x.name
      /\ y.watched[d] = h /\ \A b \in Db : b # d => y.watched[b] = x.watched[b]
  <2>1. OneTable(x, y, d, h)
    BY <1>3, <1>4, WithTableFacts
  <2> QED BY <2>1 DEF OneTable
<1>6. ASSUME NEW b \in Db, NEW n, b # d \/ n # k
      PROVE  /\ n \in DOMAIN y.watched[b] <=> n \in DOMAIN x.watched[b]
             /\ n \in DOMAIN x.watched[b] => y.watched[b][n] = x.watched[b][n]
  BY <1>3, <1>5, <1>6
<1>7. k \in DOMAIN y.watched[d] /\ y.watched[d][k] = e
  BY <1>3, <1>5
<1>8. Tabled(y, B)
  <2>1. EntryOk(y, B, d, k)
    <3>1. \A a \in Client : a \in ToSet(l) <=> <<d, k>> \in B[a]
      BY <1>0, <1>12, JoinedFacts
    <3> HIDE DEF B
    <3> QED BY <1>0, <1>2, <1>5, <1>7, <1>12, <3>1 DEF EntryOk
  <2>3. \E a \in Client : <<d, k>> \in B[a]
    BY JoinedFacts
  <2>2. ASSUME NEW b \in Db, NEW n \in Name, <<b, n>> # <<d, k>>
        PROVE  /\ n \in DOMAIN y.watched[b] <=> n \in DOMAIN x.watched[b]
               /\ n \in DOMAIN x.watched[b] => y.watched[b][n] = x.watched[b][n]
               /\ \A a \in Client : <<b, n>> \in B[a] <=> <<b, n>> \in A[a]
    <3>1. b # d \/ n # k
      BY <2>2
    <3>2. \A a \in Client : <<b, n>> \in B[a] <=> <<b, n>> \in A[a]
      BY <2>2, JoinedFacts
    <3> QED BY <1>6, <3>1, <3>2
  <2>4. SameElse(x, y, A, B, d, k)
    BY <2>2 DEF SameElse
  <2> HIDE DEF B
  <2> QED BY <1>5, <1>7, <2>1, <2>3, <2>4, OtherEntries
<1>9. ASSUME NEW b \in Db, NEW n PROVE /\ n \in DOMAIN y.watched[b] <=> n \in DOMAIN x.watched[b]
                                       /\ n \in DOMAIN x.watched[b] => y.watched[b][n].key = x.watched[b][n].key
  <2>1. CASE b = d /\ n = k
    BY <1>2, <1>7, <2>1
  <2>2. CASE b # d \/ n # k
    BY <1>6, <2>2
  <2> QED BY <2>1, <2>2
<1>11. Tables(y) = Tables(x)
  <2>1. KeysAlike(x, y)
    BY <1>9 DEF KeysAlike
  <2> QED BY <2>1, TablesAlike
<1> QED BY <1>5, <1>8, <1>11 DEF HasJoined

\* It was not: there is a new entry, which refers to the object.
LEMMA EntryNew ==
  ASSUME NEW x \in State, NEW A \in AskedType, Tabled(x, A), NEW c \in Client, NEW d \in Db, NEW k \in Name,
         k \notin DOMAIN x.watched[d], NEW o \in Obj, x.name[o] = k,
         NEW y, y = WithTable(x, d, WithEntry(x.watched[d], k, [key |-> o, clients |-> <<c>>]))
  PROVE  /\ HasJoined(x, y, A, c, d, k, Tables(x) \cup {TableRef(d, k, o)})
         /\ TableRef(d, k, o) \notin Tables(x)
<1> DEFINE f == x.watched[d]
           e == [key |-> o, clients |-> <<c>>]
           h == WithEntry(f, k, e)
           B == Joined(A, c, d, k)
<1>1. DOMAIN f \subseteq Name /\ (\A n \in DOMAIN f : f[n] \in Entry)
  BY StateFacts, TableFacts
<1>2. e \in Entry /\ e.key = o /\ e.clients = <<c>>
  BY DEF Entry
<1>4. y = WithTable(x, d, h)
  OBVIOUS
<1>12. Distinct(<<c>>) /\ \A a : a \in ToSet(<<c>>) <=> a = c
  <2> DEFINE l == <<c>>
  <2>1. DOMAIN l = {1} /\ l[1] = c
    OBVIOUS
  <2> HIDE DEF l
  <2>2. Distinct(l) /\ \A a : a \in ToSet(l) <=> a = c
    BY <2>1, ToSetMember DEF Distinct
  <2> QED BY <2>2 DEF l
<1> HIDE DEF e
<1>3. h \in Table /\ DOMAIN h = DOMAIN f \cup {k} /\ h[k] = e /\ \A n \in DOMAIN f : h[n] = f[n]
  <2>1. h \in [DOMAIN f \cup {k} -> Entry]
    BY <1>1, <1>2 DEF WithEntry
  <2>2. DOMAIN f \cup {k} \in SUBSET Name
    BY <1>1
  <2>3. h \in Table
    BY <2>1, <2>2 DEF Table
  <2> QED BY <2>3 DEF WithEntry
<1> HIDE DEF h
<1>5. /\ y \in State /\ y.client = x.client /\ y.ref = x.ref /\ y.name = x.name
      /\ y.watched[d] = h /\ \A b \in Db : b # d => y.watched[b] = x.watched[b]
  <2>1. OneTable(x, y, d, h)
    BY <1>3, <1>4, WithTableFacts
  <2> QED BY <2>1 DEF OneTable
<1>6. ASSUME NEW b \in Db, NEW n, b # d \/ n # k
      PROVE  /\ n \in DOMAIN y.watched[b] <=> n \in DOMAIN x.watched[b]
             /\ n \in DOMAIN x.watched[b] => y.watched[b][n] = x.watched[b][n]
  BY <1>3, <1>5, <1>6
<1>7. k \in DOMAIN y.watched[d] /\ y.watched[d][k] = e
  BY <1>3, <1>5
<1>0. \A a \in Client : <<d, k>> \notin A[a]
  BY DEF Tabled
<1>8. Tabled(y, B)
  <2>1. EntryOk(y, B, d, k)
    <3>1. \A a \in Client : a \in ToSet(<<c>>) <=> <<d, k>> \in B[a]
      BY <1>0, <1>12, JoinedFacts
    <3> HIDE DEF B
    <3> QED BY <1>2, <1>5, <1>7, <1>12, <3>1 DEF EntryOk
  <2>3. \E a \in Client : <<d, k>> \in B[a]
    BY JoinedFacts
  <2>2. ASSUME NEW b \in Db, NEW n \in Name, <<b, n>> # <<d, k>>
        PROVE  /\ n \in DOMAIN y.watched[b] <=> n \in DOMAIN x.watched[b]
               /\ n \in DOMAIN x.watched[b] => y.watched[b][n] = x.watched[b][n]
               /\ \A a \in Client : <<b, n>> \in B[a] <=> <<b, n>> \in A[a]
    <3>1. b # d \/ n # k
      BY <2>2
    <3>2. \A a \in Client : <<b, n>> \in B[a] <=> <<b, n>> \in A[a]
      BY <2>2, JoinedFacts
    <3> QED BY <1>6, <3>1, <3>2
  <2>4. SameElse(x, y, A, B, d, k)
    BY <2>2 DEF SameElse
  <2> HIDE DEF B
  <2> QED BY <1>5, <1>7, <2>1, <2>3, <2>4, OtherEntries
<1>9. ASSUME NEW g PROVE g \in Tables(y) <=> g \in Tables(x) \/ g = TableRef(d, k, o)
  <2>1. ASSUME g \in Tables(y) PROVE g \in Tables(x) \/ g = TableRef(d, k, o)
    <3>1. PICK b \in Db : \E n \in DOMAIN y.watched[b] : g = TableRef(b, n, y.watched[b][n].key)
      BY <2>1, RefMembers
    <3>0. PICK n \in DOMAIN y.watched[b] : g = TableRef(b, n, y.watched[b][n].key)
      BY <3>1
    <3>2. CASE b = d /\ n = k
      BY <1>2, <1>7, <3>0, <3>2
    <3>3. CASE b # d \/ n # k
      <4>1. n \in DOMAIN x.watched[b] /\ g = TableRef(b, n, x.watched[b][n].key)
        BY <1>6, <3>0, <3>3
      <4> QED BY <4>1, RefMembers
    <3> QED BY <3>2, <3>3
  <2>2. ASSUME g \in Tables(x) PROVE g \in Tables(y)
    <3>1. PICK b \in Db : \E n \in DOMAIN x.watched[b] : g = TableRef(b, n, x.watched[b][n].key)
      BY <2>2, RefMembers
    <3>0. PICK n \in DOMAIN x.watched[b] : g = TableRef(b, n, x.watched[b][n].key)
      BY <3>1
    <3>2. b # d \/ n # k
      BY <3>0
    <3>3. n \in DOMAIN y.watched[b] /\ g = TableRef(b, n, y.watched[b][n].key)
      BY <1>6, <3>0, <3>2
    <3> QED BY <3>3, RefMembers
  <2>3. ASSUME g = TableRef(d, k, o) PROVE g \in Tables(y)
    <3>1. g = TableRef(d, k, y.watched[d][k].key)
      BY <1>2, <1>7, <2>3
    <3> QED BY <1>7, <3>1, RefMembers
  <2> QED BY <2>1, <2>2, <2>3
<1>10. Tables(y) = Tables(x) \cup {TableRef(d, k, o)}
  BY <1>9
<1>11. TableRef(d, k, o) \notin Tables(x)
  <2>1. ASSUME NEW b \in Db, NEW n \in DOMAIN x.watched[b], TableRef(d, k, o) = TableRef(b, n, x.watched[b][n].key)
        PROVE  FALSE
    BY <2>1, RefFacts
  <2> QED BY <2>1, RefMembers
<1> QED BY <1>5, <1>8, <1>10, <1>11 DEF HasJoined

\* The list of c grows by one.
GrowsBy(x, v, c, o, d) ==
  /\ v.client[c].watched = Append(x.client[c].watched, [key |-> o, db |-> d])
  /\ \A b \in Client : b # c => v.client[b].watched = x.client[b].watched
NextRef(x, c, o) == ListRef(c, Len(x.client[c].watched) + 1, o)

LEMMA GrownFacts ==
  ASSUME NEW l \in Seq(Watch), NEW o \in Obj, NEW d \in Db, NEW w, w = Append(l, [key |-> o, db |-> d])
  PROVE  /\ w \in Seq(Watch) /\ Len(l) \in Nat /\ DOMAIN l = 1..Len(l) /\ DOMAIN w = 1..(Len(l) + 1)
         /\ w[Len(l) + 1].key = o /\ w[Len(l) + 1].db = d /\ \A i \in DOMAIN l : w[i] = l[i]
<1> DEFINE e == [key |-> o, db |-> d]
<1>1. e \in Watch /\ e.key = o /\ e.db = d
  BY DEF Watch
<1> HIDE DEF e
<1>2. w = Append(l, e)
  BY DEF e
<1> QED BY <1>1, <1>2

LEMMA ListsGrow ==
  ASSUME NEW x \in State, NEW v, NEW c \in Client, NEW o \in Obj, NEW d \in Db, GrowsBy(x, v, c, o, d)
  PROVE  Lists(v) = Lists(x) \cup {NextRef(x, c, o)} /\ NextRef(x, c, o) \notin Lists(x)
<1> DEFINE l == x.client[c].watched
           n == Len(l)
           w == v.client[c].watched
<1>1. l \in Seq(Watch) /\ w = Append(l, [key |-> o, db |-> d])
  BY StateFacts DEF GrowsBy
<1>2. /\ n \in Nat /\ DOMAIN l = 1..n /\ DOMAIN w = 1..(n + 1)
      /\ w[n + 1].key = o /\ \A i \in DOMAIN l : w[i] = l[i]
  <2> HIDE DEF l, w
  <2> QED BY <1>1, GrownFacts
<1>3. NextRef(x, c, o) = ListRef(c, n + 1, o)
  BY DEF NextRef
<1>4. \A b \in Client : b # c => v.client[b].watched = x.client[b].watched
  BY DEF GrowsBy
<1>5. /\ \A i \in DOMAIN w : i = n + 1 \/ (i \in DOMAIN l /\ w[i] = l[i])
      /\ n + 1 \in DOMAIN w /\ (\A i \in DOMAIN l : i \in DOMAIN w /\ w[i] = l[i])
      /\ n + 1 \notin DOMAIN l
  <2> HIDE DEF l, w, n
  <2> QED BY <1>2
<1> HIDE DEF n
<1>6. ASSUME NEW g PROVE g \in Lists(v) <=> g \in Lists(x) \/ g = ListRef(c, n + 1, o)
  <2>1. g \in Lists(v) <=> \E b \in Client : \E i \in DOMAIN v.client[b].watched :
                              g = ListRef(b, i, v.client[b].watched[i].key)
    BY RefMembers
  <2>2. g \in Lists(x) <=> \E b \in Client : \E i \in DOMAIN x.client[b].watched :
                              g = ListRef(b, i, x.client[b].watched[i].key)
    BY RefMembers
  <2>3. ASSUME g \in Lists(v) PROVE g \in Lists(x) \/ g = ListRef(c, n + 1, o)
    <3>1. PICK b \in Client : \E i \in DOMAIN v.client[b].watched : g = ListRef(b, i, v.client[b].watched[i].key)
      BY <2>1, <2>3
    <3>2. CASE b # c
      BY <1>4, <2>2, <3>1, <3>2
    <3>3. CASE b = c
      <4>1. PICK i \in DOMAIN w : g = ListRef(c, i, w[i].key)
        BY <3>1, <3>3
      <4>2. CASE i = n + 1
        BY <1>2, <4>1, <4>2
      <4>3. CASE i # n + 1
        <5>1. i \in DOMAIN l /\ g = ListRef(c, i, l[i].key)
          BY <1>5, <4>1, <4>3
        <5> QED BY <2>2, <5>1
      <4> QED BY <4>2, <4>3
    <3> QED BY <3>2, <3>3
  <2>4. ASSUME g \in Lists(x) PROVE g \in Lists(v)
    <3>1. PICK b \in Client : \E i \in DOMAIN x.client[b].watched : g = ListRef(b, i, x.client[b].watched[i].key)
      BY <2>2, <2>4
    <3>2. CASE b # c
      BY <1>4, <2>1, <3>1, <3>2
    <3>3. CASE b = c
      <4>1. PICK i \in DOMAIN l : g = ListRef(c, i, l[i].key)
        BY <3>1, <3>3
      <4>2. i \in DOMAIN w /\ g = ListRef(c, i, w[i].key)
        BY <1>5, <4>1
      <4> QED BY <2>1, <4>2
    <3> QED BY <3>2, <3>3
  <2>5. ASSUME g = ListRef(c, n + 1, o) PROVE g \in Lists(v)
    <3>1. n + 1 \in DOMAIN w /\ g = ListRef(c, n + 1, w[n + 1].key)
      BY <1>2, <1>5, <2>5
    <3> QED BY <2>1, <3>1
  <2> QED BY <2>3, <2>4, <2>5
<1>7. ListRef(c, n + 1, o) \notin Lists(x)
  <2>1. ASSUME NEW b \in Client, NEW i \in DOMAIN x.client[b].watched,
               ListRef(c, n + 1, o) = ListRef(b, i, x.client[b].watched[i].key)
        PROVE  FALSE
    <3>1. b = c /\ i = n + 1
      BY <2>1, RefFacts
    <3> QED BY <1>5, <3>1
  <2> QED BY <2>1, RefMembers
<1>8. Lists(v) = Lists(x) \cup {ListRef(c, n + 1, o)}
  BY <1>6
<1> QED BY <1>3, <1>7, <1>8

LEMMA ListedGrows ==
  ASSUME NEW x \in State, NEW v, NEW c \in Client, NEW o \in Obj, NEW d \in Db, GrowsBy(x, v, c, o, d),
         NEW P, Listed(x, c, 0, P), <<d, x.name[o]>> \notin P, v.name = x.name
  PROVE  Listed(v, c, 0, P \cup {<<d, x.name[o]>>})
<1> DEFINE l == x.client[c].watched
           n == Len(l)
           w == v.client[c].watched
           q == <<d, x.name[o]>>
<1>1. l \in Seq(Watch) /\ w = Append(l, [key |-> o, db |-> d])
  BY StateFacts DEF GrowsBy
<1>2. /\ n \in Nat /\ DOMAIN l = 1..n /\ DOMAIN w = 1..(n + 1)
      /\ w[n + 1].key = o /\ w[n + 1].db = d /\ \A i \in DOMAIN l : w[i] = l[i]
  <2> HIDE DEF l, w
  <2> QED BY <1>1, GrownFacts
<1>5. /\ \A i \in DOMAIN w : i = n + 1 \/ (i \in DOMAIN l /\ w[i] = l[i])
      /\ n + 1 \in DOMAIN w /\ (\A i \in DOMAIN l : i \in DOMAIN w /\ w[i] = l[i])
      /\ (\A i \in DOMAIN w : i > 0) /\ (\A i \in DOMAIN l : i > 0)
  <2> HIDE DEF l, w, n
  <2> QED BY <1>2
<1> HIDE DEF n
<1>3. Pair(v, c, n + 1) = q
  BY <1>2 DEF Pair
<1>4. \A i \in DOMAIN l : Pair(v, c, i) = Pair(x, c, i)
  BY <1>5 DEF Pair
<1>6. /\ \A i \in DOMAIN l : Pair(x, c, i) \in P
      /\ \A p \in P : \E i \in DOMAIN l : Pair(x, c, i) = p
      /\ \A i, j \in DOMAIN l : Pair(x, c, i) = Pair(x, c, j) => i = j
  BY <1>5 DEF Listed
<1> HIDE DEF q, l, w
<1>7. \A i \in DOMAIN w : Pair(v, c, i) \in P \cup {q}
  BY <1>3, <1>4, <1>5, <1>6
<1>8. \A p \in P \cup {q} : \E i \in DOMAIN w : Pair(v, c, i) = p
  BY <1>3, <1>4, <1>5, <1>6
<1>9. q \notin P
  BY DEF q
<1>10. ASSUME NEW i \in DOMAIN w, NEW j \in DOMAIN w, Pair(v, c, i) = Pair(v, c, j) PROVE i = j
  BY <1>3, <1>4, <1>5, <1>6, <1>9, <1>10
<1>11. Listed(v, c, 0, P \cup {q})
  BY <1>5, <1>7, <1>8, <1>10 DEF Listed, w
<1> QED BY <1>11 DEF q

WatchesToo(r, o, d) == Relisted(r, Append(r.watched, [key |-> o, db |-> d]))
HasAdded(x, y, A, c, o, argv) ==
  /\ Busy(y, Joined(A, c, x.client[c].db, x.name[o]), argv) /\ y.name = x.name
  /\ y.client = [x.client EXCEPT ![c] = WatchesToo(x.client[c], o, x.client[c].db)]

LEMMA AddWatchBusy ==
  ASSUME NEW x, NEW A \in AskedType, NEW argv \in Seq(Obj), Busy(x, A, argv), NEW c \in Client, NEW o \in Obj,
         x.name[o] \in Name, <<x.client[c].db, x.name[o]>> \notin A[c], NEW y, y = AddWatch(x, c, o)
  PROVE  HasAdded(x, y, A, c, o, argv)
<1> DEFINE d == x.client[c].db
           k == x.name[o]
           r == WatchesToo(x.client[c], o, d)
           own == WithClient(x, c, r)
           both == WithTable(own, d, [own.watched[d] EXCEPT ![k].clients = Append(@, c)])
           fresh == WithTable(own, d, WithEntry(own.watched[d], k, [key |-> o, clients |-> <<c>>]))
           v == IF k \in DOMAIN x.watched[d] THEN both ELSE fresh
           g == NextRef(x, c, o)
           h == TableRef(d, k, o)
           R == Refs(x) \cup Args(argv)
           Q == IF k \in DOMAIN x.watched[d] THEN {g} ELSE {h, g}
           B == Joined(A, c, d, k)
<1>1. x \in State /\ Tabled(x, A) /\ Counted(x, R) /\ \A b \in Client : Listed(x, b, 0, A[b])
  BY DEF Busy
<1>2. x.client[c] \in ClientRec /\ x.client[c].watched \in Seq(Watch) /\ d \in Db /\ k \in Name
  BY <1>1, StateFacts
<1>3. /\ r \in ClientRec /\ r.watched = Append(x.client[c].watched, [key |-> o, db |-> d])
      /\ r.commands = x.client[c].commands
  <2> DEFINE w == Append(x.client[c].watched, [key |-> o, db |-> d])
  <2>1. w \in Seq(Watch)
    <3> DEFINE l == x.client[c].watched
    <3>1. l \in Seq(Watch) /\ d \in Db /\ w = Append(l, [key |-> o, db |-> d])
      BY <1>2
    <3> HIDE DEF l, d, w
    <3> QED BY <3>1, GrownFacts
  <2> HIDE DEF w
  <2>2. r = Relisted(x.client[c], w)
    BY DEF WatchesToo, w
  <2>3. r \in ClientRec /\ r.watched = w /\ r.commands = x.client[c].commands
    BY <1>2, <2>1, <2>2, FieldFacts
  <2> QED BY <2>3 DEF w
<1>4. OneClient(x, own, c, r)
  <2> HIDE DEF r
  <2> QED BY <1>1, <1>3, WithClientFacts
<1>5. y = IF k \in DOMAIN x.watched[d] THEN incrRefCount(both, o) ELSE incrRefCount(incrRefCount(fresh, o), o)
  <2> DEFINE e == [x EXCEPT !.client[c].watched = Append(@, [key |-> o, db |-> d])]
  <2>1. own = e
    BY DEF WithClient, WatchesToo, Relisted
  <2>2. own.watched = x.watched
    BY <1>4 DEF OneClient
  <2> HIDE DEF own
  <2>3. both = [own EXCEPT !.watched[d][k].clients = Append(@, c)]
    BY DEF WithTable
  <2>4. fresh = [own EXCEPT !.watched[d] = WithEntry(x.watched[d], k, [key |-> o, clients |-> <<c>>])]
    BY <2>2 DEF WithTable
  <2>5. y = incrRefCount(IF k \in DOMAIN x.watched[d]
                         THEN [e EXCEPT !.watched[d][k].clients = Append(@, c)]
                         ELSE incrRefCount([e EXCEPT !.watched[d] =
                                WithEntry(x.watched[d], k, [key |-> o, clients |-> <<c>>])], o), o)
    BY DEF AddWatch
  <2> HIDE DEF both, fresh, e
  <2> QED BY <2>1, <2>3, <2>4, <2>5, Zenon
<1> HIDE DEF own, r
<1>6. /\ own \in State /\ own.watched = x.watched /\ own.ref = x.ref /\ own.name = x.name
      /\ own.client[c] = r /\ (\A b \in Client : b # c => own.client[b] = x.client[b])
      /\ own.client = [x.client EXCEPT ![c] = r]
  BY <1>4 DEF OneClient
<1>7. Tabled(own, A) /\ Tables(own) = Tables(x) /\ Queues(own) = Queues(x)
  BY <1>1, <1>3, <1>6, TabledSame, TablesSame, QueuesKept
<1>8. GrowsBy(x, own, c, o, d)
  BY <1>3, <1>6 DEF GrowsBy
<1>9. Lists(own) = Lists(x) \cup {g} /\ g \notin Lists(x)
  <2> HIDE DEF d
  <2> QED BY <1>1, <1>2, <1>8, ListsGrow
<1>10. g \notin R /\ g[2] = o /\ h[2] = o /\ g # h
  <2>1. g = ListRef(c, Len(x.client[c].watched) + 1, o)
    BY DEF NextRef
  <2>2. g \notin Tables(x) /\ g \notin Queues(x) /\ g \notin Args(argv)
    BY <2>1, RefKinds, RefMembers, ArgMembers
  <2> QED BY <1>9, <2>1, <2>2, RefObject, RefKinds DEF Refs
<1>11. ASSUME k \in DOMAIN x.watched[d]
       PROVE  HasJoined(own, v, A, c, d, k, Tables(x)) /\ Takes(v, y, R, Q)
  <2>1. v = both /\ Q = {g} /\ y = incrRefCount(v, o)
    BY <1>5, <1>11
  <2>2. HasJoined(own, both, A, c, d, k, Tables(own))
    <3> HIDE DEF k, d
    <3>1. k \in DOMAIN own.watched[d] /\ <<d, k>> \notin A[c]
      BY <1>6, <1>11 DEF k, d
    <3> QED BY <1>2, <1>6, <1>7, <3>1, EntryJoins
  <2>3. HasJoined(own, v, A, c, d, k, Tables(x))
    BY <1>7, <2>1, <2>2
  <2> HIDE DEF v, Q, both
  <2>4. v \in State /\ v.ref = x.ref /\ v.name = x.name
    BY <1>6, <2>3 DEF HasJoined
  <2> HIDE DEF R, g
  <2>5. Counted(v, R)
    BY <1>1, <2>4, CountedSame
  <2>6. Takes(v, incrRefCount(v, o), R, {g})
    BY <1>10, <2>4, <2>5, IncrTakes
  <2> QED BY <2>1, <2>3, <2>6
<1>12. ASSUME k \notin DOMAIN x.watched[d]
       PROVE  HasJoined(own, v, A, c, d, k, Tables(x) \cup {h}) /\ Takes(v, y, R, Q)
  <2>1. v = fresh /\ Q = {h, g} /\ y = incrRefCount(incrRefCount(v, o), o)
    BY <1>5, <1>12
  <2>2. HasJoined(own, fresh, A, c, d, k, Tables(own) \cup {h}) /\ h \notin Tables(own)
    <3> HIDE DEF k, d
    <3>1. k \notin DOMAIN own.watched[d] /\ own.name[o] = k
      BY <1>6, <1>12 DEF k, d
    <3> QED BY <1>2, <1>6, <1>7, <3>1, EntryNew
  <2>3. HasJoined(own, v, A, c, d, k, Tables(x) \cup {h})
    BY <1>7, <2>1, <2>2
  <2>7. h \notin R
    <3>1. h \notin Lists(x) /\ h \notin Queues(x) /\ h \notin Args(argv)
      BY RefKinds, RefMembers, ArgMembers
    <3> QED BY <1>7, <2>2, <3>1 DEF Refs
  <2> HIDE DEF v, Q, fresh
  <2>4. v \in State /\ v.ref = x.ref /\ v.name = x.name
    BY <1>6, <2>3 DEF HasJoined
  <2> HIDE DEF R, g, h
  <2> DEFINE u == incrRefCount(v, o)
  <2>5. Counted(v, R)
    BY <1>1, <2>4, CountedSame
  <2>6. Takes(v, u, R, {h})
    BY <1>10, <2>4, <2>5, <2>7, IncrTakes
  <2> HIDE DEF u
  <2>8. u \in State /\ u.name = v.name /\ Counted(u, R \cup {h})
    BY <2>6 DEF Takes
  <2>9. Takes(u, incrRefCount(u, o), R \cup {h}, {g})
    <3>1. g \notin R \cup {h} /\ u.name[o] \in Name
      BY <1>10, <2>4, <2>8
    <3> QED BY <1>10, <2>8, <3>1, IncrTakes
  <2>10. Takes(v, incrRefCount(u, o), R, {h} \cup {g})
    BY <2>6, <2>9, TakesTrans
  <2>11. {h} \cup {g} = Q
    BY <2>1
  <2> QED BY <2>1, <2>3, <2>10, <2>11 DEF u
<1>13. /\ v \in State /\ v.client = own.client /\ v.name = x.name /\ Tabled(v, B)
       /\ Refs(v) = Refs(x) \cup Q /\ Takes(v, y, R, Q)
  <2>1. CASE k \in DOMAIN x.watched[d]
    <3>1. Q = {g}
      BY <2>1
    <3>2. HasJoined(own, v, A, c, d, k, Tables(x)) /\ Takes(v, y, R, Q)
      BY <1>11, <2>1
    <3> HIDE DEF v, Q
    <3>3. /\ v \in State /\ v.client = own.client /\ v.name = x.name /\ Tabled(v, B) /\ Tables(v) = Tables(x)
      BY <1>6, <3>2 DEF HasJoined
    <3>4. Lists(v) = Lists(x) \cup {g} /\ Queues(v) = Queues(x)
      BY <1>7, <1>9, <3>3, ClientRefs
    <3> QED BY <3>1, <3>2, <3>3, <3>4 DEF Refs
  <2>2. CASE k \notin DOMAIN x.watched[d]
    <3>1. Q = {h, g}
      BY <2>2
    <3>2. HasJoined(own, v, A, c, d, k, Tables(x) \cup {h}) /\ Takes(v, y, R, Q)
      BY <1>12, <2>2
    <3> HIDE DEF v, Q
    <3>3. /\ v \in State /\ v.client = own.client /\ v.name = x.name /\ Tabled(v, B)
          /\ Tables(v) = Tables(x) \cup {h}
      BY <1>6, <3>2 DEF HasJoined
    <3>4. Lists(v) = Lists(x) \cup {g} /\ Queues(v) = Queues(x)
      BY <1>7, <1>9, <3>3, ClientRefs
    <3> QED BY <3>1, <3>2, <3>3, <3>4 DEF Refs
  <2> QED BY <2>1, <2>2
<1> HIDE DEF v, Q
<1>14. /\ y \in State /\ y.client = own.client /\ y.watched = v.watched /\ y.name = x.name
       /\ Counted(y, R \cup Q)
  BY <1>13 DEF Takes
<1>15. Refs(y) \cup Args(argv) = R \cup Q
  <2>1. Refs(y) = Refs(v)
    BY <1>13, <1>14, ClientRefs, TablesSame DEF Refs
  <2> QED BY <1>13, <2>1
<1>16. Tabled(y, B)
  BY <1>13, <1>14, TabledSame
<1>17. ASSUME NEW b \in Client PROVE Listed(y, b, 0, B[b])
  <2> DEFINE z == 0
  <2>0. A[b] = A[b] \cup {} /\ (b # c => B[b] = A[b]) /\ B[c] = A[c] \cup {<<d, k>>}
    BY <1>2 DEF Joined, AskedType
  <2>1. CASE b # c
    <3>1. Listed(x, b, z, A[b])
      BY <1>1
    <3>2. y.client[b].watched = x.client[b].watched /\ y.name = x.name
      BY <1>6, <1>14, <2>1
    <3> HIDE DEF z
    <3>3. Listed(y, b, z, A[b])
      BY <3>1, <3>2, ListedKept
    <3> QED BY <2>0, <2>1, <3>3 DEF z
  <2>2. CASE b = c
    <3>1. GrowsBy(x, y, c, o, d)
      BY <1>8, <1>14 DEF GrowsBy
    <3>2. Listed(x, c, 0, A[c]) /\ <<d, x.name[o]>> \notin A[c]
      BY <1>1
    <3>3. Listed(y, c, 0, A[c] \cup {<<d, x.name[o]>>})
      BY <1>1, <1>2, <1>14, <3>1, <3>2, ListedGrows
    <3> QED BY <2>0, <2>2, <3>3
  <2> QED BY <2>1, <2>2
<1>18. Busy(y, B, argv)
  <2> HIDE DEF B
  <2> QED BY <1>14, <1>15, <1>16, <1>17 DEF Busy
<1> QED BY <1>6, <1>14, <1>18 DEF HasAdded, r

-----------------------------------------------------------------------------
(* WATCH.                                                                  *)

SameButList(x, y, c) ==
  /\ \A b \in Client : b # c => y.client[b] = x.client[b]
  /\ y.client[c].live = x.client[c].live /\ y.client[c].db = x.client[c].db
  /\ y.client[c].flags = x.client[c].flags

HasWatched(x, y, A, c, o, argv) ==
  /\ Busy(y, Joined(A, c, x.client[c].db, x.name[o]), argv) /\ y.name = x.name /\ SameButList(x, y, c)

LEMMA WatchesAsked ==
  ASSUME NEW x \in State, NEW c \in Client, NEW P, Listed(x, c, 0, P), NEW d, NEW k
  PROVE  Watches(x, c, d, k) <=> <<d, k>> \in P
<1> DEFINE w == x.client[c].watched
<1>1. \A i \in DOMAIN w : i > 0
  <2>1. w \in Seq(Watch)
    BY StateFacts
  <2> HIDE DEF w
  <2> QED BY <2>1
<1>2. Watches(x, c, d, k) <=> \E i \in DOMAIN w : Pair(x, c, i) = <<d, k>>
  BY DEF Watches, Pair
<1>3. /\ \A i \in DOMAIN w : Pair(x, c, i) \in P
      /\ \A p \in P : \E i \in DOMAIN w : Pair(x, c, i) = p
  BY <1>1 DEF Listed
<1> QED BY <1>2, <1>3

LEMMA WatchStep ==
  ASSUME NEW x, NEW A \in AskedType, NEW argv \in Seq(Obj), Busy(x, A, argv), NEW c \in Client, NEW o \in Obj,
         x.name[o] \in Name, NEW y, y = watchForKey(x, c, o)
  PROVE  HasWatched(x, y, A, c, o, argv)
<1> DEFINE d == x.client[c].db
           k == x.name[o]
<1>1. x \in State /\ \A b \in Client : Listed(x, b, 0, A[b])
  BY DEF Busy
<1>2. x.client[c] \in ClientRec /\ x.client[c].watched \in Seq(Watch) /\ d \in Db
  BY <1>1, StateFacts
<1>3. Watches(x, c, d, k) <=> <<d, k>> \in A[c]
  <2> HIDE DEF d, k
  <2> QED BY <1>1, WatchesAsked
<1>4. CASE <<d, k>> \in A[c]
  <2>1. y = x
    BY <1>3, <1>4 DEF watchForKey
  <2>2. Joined(A, c, d, k) = A
    BY <1>4 DEF Joined, AskedType
  <2> QED BY <2>1, <2>2 DEF HasWatched, SameButList
<1>5. CASE <<d, k>> \notin A[c]
  <2>1. y = AddWatch(x, c, o)
    BY <1>3, <1>5 DEF watchForKey
  <2>2. HasAdded(x, y, A, c, o, argv)
    BY <1>5, <2>1, AddWatchBusy
  <2> DEFINE r == WatchesToo(x.client[c], o, d)
  <2>3. /\ Busy(y, Joined(A, c, d, k), argv) /\ y.name = x.name
        /\ y.client = [x.client EXCEPT ![c] = r]
    BY <2>2 DEF HasAdded
  <2>4. r.live = x.client[c].live /\ r.db = x.client[c].db /\ r.flags = x.client[c].flags
    <3> DEFINE w == Append(x.client[c].watched, [key |-> o, db |-> d])
    <3>1. w \in Seq(Watch)
      <4> DEFINE l == x.client[c].watched
      <4>1. l \in Seq(Watch) /\ d \in Db /\ w = Append(l, [key |-> o, db |-> d])
        BY <1>2
      <4> HIDE DEF l, d, w
      <4> QED BY <4>1, GrownFacts
    <3>2. r = Relisted(x.client[c], w)
      BY DEF WatchesToo
    <3> HIDE DEF r, w
    <3> QED BY <1>2, <3>1, <3>2, FieldFacts
  <2> HIDE DEF r
  <2>5. x.client \in [Client -> ClientRec]
    BY <1>1, StateFacts
  <2>6. SameButList(x, y, c)
    BY <2>3, <2>4, <2>5 DEF SameButList
  <2> QED BY <2>3, <2>6 DEF HasWatched
<1> QED BY <1>4, <1>5

\* The pairs the first i of the names stand for
PairsOf(d, names) == [j \in 1..Len(names) |-> <<d, names[j]>>]
MoreAsked(A, c, d, names, i) == Asked(A, c, A[c] \cup Upto(PairsOf(d, names), i))

WatchOp(p, r, o) == watchForKey(r, p[1], o)
WatchGood(p, i, r) ==
  /\ Busy(r, MoreAsked(p[3], p[1], p[2].client[p[1]].db, p[4], i), p[5])
  /\ r.name = p[2].name /\ SameButList(p[2], r, p[1])
Watchs == INSTANCE FoldFacts WITH Op <- WatchOp, Good <- WatchGood

LEMMA SeqItems ==
  ASSUME NEW S, NEW l \in Seq(S), NEW n, n = Len(l)
  PROVE  n \in Nat /\ DOMAIN l = 1..n /\ \A i \in 1..n : l[i] \in S
OBVIOUS

LEMMA PairsFacts ==
  ASSUME NEW d, NEW names \in Seq(Name), NEW f, f = PairsOf(d, names), NEW n, n = Len(names)
  PROVE  n \in Nat /\ DOMAIN names = 1..n /\ \A j \in 1..n : f[j] = <<d, names[j]>> /\ names[j] \in Name
BY DEF PairsOf

LEMMA MoreAskedNone ==
  ASSUME NEW A \in AskedType, NEW c \in Client, NEW d, NEW names
  PROVE  MoreAsked(A, c, d, names, 0) = A
<1>1. Upto(PairsOf(d, names), 0) = {}
  BY DEF Upto
<1> QED BY <1>1 DEF MoreAsked, Asked, AskedType

LEMMA MoreAskedNext ==
  ASSUME NEW A \in AskedType, NEW c \in Client, NEW d \in Db, NEW names \in Seq(Name), NEW i \in 1..Len(names),
         NEW B, B = MoreAsked(A, c, d, names, i - 1)
  PROVE  B \in AskedType /\ MoreAsked(A, c, d, names, i) = Joined(B, c, d, names[i])
<1> DEFINE f == PairsOf(d, names)
           n == Len(names)
<1>1. n \in Nat /\ DOMAIN names = 1..n /\ \A j \in 1..n : f[j] = <<d, names[j]>> /\ names[j] \in Name
  BY PairsFacts
<1>0. i \in 1..n
  OBVIOUS
<1> HIDE DEF f, n
<1>2. A[c] \in SUBSET (Db \X Name)
  BY DEF AskedType
<1>3. Upto(f, i - 1) \in SUBSET (Db \X Name)
  <2>1. \A j \in 1..(i - 1) : j \in 1..n
    BY <1>0, <1>1
  <2>2. ASSUME NEW j \in 1..(i - 1) PROVE f[j] \in Db \X Name
    <3>1. f[j] = <<d, names[j]>> /\ names[j] \in Name
      BY <1>1, <2>1
    <3> QED BY <3>1
  <2> QED BY <2>2 DEF Upto
<1>4. Upto(f, i) = Upto(f, i - 1) \cup {<<d, names[i]>>}
  <2>1. \A j \in 1..i : j \in 1..(i - 1) \/ j = i
    BY <1>0, <1>1
  <2>2. i \in 1..i /\ \A j \in 1..(i - 1) : j \in 1..i
    BY <1>0, <1>1
  <2> QED BY <1>0, <1>1, <2>1, <2>2 DEF Upto
<1> DEFINE P == A[c] \cup Upto(f, i - 1)
           q == <<d, names[i]>>
<1>5. P \in SUBSET (Db \X Name)
  BY <1>2, <1>3
<1>6. A[c] \cup Upto(f, i) = P \cup {q}
  BY <1>4
<1>7. B = Asked(A, c, P) /\ MoreAsked(A, c, d, names, i) = Asked(A, c, P \cup {q})
  BY <1>6 DEF MoreAsked, f
<1> HIDE DEF P, q
<1>8. Asked(A, c, P) \in AskedType
  BY <1>5, AskedFacts
<1>9. Asked(A, c, P \cup {q}) = [Asked(A, c, P) EXCEPT ![c] = @ \cup {q}]
  BY DEF Asked, AskedType
<1> QED BY <1>7, <1>8, <1>9 DEF Joined, q

AskedToo(A, c, d, names) == [A EXCEPT ![c] = @ \cup ({d} \X ToSet(names))]

LEMMA MoreAskedAll ==
  ASSUME NEW A \in AskedType, NEW c \in Client, NEW d \in Db, NEW names \in Seq(Name), NEW n, n = Len(names)
  PROVE  MoreAsked(A, c, d, names, n) = AskedToo(A, c, d, names)
<1> DEFINE f == PairsOf(d, names)
<1>1. n \in Nat /\ DOMAIN names = 1..n /\ \A j \in 1..n : f[j] = <<d, names[j]>> /\ names[j] \in Name
  BY PairsFacts
<1> HIDE DEF f
<1>6. Upto(f, n) = {d} \X ToSet(names)
  <2>1. \A p : p \in Upto(f, n) <=> \E j \in 1..n : p = <<d, names[j]>>
    BY <1>1 DEF Upto
  <2>2. \A k : k \in ToSet(names) <=> \E j \in 1..n : names[j] = k
    BY <1>1, ToSetMember
  <2> QED BY <2>1, <2>2
<1> QED BY <1>6 DEF MoreAsked, f, Asked, AskedToo

LEMMA WatchAll ==
  ASSUME NEW x, NEW A \in AskedType, NEW names \in Seq(Name), NEW argv \in Seq(Obj), Len(argv) = Len(names),
         Busy(x, A, argv), \A j \in 1..Len(names) : x.name[argv[j]] = names[j], NEW c \in Client,
         NEW y, y = FoldLeft(LAMBDA z, o : watchForKey(z, c, o), x, argv)
  PROVE  /\ Busy(y, AskedToo(A, c, x.client[c].db, names), argv)
         /\ SameButList(x, y, c)
<1> DEFINE p == <<c, x, A, names, argv>>
           n == Len(argv)
           d == x.client[c].db
<1>1. p[1] = c /\ p[2] = x /\ p[3] = A /\ p[4] = names /\ p[5] = argv 
  OBVIOUS
<1>0. n \in Nat /\ \A i \in 1..n : argv[i] \in Obj /\ names[i] \in Name /\ i \in 1..Len(names)
  <2>1. n = Len(argv) /\ n = Len(names)
    OBVIOUS
  <2>2. n \in Nat /\ \A i \in 1..n : argv[i] \in Obj
    BY <2>1, SeqItems
  <2>3. \A i \in 1..n : names[i] \in Name
    BY <2>1, SeqItems
  <2> QED BY <2>1, <2>2, <2>3
<1> HIDE DEF p
<1>2. y = Watchs!Fold(p, x, argv)
  BY <1>1 DEF Watchs!Fold, WatchOp, FoldLeft, MapThenFoldSet, Max,
              Watchs!FoldLeft, Watchs!MapThenFoldSet, Watchs!Max
<1>3. x \in State /\ d \in Db
  <2>1. x \in State
    BY DEF Busy
  <2> QED BY <2>1, StateFacts
<1> HIDE DEF d
<1>4. WatchGood(p, 0, x)
  <2>1. MoreAsked(A, c, d, names, 0) = A
    BY MoreAskedNone
  <2> QED BY <1>1, <2>1 DEF WatchGood, SameButList, d
<1>5. ASSUME NEW r, NEW i \in 1..n, WatchGood(p, i - 1, r)
      PROVE  WatchGood(p, i, WatchOp(p, r, argv[i]))
  <2> DEFINE B == MoreAsked(A, c, d, names, i - 1)
             o == argv[i]
             v == watchForKey(r, c, o)
  <2>1. Busy(r, B, argv) /\ r.name = x.name /\ SameButList(x, r, c)
    BY <1>1, <1>5 DEF WatchGood, d
  <2>2. B \in AskedType /\ MoreAsked(A, c, d, names, i) = Joined(B, c, d, names[i])
    BY <1>0, <1>3, MoreAskedNext
  <2>3. o \in Obj /\ r.name[o] = names[i] /\ names[i] \in Name
    BY <1>0, <2>1
  <2>4. r.client[c].db = d
    BY <2>1 DEF SameButList, d
  <2> HIDE DEF B, o, v
  <2>5. HasWatched(r, v, B, c, o, argv)
    BY <2>1, <2>2, <2>3, WatchStep DEF v
  <2>6. Busy(v, MoreAsked(A, c, d, names, i), argv) /\ v.name = x.name /\ SameButList(r, v, c)
    BY <2>1, <2>2, <2>3, <2>4, <2>5 DEF HasWatched
  <2>7. SameButList(x, v, c)
    BY <2>1, <2>6 DEF SameButList
  <2> QED BY <1>1, <2>6, <2>7 DEF WatchGood, WatchOp, v, o, d
<1>6. WatchGood(p, n, Watchs!Fold(p, x, argv))
  BY <1>4, <1>5, Watchs!FoldKeeps
<1>7. Busy(y, MoreAsked(A, c, d, names, n), argv) /\ SameButList(x, y, c)
  BY <1>1, <1>2, <1>6 DEF WatchGood, d
<1>8. MoreAsked(A, c, d, names, Len(names)) = AskedToo(A, c, d, names)
  <2> DEFINE m == Len(names)
  <2> HIDE DEF m
  <2>1. m = Len(names)
    BY DEF m
  <2>2. MoreAsked(A, c, d, names, m) = AskedToo(A, c, d, names)
    BY <1>3, <2>1, MoreAskedAll
  <2> QED BY <2>1, <2>2
<1> QED BY <1>7, <1>8 DEF d

-----------------------------------------------------------------------------
(* Requests.                                                               *)

FlagsRight(x, S, P) ==
  \A c \in Client : /\ DIRTY_CAS \in x.client[c].flags <=> S[c] # {}
                    /\ DIRTY_EXEC \in x.client[c].flags => c \in P

\* The invariant, of a state x, what was asked, what is stale and who is spoiled
Settled(x, A, S, P) == Rest(x, A) /\ DeadAreEmpty(x) /\ FlagsRight(x, S, P)

LEMMA FlagNames == DIRTY_CAS # DIRTY_EXEC /\ DIRTY_CAS # MULTI /\ DIRTY_EXEC # MULTI
BY DEF DIRTY_CAS, DIRTY_EXEC, MULTI

LEMMA FlagsAre == {MULTI, DIRTY_CAS, DIRTY_EXEC} = Flags
BY DEF Flags

\* Some clients, all of them alive, are flagged.
FlagsToo(cs, f, S, P, S2, P2) ==
  \A b \in Client : /\ S2[b] # {} <=> S[b] # {} \/ (b \in cs /\ f = DIRTY_CAS)
                    /\ b \in P \/ (b \in cs /\ f = DIRTY_EXEC) => b \in P2

LEMMA FlagSettled ==
  ASSUME NEW x, NEW A, NEW S, NEW P, Settled(x, A, S, P), NEW cs, NEW f \in Flags,
         \A b \in Client : b \in cs => x.client[b].live,
         NEW y, y = Flagged(x, cs, f), NEW S2, NEW P2, FlagsToo(cs, f, S, P, S2, P2)
  PROVE  Settled(y, A, S2, P2)
<1>1. Rest(x, A) /\ DeadAreEmpty(x) /\ FlagsRight(x, S, P) /\ x \in State
  BY DEF Settled, Rest
<1>2. /\ Rest(y, A)
      /\ \A b \in Client : y.client[b] = IF b \in cs THEN Reflagged(x.client[b], x.client[b].flags \cup {f})
                                         ELSE x.client[b]
  BY <1>1, FlaggedFacts
<1>3. ASSUME NEW b \in Client
      PROVE  /\ b \in cs => y.client[b].live = x.client[b].live /\ y.client[b].flags = x.client[b].flags \cup {f}
             /\ b \notin cs => y.client[b] = x.client[b]
  <2>1. x.client[b] \in ClientRec /\ x.client[b].flags \cup {f} \in SUBSET Flags
    BY <1>1, StateFacts
  <2> DEFINE r == x.client[b]
             g == r.flags \cup {f}
  <2>2. r \in ClientRec /\ g \in SUBSET Flags
    BY <2>1
  <2> HIDE DEF r, g
  <2>3. Reflagged(r, g).live = r.live /\ Reflagged(r, g).flags = g
    BY <2>2, FieldFacts
  <2> QED BY <1>2, <2>3 DEF r, g
<1>4. DeadAreEmpty(y)
  BY <1>1, <1>3 DEF DeadAreEmpty
<1>5. FlagsRight(y, S2, P2)
  BY <1>1, <1>3, FlagNames DEF FlagsRight, FlagsToo
<1> QED BY <1>2, <1>4, <1>5 DEF Settled

\* Only c changes, and is right afterwards.
OthersSame(x, y, c) == \A b \in Client : b # c => y.client[b] = x.client[b]
HistorySame(S, P, S2, P2, c) == \A b \in Client : b # c => S2[b] = S[b] /\ (b \in P2 <=> b \in P)
RightOf(y, S2, P2, c) ==
  /\ y.client[c].live \/ y.client[c] = NoClient
  /\ DIRTY_CAS \in y.client[c].flags <=> S2[c] # {}
  /\ DIRTY_EXEC \in y.client[c].flags => c \in P2

LEMMA OneSettled ==
  ASSUME NEW x, NEW A, NEW S, NEW P, Settled(x, A, S, P), NEW y, NEW B, Rest(y, B), NEW c \in Client,
         OthersSame(x, y, c), NEW S2, NEW P2, HistorySame(S, P, S2, P2, c), RightOf(y, S2, P2, c)
  PROVE  Settled(y, B, S2, P2)
<1>1. DeadAreEmpty(y)
  BY DEF Settled, DeadAreEmpty, OthersSame, RightOf
<1>2. FlagsRight(y, S2, P2)
  BY DEF Settled, FlagsRight, OthersSame, HistorySame, RightOf
<1> QED BY <1>1, <1>2 DEF Settled

LEMMA SettledFacts ==
  ASSUME NEW x, NEW A, NEW S, NEW P, Settled(x, A, S, P), NEW c \in Client
  PROVE  /\ x \in State /\ x.client \in [Client -> ClientRec] /\ x.client[c] \in ClientRec /\ Rest(x, A)
         /\ x.client[c].watched \in Seq(Watch) /\ x.client[c].flags \in SUBSET Flags
         /\ DIRTY_CAS \in x.client[c].flags <=> S[c] # {}
         /\ DIRTY_EXEC \in x.client[c].flags => c \in P
<1>1. Rest(x, A) /\ x \in State
  BY DEF Settled, Rest
<1>2. /\ DIRTY_CAS \in x.client[c].flags <=> S[c] # {}
      /\ DIRTY_EXEC \in x.client[c].flags => c \in P
  BY DEF Settled, FlagsRight
<1> QED BY <1>1, <1>2, StateFacts

LEMMA RefusedSettled ==
  ASSUME NEW x, NEW A, NEW S, NEW P, Settled(x, A, S, P), NEW c \in Client, x.client[c].live,
         NEW y, y = flagTransaction(x, c),
         NEW Q, Q = IF MULTI \in x.client[c].flags THEN P \cup {c} ELSE P
  PROVE  Settled(y, A, S, Q)
<1>1. CASE MULTI \in x.client[c].flags
  <2>1. y = Flagged(x, {c}, DIRTY_EXEC) /\ DIRTY_EXEC \in Flags
    BY <1>1 DEF flagTransaction, Flags
  <2>2. FlagsToo({c}, DIRTY_EXEC, S, P, S, Q)
    BY <1>1, FlagNames DEF FlagsToo
  <2>3. \A b \in Client : b \in {c} => x.client[b].live
    OBVIOUS
  <2> QED BY <2>1, <2>2, <2>3, FlagSettled
<1>2. CASE MULTI \notin x.client[c].flags
  <2>1. y = x /\ Q = P
    BY <1>2 DEF flagTransaction
  <2> QED BY <2>1
<1> QED BY <1>1, <1>2

LEMMA MultiSettled ==
  ASSUME NEW x, NEW A, NEW S, NEW P, Settled(x, A, S, P), NEW c \in Client, x.client[c].live,
         NEW y, y = Flagged(x, {c}, MULTI)
  PROVE  Settled(y, A, S, P)
<1>1. MULTI \in Flags
  BY DEF Flags
<1>2. FlagsToo({c}, MULTI, S, P, S, P)
  BY FlagNames DEF FlagsToo
<1>3. \A b \in Client : b \in {c} => x.client[b].live
  OBVIOUS
<1> QED BY <1>1, <1>2, <1>3, FlagSettled

\* SET and DEL: the clients of the entry are those that have asked for it.
LEMMA TouchSettled ==
  ASSUME NEW x, NEW A \in AskedType, NEW S, NEW P, Settled(x, A, S, P), NEW d \in Db, NEW k \in Name,
         NEW y, y = touchWatchedKey(x, d, k),
         NEW S2, S2 = [b \in Client |-> S[b] \cup (A[b] \cap {<<d, k>>})]
  PROVE  Settled(y, A, S2, P)
<1> DEFINE cs == ToSet(x.watched[d][k].clients)
<1>0. Rest(x, A) /\ DeadAreEmpty(x) /\ Tabled(x, A) /\ \A b \in Client : Listed(x, b, 0, A[b])
  BY DEF Settled, Rest
<1>1. CASE k \in DOMAIN x.watched[d]
  <2>1. y = Flagged(x, cs, DIRTY_CAS) /\ DIRTY_CAS \in Flags
    BY <1>1 DEF touchWatchedKey, Flags
  <2>2. \A b \in Client : b \in cs <=> <<d, k>> \in A[b]
    BY <1>0, <1>1 DEF Tabled, EntryOk
  <2>3. \A b \in Client : b \in cs => x.client[b].live
    <3> TAKE b \in Client
    <3> HAVE b \in cs
    <3>1. <<d, k>> \in A[b] /\ Listed(x, b, 0, A[b])
      BY <1>0, <2>2
    <3>2. \E i \in DOMAIN x.client[b].watched : TRUE
      BY <3>1 DEF Listed
    <3>3. x.client[b] # NoClient
      BY <3>2 DEF NoClient
    <3> QED BY <1>0, <3>3 DEF DeadAreEmpty
  <2> HIDE DEF cs
  <2>4. FlagsToo(cs, DIRTY_CAS, S, P, S2, P)
    <3> SUFFICES ASSUME NEW b \in Client
                 PROVE  /\ S2[b] # {} <=> S[b] # {} \/ b \in cs
                        /\ b \in P \/ (b \in cs /\ DIRTY_CAS = DIRTY_EXEC) => b \in P
      BY DEF FlagsToo
    <3>1. S2[b] = S[b] \cup (A[b] \cap {<<d, k>>})
      OBVIOUS
    <3>2. A[b] \cap {<<d, k>>} # {} <=> <<d, k>> \in A[b]
      OBVIOUS
    <3>3. S2[b] # {} <=> S[b] # {} \/ b \in cs
      BY <2>2, <3>1, <3>2
    <3> QED BY <3>3, FlagNames
  <2> QED BY <2>1, <2>3, <2>4, FlagSettled
<1>2. CASE k \notin DOMAIN x.watched[d]
  <2>1. y = x
    BY <1>2 DEF touchWatchedKey
  <2>2. \A b \in Client : <<d, k>> \notin A[b]
    BY <1>0, <1>2 DEF Tabled
  <2>3. \A b \in Client : S2[b] = S[b]
    BY <2>2
  <2> QED BY <2>1, <2>3 DEF Settled, FlagsRight
<1> QED BY <1>1, <1>2

LEMMA FlushSettled ==
  ASSUME NEW x, NEW A \in AskedType, NEW S, NEW P, Settled(x, A, S, P), NEW K \in [Db -> SUBSET Name],
         NEW y, y = touchWatchedKeysOnFlush(x, K),
         NEW S2, S2 = [c \in Client |-> S[c] \cup {p \in A[c] : p[2] \in K[p[1]]}]
  PROVE  Settled(y, A, S2, P)
<1> DEFINE cs == {c \in Client : x.client[c].live /\ \E d \in Db : \E k \in K[d] : Watches(x, c, d, k)}
           gone(c) == {p \in A[c] : p[2] \in K[p[1]]}
<1>0. Rest(x, A) /\ DeadAreEmpty(x) /\ x \in State /\ \A b \in Client : Listed(x, b, 0, A[b])
  BY DEF Settled, Rest
<1>1. y = Flagged(x, cs, DIRTY_CAS) /\ DIRTY_CAS \in Flags
  BY DEF touchWatchedKeysOnFlush, Flags
<1>2. \A b \in Client : b \in cs => x.client[b].live
  OBVIOUS
<1>3. ASSUME NEW b \in Client PROVE b \in cs <=> gone(b) # {}
  <2>1. \A d, k : Watches(x, b, d, k) <=> <<d, k>> \in A[b]
    BY <1>0, WatchesAsked
  <2>2. ASSUME b \in cs PROVE gone(b) # {}
    <3>1. PICK d \in Db : \E k \in K[d] : <<d, k>> \in A[b]
      BY <2>1, <2>2
    <3>2. PICK k \in K[d] : <<d, k>> \in A[b]
      BY <3>1
    <3> QED BY <3>2
  <2>3. ASSUME gone(b) # {} PROVE b \in cs
    <3>1. PICK p \in A[b] : p[2] \in K[p[1]]
      BY <2>3
    <3>2. p \in Db \X Name
      BY DEF AskedType
    <3>3. p[1] \in Db /\ p = <<p[1], p[2]>>
      BY <3>2
    <3>4. Watches(x, b, p[1], p[2])
      BY <2>1, <3>1, <3>3
    <3>5. x.client[b] # NoClient
      <4>1. \E i \in DOMAIN x.client[b].watched : TRUE
        BY <3>4 DEF Watches
      <4> QED BY <4>1 DEF NoClient
    <3>6. x.client[b].live
      BY <1>0, <3>5 DEF DeadAreEmpty
    <3> QED BY <3>1, <3>3, <3>4, <3>6
  <2> QED BY <2>2, <2>3
<1>4. \A b \in Client : S2[b] = S[b] \cup gone(b)
  OBVIOUS
<1> HIDE DEF cs, gone
<1>5. FlagsToo(cs, DIRTY_CAS, S, P, S2, P)
  <2> SUFFICES ASSUME NEW b \in Client
               PROVE  /\ S2[b] # {} <=> S[b] # {} \/ b \in cs
                      /\ b \in P \/ (b \in cs /\ DIRTY_CAS = DIRTY_EXEC) => b \in P
    BY DEF FlagsToo
  <2>1. S2[b] # {} <=> S[b] # {} \/ b \in cs
    BY <1>3, <1>4
  <2> QED BY <2>1, FlagNames
<1> QED BY <1>1, <1>2, <1>5, FlagSettled

LEMMA QueueSettled ==
  ASSUME NEW A, NEW S, NEW P, Settled(t, A, S, P), NEW c \in Client, t.client[c].live, NEW names \in Seq(Name),
         Len(names) <= Cardinality(Free), IsFiniteSet(Obj),
         NEW y, y = decrAll(queueMultiCommand(WithArgv(names), c, Argv(names)), Argv(names))
  PROVE  Settled(y, A, S, P)
<1> DEFINE argv == Argv(names)
           x == WithArgv(names)
           v == queueMultiCommand(x, c, argv)
           q == Append(t.client[c].commands, argv)
           r == Requeued(t.client[c], q)
<1>1. Rest(t, A) /\ t.client[c] \in ClientRec /\ t.client \in [Client -> ClientRec]
  BY SettledFacts
<1>0. t.client[c].commands \in Seq(ArgvType)
  BY <1>1, StateFacts DEF Rest
<1>2. argv \in Seq(Obj) /\ Busy(x, A, argv) /\ x.client = t.client
  BY <1>1, WithArgvBusy
<1>3. y = decrAll(v, argv)
  OBVIOUS
<1> HIDE DEF x, argv
<1>4. Busy(v, A, argv) /\ v.client = [t.client EXCEPT ![c] = r]
  BY <1>2, QueueBusy
<1> HIDE DEF v
<1>5. Rest(y, A) /\ y.client = v.client
  BY <1>2, <1>3, <1>4, Release
<1>6. r.live = t.client[c].live /\ r.flags = t.client[c].flags
  <2> DEFINE l == t.client[c].commands
             e == t.client[c]
  <2>1. q \in Seq(ArgvType)
    <3>1. l \in Seq(ArgvType) /\ argv \in ArgvType
      BY <1>0, <1>2 DEF ArgvType
    <3> HIDE DEF l
    <3>2. Append(l, argv) \in Seq(ArgvType)
      BY <3>1
    <3> QED BY <3>2 DEF l
  <2>2. e \in ClientRec
    BY <1>1
  <2> HIDE DEF q, e
  <2>3. Requeued(e, q).live = e.live /\ Requeued(e, q).flags = e.flags
    BY <2>1, <2>2, FieldFacts
  <2> QED BY <2>3 DEF e
<1> HIDE DEF r
<1>7. OthersSame(t, y, c) /\ y.client[c] = r
  BY <1>1, <1>4, <1>5 DEF OthersSame
<1>10. (DIRTY_CAS \in t.client[c].flags <=> S[c] # {}) /\ (DIRTY_EXEC \in t.client[c].flags => c \in P)
  BY SettledFacts
<1>8. RightOf(y, S, P, c)
  BY <1>6, <1>7, <1>10 DEF RightOf
<1>9. HistorySame(S, P, S, P, c)
  BY DEF HistorySame
<1> QED BY <1>5, <1>7, <1>8, <1>9, OneSettled

WatchedAll(x, c, argv) == FoldLeft(LAMBDA z, o : watchForKey(z, c, o), x, argv)

LEMMA WatchSettled ==
  ASSUME NEW A \in AskedType, NEW S, NEW P, Settled(t, A, S, P), NEW c \in Client, t.client[c].live,
         NEW names \in Seq(Name), Len(names) <= Cardinality(Free), IsFiniteSet(Obj),
         NEW y, y = decrAll(WatchedAll(WithArgv(names), c, Argv(names)), Argv(names))
  PROVE  Settled(y, AskedToo(A, c, t.client[c].db, names), S, P)
<1> DEFINE argv == Argv(names)
           x == WithArgv(names)
           v == WatchedAll(x, c, argv)
           B == AskedToo(A, c, t.client[c].db, names)
<1>1. Rest(t, A)
  BY SettledFacts
<1>0. argv = Argv(names) /\ x = WithArgv(names) /\ y = decrAll(v, argv)
  OBVIOUS
<1> HIDE DEF x, argv
<1>2. /\ argv \in Seq(Obj) /\ Len(argv) = Len(names) /\ Busy(x, A, argv) /\ x.client = t.client
      /\ \A j \in 1..Len(names) : x.name[argv[j]] = names[j]
  BY <1>0, <1>1, WithArgvBusy
<1>4. Busy(v, B, argv) /\ SameButList(x, v, c)
  BY <1>2, WatchAll DEF WatchedAll
<1> HIDE DEF v, B
<1>5. Rest(y, B) /\ y.client = v.client
  BY <1>0, <1>2, <1>4, Release
<1>7. OthersSame(t, y, c) /\ y.client[c].live = t.client[c].live /\ y.client[c].flags = t.client[c].flags
  BY <1>2, <1>4, <1>5 DEF OthersSame, SameButList
<1>10. (DIRTY_CAS \in t.client[c].flags <=> S[c] # {}) /\ (DIRTY_EXEC \in t.client[c].flags => c \in P)
  BY SettledFacts
<1>8. RightOf(y, S, P, c)
  BY <1>7, <1>10 DEF RightOf
<1>9. HistorySame(S, P, S, P, c)
  BY DEF HistorySame
<1> QED BY <1>5, <1>7, <1>8, <1>9, OneSettled DEF B

Emptied(S, c) == [S EXCEPT ![c] = {}]

LEMMA UnwatchSettled ==
  ASSUME NEW x, NEW A \in AskedType, NEW S \in AskedType, NEW P, Settled(x, A, S, P), NEW c \in Client,
         x.client[c].live, NEW y, y = [unwatchAllKeys(x, c) EXCEPT !.client[c].flags = @ \ {DIRTY_CAS}]
  PROVE  Settled(y, Emptied(A, c), Emptied(S, c), P)
<1> DEFINE v == unwatchAllKeys(x, c)
           e == Relisted(x.client[c], <<>>)
           f == e.flags \ {DIRTY_CAS}
           r == Reflagged(e, f)
<1>1. Rest(x, A) /\ x.client \in [Client -> ClientRec] /\ x.client[c] \in ClientRec
  BY SettledFacts
<1>2. Rest(v, Asked(A, c, {})) /\ v.client = [x.client EXCEPT ![c] = e]
  <2> HIDE DEF e
  <2> QED BY <1>1, UnwatchAll DEF e
<1>3. v.client[c] = e
  BY <1>1, <1>2
<1>4. y = WithClient(v, c, r)
  <2>1. y = [v EXCEPT !.client[c].flags = @ \ {DIRTY_CAS}]
    OBVIOUS
  <2> HIDE DEF v, e
  <2> QED BY <1>3, <2>1 DEF WithClient, Reflagged
<1>5. e \in ClientRec /\ e.flags = x.client[c].flags /\ e.live = x.client[c].live
  <2>1. <<>> \in Seq(Watch)
    OBVIOUS
  <2> QED BY <1>1, <2>1, FieldFacts
<1> HIDE DEF v, e
<1>6. f \in SUBSET Flags
  BY <1>1, <1>5, SettledFacts
<1> HIDE DEF f
<1>7. /\ r \in ClientRec /\ r.watched = e.watched /\ r.commands = e.commands
      /\ r.flags = f /\ r.live = e.live
  BY <1>5, <1>6, FieldFacts
<1> HIDE DEF r
<1>8. v \in State
  BY <1>2 DEF Rest
<1>9. OneClient(v, y, c, r)
  BY <1>4, <1>7, <1>8, WithClientFacts
<1>10. /\ y \in State /\ y.watched = v.watched /\ y.ref = v.ref /\ y.name = v.name
       /\ y.client[c] = r /\ \A b \in Client : b # c => y.client[b] = v.client[b]
  BY <1>9 DEF OneClient
<1>11. Rest(y, Emptied(A, c))
  <2>0. \A b \in Client : y.client[b].watched = v.client[b].watched /\ y.client[b].commands = v.client[b].commands
    BY <1>3, <1>7, <1>10
  <2>1. Rest(y, Asked(A, c, {}))
    <3> DEFINE B == Asked(A, c, {})
    <3>1. Rest(v, B)
      BY <1>2
    <3> HIDE DEF B
    <3>2. Rest(y, B)
      BY <1>10, <2>0, <3>1, RestSame
    <3> QED BY <3>2 DEF B
  <2> QED BY <2>1 DEF Emptied, Asked
<1>12. OthersSame(x, y, c)
  BY <1>1, <1>2, <1>10 DEF OthersSame
<1>13. RightOf(y, Emptied(S, c), P, c)
  <2>1. Emptied(S, c)[c] = {}
    BY DEF Emptied, AskedType
  <2>2. DIRTY_EXEC \in x.client[c].flags => c \in P
    BY SettledFacts
  <2> QED BY <1>5, <1>7, <1>10, <2>1, <2>2, FlagNames DEF RightOf, f
<1>14. HistorySame(S, P, Emptied(S, c), P, c)
  BY DEF HistorySame, Emptied, AskedType
<1> QED BY <1>11, <1>12, <1>13, <1>14, OneSettled

LEMMA SelectSettled ==
  ASSUME NEW x, NEW A, NEW S, NEW P, Settled(x, A, S, P), NEW c \in Client, x.client[c].live, NEW d \in Db,
         NEW y, y = [x EXCEPT !.client[c].db = d]
  PROVE  Settled(y, A, S, P)
<1> DEFINE e == x.client[c]
           r == [e EXCEPT !.db = d]
<1>1. Rest(x, A) /\ x \in State /\ e \in ClientRec
  BY SettledFacts
<1>2. y = WithClient(x, c, r)
  BY DEF WithClient
<1>3. r \in ClientRec /\ r.watched = e.watched /\ r.commands = e.commands /\ r.live = e.live /\ r.flags = e.flags
  <2> HIDE DEF e
  <2> QED BY <1>1 DEF ClientRec
<1> HIDE DEF r
<1>4. OneClient(x, y, c, r)
  BY <1>1, <1>2, <1>3, WithClientFacts
<1>5. /\ y \in State /\ y.watched = x.watched /\ y.ref = x.ref /\ y.name = x.name
      /\ y.client[c] = r /\ \A b \in Client : b # c => y.client[b] = x.client[b]
  BY <1>4 DEF OneClient
<1>6. Rest(y, A)
  BY <1>1, <1>3, <1>5, RestSame
<1>7. OthersSame(x, y, c)
  BY <1>5 DEF OthersSame
<1>8. RightOf(y, S, P, c)
  BY <1>3, <1>5, SettledFacts DEF RightOf
<1>9. HistorySame(S, P, S, P, c)
  BY DEF HistorySame
<1> QED BY <1>6, <1>7, <1>8, <1>9, OneSettled

LEMMA CreateSettled ==
  ASSUME NEW x, NEW A, NEW S, NEW P, Settled(x, A, S, P), NEW c \in Client, ~x.client[c].live,
         NEW y, y = initClientMultiState([x EXCEPT !.client[c].live = TRUE], c)
  PROVE  Settled(y, A, S, P)
<1> DEFINE r == [[NoClient EXCEPT !.live = TRUE] EXCEPT !.commands = <<>>]
<1>1. Rest(x, A) /\ x \in State /\ x.client \in [Client -> ClientRec] /\ NoClient \in ClientRec
  <2>1. x.client[c] = NoClient
    BY DEF Settled, DeadAreEmpty
  <2> QED BY <2>1, SettledFacts
<1>2. x.client[c] = NoClient
  BY DEF Settled, DeadAreEmpty
<1>3. y = WithClient(x, c, r)
  <2>1. y = [x EXCEPT !.client[c] = [[x.client[c] EXCEPT !.live = TRUE] EXCEPT !.commands = <<>>]]
    BY <1>1 DEF initClientMultiState, State
  <2> QED BY <1>2, <2>1 DEF WithClient
<1>4. /\ r \in ClientRec /\ r.watched = NoClient.watched /\ r.commands = NoClient.commands /\ r.live = TRUE
      /\ r.flags = NoClient.flags
  BY <1>1 DEF ClientRec, NoClient
<1> HIDE DEF r
<1>5. OneClient(x, y, c, r)
  BY <1>1, <1>3, <1>4, WithClientFacts
<1>6. /\ y \in State /\ y.watched = x.watched /\ y.ref = x.ref /\ y.name = x.name
      /\ y.client[c] = r /\ \A b \in Client : b # c => y.client[b] = x.client[b]
  BY <1>5 DEF OneClient
<1>7. Rest(y, A)
  BY <1>1, <1>2, <1>4, <1>6, RestSame
<1>8. OthersSame(x, y, c)
  BY <1>6 DEF OthersSame
<1>9. RightOf(y, S, P, c)
  BY <1>2, <1>4, <1>6, SettledFacts DEF RightOf
<1>10. HistorySame(S, P, S, P, c)
  BY DEF HistorySame
<1> QED BY <1>7, <1>8, <1>9, <1>10, OneSettled

LEMMA QueuedHeld ==
  ASSUME NEW x \in State, NEW c \in Client
  PROVE  Queued(x, c, Len(x.client[c].commands)) \subseteq Refs(x)
<1> DEFINE l == x.client[c].commands
           n == Len(l)
<1>1. l \in Seq(ArgvType)
  BY StateFacts
<1>2. DOMAIN l = 1..n
  <2> HIDE DEF l
  <2> QED BY <1>1
<1>3. \A g : g \in Queued(x, c, n) <=> \E i \in DOMAIN l : \E j \in DOMAIN l[i] : g = QueueRef(c, i, j, l[i][j])
  BY <1>2 DEF Queued
<1> HIDE DEF n
<1>4. Queued(x, c, n) \subseteq Refs(x)
  BY <1>3, RefMembers
<1> QED BY <1>4 DEF n

LEMMA WithClientTwice ==
  ASSUME NEW x \in State, NEW c \in Client, NEW q, NEW r
  PROVE  WithClient(WithClient(x, c, q), c, r) = WithClient(x, c, r)
<1> DEFINE f == x.client
<1>1. f \in [Client -> ClientRec]
  BY StateFacts
<1> HIDE DEF f
<1>2. [[f EXCEPT ![c] = q] EXCEPT ![c] = r] = [f EXCEPT ![c] = r]
  BY <1>1
<1> DEFINE g == [f EXCEPT ![c] = q]
           h == [f EXCEPT ![c] = r]
<1>3. WithClient(x, c, q) = [x EXCEPT !.client = g] /\ WithClient(x, c, r) = [x EXCEPT !.client = h]
  BY DEF WithClient, f
<1>4. [x EXCEPT !.client = g].client = g
  BY DEF State
<1>5. WithClient(WithClient(x, c, q), c, r) = [[x EXCEPT !.client = g] EXCEPT !.client = h]
  BY <1>2, <1>3, <1>4 DEF WithClient
<1> HIDE DEF g, h
<1>6. [[x EXCEPT !.client = g] EXCEPT !.client = h] = [x EXCEPT !.client = h]
  BY DEF State
<1> QED BY <1>3, <1>5, <1>6

LEMMA DiscardSettled ==
  ASSUME NEW x, NEW A \in AskedType, NEW S \in AskedType, NEW P, Settled(x, A, S, P), NEW c \in Client,
         x.client[c].live, NEW y, y = discardTransaction(x, c)
  PROVE  Settled(y, Emptied(A, c), Emptied(S, c), P \ {c})
<1> DEFINE v == freeClientMultiState(x, c)
           q == Requeued(x.client[c], <<>>)
           f == q.flags \ Flags
           r == Reflagged(q, f)
           z == WithClient(v, c, r)
           e == Relisted(r, <<>>)
<1>1. Rest(x, A) /\ x.client \in [Client -> ClientRec] /\ x.client[c] \in ClientRec
  BY SettledFacts
<1>2. /\ q \in ClientRec /\ q.flags = x.client[c].flags /\ q.live = x.client[c].live /\ q.commands = <<>>
      /\ q.watched = x.client[c].watched
  <2>1. <<>> \in Seq(ArgvType)
    OBVIOUS
  <2> QED BY <1>1, <2>1, FieldFacts
<1>3. /\ r \in ClientRec /\ r.flags = f /\ r.live = x.client[c].live /\ r.commands = <<>>
      /\ r.watched = x.client[c].watched
  <2>1. f \in SUBSET Flags
    BY <1>2, SettledFacts
  <2> HIDE DEF q, f
  <2> QED BY <1>2, <2>1, FieldFacts
<1>4. Rest(z, A) /\ OneClient(v, z, c, r) /\ v.client = x.client
  <2> HIDE DEF r, v
  <2> QED BY <1>1, <1>3, ClearQueue DEF v
<1>5. v \in State
  <2>1. Drops(x, v, Refs(x), Queued(x, c, Len(x.client[c].commands)))
    <3>1. x \in State /\ Counted(x, Refs(x))
      BY <1>1 DEF Rest
    <3>2. Queued(x, c, Len(x.client[c].commands)) \subseteq Refs(x)
      BY <3>1, QueuedHeld
    <3> QED BY <3>1, <3>2, FreeDrops
  <2> QED BY <2>1 DEF Drops
<1>6. y = unwatchAllKeys(z, c)
  <2> DEFINE d == [initClientMultiState(v, c) EXCEPT !.client[c].flags = @ \ {MULTI, DIRTY_CAS, DIRTY_EXEC}]
  <2>1. y = unwatchAllKeys(d, c)
    BY DEF discardTransaction
  <2> HIDE DEF v
  <2> DEFINE w == WithClient(v, c, q)
  <2>2. initClientMultiState(v, c) = w
    BY <1>4 DEF initClientMultiState, WithClient, Requeued
  <2>3. w.client[c] = q
    <3>1. OneClient(v, w, c, q)
      <4> HIDE DEF q
      <4> QED BY <1>2, <1>5, WithClientFacts
    <3> QED BY <3>1 DEF OneClient
  <2> HIDE DEF w, q
  <2>4. d = WithClient(w, c, r)
    BY <2>2, <2>3 DEF WithClient, Reflagged, Flags
  <2> HIDE DEF d
  <2>5. d = z
    BY <1>5, <2>4, WithClientTwice DEF w
  <2> QED BY <2>1, <2>5
<1> HIDE DEF v, z, r
<1>7. z.client[c] = r /\ \A b \in Client : b # c => z.client[b] = x.client[b]
  BY <1>4 DEF OneClient
<1>8. Rest(y, Asked(A, c, {})) /\ y.client = [z.client EXCEPT ![c] = e]
  <2>1. /\ Rest(y, Asked(A, c, {}))
        /\ y.client = [z.client EXCEPT ![c] = Relisted(z.client[c], <<>>)]
    BY <1>4, <1>6, UnwatchAll
  <2> QED BY <1>7, <2>1
<1>9. e.live = r.live /\ e.flags = r.flags
  <2>1. <<>> \in Seq(Watch)
    OBVIOUS
  <2> QED BY <1>3, <2>1, FieldFacts
<1> HIDE DEF e
<1>10. z.client \in [Client -> ClientRec]
  BY <1>4, StateFacts DEF OneClient
<1>11. Rest(y, Emptied(A, c))
  BY <1>8 DEF Emptied, Asked
<1>12. OthersSame(x, y, c) /\ y.client[c] = e
  BY <1>7, <1>8, <1>10 DEF OthersSame
<1>13. RightOf(y, Emptied(S, c), P \ {c}, c)
  <2>1. Emptied(S, c)[c] = {}
    BY DEF Emptied, AskedType
  <2>2. DIRTY_CAS \notin e.flags /\ DIRTY_EXEC \notin e.flags
    BY <1>3, <1>9 DEF Flags
  <2> QED BY <1>3, <1>9, <1>12, <2>1, <2>2 DEF RightOf
<1>14. HistorySame(S, P, Emptied(S, c), P \ {c}, c)
  BY DEF HistorySame, Emptied, AskedType
<1> QED BY <1>11, <1>12, <1>13, <1>14, OneSettled

LEMMA FreeSettled ==
  ASSUME NEW x, NEW A \in AskedType, NEW S \in AskedType, NEW P, Settled(x, A, S, P), NEW c \in Client, 0 \in Db,
         NEW y, y = WithClient(freeClientMultiState(unwatchAllKeys(x, c), c), c, NoClient)
  PROVE  Settled(y, Emptied(A, c), Emptied(S, c), P \ {c})
<1> DEFINE u == unwatchAllKeys(x, c)
           v == freeClientMultiState(u, c)
           B == Asked(A, c, {})
<1>1. Rest(x, A) /\ x.client \in [Client -> ClientRec] /\ x.client[c] \in ClientRec
  BY SettledFacts
<1>2. Rest(u, B) /\ u.client = [x.client EXCEPT ![c] = Relisted(x.client[c], <<>>)]
  BY <1>1, UnwatchAll
<1>3. y = WithClient(v, c, NoClient)
  OBVIOUS
<1> HIDE DEF u
<1>4. u.client[c].watched = <<>> /\ \A b \in Client : b # c => u.client[b] = x.client[b]
  <2>1. <<>> \in Seq(Watch)
    OBVIOUS
  <2>2. Relisted(x.client[c], <<>>).watched = <<>>
    BY <1>1, <2>1, FieldFacts
  <2> QED BY <1>1, <1>2, <2>2
<1>5. /\ NoClient \in ClientRec /\ NoClient.commands = <<>> /\ NoClient.watched = <<>>
      /\ DIRTY_CAS \notin NoClient.flags /\ DIRTY_EXEC \notin NoClient.flags
  BY DEF NoClient, ClientRec
<1>6. Rest(y, B) /\ OneClient(v, y, c, NoClient) /\ v.client = u.client
  <2>1. v = freeClientMultiState(u, c) /\ NoClient.watched = u.client[c].watched
    BY <1>4, <1>5
  <2> DEFINE r == NoClient
  <2>2. r \in ClientRec /\ r.commands = <<>> /\ r.watched = u.client[c].watched /\ y = WithClient(v, c, r)
    BY <1>3, <1>5, <2>1
  <2> HIDE DEF v, B, r
  <2>3. Rest(y, B) /\ OneClient(v, y, c, r) /\ v.client = u.client
    <3>1. Rest(u, B)
      BY <1>2
    <3> QED BY <2>1, <2>2, <3>1, ClearQueue
  <2> QED BY <2>3 DEF r
<1>7. y.client[c] = NoClient /\ \A b \in Client : b # c => y.client[b] = u.client[b]
  BY <1>6 DEF OneClient
<1>8. Rest(y, Emptied(A, c))
  BY <1>6 DEF Emptied, Asked
<1>9. OthersSame(x, y, c)
  BY <1>4, <1>7 DEF OthersSame
<1>10. RightOf(y, Emptied(S, c), P \ {c}, c)
  <2>1. Emptied(S, c)[c] = {}
    BY DEF Emptied, AskedType
  <2> QED BY <1>5, <1>7, <2>1 DEF RightOf
<1>11. HistorySame(S, P, Emptied(S, c), P \ {c}, c)
  BY DEF HistorySame, Emptied, AskedType
<1> QED BY <1>8, <1>9, <1>10, <1>11, OneSettled

-----------------------------------------------------------------------------
(* The invariant.                                                          *)

LEMMA InvIs ==
  TransInv <=> /\ asked \in AskedType /\ keys \in [Db -> SUBSET Name] /\ stale \in AskedType
               /\ Settled(t, asked, stale, spoiled)
BY DEF TransInv, Settled, AbortsRightly, FlagsRight

LEMMA InvIsNext ==
  TransInv' <=> /\ asked' \in AskedType /\ keys' \in [Db -> SUBSET Name] /\ stale' \in AskedType
                /\ Settled(t', asked', stale', spoiled')
BY DEF TransInv, Settled, AbortsRightly, FlagsRight, AskedType, Rest, DeadAreEmpty, NoClient, DIRTY_CAS, DIRTY_EXEC,
       MULTI, Flags

LEMMA EmptiedType ==
  ASSUME NEW S \in AskedType, NEW c \in Client
  PROVE  Emptied(S, c) \in AskedType
BY DEF Emptied, AskedType

LEMMA TransInit ==
  ASSUME TransactionsInit
  PROVE  TransInv
<1>1. asked \in AskedType /\ keys \in [Db -> SUBSET Name] /\ stale \in AskedType
  BY DEF TransactionsInit, AskedType
<1>2. t.client = [c \in Client |-> NoClient] /\ t.watched = [d \in Db |-> <<>>]
  BY DEF TransactionsInit
<1>3. t \in State
  <2>1. NoClient \in ClientRec
    BY TransactionsAssumption DEF NoClient, ClientRec
  <2>2. <<>> \in Table
    <3>1. <<>> \in [{} -> Entry]
      OBVIOUS
    <3> QED BY <3>1 DEF Table
  <2>3. [c \in Client |-> NoClient] \in [Client -> ClientRec] /\ [d \in Db |-> <<>>] \in [Db -> Table]
    BY <2>1, <2>2
  <2> QED BY <2>3 DEF TransactionsInit, State
<1>4. \A c \in Client : t.client[c] = NoClient /\ asked[c] = {} /\ stale[c] = {}
  BY <1>2 DEF TransactionsInit
<1>5. \A c \in Client : DOMAIN t.client[c].watched = {} /\ DOMAIN t.client[c].commands = {} /\ t.client[c].flags = {}
  BY <1>4 DEF NoClient
<1>6. \A d \in Db : DOMAIN t.watched[d] = {}
  BY <1>2
<1>7. \A g : g \notin Refs(t)
  BY <1>5, <1>6, RefMembers
<1>8. Counted(t, Refs(t))
  <2> SUFFICES ASSUME NEW o \in Obj
               PROVE  /\ IsFiniteSet(Of(Refs(t), o)) /\ t.ref[o] = Cardinality(Of(Refs(t), o))
                      /\ Held(Refs(t), o) => t.name[o] \in Name
    BY DEF Counted
  <2>1. Of(Refs(t), o) = {}
    BY <1>7 DEF Of
  <2>2. t.ref[o] = 0
    BY DEF TransactionsInit
  <2> QED BY <1>7, <2>1, <2>2, FS_EmptySet DEF Held
<1>9. Tabled(t, asked)
  BY <1>4, <1>6 DEF Tabled
<1>10. \A c \in Client : Listed(t, c, 0, asked[c])
  BY <1>4, <1>5 DEF Listed
<1>11. Rest(t, asked) /\ DeadAreEmpty(t)
  BY <1>3, <1>4, <1>8, <1>9, <1>10 DEF Rest, DeadAreEmpty
<1>12. AbortsRightly
  BY <1>4, <1>5 DEF AbortsRightly, TransactionsInit
<1> QED BY <1>1, <1>11, <1>12 DEF TransInv

LEMMA TransRequest ==
  ASSUME TransInv, NEW c \in Client, processCommand(c)
  PROVE  TransInv'
<1>1. /\ asked \in AskedType /\ keys \in [Db -> SUBSET Name] /\ stale \in AskedType
      /\ Settled(t, asked, stale, spoiled) /\ t.client[c].live
  BY InvIs DEF processCommand
<1>2. t.client[c].db \in Db
  <2>1. t \in State
    BY <1>1, SettledFacts
  <2> QED BY <2>1, StateFacts
<1>3. CASE Refused(c)
  <2>1. Settled(t', asked, stale, spoiled')
    BY <1>1, <1>3, RefusedSettled DEF Refused, NotQueued, inMulti
  <2> QED BY <1>1, <1>3, <2>1, InvIsNext DEF Refused
<1>l. CASE RefusedLoading(c)
  <2>1. /\ UNCHANGED <<t, keys, asked, stale>> /\ spoiled \subseteq spoiled'
    BY <1>l DEF RefusedLoading, NotQueued
  <2>2. Settled(t, asked, stale, spoiled')
    BY <1>1, <2>1 DEF Settled, FlagsRight
  <2> QED BY <1>1, <2>1, <2>2, InvIsNext
<1>4. ASSUME NEW d \in Db, selectDb(c, d) PROVE TransInv'
  <2>1. t' = [t EXCEPT !.client[c].db = d] /\ UNCHANGED <<keys, asked, stale, spoiled>>
    BY <1>4 DEF selectDb
  <2>2. Settled(t', asked, stale, spoiled)
    BY <1>1, <2>1, SelectSettled
  <2> QED BY <1>1, <2>1, <2>2, InvIsNext
<1>5. ASSUME NEW names \in Arguments, Queue(c, names) PROVE TransInv'
  <2>1. names \in Seq(Name) /\ IsFiniteSet(Obj)
    BY TransactionsAssumption
  <2>2. /\ Len(names) <= Cardinality(Free)
        /\ t' = decrAll(queueMultiCommand(WithArgv(names), c, Argv(names)), Argv(names))
        /\ UNCHANGED <<keys, asked, stale, spoiled>>
    BY <1>5 DEF Queue
  <2>3. Settled(t', asked, stale, spoiled)
    BY <1>1, <2>1, <2>2, QueueSettled
  <2> QED BY <1>1, <2>2, <2>3, InvIsNext
<1>6. ASSUME NEW names \in Arguments, watchCommand(c, names) PROVE TransInv'
  <2>1. names \in Seq(Name) /\ IsFiniteSet(Obj)
    BY TransactionsAssumption
  <2>2. /\ Len(names) <= Cardinality(Free)
        /\ t' = decrAll(WatchedAll(WithArgv(names), c, Argv(names)), Argv(names))
        /\ asked' = AskedToo(asked, c, t.client[c].db, names)
        /\ UNCHANGED <<keys, stale, spoiled>>
    BY <1>6 DEF watchCommand, WatchedAll, AskedToo
  <2>3. Settled(t', AskedToo(asked, c, t.client[c].db, names), stale, spoiled)
    BY <1>1, <2>1, <2>2, WatchSettled
  <2>4. asked' \in AskedType
    <3>1. ToSet(names) \subseteq Name
      BY <2>1, ToSetMember
    <3> QED BY <1>1, <1>2, <2>2, <3>1 DEF AskedToo, AskedType
  <2> QED BY <1>1, <2>2, <2>3, <2>4, InvIsNext
<1>7. ASSUME NEW k \in Name, NEW now \in SUBSET Name, signalModifiedKey(c, k, now) PROVE TransInv'
  <2> DEFINE d == t.client[c].db
  <2>1. /\ t' = touchWatchedKey(t, d, k) /\ keys' = [keys EXCEPT ![d] = now]
        /\ stale' = [b \in Client |-> stale[b] \cup (asked[b] \cap {<<d, k>>})]
        /\ UNCHANGED <<asked, spoiled>>
    BY <1>7 DEF signalModifiedKey
  <2>0. d \in Db
    BY <1>2
  <2> HIDE DEF d
  <2>2. Settled(t', asked, stale', spoiled)
    BY <1>1, <2>0, <2>1, TouchSettled
  <2>3. stale' \in AskedType /\ keys' \in [Db -> SUBSET Name]
    BY <1>1, <2>0, <2>1 DEF AskedType
  <2> QED BY <1>1, <2>1, <2>2, <2>3, InvIsNext
<1>8. ASSUME NEW k \in Name, setCommand(c, k) \/ delCommand(c, k) PROVE TransInv'
  <2>1. PICK now \in SUBSET Name : signalModifiedKey(c, k, now)
    BY <1>1, <1>2, <1>8 DEF setCommand, delCommand
  <2> QED BY <1>7, <2>1
<1>9. CASE multiCommand(c)
  <2>1. t' = Flagged(t, {c}, MULTI) /\ UNCHANGED <<keys, asked, stale, spoiled>>
    BY <1>9 DEF multiCommand
  <2>2. Settled(t', asked, stale, spoiled)
    BY <1>1, <2>1, MultiSettled
  <2> QED BY <1>1, <2>1, <2>2, InvIsNext
<1>10. CASE discardCommand(c)
  <2>1. /\ t' = discardTransaction(t, c) /\ asked' = Emptied(asked, c) /\ stale' = Emptied(stale, c)
        /\ spoiled' = spoiled \ {c} /\ keys' = keys
    BY <1>10 DEF discardCommand, Emptied
  <2>2. Settled(t', asked', stale', spoiled')
    BY <1>1, <2>1, DiscardSettled
  <2> QED BY <1>1, <2>1, <2>2, EmptiedType, InvIsNext
<1>11. CASE unwatchCommand(c)
  <2>1. /\ t' = [unwatchAllKeys(t, c) EXCEPT !.client[c].flags = @ \ {DIRTY_CAS}]
        /\ asked' = Emptied(asked, c) /\ stale' = Emptied(stale, c) /\ UNCHANGED <<keys, spoiled>>
    BY <1>11 DEF unwatchCommand, Emptied
  <2>2. Settled(t', asked', stale', spoiled)
    BY <1>1, <2>1, UnwatchSettled
  <2> QED BY <1>1, <2>1, <2>2, EmptiedType, InvIsNext
<1> QED BY <1>3, <1>l, <1>4, <1>5, <1>6, <1>8, <1>9, <1>10, <1>11 DEF processCommand

LEMMA TransStep ==
  ASSUME TransInv, [TransactionsNext]_transvars
  PROVE  TransInv'
<1>1. /\ asked \in AskedType /\ keys \in [Db -> SUBSET Name] /\ stale \in AskedType
      /\ Settled(t, asked, stale, spoiled)
  BY InvIs
<1>2. ASSUME NEW c \in Client, createClient(c) PROVE TransInv'
  <2>1. /\ ~t.client[c].live /\ t' = initClientMultiState([t EXCEPT !.client[c].live = TRUE], c)
        /\ UNCHANGED <<keys, asked, stale, spoiled>>
    BY <1>2 DEF createClient
  <2>2. Settled(t', asked, stale, spoiled)
    BY <1>1, <2>1, CreateSettled
  <2> QED BY <1>1, <2>1, <2>2, InvIsNext
<1>3. ASSUME NEW c \in Client, freeClient(c) PROVE TransInv'
  <2>1. /\ t' = WithClient(freeClientMultiState(unwatchAllKeys(t, c), c), c, NoClient)
        /\ asked' = Emptied(asked, c) /\ stale' = Emptied(stale, c)
        /\ spoiled' = spoiled \ {c} /\ keys' = keys
    BY <1>3 DEF freeClient, Emptied, WithClient
  <2>2. Settled(t', asked', stale', spoiled')
    BY <1>1, <2>1, FreeSettled, TransactionsAssumption
  <2> QED BY <1>1, <2>1, <2>2, EmptiedType, InvIsNext
<1>4. CASE FlushForLoading
  <2>1. /\ t' = touchWatchedKeysOnFlush(t, keys) /\ keys' = [d \in Db |-> {}]
        /\ stale' = [c \in Client |-> stale[c] \cup {p \in asked[c] : p[2] \in keys[p[1]]}]
        /\ UNCHANGED <<asked, spoiled>>
    BY <1>4 DEF FlushForLoading
  <2>2. Settled(t', asked, stale', spoiled)
    BY <1>1, <2>1, FlushSettled
  <2>3. stale' \in AskedType /\ keys' \in [Db -> SUBSET Name]
    BY <1>1, <2>1 DEF AskedType
  <2> QED BY <1>1, <2>1, <2>2, <2>3, InvIsNext
<1>5. CASE Loaded
  <2>1. keys' \in [Db -> SUBSET Name] /\ UNCHANGED <<t, asked, stale, spoiled>>
    BY <1>5 DEF Loaded
  <2> QED BY <1>1, <2>1, InvIsNext
<1>6. CASE UNCHANGED transvars
  <2>1. UNCHANGED <<t, keys, asked, stale, spoiled>>
    BY <1>6 DEF transvars
  <2> QED BY <1>1, <2>1, InvIsNext
<1> QED BY <1>2, <1>3, <1>4, <1>5, <1>6, TransRequest DEF TransactionsNext

\* The lists, the tables, the queues, the counts and the flags are in order in
\* every state between two requests, whoever comes, goes, asks or is flushed.
THEOREM TransactionsInvariant == TransactionsSpec => []TransInv
<1>1. TransactionsInit => TransInv
  BY TransInit
<1>2. TransInv /\ [TransactionsNext]_transvars => TransInv'
  BY TransStep
<1> QED BY <1>1, <1>2, PTL DEF TransactionsSpec

-----------------------------------------------------------------------------
(* What it says.                                                           *)

\* The references to an object and its holders are the same number.
LEMMA HolderMembers ==
  ASSUME NEW o, NEW h
  PROVE  h \in Holders(o) <=>
           \/ \E c \in Client : \E i \in DOMAIN t.client[c].watched :
                t.client[c].watched[i].key = o /\ h = <<"list", c, i>>
           \/ \E d \in Db : \E k \in DOMAIN t.watched[d] : t.watched[d][k].key = o /\ h = <<"table", d, k>>
           \/ \E c \in Client : \E i \in DOMAIN t.client[c].commands : \E j \in DOMAIN t.client[c].commands[i] :
                t.client[c].commands[i][j] = o /\ h = <<"queue", c, <<i, j>>>>
<1> DEFINE L(c) == {j \in DOMAIN t.client[c].watched : t.client[c].watched[j].key = o}
           K(d) == {n \in DOMAIN t.watched[d] : t.watched[d][n].key = o}
           Q(c, i) == {n \in DOMAIN t.client[c].commands[i] : t.client[c].commands[i][n] = o}
<1>1. h \in Holders(o) <=>
        \/ \E c \in Client : \E i \in L(c) : h = <<"list", c, i>>
        \/ \E d \in Db : \E k \in K(d) : h = <<"table", d, k>>
        \/ \E c \in Client : \E i \in DOMAIN t.client[c].commands : \E j \in Q(c, i) : h = <<"queue", c, <<i, j>>>>
  <2> DEFINE HL == UNION {{<<"list", c, i>> : i \in L(c)} : c \in Client}
             HT == UNION {{<<"table", d, k>> : k \in K(d)} : d \in Db}
             HQ == UNION {UNION {{<<"queue", c, <<i, j>>>> : j \in Q(c, i)}
                                   : i \in DOMAIN t.client[c].commands} : c \in Client}
  <2>1. Holders(o) = HL \cup HT \cup HQ
    BY Zenon DEF Holders
  <2> HIDE DEF L, K, Q
  <2>2. h \in HL <=> \E c \in Client : \E i \in L(c) : h = <<"list", c, i>>
    OBVIOUS
  <2>3. h \in HT <=> \E d \in Db : \E k \in K(d) : h = <<"table", d, k>>
    OBVIOUS
  <2>4. h \in HQ <=> \E c \in Client : \E i \in DOMAIN t.client[c].commands : \E j \in Q(c, i) :
                       h = <<"queue", c, <<i, j>>>>
    OBVIOUS
  <2> HIDE DEF HL, HT, HQ
  <2> QED BY <2>1, <2>2, <2>3, <2>4
<1>2. (\E c \in Client : \E i \in L(c) : h = <<"list", c, i>>)
      <=> \E c \in Client : \E i \in DOMAIN t.client[c].watched :
            t.client[c].watched[i].key = o /\ h = <<"list", c, i>>
  OBVIOUS
<1>3. (\E d \in Db : \E k \in K(d) : h = <<"table", d, k>>)
      <=> \E d \in Db : \E k \in DOMAIN t.watched[d] : t.watched[d][k].key = o /\ h = <<"table", d, k>>
  OBVIOUS
<1>4. (\E c \in Client : \E i \in DOMAIN t.client[c].commands : \E j \in Q(c, i) : h = <<"queue", c, <<i, j>>>>)
      <=> \E c \in Client : \E i \in DOMAIN t.client[c].commands : \E j \in DOMAIN t.client[c].commands[i] :
            t.client[c].commands[i][j] = o /\ h = <<"queue", c, <<i, j>>>>
  OBVIOUS
<1> HIDE DEF L, K, Q
<1> QED BY <1>1, <1>2, <1>3, <1>4

LEMMA RefParts ==
  /\ \A c, i, o : ListRef(c, i, o) = <<<<"list", c, i>>, o>>
  /\ \A d, k, o : TableRef(d, k, o) = <<<<"table", d, k>>, o>>
  /\ \A c, i, j, o : QueueRef(c, i, j, o) = <<<<"queue", c, <<i, j>>>>, o>>
BY DEF ListRef, TableRef, QueueRef

LEMMA HoldersRefs ==
  ASSUME NEW o, NEW h
  PROVE  h \in Holders(o) <=> <<h, o>> \in Refs(t)
<1>1. ASSUME h \in Holders(o) PROVE <<h, o>> \in Refs(t)
  <2>1. CASE \E c \in Client : \E i \in DOMAIN t.client[c].watched :
               t.client[c].watched[i].key = o /\ h = <<"list", c, i>>
    <3>1. \E c \in Client : \E i \in DOMAIN t.client[c].watched : <<h, o>> = ListRef(c, i, t.client[c].watched[i].key)
      BY <2>1, RefParts
    <3> QED BY <3>1, RefMembers
  <2>2. CASE \E d \in Db : \E k \in DOMAIN t.watched[d] : t.watched[d][k].key = o /\ h = <<"table", d, k>>
    <3>1. \E d \in Db : \E k \in DOMAIN t.watched[d] : <<h, o>> = TableRef(d, k, t.watched[d][k].key)
      BY <2>2, RefParts
    <3> QED BY <3>1, RefMembers
  <2>3. CASE \E c \in Client : \E i \in DOMAIN t.client[c].commands : \E j \in DOMAIN t.client[c].commands[i] :
               t.client[c].commands[i][j] = o /\ h = <<"queue", c, <<i, j>>>>
    <3>1. \E c \in Client : \E i \in DOMAIN t.client[c].commands : \E j \in DOMAIN t.client[c].commands[i] :
            <<h, o>> = QueueRef(c, i, j, t.client[c].commands[i][j])
      BY <2>3, RefParts
    <3> QED BY <3>1, RefMembers
  <2> QED BY <1>1, <2>1, <2>2, <2>3, HolderMembers
<1>2. ASSUME <<h, o>> \in Refs(t) PROVE h \in Holders(o)
  <2>1. CASE <<h, o>> \in Lists(t)
    <3>1. \E c \in Client : \E i \in DOMAIN t.client[c].watched : <<h, o>> = ListRef(c, i, t.client[c].watched[i].key)
      BY <2>1, RefMembers
    <3>2. \E c \in Client : \E i \in DOMAIN t.client[c].watched :
            t.client[c].watched[i].key = o /\ h = <<"list", c, i>>
      BY <3>1, RefParts
    <3> QED BY <3>2, HolderMembers
  <2>2. CASE <<h, o>> \in Tables(t)
    <3>1. \E d \in Db : \E k \in DOMAIN t.watched[d] : <<h, o>> = TableRef(d, k, t.watched[d][k].key)
      BY <2>2, RefMembers
    <3>2. \E d \in Db : \E k \in DOMAIN t.watched[d] : t.watched[d][k].key = o /\ h = <<"table", d, k>>
      BY <3>1, RefParts
    <3> QED BY <3>2, HolderMembers
  <2>3. CASE <<h, o>> \in Queues(t)
    <3>1. \E c \in Client : \E i \in DOMAIN t.client[c].commands : \E j \in DOMAIN t.client[c].commands[i] :
            <<h, o>> = QueueRef(c, i, j, t.client[c].commands[i][j])
      BY <2>3, RefMembers
    <3>2. \E c \in Client : \E i \in DOMAIN t.client[c].commands : \E j \in DOMAIN t.client[c].commands[i] :
            t.client[c].commands[i][j] = o /\ h = <<"queue", c, <<i, j>>>>
      BY <3>1, RefParts
    <3> QED BY <3>2, HolderMembers
  <2> QED BY <1>2, <2>1, <2>2, <2>3, RefMembers
<1> QED BY <1>1, <1>2

LEMMA RefsArePairs ==
  ASSUME NEW g \in Refs(t)
  PROVE  g = <<g[1], g[2]>>
<1>1. CASE g \in Lists(t)
  BY <1>1, RefMembers, RefParts
<1>2. CASE g \in Tables(t)
  BY <1>2, RefMembers, RefParts
<1>3. CASE g \in Queues(t)
  BY <1>3, RefMembers, RefParts
<1> QED BY <1>1, <1>2, <1>3, RefMembers

LEMMA HoldersNumber ==
  ASSUME NEW o, IsFiniteSet(Of(Refs(t), o))
  PROVE  Cardinality(Holders(o)) = Cardinality(Of(Refs(t), o))
<1> DEFINE S == Of(Refs(t), o)
           T == Holders(o)
           f == [g \in S |-> g[1]]
<1>1. \A g \in S : g = <<g[1], o>> /\ g \in Refs(t)
  BY RefsArePairs DEF Of
<1>2. \A g \in S : g[1] \in T
  BY <1>1, HoldersRefs
<1>3. \A h \in T : <<h, o>> \in S /\ f[<<h, o>>] = h
  BY HoldersRefs DEF Of
<1>4. \A a, b \in S : f[a] = f[b] => a = b
  BY <1>1
<1>5. f \in [S -> T]
  BY <1>2
<1>6. \A h \in T : \E g \in S : f[g] = h
  BY <1>3
<1> HIDE DEF S, T, f
<1>7. ExistsBijection(S, T)
  BY <1>4, <1>5, <1>6 DEF ExistsBijection, Bijection, Injection, Surjection, IsInjective
<1>8. IsFiniteSet(S)
  BY DEF S
<1> QED BY <1>7, <1>8, FS_Bijection DEF S, T

LEMMA InvHolders == TransInv => HoldersCounted
<1> SUFFICES ASSUME TransInv, NEW o \in Obj PROVE t.ref[o] = Cardinality(Holders(o))
  BY DEF HoldersCounted
<1>1. IsFiniteSet(Of(Refs(t), o)) /\ t.ref[o] = Cardinality(Of(Refs(t), o))
  BY DEF TransInv, Rest, Counted
<1> QED BY <1>1, HoldersNumber

\* A list of which no pair occurs twice is as long as their set.
LEMMA InvPairs ==
  ASSUME TransInv, NEW c \in Client
  PROVE  Pairs(c) = asked[c] /\ Len(t.client[c].watched) = Cardinality(asked[c])
<1> DEFINE w == t.client[c].watched
           n == Len(w)
           l == [i \in 1..n |-> Pair(t, c, i)]
<1>1. t \in State /\ asked[c] \in SUBSET (Db \X Name) /\ Listed(t, c, 0, asked[c])
  BY DEF TransInv, Rest, AskedType
<1>2. w \in Seq(Watch)
  BY <1>1, StateFacts
<1>3. n \in Nat /\ DOMAIN w = 1..n
  <2> HIDE DEF w
  <2> QED BY <1>2
<1>4. /\ \A i \in 1..n : Pair(t, c, i) \in asked[c]
      /\ \A p \in asked[c] : \E i \in 1..n : Pair(t, c, i) = p
      /\ \A i, j \in 1..n : Pair(t, c, i) = Pair(t, c, j) => i = j
  <2>1. \A i \in 1..n : i > 0
    OBVIOUS
  <2> QED BY <1>1, <1>3, <2>1 DEF Listed
<1>5. Pairs(c) = asked[c]
  <2>1. Pairs(c) = {Pair(t, c, i) : i \in 1..n}
    BY <1>3 DEF Pairs, Pair
  <2> QED BY <1>4, <2>1
<1> DEFINE U == Db \X Name
           P == asked[c]
<1>6. /\ \A i \in 1..n : l[i] \in P
      /\ \A p \in P : \E i \in 1..n : l[i] = p
      /\ \A i, j \in 1..n : l[i] = l[j] => i = j
      /\ DOMAIN l = 1..n /\ l = [i \in 1..n |-> l[i]]
  BY <1>4
<1>7. P \subseteq U
  BY <1>1
<1> HIDE DEF l, n, U, P
<1>8. l \in Seq(U) /\ Len(l) = n
  BY <1>3, <1>6, <1>7
<1>9. Distinct(l)
  BY <1>6 DEF Distinct
<1>10. ToSet(l) = P
  <2>1. \A p : p \in ToSet(l) <=> \E i \in 1..n : l[i] = p
    BY <1>6, ToSetMember
  <2>2. ASSUME NEW p \in P PROVE p \in ToSet(l)
    BY <1>6, <2>1
  <2>3. ASSUME NEW p \in ToSet(l) PROVE p \in P
    BY <1>6, <2>1
  <2> QED BY <2>2, <2>3
<1>11. Len(l) = Cardinality(ToSet(l))
  BY <1>8, <1>9, DistinctLength
<1> QED BY <1>5, <1>8, <1>10, <1>11 DEF n, P

LEMMA InvTables == TransInv => TablesAgree
<1> SUFFICES ASSUME TransInv PROVE TablesAgree
  OBVIOUS
<1>1. t \in State /\ Tabled(t, asked)
  BY DEF TransInv, Rest
<1>2. ~t.panic
  BY <1>1, StateFacts
<1>3. \A c \in Client : Pairs(c) = asked[c] /\ Len(t.client[c].watched) = Cardinality(asked[c])
  BY InvPairs
<1>4. ASSUME NEW d \in Db PROVE DOMAIN t.watched[d] = {k \in Name : \E c \in Client : <<d, k>> \in asked[c]}
  <2>1. DOMAIN t.watched[d] \subseteq Name
    BY <1>1, StateFacts, TableFacts
  <2>2. \A k \in Name : k \in DOMAIN t.watched[d] <=> \E c \in Client : <<d, k>> \in asked[c]
    BY <1>1 DEF Tabled
  <2> QED BY <2>1, <2>2
<1>5. ASSUME NEW d \in Db, NEW k \in DOMAIN t.watched[d]
      PROVE  /\ t.name[t.watched[d][k].key] = k
             /\ ToSet(t.watched[d][k].clients) = {c \in Client : <<d, k>> \in asked[c]}
             /\ Len(t.watched[d][k].clients) = Cardinality(ToSet(t.watched[d][k].clients))
  <2> DEFINE l == t.watched[d][k].clients
  <2>1. k \in Name /\ l \in Seq(Client)
    BY <1>1, StateFacts, TableFacts
  <2>2. EntryOk(t, asked, d, k)
    BY <1>1, <2>1 DEF Tabled
  <2>3. /\ t.name[t.watched[d][k].key] = k /\ Distinct(l)
        /\ \A c \in Client : c \in ToSet(l) <=> <<d, k>> \in asked[c]
    BY <2>2 DEF EntryOk
  <2> HIDE DEF l
  <2>4. ToSet(l) \subseteq Client
    BY <2>1, ToSetMember
  <2>5. ToSet(l) = {c \in Client : <<d, k>> \in asked[c]}
    BY <2>3, <2>4
  <2>6. Len(l) = Cardinality(ToSet(l))
    BY <2>1, <2>3, DistinctLength
  <2> QED BY <2>3, <2>5, <2>6 DEF l
<1> QED BY <1>2, <1>3, <1>4, <1>5 DEF TablesAgree

\* What the clients have asked to watch, their lists and the databases' tables
\* are the same, each pair once, under the name of an object that is alive;
\* touchWatchedKey reaches no client that is gone and unwatchAllKeys never
\* fails its assertions.
THEOREM WatchTablesAgree == TransactionsSpec => []TablesAgree
BY TransactionsInvariant, InvTables, PTL

\* An object's reference count is the number of lists, tables and queues that
\* hold it: none is freed under a holder and none outlives the last one.
THEOREM ReferencesAreCounted == TransactionsSpec => []HoldersCounted
BY TransactionsInvariant, InvHolders, PTL

\* A client is flagged DIRTY_CAS exactly when a key it watches was modified or
\* flushed since it asked, through any watching, unwatching and disconnecting of
\* others, and DIRTY_EXEC only for an error in its present transaction.
THEOREM ExecAbortsRightly == TransactionsSpec => []AbortsRightly
<1>1. TransInv => AbortsRightly
  BY DEF TransInv
<1> QED BY <1>1, TransactionsInvariant, PTL
=============================================================================
