------------------------------ MODULE ListFacts ------------------------------
(***************************************************************************)
(* Facts about numbers and sequences that the proofs of several modules    *)
(* rest on: induction over the natural numbers, the list operations of     *)
(* SequencesExt on lists without repetitions, and FlattenSeq.              *)
(***************************************************************************)
EXTENDS Integers, Sequences, SequencesExt, FiniteSetTheorems, SequenceTheorems,
        WellFoundedInduction, TLAPS

-----------------------------------------------------------------------------
(* Numbers.                                                                *)

\* A set that has 0 and, with a number, the next one has them all.
LEMMA NatSetInduction ==
  ASSUME NEW T, 0 \in T, \A n \in Nat : n \in T => n + 1 \in T
  PROVE  \A n \in Nat : n \in T
<1> DEFINE Out == {n \in Nat : n \notin T}
           R == OpToRel(<, Nat)
<1>1. IsWellFoundedOn(R, Nat)
  BY NatLessThanWellFounded
<1>2. \A m \in Nat \ {0} : <<m - 1, m>> \in R
  BY DEF OpToRel
<1> HIDE DEF R
<1>3. ASSUME Out # {} PROVE FALSE
  <2>1. PICK m \in Out : \A k \in Out : ~(<<k, m>> \in R)
    BY <1>1, <1>3, WFMin
  <2>2. m \in Nat \ {0} /\ m - 1 \in Nat /\ (m - 1) + 1 = m
    BY <2>1
  <2>3. m - 1 \notin T
    BY <2>1, <2>2
  <2> QED BY <1>2, <2>1, <2>2, <2>3
<1> QED BY <1>3

\* The same up to n.
LEMMA RangeInduction ==
  ASSUME NEW n \in Nat, NEW T, 0 \in T, \A k \in 1..n : k - 1 \in T => k \in T
  PROVE  \A k \in 0..n : k \in T
<1> DEFINE U == {k \in Nat : k <= n => k \in T}
<1>1. 0 \in U
  OBVIOUS
<1>2. ASSUME NEW k \in Nat, k \in U PROVE k + 1 \in U
  <2>1. CASE k + 1 <= n
    <3>1. k + 1 \in 1..n /\ (k + 1) - 1 = k /\ k <= n
      BY <2>1
    <3> QED BY <1>2, <3>1
  <2>2. CASE ~(k + 1 <= n)
    BY <2>2
  <2> QED BY <2>1, <2>2
<1> HIDE DEF U
<1>3. \A k \in Nat : k \in U
  BY <1>1, <1>2, NatSetInduction
<1> QED BY <1>3 DEF U

\* The greatest element of a range and of its subsets, and what is left of a
\* subset without it.
LEMMA MaxOfRange ==
  ASSUME NEW k \in Nat
  PROVE  /\ \A s \in SUBSET (1..k) : s # {} => /\ Max(s) \in s
                                               /\ \A j \in s : j <= Max(s)
         /\ \A s \in SUBSET (1..k) : s # {} => s \ {Max(s)} \in SUBSET (1..(k - 1))
         /\ k > 0 => 1..k # {} /\ Max(1..k) = k /\ (1..k) \ {Max(1..k)} = 1..(k - 1)
<1> DEFINE T == {i \in Nat : \A s \in SUBSET (1..i) :
                               s # {} => \E x \in s : \A y \in s : x >= y}
<1>1. 0 \in T
  <2>1. 1..0 = {}
    OBVIOUS
  <2> QED BY <2>1
<1>2. ASSUME NEW i \in Nat, i \in T PROVE i + 1 \in T
  <2> SUFFICES ASSUME NEW s \in SUBSET (1..(i + 1)), s # {}
               PROVE  \E x \in s : \A y \in s : x >= y
    OBVIOUS
  <2>1. CASE i + 1 \in s
    BY <2>1
  <2>2. CASE i + 1 \notin s
    <3>1. s \in SUBSET (1..i)
      BY <2>2
    <3> QED BY <1>2, <3>1
  <2> QED BY <2>1, <2>2
<1>3. k \in T
  <2> HIDE DEF T
  <2> QED BY <1>1, <1>2, NatSetInduction
<1>4. ASSUME NEW s \in SUBSET (1..k), s # {}
      PROVE  Max(s) \in s /\ \A j \in s : j <= Max(s)
  <2>1. \E x \in s : \A y \in s : x >= y
    BY <1>3, <1>4
  <2>2. Max(s) \in s /\ \A y \in s : Max(s) >= y
    BY <2>1, Zenon DEF Max
  <2>3. \A y \in s : y \in Int
    BY <1>4
  <2> QED BY <2>2, <2>3
<1>5. ASSUME NEW s \in SUBSET (1..k), s # {}
      PROVE  s \ {Max(s)} \in SUBSET (1..(k - 1))
  <2> SUFFICES ASSUME NEW j \in s, j # Max(s) PROVE j \in 1..(k - 1)
    OBVIOUS
  <2>1. /\ j \in 1..k /\ Max(s) \in 1..k /\ j <= Max(s)
    BY <1>4
  <2> QED BY <2>1
<1>6. ASSUME k > 0
      PROVE  1..k # {} /\ Max(1..k) = k /\ (1..k) \ {Max(1..k)} = 1..(k - 1)
  <2>1. k \in 1..k
    BY <1>6
  <2>2. Max(1..k) = k
    <3> DEFINE m == Max(1..k)
    <3>1. m \in 1..k /\ k <= m
      BY <1>4, <2>1
    <3> HIDE DEF m
    <3>2. m = k
      BY <3>1
    <3> QED BY <3>2 DEF m
  <2> QED BY <2>1, <2>2
<1> QED BY <1>4, <1>5, <1>6

LEMMA MaxOfTwo ==
  ASSUME NEW a \in Int, NEW b \in Int
  PROVE  /\ Max({a, b}) = (IF a >= b THEN a ELSE b)
         /\ Min({a, b}) = (IF a <= b THEN a ELSE b)
BY DEF Max, Min

LEMMA MinIsLeast ==
  ASSUME NEW T \in SUBSET Nat, T # {}
  PROVE  Min(T) \in T /\ \A x \in T : Min(T) <= x
<1> DEFINE R == OpToRel(<, Nat)
<1>1. IsWellFoundedOn(R, Nat)
  BY NatLessThanWellFounded
<1>2. \A x, y \in Nat : <<y, x>> \in R <=> y < x
  BY DEF OpToRel
<1> HIDE DEF R
<1>3. PICK m \in T : \A y \in T : ~(<<y, m>> \in R)
  BY <1>1, WFMin
<1>4. ASSUME NEW y \in T PROVE m =< y
  <2>1. y \in Nat /\ m \in Nat
    BY <1>3
  <2>2. ~(y < m)
    BY <1>2, <1>3, <2>1
  <2> QED BY <2>1, <2>2
<1>5. Min(T) \in T /\ \A y \in T : Min(T) =< y
  BY <1>3, <1>4, Zenon DEF Min
<1> QED BY <1>5

-----------------------------------------------------------------------------
(* Lists.                                                                  *)

Distinct(l) == \A i, j \in DOMAIN l : l[i] = l[j] => i = j

LEMMA ToSetMember ==
  ASSUME NEW l, NEW n
  PROVE  n \in ToSet(l) <=> \E i \in DOMAIN l : l[i] = n
BY DEF ToSet

\* A list without its i-th element
LEMMA WithoutAt ==
  ASSUME NEW S, NEW l \in Seq(S), NEW i \in 1..Len(l), NEW q,
         q = SubSeq(l, 1, i - 1) \o SubSeq(l, i + 1, Len(l))
  PROVE  /\ q \in Seq(S) /\ Len(q) = Len(l) - 1
         /\ \A j \in 1..Len(q) : q[j] = IF j < i THEN l[j] ELSE l[j + 1]
<1>1. Len(l) \in Nat
  OBVIOUS
<1> DEFINE a == SubSeq(l, 1, i - 1)
           b == SubSeq(l, i + 1, Len(l))
<1>2. a \in Seq(S) /\ Len(a) = i - 1 /\ \A j \in 1..(i - 1) : a[j] = l[j]
  BY <1>1
<1>3. b \in Seq(S) /\ Len(b) = Len(l) - i /\ \A j \in 1..(Len(l) - i) : b[j] = l[i + j]
  <2>1. b \in Seq(S)
    BY <1>1
  <2>2. Len(b) = IF i + 1 <= Len(l) THEN Len(l) - (i + 1) + 1 ELSE 0
    BY <1>1
  <2>3. \A j \in 1..Len(b) : b[j] = l[(i + 1) + j - 1]
    BY <1>1
  <2>4. Len(b) = Len(l) - i
    BY <1>1, <2>2
  <2> HIDE DEF b
  <2>5. ASSUME NEW j \in 1..(Len(l) - i) PROVE b[j] = l[i + j]
    <3>1. (i + 1) + j - 1 = i + j /\ j \in 1..Len(b)
      BY <1>1, <2>4
    <3> QED BY <2>3, <3>1
  <2> QED BY <2>1, <2>4, <2>5
<1>4. q = a \o b
  OBVIOUS
<1> HIDE DEF a, b
<1>5. q \in Seq(S) /\ Len(q) = Len(a) + Len(b)
      /\ \A j \in 1..(Len(a) + Len(b)) : q[j] = IF j <= Len(a) THEN a[j] ELSE b[j - Len(a)]
  <2>1. a \in Seq(S) /\ b \in Seq(S)
    BY <1>2, <1>3
  <2> QED BY <1>4, <2>1, ConcatProperties
<1> DEFINE m == Len(l)
<1>8. Len(a) = i - 1 /\ Len(b) = m - i /\ m \in Nat /\ i \in 1..m
  BY <1>1, <1>2, <1>3
<1> HIDE DEF m
<1>6. Len(q) = m - 1
  BY <1>5, <1>8
<1>7. ASSUME NEW j \in 1..Len(q) PROVE q[j] = IF j < i THEN l[j] ELSE l[j + 1]
  <2>1. CASE j < i
    <3>1. j \in 1..(i - 1) /\ j \in 1..(Len(a) + Len(b)) /\ j <= Len(a)
      BY <1>5, <1>6, <1>8, <2>1
    <3> QED BY <1>2, <1>5, <2>1, <3>1
  <2>2. CASE ~(j < i)
    <3>1. /\ j \in 1..(Len(a) + Len(b)) /\ ~(j <= Len(a)) /\ j - Len(a) \in 1..(m - i)
          /\ i + (j - Len(a)) = j + 1
      <4>1. j \in Int /\ j >= i /\ j <= m - 1 /\ i \in Int /\ m \in Int /\ i >= 1
        <5>1. j \in 1..(m - 1) /\ i \in 1..m /\ m \in Nat
          BY <1>6, <1>8
        <5> QED BY <2>2, <5>1
      <4> QED BY <1>8, <4>1
    <3>2. q[j] = b[j - Len(a)]
      BY <1>5, <3>1
    <3> QED BY <1>3, <2>2, <3>1, <3>2 DEF m
  <2> QED BY <2>1, <2>2
<1> QED BY <1>5, <1>6, <1>7 DEF m

\* RemoveFirst takes the element out of a list that has it once.
LEMMA RemoveFirstFacts ==
  ASSUME NEW S, NEW l \in Seq(S), Distinct(l), NEW e \in ToSet(l)
  PROVE  /\ RemoveFirst(l, e) \in Seq(S) /\ Distinct(RemoveFirst(l, e))
         /\ ToSet(RemoveFirst(l, e)) = ToSet(l) \ {e}
<1>1. PICK i \in 1..Len(l) : l[i] = e
  BY ToSetMember
<1> DEFINE I == {j \in 1..Len(l) : l[j] = e}
           m == Len(l)
<1>2. m \in Nat /\ DOMAIN l = 1..m
  OBVIOUS
<1>3. SelectInSeq(l, LAMBDA v : v = e) = i
  <2>1. I = {i}
    BY <1>1, <1>2 DEF Distinct
  <2>2. Min({i}) = i
    BY DEF Min
  <2> QED BY <2>1, <2>2 DEF SelectInSeq
<1> DEFINE q == SubSeq(l, 1, i - 1) \o SubSeq(l, i + 1, Len(l))
<1>4. RemoveFirst(l, e) = q
  BY <1>1, <1>3 DEF RemoveFirst, RemoveAt
<1>5. /\ q \in Seq(S) /\ Len(q) = Len(l) - 1
      /\ \A j \in 1..Len(q) : q[j] = IF j < i THEN l[j] ELSE l[j + 1]
  <2>1. q = SubSeq(l, 1, i - 1) \o SubSeq(l, i + 1, Len(l)) /\ i \in 1..Len(l)
    BY <1>1
  <2> HIDE DEF q
  <2> QED BY <2>1, WithoutAt
<1> HIDE DEF q
<1> DEFINE from(j) == IF j < i THEN j ELSE j + 1
<1>6. m \in Nat /\ i \in 1..m /\ Len(q) = m - 1 /\ DOMAIN q = 1..(m - 1)
  <2>1. Len(q) = m - 1 /\ q \in Seq(S) /\ m \in Nat
    BY <1>2, <1>5
  <2> QED BY <1>1, <2>1
<1>7. ASSUME NEW j \in 1..(m - 1)
      PROVE  from(j) \in 1..m /\ q[j] = l[from(j)] /\ from(j) # i
  <2>1. q[j] = l[from(j)]
    BY <1>5, <1>6
  <2>2. from(j) \in 1..m /\ from(j) # i
    <3> HIDE DEF m
    <3> QED BY <1>6
  <2> QED BY <2>1, <2>2
<1>8. ASSUME NEW k \in 1..m, k # i PROVE \E j \in 1..(m - 1) : q[j] = l[k]
  <2>1. CASE k < i
    <3>1. k \in 1..(m - 1)
      <4> HIDE DEF m
      <4> QED BY <1>6, <2>1
    <3> QED BY <1>5, <1>6, <2>1, <3>1
  <2>2. CASE k > i
    <3>1. k - 1 \in 1..(m - 1) /\ ~(k - 1 < i) /\ (k - 1) + 1 = k
      <4> HIDE DEF m
      <4> QED BY <1>6, <2>2
    <3>2. q[k - 1] = l[k]
      BY <1>5, <1>6, <3>1
    <3> QED BY <3>1, <3>2
  <2>3. k < i \/ k > i
    <3> HIDE DEF m
    <3> QED BY <1>6, <1>8
  <2> QED BY <2>1, <2>2, <2>3
<1>9. Distinct(q)
  <2> SUFFICES ASSUME NEW a \in 1..(m - 1), NEW b \in 1..(m - 1), q[a] = q[b] PROVE a = b
    BY <1>6 DEF Distinct
  <2>1. from(a) = from(b)
    <3>1. from(a) \in DOMAIN l /\ from(b) \in DOMAIN l /\ l[from(a)] = l[from(b)]
      BY <1>2, <1>7
    <3> HIDE DEF from
    <3> QED BY <3>1 DEF Distinct
  <2> HIDE DEF m
  <2> QED BY <1>6, <2>1
<1>10. ToSet(q) = ToSet(l) \ {e}
  <2>1. ASSUME NEW x \in ToSet(q) PROVE x \in ToSet(l) /\ x # e
    <3>1. PICK j \in DOMAIN q : q[j] = x
      BY ToSetMember
    <3>2. from(j) \in DOMAIN l /\ x = l[from(j)] /\ from(j) # i
      BY <1>2, <1>6, <1>7, <3>1
    <3> HIDE DEF from
    <3>3. x # e
      BY <1>1, <1>2, <3>2 DEF Distinct
    <3> QED BY <3>2, <3>3, ToSetMember
  <2>2. ASSUME NEW x \in ToSet(l), x # e PROVE x \in ToSet(q)
    <3>1. PICK k \in DOMAIN l : l[k] = x
      BY ToSetMember
    <3>2. k # i /\ k \in 1..m
      BY <1>1, <1>2, <2>2, <3>1
    <3>3. \E j \in DOMAIN q : q[j] = x
      BY <1>6, <1>8, <3>1, <3>2
    <3> QED BY <3>3, ToSetMember
  <2> QED BY <2>1, <2>2
<1> QED BY <1>4, <1>5, <1>9, <1>10

LEMMA AppendFacts ==
  ASSUME NEW S, NEW l \in Seq(S), NEW e \in S
  PROVE  /\ Append(l, e) \in Seq(S) /\ ToSet(Append(l, e)) = ToSet(l) \cup {e}
         /\ Distinct(l) /\ e \notin ToSet(l) => Distinct(Append(l, e))
<1> DEFINE q == Append(l, e)
           n == Len(l)
<1>1. /\ q \in Seq(S) /\ n \in Nat /\ DOMAIN l = 1..n /\ DOMAIN q = 1..(n + 1)
      /\ q[n + 1] = e /\ \A i \in 1..n : q[i] = l[i]
  OBVIOUS
<1> HIDE DEF q, n
<1>2. \A i \in 1..(n + 1) : i = n + 1 \/ i \in 1..n
  BY <1>1
<1>3. \A i \in 1..n : i \in 1..(n + 1) /\ i # n + 1
  BY <1>1
<1>4. n + 1 \in 1..(n + 1)
  BY <1>1
<1>5. ToSet(q) = ToSet(l) \cup {e}
  <2>1. \A x : x \in ToSet(q) <=> \E i \in DOMAIN q : q[i] = x
    BY ToSetMember
  <2>2. \A x : x \in ToSet(l) <=> \E i \in DOMAIN l : l[i] = x
    BY ToSetMember
  <2> QED BY <1>1, <1>2, <1>3, <1>4, <2>1, <2>2
<1>6. ASSUME Distinct(l), e \notin ToSet(l) PROVE Distinct(q)
  <2>1. \A i \in 1..n : l[i] # e
    BY <1>1, <1>6, ToSetMember
  <2> QED BY <1>1, <1>2, <1>3, <1>6, <2>1 DEF Distinct
<1> QED BY <1>1, <1>5, <1>6 DEF q

LEMMA ConcatFacts ==
  ASSUME NEW S, NEW l \in Seq(S), NEW q \in Seq(S)
  PROVE  l \o q \in Seq(S) /\ ToSet(l \o q) = ToSet(l) \cup ToSet(q)
<1> DEFINE r == l \o q
           m == Len(l)
           n == Len(q)
<1>1. /\ m \in Nat /\ n \in Nat /\ DOMAIN l = 1..m /\ DOMAIN q = 1..n /\ DOMAIN r = 1..(m + n)
      /\ r \in Seq(S) /\ \A i \in 1..(m + n) : r[i] = IF i <= m THEN l[i] ELSE q[i - m]
  OBVIOUS
<1> HIDE DEF r, m, n
<1>2. ASSUME NEW e \in ToSet(r) PROVE e \in ToSet(l) \cup ToSet(q)
  <2>1. PICK i \in 1..(m + n) : r[i] = e
    BY <1>1, ToSetMember
  <2>2. CASE i <= m
    BY <1>1, <2>1, <2>2, ToSetMember
  <2>3. CASE ~(i <= m)
    <3>1. i - m \in 1..n
      BY <1>1, <2>3
    <3> QED BY <1>1, <2>1, <2>3, <3>1, ToSetMember
  <2> QED BY <2>2, <2>3
<1>3. ASSUME NEW e \in ToSet(l) PROVE e \in ToSet(r)
  <2>1. PICK i \in 1..m : l[i] = e
    BY <1>1, ToSetMember
  <2>2. i \in 1..(m + n) /\ i <= m
    BY <1>1
  <2> QED BY <1>1, <2>1, <2>2, ToSetMember
<1>4. ASSUME NEW e \in ToSet(q) PROVE e \in ToSet(r)
  <2>1. PICK i \in 1..n : q[i] = e
    BY <1>1, ToSetMember
  <2>2. m + i \in 1..(m + n) /\ ~(m + i <= m) /\ (m + i) - m = i
    BY <1>1
  <2>3. r[m + i] = e
    BY <1>1, <2>1, <2>2
  <2> QED BY <1>1, <2>2, <2>3, ToSetMember
<1> QED BY <1>1, <1>2, <1>3, <1>4 DEF r

LEMMA PrependFacts ==
  ASSUME NEW S, NEW l \in Seq(S), NEW e \in S
  PROVE  /\ <<e>> \o l \in Seq(S) /\ ToSet(<<e>> \o l) = ToSet(l) \cup {e}
         /\ Distinct(l) /\ e \notin ToSet(l) => Distinct(<<e>> \o l)
<1> DEFINE q == <<e>> \o l
           n == Len(l)
<1>1. <<e>> \in Seq(S) /\ Len(<<e>>) = 1 /\ <<e>>[1] = e
  OBVIOUS
<1>2. /\ q \in Seq(S) /\ Len(q) = 1 + n
      /\ \A i \in 1..(1 + n) : q[i] = IF i <= 1 THEN <<e>>[i] ELSE l[i - 1]
  BY <1>1, ConcatProperties
<1>3. n \in Nat /\ DOMAIN l = 1..n /\ DOMAIN q = 1..(1 + n)
  BY <1>2
<1> HIDE DEF q, n
<1>4. 1 \in 1..(1 + n) /\ q[1] = e
  BY <1>1, <1>2, <1>3
<1>5. ASSUME NEW i \in 1..(1 + n), i # 1 PROVE i - 1 \in 1..n /\ q[i] = l[i - 1]
  BY <1>2, <1>3, <1>5
<1>6. ASSUME NEW i \in 1..n PROVE i + 1 \in 1..(1 + n) /\ q[i + 1] = l[i]
  <2>1. i + 1 \in 1..(1 + n) /\ ~(i + 1 <= 1) /\ (i + 1) - 1 = i
    BY <1>3
  <2> QED BY <1>2, <2>1
<1>7. ToSet(q) = ToSet(l) \cup {e}
  <2>1. \A x : x \in ToSet(q) <=> \E i \in DOMAIN q : q[i] = x
    BY ToSetMember
  <2>2. \A x : x \in ToSet(l) <=> \E i \in DOMAIN l : l[i] = x
    BY ToSetMember
  <2> QED BY <1>3, <1>4, <1>5, <1>6, <2>1, <2>2
<1>8. ASSUME Distinct(l), e \notin ToSet(l) PROVE Distinct(q)
  <2>1. \A i \in 1..n : l[i] # e
    BY <1>3, <1>8, ToSetMember
  <2> SUFFICES ASSUME NEW a \in 1..(1 + n), NEW b \in 1..(1 + n), q[a] = q[b] PROVE a = b
    BY <1>3 DEF Distinct
  <2>2. CASE a = 1 \/ b = 1
    BY <1>4, <1>5, <2>1, <2>2
  <2>3. CASE a # 1 /\ b # 1
    <3>1. a - 1 = b - 1
      BY <1>3, <1>5, <1>8, <2>3 DEF Distinct
    <3> QED BY <1>3, <3>1
  <2> QED BY <2>2, <2>3
<1> QED BY <1>2, <1>7, <1>8 DEF q

LEMMA TailFacts ==
  ASSUME NEW S, NEW l \in Seq(S), l # <<>>, Distinct(l)
  PROVE  /\ Tail(l) \in Seq(S) /\ Distinct(Tail(l)) /\ Head(l) \in ToSet(l)
         /\ ToSet(Tail(l)) = ToSet(l) \ {Head(l)}
<1> DEFINE q == Tail(l)
           n == Len(l)
<1>1. /\ q \in Seq(S) /\ n \in Nat /\ n >= 1 /\ DOMAIN l = 1..n /\ DOMAIN q = 1..(n - 1)
      /\ Head(l) = l[1] /\ \A i \in 1..(n - 1) : q[i] = l[i + 1]
  OBVIOUS
<1> HIDE DEF q, n
<1>2. \A i \in 1..(n - 1) : i + 1 \in 1..n /\ i + 1 # 1 /\ i \in Int
  BY <1>1
<1>3. \A i \in 1..n : i # 1 => i - 1 \in 1..(n - 1) /\ (i - 1) + 1 = i
  BY <1>1
<1>4. 1 \in 1..n
  BY <1>1
<1>5. Distinct(q)
  <2> SUFFICES ASSUME NEW a \in 1..(n - 1), NEW b \in 1..(n - 1), q[a] = q[b] PROVE a = b
    BY <1>1 DEF Distinct
  <2>1. a + 1 = b + 1
    BY <1>1, <1>2 DEF Distinct
  <2> QED BY <1>2, <2>1
<1>6. ToSet(q) = ToSet(l) \ {Head(l)}
  <2>1. \A x : x \in ToSet(q) <=> \E i \in 1..(n - 1) : q[i] = x
    BY <1>1, ToSetMember
  <2>2. \A x : x \in ToSet(l) <=> \E i \in 1..n : l[i] = x
    BY <1>1, ToSetMember
  <2>3. \A i \in 1..n : i # 1 => l[i] # l[1]
    BY <1>1, <1>4 DEF Distinct
  <2>4. ASSUME NEW x \in ToSet(q) PROVE x \in ToSet(l) /\ x # l[1]
    BY <1>1, <1>2, <2>1, <2>2, <2>3
  <2>5. ASSUME NEW x \in ToSet(l), x # l[1] PROVE x \in ToSet(q)
    BY <1>1, <1>3, <2>1, <2>2, <2>5
  <2> QED BY <1>1, <2>4, <2>5
<1>7. Head(l) \in ToSet(l)
  BY <1>1, <1>4, ToSetMember
<1> QED BY <1>1, <1>5, <1>6, <1>7 DEF q

\* A list without repetitions is as long as its set is large.
LEMMA DistinctLength ==
  ASSUME NEW S, NEW l \in Seq(S), Distinct(l)
  PROVE  Len(l) = Cardinality(ToSet(l))
<1> DEFINE n == Len(l)
           T == ToSet(l)
<1>1. n \in Nat /\ DOMAIN l = 1..n
  OBVIOUS
<1>2. \A x : x \in T <=> \E i \in 1..n : l[i] = x
  BY <1>1, ToSetMember
<1>3. ExistsBijection(1..n, T)
  <2>1. l \in [1..n -> T]
    BY <1>2
  <2>2. \A a, b \in 1..n : l[a] = l[b] => a = b
    BY <1>1 DEF Distinct
  <2>3. \A x \in T : \E i \in 1..n : l[i] = x
    BY <1>2
  <2> HIDE DEF T, n
  <2> QED
    BY <2>1, <2>2, <2>3
    DEF ExistsBijection, Bijection, Injection, Surjection, IsInjective
<1> HIDE DEF n, T
<1>4. Cardinality(T) = n
  BY <1>1, <1>3, FS_CountingElements
<1> QED BY <1>4 DEF n, T

-----------------------------------------------------------------------------
(* FlattenSeq, one sequence after the other.                               *)

\* The equation FlattenSeq solves, on the first k elements of q
Flattens(f, q, k) == f = [i \in 1..k |-> IF i = 1 THEN q[i] ELSE f[i - 1] \o q[i]]

LEMMA FlattensExist ==
  ASSUME NEW S, NEW q \in Seq(Seq(S)), NEW n \in 0..Len(q)
  PROVE  \E f \in [1..n -> Seq(S)] : Flattens(f, q, n)
<1> DEFINE T == {k \in Nat : k <= Len(q) => \E f \in [1..k -> Seq(S)] : Flattens(f, q, k)}
<1>1. 0 \in T
  <2> DEFINE f == [i \in 1..0 |-> <<>>]
  <2>1. f \in [1..0 -> Seq(S)] /\ 1..0 = {}
    OBVIOUS
  <2>2. Flattens(f, q, 0)
    BY <2>1 DEF Flattens
  <2> QED BY <2>1, <2>2
<1>2. ASSUME NEW k \in Nat, k \in T PROVE k + 1 \in T
  <2> SUFFICES ASSUME k + 1 <= Len(q) PROVE \E f \in [1..(k + 1) -> Seq(S)] : Flattens(f, q, k + 1)
    OBVIOUS
  <2>1. Len(q) \in Nat /\ k <= Len(q) /\ \A i \in 1..(k + 1) : q[i] \in Seq(S)
    OBVIOUS
  <2>2. PICK f \in [1..k -> Seq(S)] : Flattens(f, q, k)
    BY <1>2, <2>1
  <2> DEFINE v(g, i) == IF i = 1 THEN q[i] ELSE g[i - 1] \o q[i]
             h == [i \in 1..(k + 1) |-> v(f, i)]
  <2>3. \A i \in 1..k : f[i] = v(f, i)
    BY <2>2 DEF Flattens
  <2>4. \A i \in 1..k : i \in 1..(k + 1) /\ h[i] = f[i]
    <3>1. \A i \in 1..k : i \in 1..(k + 1)
      OBVIOUS
    <3> HIDE DEF v
    <3> QED BY <2>3, <3>1
  <2>5. ASSUME NEW i \in 1..(k + 1), i # 1 PROVE i - 1 \in 1..k /\ f[i - 1] \in Seq(S)
    <3>1. i - 1 \in 1..k
      BY <2>5
    <3> QED BY <3>1
  <2>6. h \in [1..(k + 1) -> Seq(S)]
    BY <2>1, <2>5
  <2>7. \A i \in 1..(k + 1) : v(f, i) = v(h, i)
    <3> HIDE DEF h
    <3> QED BY <2>4, <2>5
  <2>8. h = [i \in 1..(k + 1) |-> v(h, i)]
    <3>1. [i \in 1..(k + 1) |-> v(f, i)] = [i \in 1..(k + 1) |-> v(h, i)]
      <4> HIDE DEF v, h
      <4> QED BY <2>7
    <3> QED BY <3>1
  <2> HIDE DEF h
  <2> QED BY <2>6, <2>8 DEF Flattens
<1> HIDE DEF T
<1>3. \A k \in Nat : k \in T
  BY <1>1, <1>2, NatSetInduction
<1>4. n \in Nat /\ n <= Len(q)
  OBVIOUS
<1> QED BY <1>3, <1>4 DEF T

\* It has one solution.
LEMMA FlattensUnique ==
  ASSUME NEW q, NEW n \in Nat, NEW k \in 0..n, NEW f, NEW g, Flattens(f, q, n), Flattens(g, q, k)
  PROVE  \A i \in 1..k : f[i] = g[i]
<1> DEFINE T == {i \in Nat : i \in 1..k => f[i] = g[i]}
<1>1. 0 \in T
  OBVIOUS
<1>2. ASSUME NEW i \in Nat, i \in T PROVE i + 1 \in T
  <2> SUFFICES ASSUME i + 1 \in 1..k PROVE f[i + 1] = g[i + 1]
    OBVIOUS
  <2>1. i + 1 \in 1..n /\ (i + 1) - 1 = i /\ (i # 0 => i \in 1..k) /\ (i + 1 = 1 <=> i = 0)
    OBVIOUS
  <2>2. f[i + 1] = IF i = 0 THEN q[i + 1] ELSE f[i] \o q[i + 1]
    BY <2>1 DEF Flattens
  <2>3. g[i + 1] = IF i = 0 THEN q[i + 1] ELSE g[i] \o q[i + 1]
    BY <2>1 DEF Flattens
  <2> QED BY <1>2, <2>1, <2>2, <2>3
<1> HIDE DEF T
<1>3. \A i \in Nat : i \in T
  BY <1>1, <1>2, NatSetInduction
<1> QED BY <1>3 DEF T

LEMMA FlattenPrefix ==
  ASSUME NEW S, NEW q \in Seq(Seq(S)), NEW n \in 0..Len(q), NEW f, Flattens(f, q, Len(q)),
         f \in [1..Len(q) -> Seq(S)]
  PROVE  FlattenSeq([i \in 1..n |-> q[i]]) = IF n = 0 THEN <<>> ELSE f[n]
<1> DEFINE p == [i \in 1..n |-> q[i]]
<1>1. n \in Nat /\ Len(q) \in Nat /\ n <= Len(q)
  OBVIOUS
<1>2. p \in Seq(Seq(S)) /\ Len(p) = n /\ \A i \in 1..n : p[i] = q[i]
  BY <1>1
<1> HIDE DEF p
<1>3. CASE n = 0
  <2>1. p = <<>>
    BY <1>2, <1>3
  <2> QED BY <1>2, <1>3, <2>1 DEF FlattenSeq, p
<1>4. CASE n # 0
  <2> DEFINE Is(h) == h = [i \in 1..Len(p) |-> IF i = 1 THEN p[i] ELSE h[i - 1] \o p[i]]
             g == CHOOSE h : Is(h)
  <2>1. FlattenSeq(p) = g[Len(p)]
    BY <1>2, <1>4 DEF FlattenSeq
  <2>2. \E h : Is(h)
    <3>1. n \in 0..Len(p)
      BY <1>1, <1>2
    <3>2. PICK h : Flattens(h, p, n)
      BY <1>2, <3>1, FlattensExist
    <3>3. Is(h)
      BY <1>2, <3>2 DEF Flattens
    <3> HIDE DEF Is
    <3> QED BY <3>3
  <2>3. Is(g)
    <3> HIDE DEF Is
    <3> QED BY <2>2
  <2> HIDE DEF g
  <2>4. Flattens(g, q, n)
    <3>1. g = [i \in 1..n |-> IF i = 1 THEN p[i] ELSE g[i - 1] \o p[i]]
      BY <1>2, <2>3
    <3>2. [i \in 1..n |-> IF i = 1 THEN p[i] ELSE g[i - 1] \o p[i]]
          = [i \in 1..n |-> IF i = 1 THEN q[i] ELSE g[i - 1] \o q[i]]
      BY <1>2
    <3> QED BY <3>1, <3>2 DEF Flattens
  <2>5. f[n] = g[n]
    <3>1. n \in 0..Len(q) /\ n \in 1..n
      BY <1>1, <1>4
    <3> QED BY <1>1, <2>4, <3>1, FlattensUnique
  <2> QED BY <1>2, <1>4, <2>1, <2>5 DEF p
<1> QED BY <1>3, <1>4

\* What FlattenSeq makes of the first k elements of q
Flat(q, k) == FlattenSeq([i \in 1..k |-> q[i]])

LEMMA FlatSteps ==
  ASSUME NEW S, NEW q \in Seq(Seq(S))
  PROVE  /\ Flat(q, 0) = <<>>
         /\ \A k \in 0..Len(q) : Flat(q, k) \in Seq(S)
         /\ \A k \in 1..Len(q) : Flat(q, k) = Flat(q, k - 1) \o q[k]
         /\ FlattenSeq(q) = Flat(q, Len(q))
<1>1. Len(q) \in Nat /\ Len(q) \in 0..Len(q) /\ \A i \in 1..Len(q) : q[i] \in Seq(S)
  OBVIOUS
<1>2. PICK f \in [1..Len(q) -> Seq(S)] : Flattens(f, q, Len(q))
  BY <1>1, FlattensExist
<1>3. \A k \in 0..Len(q) : Flat(q, k) = IF k = 0 THEN <<>> ELSE f[k]
  BY <1>2, FlattenPrefix DEF Flat
<1>4. \A k \in 0..Len(q) : k # 0 => k \in 1..Len(q)
  BY <1>1
<1>5. Flat(q, 0) = <<>>
  BY <1>1, <1>3
<1>6. \A k \in 0..Len(q) : Flat(q, k) \in Seq(S)
  <2>1. <<>> \in Seq(S)
    OBVIOUS
  <2> QED BY <1>2, <1>3, <1>4, <2>1
<1>7. ASSUME NEW k \in 1..Len(q) PROVE Flat(q, k) = Flat(q, k - 1) \o q[k]
  <2>1. k \in 0..Len(q) /\ k - 1 \in 0..Len(q) /\ k # 0 /\ (k = 1 <=> k - 1 = 0)
    BY <1>1
  <2>2. f[k] = IF k = 1 THEN q[k] ELSE f[k - 1] \o q[k]
    BY <1>2 DEF Flattens
  <2>3. CASE k = 1
    <3>1. Flat(q, k) = q[k] /\ Flat(q, k - 1) = <<>> /\ q[k] \in Seq(S)
      BY <1>1, <1>3, <2>1, <2>2, <2>3
    <3> QED BY <3>1, ConcatEmptySeq
  <2>4. CASE k # 1
    BY <1>3, <2>1, <2>2, <2>4
  <2> QED BY <2>3, <2>4
<1>8. FlattenSeq(q) = Flat(q, Len(q))
  <2>1. q = [i \in 1..Len(q) |-> q[i]]
    OBVIOUS
  <2> QED BY <2>1 DEF Flat
<1> QED BY <1>5, <1>6, <1>7, <1>8

LEMMA FlatSame ==
  ASSUME NEW p, NEW q, NEW k, \A i \in 1..k : p[i] = q[i]
  PROVE  Flat(p, k) = Flat(q, k)
<1>1. [i \in 1..k |-> p[i]] = [i \in 1..k |-> q[i]]
  OBVIOUS
<1> QED BY <1>1 DEF Flat

LEMMA FlatAppend ==
  ASSUME NEW S, NEW q \in Seq(Seq(S)), NEW x \in Seq(S)
  PROVE  FlattenSeq(Append(q, x)) = FlattenSeq(q) \o x
<1> DEFINE p == Append(q, x)
           n == Len(q)
<1>1. /\ p \in Seq(Seq(S)) /\ n \in Nat /\ Len(p) = n + 1 /\ p[n + 1] = x
      /\ \A i \in 1..n : p[i] = q[i]
  OBVIOUS
<1> HIDE DEF p
<1>2. Flat(p, n) = Flat(q, n)
  BY <1>1, FlatSame
<1>3. n + 1 \in 1..Len(p) /\ (n + 1) - 1 = n
  BY <1>1
<1>4. FlattenSeq(p) = Flat(p, n + 1) /\ FlattenSeq(q) = Flat(q, n)
  BY <1>1, FlatSteps
<1>5. Flat(p, n + 1) = Flat(p, n) \o x
  BY <1>1, <1>3, FlatSteps
<1> QED BY <1>2, <1>4, <1>5 DEF p

LEMMA FlatType ==
  ASSUME NEW S, NEW q \in Seq(Seq(S))
  PROVE  FlattenSeq(q) \in Seq(S) /\ FlattenSeq(<<>>) = <<>>
<1>1. Len(q) \in 0..Len(q)
  OBVIOUS
<1>2. FlattenSeq(<<>>) = <<>>
  BY DEF FlattenSeq
<1> QED BY <1>1, <1>2, FlatSteps

LEMMA FlatConcat ==
  ASSUME NEW S, NEW a \in Seq(Seq(S)), NEW b \in Seq(Seq(S))
  PROVE  FlattenSeq(a \o b) = FlattenSeq(a) \o FlattenSeq(b)
<1> DEFINE q == a \o b
           m == Len(a)
           n == Len(b)
           X == Flat(a, m)
           T == {k \in Nat : k <= n => Flat(q, m + k) = X \o Flat(b, k)}
<1>1. m \in Nat /\ n \in Nat
  OBVIOUS
<1>2. /\ q \in Seq(Seq(S)) /\ Len(q) = m + n
      /\ \A i \in 1..m : q[i] = a[i]
      /\ \A i \in 1..n : q[m + i] = b[i]
  <2> DEFINE R == Seq(S)
  <2>1. a \in Seq(R) /\ b \in Seq(R)
    OBVIOUS
  <2> HIDE DEF R
  <2>2. /\ q \in Seq(R) /\ Len(q) = m + n
        /\ \A i \in 1..(m + n) : q[i] = IF i <= m THEN a[i] ELSE b[i - m]
    BY <2>1, ConcatProperties
  <2> HIDE DEF q, m, n
  <2>3. \A i \in 1..m : i \in 1..(m + n) /\ i <= m
    BY <1>1
  <2>4. \A i \in 1..n : m + i \in 1..(m + n) /\ ~(m + i <= m) /\ (m + i) - m = i
    BY <1>1
  <2> QED BY <2>2, <2>3, <2>4 DEF R
<1> HIDE DEF q
<1>3. X \in Seq(S) /\ Flat(b, 0) = <<>> /\ m \in 0..m
  <2>1. m \in 0..m
    BY <1>1
  <2>2. \A k \in 0..Len(a) : Flat(a, k) \in Seq(S)
    BY FlatSteps
  <2>3. Flat(b, 0) = <<>>
    BY FlatSteps
  <2> QED BY <2>1, <2>2, <2>3
<1>4. 0 \in T
  <2>1. Flat(q, m) = X
    BY <1>2, FlatSame
  <2>2. X \o <<>> = X
    BY <1>3, ConcatEmptySeq
  <2>3. m + 0 = m
    BY <1>1
  <2> QED BY <1>3, <2>1, <2>2, <2>3
<1>5. ASSUME NEW k \in Nat, k \in T PROVE k + 1 \in T
  <2> SUFFICES ASSUME k + 1 <= n PROVE Flat(q, m + (k + 1)) = X \o Flat(b, k + 1)
    OBVIOUS
  <2>1. /\ k \in 0..n /\ k + 1 \in 1..n /\ (k + 1) - 1 = k
        /\ m + (k + 1) \in 1..(m + n) /\ (m + (k + 1)) - 1 = m + k
    <3> HIDE DEF m, n
    <3> QED BY <1>1
  <2>2. Flat(q, m + (k + 1)) = Flat(q, m + k) \o b[k + 1]
    <3>1. Flat(q, m + (k + 1)) = Flat(q, m + k) \o q[m + (k + 1)]
      BY <1>2, <2>1, FlatSteps
    <3> QED BY <1>2, <2>1, <3>1
  <2>3. Flat(q, m + k) = X \o Flat(b, k)
    BY <1>5, <2>1
  <2>4. Flat(b, k) \in Seq(S) /\ b[k + 1] \in Seq(S) /\ Flat(b, k + 1) = Flat(b, k) \o b[k + 1]
    <3>1. /\ \A i \in 0..Len(b) : Flat(b, i) \in Seq(S)
          /\ \A i \in 1..Len(b) : Flat(b, i) = Flat(b, i - 1) \o b[i]
      BY FlatSteps
    <3>2. b[k + 1] \in Seq(S)
      BY <2>1
    <3> QED BY <2>1, <3>1, <3>2
  <2> HIDE DEF X
  <2>5. (X \o Flat(b, k)) \o b[k + 1] = X \o (Flat(b, k) \o b[k + 1])
    <3> DEFINE y == Flat(b, k)
               z == b[k + 1]
    <3>1. X \in Seq(S) /\ y \in Seq(S) /\ z \in Seq(S)
      BY <1>3, <2>4
    <3> HIDE DEF y, z
    <3>2. (X \o y) \o z = X \o (y \o z)
      BY <3>1, ConcatAssociative
    <3> QED BY <3>2 DEF y, z
  <2> QED BY <2>2, <2>3, <2>4, <2>5
<1> HIDE DEF T
<1>6. n \in T
  BY <1>1, <1>4, <1>5, NatSetInduction
<1>7. Flat(q, m + n) = X \o Flat(b, n)
  BY <1>1, <1>6 DEF T
<1>8. FlattenSeq(q) = Flat(q, m + n) /\ FlattenSeq(a) = X /\ FlattenSeq(b) = Flat(b, n)
  BY <1>2, FlatSteps
<1> QED BY <1>7, <1>8 DEF q

LEMMA FlatSplit ==
  ASSUME NEW S, NEW q \in Seq(Seq(S)), NEW k \in 0..Len(q)
  PROVE  /\ FlattenSeq(q) = Flat(q, k) \o FlattenSeq(SubSeq(q, k + 1, Len(q)))
         /\ SubSeq(q, k + 1, Len(q)) \in Seq(Seq(S))
         /\ Flat(q, k) = FlattenSeq(SubSeq(q, 1, k))
<1> DEFINE R == Seq(S)
           a == SubSeq(q, 1, k)
           b == SubSeq(q, k + 1, Len(q))
           n == Len(q)
<1>1. q \in Seq(R) /\ n \in Nat /\ k \in 0..n
  OBVIOUS
<1> HIDE DEF R
<1>2. a \in Seq(R) /\ b \in Seq(R) /\ a = [i \in 1..k |-> q[i]]
  <2>1. b \in Seq(R)
    BY <1>1
  <2>2. a \in Seq(R) /\ Len(a) = k /\ \A i \in 1..k : a[i] = q[i]
    BY <1>1
  <2>3. a = [i \in 1..k |-> q[i]]
    <3> HIDE DEF a
    <3> QED BY <2>2
  <2> QED BY <2>1, <2>2, <2>3
<1>3. a \o b = q
  <2>1. 1 \in 1..(n + 1) /\ k \in 1 - 1..n /\ n \in k..n
    BY <1>1
  <2>2. a \o b = SubSeq(q, 1, n)
    BY <1>1, <2>1, ConcatAdjacentSubSeq
  <2> QED BY <1>1, <2>2, SubSeqFull
<1> HIDE DEF a, b
<1>4. FlattenSeq(q) = FlattenSeq(a) \o FlattenSeq(b)
  BY <1>2, <1>3, FlatConcat DEF R
<1>5. Flat(q, k) = FlattenSeq(a)
  BY <1>2 DEF Flat
<1> QED BY <1>2, <1>4, <1>5 DEF a, b, R

LEMMA FlatMonotone ==
  ASSUME NEW S, NEW q \in Seq(Seq(S))
  PROVE  \A k \in 0..Len(q) : /\ Len(Flat(q, k)) \in Nat
                              /\ \A j \in 0..k : Len(Flat(q, j)) <= Len(Flat(q, k))
<1> DEFINE n == Len(q)
           L(k) == Len(Flat(q, k))
           T == {k \in Nat : k <= n => \A j \in 0..k : L(j) <= L(k)}
<1>1. n \in Nat /\ \A k \in 0..n : L(k) \in Nat
  BY FlatSteps
<1>2. \A k \in 1..n : L(k) = L(k - 1) + Len(q[k]) /\ Len(q[k]) \in Nat
  <2> TAKE k \in 1..n
  <2>1. k - 1 \in 0..n
    BY <1>1
  <2>2. Flat(q, k - 1) \in Seq(S) /\ q[k] \in Seq(S) /\ Flat(q, k) = Flat(q, k - 1) \o q[k]
    <3>1. /\ \A i \in 0..Len(q) : Flat(q, i) \in Seq(S)
          /\ \A i \in 1..Len(q) : Flat(q, i) = Flat(q, i - 1) \o q[i]
      BY FlatSteps
    <3>2. q[k] \in Seq(S)
      OBVIOUS
    <3> QED BY <2>1, <3>1, <3>2
  <2> QED BY <2>2
<1> HIDE DEF L, n
<1>3. 0 \in T
  BY <1>1
<1>4. ASSUME NEW k \in Nat, k \in T PROVE k + 1 \in T
  <2> SUFFICES ASSUME k + 1 <= n, NEW j \in 0..(k + 1) PROVE L(j) <= L(k + 1)
    OBVIOUS
  <2>1. k + 1 \in 1..n /\ (k + 1) - 1 = k /\ k \in 0..n /\ k + 1 \in 0..n /\ j \in 0..n /\ k <= n
    BY <1>1
  <2>2. L(k + 1) = L(k) + Len(q[k + 1]) /\ Len(q[k + 1]) \in Nat /\ L(k) \in Nat /\ L(k + 1) \in Nat
        /\ L(j) \in Nat
    BY <1>1, <1>2, <2>1
  <2>3. CASE j = k + 1
    BY <2>2, <2>3
  <2>4. CASE j \in 0..k
    <3>1. L(j) <= L(k)
      BY <1>4, <2>1, <2>4
    <3> QED BY <2>2, <3>1
  <2> QED BY <2>3, <2>4
<1> HIDE DEF T
<1>5. \A k \in Nat : k \in T
  BY <1>3, <1>4, NatSetInduction
<1> QED BY <1>1, <1>5 DEF T, L, n
=============================================================================
