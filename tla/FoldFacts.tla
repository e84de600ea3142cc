----------------------------- MODULE FoldFacts -------------------------------
(***************************************************************************)
(* Induction along FoldLeft.  The provers cannot instantiate a theorem     *)
(* about an arbitrary operator, so the operator folded and the property it *)
(* keeps are constants of this module, and a proof INSTANCEs it with the   *)
(* ones it is about.                                                       *)
(***************************************************************************)
EXTENDS ListFacts

CONSTANTS
  Op(_, _, _),    \* Op(p, r, x): r after the element x, in the context p
  Good(_, _, _)   \* Good(p, i, r): what holds of r after i elements

Fold(p, base, q) == FoldLeft(LAMBDA r, x : Op(p, r, x), base, q)

-----------------------------------------------------------------------------

\* The function FoldLeft evaluates, on the subsets of DOMAIN q: the definition
\* is an equation, and it has a solution.
Iterates(p, base, q, k, g) ==
  g = [s \in SUBSET (1..k) |->
         IF s = {} THEN base ELSE Op(p, g[s \ {Max(s)}], q[Max(s)])]

LEMMA IteratesExist ==
  ASSUME NEW p, NEW base, NEW q, NEW n \in Nat
  PROVE  \E g : Iterates(p, base, q, n, g)
<1> DEFINE T == {k \in Nat : \E g : Iterates(p, base, q, k, g)}
           E(k, g) == [s \in SUBSET (1..k) |->
                         IF s = {} THEN base ELSE Op(p, g[s \ {Max(s)}], q[Max(s)])]
<1>1. 0 \in T
  <2> DEFINE g == [s \in SUBSET (1..0) |-> base]
  <2>1. SUBSET (1..0) = {{}}
    OBVIOUS
  <2>2. g = E(0, g)
    BY <2>1
  <2> QED BY <2>2 DEF Iterates
<1>2. ASSUME NEW k \in Nat, k \in T PROVE k + 1 \in T
  <2>1. PICK g : g = E(k, g)
    BY <1>2 DEF Iterates
  <2> DEFINE h == E(k + 1, g)
  <2>2. ASSUME NEW s \in SUBSET (1..k) PROVE h[s] = g[s]
    <3>1. s \in SUBSET (1..(k + 1))
      OBVIOUS
    <3>2. g[s] = IF s = {} THEN base ELSE Op(p, g[s \ {Max(s)}], q[Max(s)])
      BY <2>1
    <3> QED BY <3>1, <3>2
  <2>3. ASSUME NEW s \in SUBSET (1..(k + 1)), s # {}
        PROVE  h[s \ {Max(s)}] = g[s \ {Max(s)}]
    <3>1. s \ {Max(s)} \in SUBSET (1..k)
      <4>1. k + 1 \in Nat /\ (k + 1) - 1 = k
        OBVIOUS
      <4> QED BY <2>3, <4>1, MaxOfRange
    <3> HIDE DEF h
    <3> QED BY <2>2, <3>1
  <2>4. h = E(k + 1, h)
    <3> DEFINE v(f, s) == IF s = {} THEN base ELSE Op(p, f[s \ {Max(s)}], q[Max(s)])
    <3>1. \A s \in SUBSET (1..(k + 1)) : v(g, s) = v(h, s)
      <4> HIDE DEF h
      <4> QED BY <2>3
    <3>2. [s \in SUBSET (1..(k + 1)) |-> v(g, s)] = [s \in SUBSET (1..(k + 1)) |-> v(h, s)]
      <4> HIDE DEF v, h
      <4> QED BY <3>1
    <3> QED BY <3>2
  <2> HIDE DEF h
  <2>5. \E f : Iterates(p, base, q, k + 1, f)
    BY <2>4 DEF Iterates
  <2> QED BY <2>5
<1> HIDE DEF T
<1>3. \A k \in Nat : k \in T
  BY <1>1, <1>2, NatSetInduction
<1> QED BY <1>3 DEF T

\* FoldLeft goes through its argument from the first element to the last.
LEMMA FoldSteps ==
  ASSUME NEW p, NEW base, NEW S, NEW q \in Seq(S)
  PROVE  \E f : /\ f[0] = base
                /\ \A k \in 1..Len(q) : f[k] = Op(p, f[k - 1], q[k])
                /\ Fold(p, base, q) = f[Len(q)]
<1> DEFINE n == Len(q)
           Is(g) == g = [s \in SUBSET DOMAIN q |->
                           IF s = {} THEN base ELSE Op(p, g[s \ {Max(s)}], q[Max(s)])]
           g == CHOOSE h : Is(h)
<1>1. n \in Nat /\ DOMAIN q = 1..n
  OBVIOUS
<1>2. Fold(p, base, q) = g[DOMAIN q]
  BY DEF Fold, FoldLeft, MapThenFoldSet
<1>3. Is(g)
  <2>1. \E h : Is(h)
    <3>1. PICK h : Iterates(p, base, q, n, h)
      BY <1>1, IteratesExist
    <3>2. Is(h)
      BY <1>1, <3>1 DEF Iterates
    <3> HIDE DEF Is
    <3> QED BY <3>2
  <2> HIDE DEF Is
  <2> QED BY <2>1
<1> HIDE DEF g
<1>4. \A s \in SUBSET (1..n) :
        g[s] = IF s = {} THEN base ELSE Op(p, g[s \ {Max(s)}], q[Max(s)])
  BY <1>1, <1>3
<1> DEFINE f == [k \in 0..n |-> g[1..k]]
<1>5. f[0] = base
  <2>1. 1..0 = {} /\ 0 \in 0..n
    BY <1>1
  <2> QED BY <1>4, <2>1
<1>6. ASSUME NEW k \in 1..n PROVE f[k] = Op(p, f[k - 1], q[k])
  <2>1. /\ k \in 0..n /\ k - 1 \in 0..n /\ k \in Nat /\ k > 0
        /\ 1..k \in SUBSET (1..n)
    BY <1>1
  <2>2. 1..k # {} /\ Max(1..k) = k /\ (1..k) \ {k} = 1..(k - 1)
    BY <2>1, MaxOfRange
  <2>3. g[1..k] = Op(p, g[1..(k - 1)], q[k])
    BY <1>4, <2>1, <2>2
  <2> QED BY <2>1, <2>3
<1>7. Fold(p, base, q) = f[n]
  BY <1>1, <1>2
<1> HIDE DEF f
<1> QED BY <1>5, <1>6, <1>7

\* What holds at the start and is kept by every element holds of the result.
LEMMA FoldKeeps ==
  ASSUME NEW p, NEW base, NEW S, NEW q \in Seq(S), Good(p, 0, base),
         \A r : \A i \in 1..Len(q) : Good(p, i - 1, r) => Good(p, i, Op(p, r, q[i]))
  PROVE  Good(p, Len(q), Fold(p, base, q))
<1>1. PICK f : /\ f[0] = base
               /\ \A k \in 1..Len(q) : f[k] = Op(p, f[k - 1], q[k])
               /\ Fold(p, base, q) = f[Len(q)]
  BY FoldSteps
<1> DEFINE T == {k \in 0..Len(q) : Good(p, k, f[k])}
<1>2. 0 \in T /\ Len(q) \in Nat
  BY <1>1
<1>3. \A k \in 1..Len(q) : k - 1 \in T => k \in T
  BY <1>1, <1>2
<1> HIDE DEF T
<1>4. Len(q) \in T
  <2>1. Len(q) \in 0..Len(q)
    BY <1>2
  <2> QED BY <1>2, <1>3, <2>1, RangeInduction
<1> QED BY <1>1, <1>4 DEF T
=============================================================================
