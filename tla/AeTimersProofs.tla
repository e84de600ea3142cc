--------------------------- MODULE AeTimersProofs ----------------------------
(***************************************************************************)
(* The walk over the time events calls what it should and nothing else.    *)
(***************************************************************************)
EXTENDS AeTimers, ListFacts

Timer == [deleted : BOOLEAN, when : Nat]

\* A list of timers between two changes: a timer is marked exactly when it was
\* deleted or said AE_NOMORE, one that is not is in the list, and it is due no
\* later than it asked, at that very time if the clock was never set back.
GoodLoop(x, exact) ==
  /\ DOMAIN x = {"list", "timer", "asked", "dropped"}
  /\ x.timer \in Seq(Timer)
  /\ x.asked \in Seq(Nat) /\ Len(x.asked) = Len(x.timer)
  /\ x.list \in Seq(1..Len(x.timer)) /\ Distinct(x.list)
  /\ x.dropped \subseteq 1..Len(x.timer)
  /\ \A n \in 1..Len(x.timer) :
       /\ x.timer[n].deleted <=> n \in x.dropped
       /\ n \notin x.dropped => n \in ToSet(x.list)
       /\ x.timer[n].when <= x.asked[n]
       /\ exact => x.timer[n].when = x.asked[n]

TimersTypeOK ==
  /\ clock \in TicksPerSecond..MaxTime
  /\ lastTime \in Nat /\ timeout \in Int /\ setBacks \in Nat
  /\ fired \subseteq Created /\ owed \subseteq Created
  /\ walk \in [on : BOOLEAN, te : Created \cup {NoTimer},
               prev : Created \cup {NoTimer}, maxId : 0..Len(timer)]

\* The walk stands at position i: what is from there on is as old as the walk
\* and was not called yet, prev is the timer in front (or there is none that
\* an unlinking could lose), and no timer that is owed a call was passed.
StandsAt(i) ==
  /\ i \in DOMAIN list /\ list[i] = walk.te
  /\ \A j \in i..Len(list) : list[j] <= walk.maxId /\ list[j] \notin fired
  /\ IF walk.prev = NoTimer THEN i = 1 \/ ~timer[walk.te].deleted
     ELSE i > 1 /\ list[i - 1] = walk.prev
  /\ \A n \in owed : n \in fired \/ n \in dropped \/ \E j \in i..Len(list) : list[j] = n

WalkInv ==
  walk.on =>
    /\ timeout = 0
    /\ walk.te # NoTimer => \E i \in DOMAIN list : StandsAt(i)
    /\ walk.te = NoTimer => owed \subseteq fired \cup dropped
    /\ \A n \in owed : n \in fired \/ n \in dropped \/ timer[n].when <= clock

\* Without a clock that was set back, no walk finds the clock behind the last
\* one, and a sleep ends before the first timer is due.
ClockInv ==
  setBacks = 0 =>
    /\ lastTime <= Seconds(clock)
    /\ timeout # 0 => \A n \in Created \ dropped :
                        timeout > 0 /\ clock + timeout <= asked[n]

TimersInv ==
  /\ GoodLoop(Here, setBacks = 0)
  /\ TimersTypeOK
  /\ WalkInv
  /\ ClockInv

-----------------------------------------------------------------------------
(* Numbers.                                                                *)

LEMMA SecondsMonotone ==
  ASSUME NEW a \in Nat, NEW b \in Nat, a <= b
  PROVE  Seconds(a) <= Seconds(b) /\ Seconds(a) \in Nat
<1>1. TicksPerSecond \in Nat /\ TicksPerSecond > 0
  BY TimersAssumption
<1> DEFINE p == a \div TicksPerSecond
           q == b \div TicksPerSecond
<1>2. /\ p \in Nat /\ q \in Nat
      /\ TicksPerSecond * p <= a /\ a < TicksPerSecond * (p + 1)
      /\ TicksPerSecond * q <= b /\ b < TicksPerSecond * (q + 1)
  BY <1>1, Z3
<1> HIDE DEF p, q
<1>3. p <= q
  <2>1. ASSUME p >= q + 1 PROVE FALSE
    <3>1. TicksPerSecond * p >= TicksPerSecond * (q + 1)
      BY <1>1, <1>2, <2>1
    <3>2. TicksPerSecond * p \in Nat /\ TicksPerSecond * (q + 1) \in Nat
      BY <1>1, <1>2
    <3> QED BY <1>2, <3>1, <3>2
  <2> QED BY <1>2, <2>1
<1> QED BY <1>2, <1>3 DEF Seconds, p, q

LEMMA ForcedWhen ==
  ASSUME NEW w \in Nat
  PROVE  w % TicksPerSecond \in 0..(TicksPerSecond - 1) /\ w % TicksPerSecond <= w
<1>1. TicksPerSecond \in Nat /\ TicksPerSecond > 0
  BY TimersAssumption
<1> QED BY <1>1, Z3

-----------------------------------------------------------------------------
(* Lists.                                                                  *)

\* The operators on a list without repetitions, by the position of a timer
LEMMA AtPosition ==
  ASSUME NEW S, NEW l \in Seq(S), Distinct(l), NEW i \in DOMAIN l
  PROVE  /\ UpTo(l, l[i]) = SubSeq(l, 1, i)
         /\ Behind(l, l[i]) = SubSeq(l, i + 1, Len(l))
         /\ After(l, l[i]) = IF i = Len(l) THEN NoTimer ELSE l[i + 1]
<1>1. (CHOOSE j \in DOMAIN l : l[j] = l[i]) = i
  BY DEF Distinct
<1>2. /\ UpTo(l, l[i]) = SubSeq(l, 1, i)
      /\ Behind(l, l[i]) = SubSeq(l, i + 1, Len(l))
  BY <1>1 DEF UpTo, Behind
<1>3. i \in 1..Len(l) /\ Len(l) \in Nat
  OBVIOUS
<1>4. CASE i = Len(l)
  <2>1. SubSeq(l, i + 1, Len(l)) = <<>>
    BY <1>3, <1>4
  <2> QED BY <1>2, <1>4, <2>1 DEF After
<1>5. CASE i # Len(l)
  <2>1. SubSeq(l, i + 1, Len(l)) # <<>> /\ Head(SubSeq(l, i + 1, Len(l))) = l[i + 1]
    BY <1>3, <1>5
  <2> QED BY <1>2, <1>5, <2>1 DEF After
<1> QED BY <1>2, <1>4, <1>5

-----------------------------------------------------------------------------
(* What the procedures of the program do to the list.                      *)

\* y follows x: a timer at the head more, or a mark more, or nothing.
Follows(x, y) ==
  /\ x.dropped \subseteq y.dropped
  /\ Len(y.timer) >= Len(x.timer)
  /\ \A n \in 1..Len(x.timer) :
       y.timer[n].when = x.timer[n].when /\ y.asked[n] = x.asked[n]
  /\ \/ y.list = x.list
     \/ /\ y.list = <<Len(x.timer) + 1>> \o x.list
        /\ \A n \in 1..Len(x.timer) : y.timer[n] = x.timer[n]

LEMMA CreateGood ==
  ASSUME clock \in Nat, NEW exact \in BOOLEAN, NEW x, GoodLoop(x, exact),
         NEW delay \in Delays
  PROVE  /\ GoodLoop(aeCreateTimeEvent(x, delay), exact)
         /\ Follows(x, aeCreateTimeEvent(x, delay))
<1> DEFINE y == aeCreateTimeEvent(x, delay)
           m == Len(x.timer) + 1
           w == clock + delay
<1>1. w \in Nat /\ m \in Nat /\ Len(x.timer) = m - 1
  BY TimersAssumption DEF GoodLoop
<1>2. /\ y.list = <<m>> \o x.list /\ y.timer = Append(x.timer, [deleted |-> FALSE, when |-> w])
       /\ y.asked = Append(x.asked, w) /\ y.dropped = x.dropped /\ DOMAIN y = DOMAIN x
  BY DEF aeCreateTimeEvent, GoodLoop
<1> HIDE DEF y, w, m
<1>4. /\ x.timer \in Seq(Timer) /\ x.asked \in Seq(Nat) /\ Len(x.asked) = Len(x.timer)
      /\ x.list \in Seq(1..Len(x.timer)) /\ Distinct(x.list)
      /\ x.dropped \subseteq 1..Len(x.timer)
  BY DEF GoodLoop
<1>5. [deleted |-> FALSE, when |-> w] \in Timer
  BY <1>1 DEF Timer
<1>6. /\ y.timer \in Seq(Timer) /\ Len(y.timer) = m
      /\ y.asked \in Seq(Nat) /\ Len(y.asked) = m
      /\ \A n \in 1..Len(x.timer) : y.timer[n] = x.timer[n] /\ y.asked[n] = x.asked[n]
      /\ y.timer[m] = [deleted |-> FALSE, when |-> w] /\ y.asked[m] = w
  BY <1>1, <1>2, <1>4, <1>5
<1>7. /\ y.list \in Seq(1..m) /\ Len(y.list) = Len(x.list) + 1
      /\ y.list[1] = m /\ \A j \in DOMAIN x.list : y.list[j + 1] = x.list[j]
      /\ \A j \in DOMAIN y.list : j = 1 \/ (j - 1 \in DOMAIN x.list /\ y.list[j] = x.list[j - 1])
  <2>1. m \in 1..m /\ 1..Len(x.timer) \subseteq 1..m
    BY <1>1
  <2>2. <<m>> \in Seq(1..m) /\ x.list \in Seq(1..m) /\ Len(<<m>>) = 1 /\ <<m>>[1] = m
    <3> DEFINE B == 1..m
               C == 1..Len(x.timer)
    <3>1. m \in B /\ C \subseteq B /\ x.list \in Seq(C)
      BY <1>4, <2>1
    <3> HIDE DEF B, C
    <3>2. <<m>> \in Seq(B) /\ x.list \in Seq(B) /\ Len(<<m>>) = 1 /\ <<m>>[1] = m
      BY <3>1
    <3> QED BY <3>2 DEF B
  <2>3. y.list \in Seq(1..m) /\ Len(y.list) = Len(x.list) + 1
    BY <1>2, <2>2
  <2>4. y.list[1] = m /\ \A j \in DOMAIN x.list : y.list[j + 1] = x.list[j]
    BY <1>2, <2>2
  <2>5. DOMAIN y.list = 1..(Len(x.list) + 1) /\ DOMAIN x.list = 1..Len(x.list) /\ Len(x.list) \in Nat
    BY <2>2, <2>3
  <2>6. ASSUME NEW j \in DOMAIN y.list, j # 1
        PROVE  j - 1 \in DOMAIN x.list /\ y.list[j] = x.list[j - 1]
    <3>1. j - 1 \in DOMAIN x.list /\ (j - 1) + 1 = j
      BY <2>5, <2>6
    <3> QED BY <2>4, <3>1
  <2> QED BY <2>3, <2>4, <2>6
<1>8. Distinct(y.list)
  <2>1. \A j \in DOMAIN x.list : x.list[j] \in 1..Len(x.timer)
    BY <1>4
  <2>2. \A j \in DOMAIN x.list : x.list[j] # m
    BY <1>1, <1>4, <2>1
  <2> SUFFICES ASSUME NEW i \in DOMAIN y.list, NEW j \in DOMAIN y.list, y.list[i] = y.list[j]
               PROVE  i = j
    BY DEF Distinct
  <2>3. CASE i = 1 \/ j = 1
    BY <1>7, <2>2, <2>3
  <2>4. CASE i # 1 /\ j # 1
    <3>1. /\ i - 1 \in DOMAIN x.list /\ j - 1 \in DOMAIN x.list
          /\ x.list[i - 1] = x.list[j - 1]
      BY <1>7, <2>4
    <3>2. i - 1 = j - 1
      BY <1>4, <3>1 DEF Distinct
    <3>3. i \in Int /\ j \in Int
      BY <1>7
    <3> QED BY <3>2, <3>3
  <2> QED BY <2>3, <2>4
<1>9. ToSet(y.list) = ToSet(x.list) \cup {m}
  <2>1. \A n : n \in ToSet(y.list) <=> \E i \in DOMAIN y.list : y.list[i] = n
    BY ToSetMember
  <2>2. \A n : n \in ToSet(x.list) <=> \E i \in DOMAIN x.list : x.list[i] = n
    BY ToSetMember
  <2>3. 1 \in DOMAIN y.list /\ \A j \in DOMAIN x.list : j + 1 \in DOMAIN y.list
    BY <1>4, <1>7
  <2> QED BY <1>7, <2>1, <2>2, <2>3
<1>10. ASSUME NEW n \in 1..m
       PROVE  /\ y.timer[n].deleted <=> n \in y.dropped
              /\ n \notin y.dropped => n \in ToSet(y.list)
              /\ y.timer[n].when <= y.asked[n]
              /\ exact => y.timer[n].when = y.asked[n]
  <2>1. CASE n = m
    <3>1. m \notin x.dropped
      BY <1>1, <1>4
    <3>2. ~y.timer[m].deleted /\ y.timer[m].when = w /\ y.asked[m] = w
      BY <1>6
    <3>3. m \in ToSet(y.list) /\ m \notin y.dropped
      BY <1>2, <1>9, <3>1, Zenon
    <3>4. w <= w
      BY <1>1
    <3> QED BY <2>1, <3>2, <3>3, <3>4
  <2>2. CASE n \in 1..Len(x.timer)
    BY <1>2, <1>6, <1>9, <2>2 DEF GoodLoop
  <2> QED BY <1>1, <1>4, <2>1, <2>2
<1>11. GoodLoop(y, exact)
  <2>1. y.dropped \subseteq 1..m
    BY <1>1, <1>2, <1>4
  <2>2. DOMAIN y = {"list", "timer", "asked", "dropped"}
    BY <1>2 DEF GoodLoop
  <2> QED BY <1>6, <1>7, <1>8, <1>10, <2>1, <2>2 DEF GoodLoop
<1>12. Follows(x, y)
  BY <1>2, <1>4, <1>6 DEF Follows
<1> QED BY <1>11, <1>12 DEF y

\* aeDeleteTimeEvent, and AE_NOMORE
LEMMA DeleteGood ==
  ASSUME NEW exact \in BOOLEAN, NEW x, GoodLoop(x, exact), NEW n \in 1..Len(x.timer)
  PROVE  /\ GoodLoop(aeDeleteTimeEvent(x, n), exact)
         /\ Follows(x, aeDeleteTimeEvent(x, n))
         /\ NoMore(x, n) = aeDeleteTimeEvent(x, n)
<1> DEFINE y == aeDeleteTimeEvent(x, n)
<1>1. /\ x.timer \in Seq(Timer) /\ x.asked \in Seq(Nat) /\ Len(x.asked) = Len(x.timer)
      /\ x.list \in Seq(1..Len(x.timer)) /\ Distinct(x.list)
      /\ x.dropped \subseteq 1..Len(x.timer)
  BY DEF GoodLoop
<1>3. NoMore(x, n) = y
  BY DEF aeDeleteTimeEvent, NoMore
<1>4. /\ y.list = x.list /\ y.asked = x.asked /\ y.dropped = x.dropped \cup {n}
      /\ y.timer = [x.timer EXCEPT ![n].deleted = TRUE]
      /\ DOMAIN y = {"list", "timer", "asked", "dropped"}
  BY DEF aeDeleteTimeEvent, GoodLoop
<1> HIDE DEF y
<1>5. \A k \in 1..Len(x.timer) : x.timer[k] \in Timer
  BY <1>1
<1>6. [x.timer[n] EXCEPT !.deleted = TRUE] \in Timer
  BY <1>5 DEF Timer
<1>7. /\ y.timer \in Seq(Timer) /\ Len(y.timer) = Len(x.timer)
      /\ \A k \in 1..Len(x.timer) : k # n => y.timer[k] = x.timer[k]
      /\ y.timer[n] = [x.timer[n] EXCEPT !.deleted = TRUE]
  BY <1>1, <1>4, <1>6
<1>8. y.timer[n].deleted /\ y.timer[n].when = x.timer[n].when
  BY <1>5, <1>7 DEF Timer
<1>9. GoodLoop(y, exact)
  <2>1. ASSUME NEW k \in 1..Len(y.timer)
        PROVE  /\ y.timer[k].deleted <=> k \in y.dropped
               /\ k \notin y.dropped => k \in ToSet(y.list)
               /\ y.timer[k].when <= y.asked[k]
               /\ exact => y.timer[k].when = y.asked[k]
    BY <1>4, <1>7, <1>8 DEF GoodLoop
  <2> QED BY <1>1, <1>4, <1>7, <2>1 DEF GoodLoop
<1>10. Follows(x, y)
  BY <1>1, <1>4, <1>7, <1>8 DEF Follows
<1> QED BY <1>3, <1>9, <1>10 DEF y

LEMMA EffectsGood ==
  ASSUME clock \in Nat, NEW exact \in BOOLEAN, NEW x, GoodLoop(x, exact),
         NEW y \in Effects(x)
  PROVE  GoodLoop(y, exact) /\ Follows(x, y)
<1>1. CASE y = x
  <2>1. Len(x.timer) \in Nat
    BY DEF GoodLoop
  <2> QED BY <1>1, <2>1 DEF Follows
<1>2. CASE \E delay \in Delays : y = aeCreateTimeEvent(x, delay)
  BY <1>2, CreateGood
<1>3. CASE \E n \in CanDelete(x) : y = aeDeleteTimeEvent(x, n)
  <2>1. PICK n \in CanDelete(x) : y = aeDeleteTimeEvent(x, n)
    BY <1>3
  <2>2. n \in 1..Len(x.timer)
    <3>1. n \in ToSet(x.list)
      BY DEF CanDelete
    <3>2. PICK i \in DOMAIN x.list : x.list[i] = n
      BY <3>1, ToSetMember
    <3>3. x.list \in Seq(1..Len(x.timer))
      BY DEF GoodLoop
    <3> QED BY <3>2, <3>3
  <2> QED BY <2>1, <2>2, DeleteGood
<1> QED BY <1>1, <1>2, <1>3 DEF Effects

-----------------------------------------------------------------------------
(* The invariant, step by step.                                            *)

LEMMA HereFields ==
  /\ Here.list = list /\ Here.timer = timer /\ Here.asked = asked /\ Here.dropped = dropped
  /\ DOMAIN Here = {"list", "timer", "asked", "dropped"}
BY DEF Here

\* The parts of GoodLoop(Here, exact), by the names of the variables
LEMMA HereGood ==
  GoodLoop(Here, setBacks = 0) <=>
    /\ timer \in Seq(Timer)
    /\ asked \in Seq(Nat) /\ Len(asked) = Len(timer)
    /\ list \in Seq(1..Len(timer)) /\ Distinct(list)
    /\ dropped \subseteq 1..Len(timer)
    /\ \A n \in 1..Len(timer) :
         /\ timer[n].deleted <=> n \in dropped
         /\ n \notin dropped => n \in ToSet(list)
         /\ timer[n].when <= asked[n]
         /\ setBacks = 0 => timer[n].when = asked[n]
BY HereFields DEF GoodLoop

LEMMA BecomesGood ==
  ASSUME NEW x, GoodLoop(x, setBacks = 0), LoopBecomes(x), UNCHANGED setBacks
  PROVE  GoodLoop(Here, setBacks = 0)'
<1>1. list' = x.list /\ timer' = x.timer /\ asked' = x.asked /\ dropped' = x.dropped
  BY DEF LoopBecomes
<1>2. /\ (Here.list)' = x.list /\ (Here.timer)' = x.timer /\ (Here.asked)' = x.asked
      /\ (Here.dropped)' = x.dropped /\ (DOMAIN Here)' = DOMAIN x
  BY <1>1 DEF Here, GoodLoop
<1> QED BY <1>1, <1>2 DEF GoodLoop

\* What every step starts from
LEMMA Start ==
  ASSUME TimersInv
  PROVE  /\ timer \in Seq(Timer) /\ Created = 1..Len(timer) /\ Len(timer) \in Nat
         /\ asked \in Seq(Nat) /\ Len(asked) = Len(timer)
         /\ list \in Seq(1..Len(timer)) /\ Distinct(list)
         /\ Len(list) \in Nat /\ DOMAIN list = 1..Len(list)
         /\ dropped \subseteq 1..Len(timer)
         /\ \A n \in 1..Len(timer) :
              /\ timer[n].when \in Nat /\ timer[n].deleted \in BOOLEAN /\ asked[n] \in Nat
              /\ timer[n].deleted <=> n \in dropped
              /\ n \notin dropped => \E i \in DOMAIN list : list[i] = n
              /\ timer[n].when <= asked[n]
              /\ setBacks = 0 => timer[n].when = asked[n]
         /\ \A i \in DOMAIN list : list[i] \in 1..Len(timer)
         /\ clock \in Nat /\ clock >= TicksPerSecond /\ clock <= MaxTime
         /\ lastTime \in Nat /\ timeout \in Int /\ setBacks \in Nat
         /\ walk.on \in BOOLEAN /\ walk.maxId \in 0..Len(timer)
         /\ DOMAIN walk = {"on", "te", "prev", "maxId"}
<1>1. /\ timer \in Seq(Timer)
      /\ asked \in Seq(Nat) /\ Len(asked) = Len(timer)
      /\ list \in Seq(1..Len(timer)) /\ Distinct(list)
      /\ dropped \subseteq 1..Len(timer)
      /\ \A n \in 1..Len(timer) :
           /\ timer[n].deleted <=> n \in dropped
           /\ n \notin dropped => n \in ToSet(list)
           /\ timer[n].when <= asked[n]
           /\ setBacks = 0 => timer[n].when = asked[n]
  BY HereGood DEF TimersInv
<1>2. \A n : n \in ToSet(list) <=> \E i \in DOMAIN list : list[i] = n
  BY ToSetMember
<1>3. TicksPerSecond \in Nat /\ MaxTime \in Nat
  BY TimersAssumption
<1>4. /\ clock \in Nat /\ clock >= TicksPerSecond /\ clock <= MaxTime
      /\ lastTime \in Nat /\ timeout \in Int /\ setBacks \in Nat
      /\ walk.on \in BOOLEAN /\ walk.maxId \in 0..Len(timer)
      /\ DOMAIN walk = {"on", "te", "prev", "maxId"}
  BY <1>3 DEF TimersInv, TimersTypeOK
<1>5. Created = 1..Len(timer) /\ Len(timer) \in Nat
  BY <1>1 DEF Created
<1>6. \A n \in 1..Len(timer) : /\ timer[n].when \in Nat /\ timer[n].deleted \in BOOLEAN
                               /\ asked[n] \in Nat
  <2>1. \A n \in 1..Len(timer) : timer[n] \in Timer /\ asked[n] \in Nat
    BY <1>1
  <2>2. \A r \in Timer : r.when \in Nat /\ r.deleted \in BOOLEAN
    BY DEF Timer
  <2> QED BY <2>1, <2>2
<1>7. /\ \A i \in DOMAIN list : list[i] \in 1..Len(timer)
      /\ Len(list) \in Nat /\ DOMAIN list = 1..Len(list)
  BY <1>1
<1> QED BY <1>1, <1>2, <1>4, <1>5, <1>6, <1>7

LEMMA Sizes ==
  ASSUME TimersInv
  PROVE  /\ Len(list) \in Int /\ Len(timer) \in Int /\ walk.maxId \in Int
         /\ DOMAIN list = 1..Len(list) /\ Created = 1..Len(timer)
         /\ \A i \in 1..Len(list) : list[i] \in 1..Len(timer)
BY Start

LEMMA InitTimers ==
  ASSUME TimersInit
  PROVE  TimersInv
<1>1. /\ list = <<>> /\ timer = <<>> /\ asked = <<>> /\ dropped = {} /\ fired = {}
      /\ owed = {} /\ setBacks = 0 /\ walk = NoWalk /\ timeout = 0
      /\ clock = TicksPerSecond /\ lastTime = 1
  BY DEF TimersInit
<1>2. TicksPerSecond \in Nat \ {0} /\ MaxTime \in Nat /\ TicksPerSecond <= MaxTime
  BY TimersAssumption
<1>3. Len(<<>>) = 0 /\ <<>> \in Seq(Timer) /\ <<>> \in Seq(Nat) /\ <<>> \in Seq(1..0)
      /\ 1..0 = {} /\ DOMAIN <<>> = {}
  OBVIOUS
<1>4. GoodLoop(Here, setBacks = 0)
  BY <1>1, <1>3, HereGood DEF Distinct
<1>5. TimersTypeOK
  BY <1>1, <1>2, <1>3 DEF TimersTypeOK, NoWalk, Created
<1>6. WalkInv
  BY <1>1 DEF WalkInv, NoWalk
<1>7. ClockInv
  <2>1. Seconds(clock) = 1
    BY <1>1, <1>2, Z3 DEF Seconds
  <2> QED BY <1>1, <2>1 DEF ClockInv
<1> QED BY <1>4, <1>5, <1>6, <1>7 DEF TimersInv

\* The types after a step that only adds timers
LEMMA TypesGrow ==
  ASSUME TimersInv, NEW x, Len(x.timer) >= Len(timer),
         GoodLoop(x, setBacks = 0), LoopBecomes(x),
         clock' = clock, lastTime' = lastTime, timeout' = timeout, setBacks' = setBacks,
         fired' \subseteq Created, owed' \subseteq Created,
         walk' \in [on : BOOLEAN, te : Created \cup {NoTimer},
                    prev : Created \cup {NoTimer}, maxId : 0..Len(timer)]
  PROVE  TimersTypeOK'
<1>1. Len(timer') >= Len(timer) /\ timer' \in Seq(Timer) /\ Created = 1..Len(timer) /\ Len(timer) \in Nat
  BY Start DEF LoopBecomes, GoodLoop
<1>2. Created' = 1..Len(timer') /\ Len(timer') \in Nat
  BY <1>1 DEF Created
<1>3. Created \subseteq Created' /\ 0..Len(timer) \subseteq 0..Len(timer')
  BY <1>1, <1>2
<1>4. /\ clock' \in TicksPerSecond..MaxTime /\ lastTime' \in Nat /\ timeout' \in Int
      /\ setBacks' \in Nat
  BY DEF TimersInv, TimersTypeOK
<1> DEFINE C == Created
           D == Created'
           m == 0..Len(timer)
           n == 0..Len(timer')
<1>5. walk' \in [on : BOOLEAN, te : C \cup {NoTimer}, prev : C \cup {NoTimer}, maxId : m]
      /\ fired' \subseteq D /\ owed' \subseteq D /\ C \subseteq D /\ m \subseteq n
  BY <1>3
<1> HIDE DEF C, D, m, n
<1>6. walk' \in [on : BOOLEAN, te : D \cup {NoTimer}, prev : D \cup {NoTimer}, maxId : n]
  BY <1>5
<1> QED BY <1>4, <1>5, <1>6 DEF TimersTypeOK, D, n

LEMMA FileEventStep ==
  ASSUME TimersInv, FileEvent
  PROVE  TimersInv'
<1>1. PICK x \in Effects(Here) : LoopBecomes(x)
  BY DEF FileEvent
<1>2. /\ ~walk.on /\ timeout = 0
      /\ UNCHANGED <<lastTime, walk, timeout, clock, fired, owed, setBacks>>
  BY DEF FileEvent
<1>3. GoodLoop(x, setBacks = 0) /\ Follows(Here, x)
  <2>1. clock \in Nat /\ GoodLoop(Here, setBacks = 0) /\ (setBacks = 0) \in BOOLEAN
    BY Start DEF TimersInv
  <2> DEFINE e == setBacks = 0
  <2>2. clock \in Nat /\ GoodLoop(Here, e) /\ e \in BOOLEAN
    BY <2>1
  <2> HIDE DEF e
  <2>3. GoodLoop(x, e) /\ Follows(Here, x)
    BY <2>2, EffectsGood
  <2> QED BY <2>3 DEF e
<1>4. GoodLoop(Here, setBacks = 0)'
  BY <1>1, <1>2, <1>3, BecomesGood
<1>5. TimersTypeOK'
  <2>1. Len(x.timer) >= Len(timer)
    BY <1>3, HereFields DEF Follows
  <2> QED BY <1>1, <1>2, <1>3, <2>1, TypesGrow DEF TimersInv, TimersTypeOK
<1>6. WalkInv'
  BY <1>2 DEF WalkInv
<1>7. ClockInv'
  BY <1>2 DEF ClockInv, TimersInv, Seconds
<1> QED BY <1>4, <1>5, <1>6, <1>7 DEF TimersInv

\* Steps that leave the timers and the walk alone
LEMMA SameTimers ==
  ASSUME TimersInv, UNCHANGED <<list, timer, asked, dropped, setBacks>>
  PROVE  GoodLoop(Here, setBacks = 0)'
BY DEF TimersInv, Here, GoodLoop

LEMMA SameWalk ==
  ASSUME TimersInv, UNCHANGED <<list, timer, dropped, walk, fired, owed>>,
         walk.on => timeout' = 0, clock' >= clock, clock \in Nat, clock' \in Nat,
         \A n \in owed : timer[n].when \in Nat
  PROVE  WalkInv'
BY DEF TimersInv, WalkInv, StandsAt

LEMMA PollStep ==
  ASSUME TimersInv, Poll
  PROVE  TimersInv'
<1>1. /\ ~walk.on /\ timeout' # 0
      /\ timeout' = IF list = <<>> THEN Forever ELSE Max({0, aeSearchNearestTimer - clock})
      /\ UNCHANGED <<list, timer, lastTime, walk, clock, asked, dropped, fired, owed, setBacks>>
  BY DEF Poll
<1> DEFINE W == {timer[n].when : n \in ToSet(list)}
<1>2. W \in SUBSET Nat /\ (list # <<>> => W # {})
  <2>1. \A n : n \in ToSet(list) <=> \E i \in DOMAIN list : list[i] = n
    BY ToSetMember
  <2>2. \A n \in ToSet(list) : n \in 1..Len(timer) /\ timer[n].when \in Nat
    BY <2>1, Start
  <2>3. list # <<>> => 1 \in DOMAIN list
    BY Start
  <2> QED BY <2>1, <2>2, <2>3
<1>3. ASSUME list # <<>>
      PROVE  /\ aeSearchNearestTimer \in Nat
             /\ \A n \in 1..Len(timer) : n \notin dropped => aeSearchNearestTimer <= timer[n].when
             /\ timeout' = aeSearchNearestTimer - clock /\ timeout' > 0
  <2>1. Min(W) \in W /\ \A x \in W : Min(W) <= x
    <3> HIDE DEF W
    <3> QED BY <1>2, <1>3, MinIsLeast
  <2>2. aeSearchNearestTimer = Min(W)
    BY DEF aeSearchNearestTimer
  <2> HIDE DEF W
  <2>3. aeSearchNearestTimer \in Nat
    BY <1>2, <2>1, <2>2
  <2>4. \A n \in 1..Len(timer) : n \notin dropped => timer[n].when \in W
    BY Start, ToSetMember DEF W
  <2>5. timeout' = aeSearchNearestTimer - clock /\ timeout' > 0
    <3> DEFINE v == aeSearchNearestTimer - clock
    <3>1. v \in Int /\ timeout' = Max({0, v})
      BY <1>1, <1>3, <2>3, Start
    <3> HIDE DEF v
    <3>2. timeout' = IF 0 >= v THEN 0 ELSE v
      BY <3>1, MaxOfTwo
    <3>3. timeout' = v /\ timeout' > 0
      BY <1>1, <3>1, <3>2
    <3> QED BY <3>3 DEF v
  <2> QED BY <2>1, <2>2, <2>3, <2>4, <2>5
<1>4. ASSUME list = <<>> PROVE \A n \in 1..Len(timer) : n \in dropped
  <2>1. DOMAIN list = {}
    BY <1>4
  <2> QED BY <2>1, Start
<1>5. timeout' \in Int
  BY <1>1, <1>3, Start DEF Forever
<1>6. GoodLoop(Here, setBacks = 0)'
  BY <1>1, SameTimers
<1>7. TimersTypeOK'
  BY <1>1, <1>5 DEF TimersInv, TimersTypeOK, Created
<1>8. WalkInv'
  BY <1>1 DEF WalkInv
<1>9. ClockInv'
  <2> SUFFICES ASSUME setBacks = 0
               PROVE  /\ lastTime <= Seconds(clock)
                      /\ \A n \in Created \ dropped :
                           timeout' > 0 /\ clock + timeout' <= asked[n]
    BY <1>1 DEF ClockInv, Created, Seconds
  <2>1. lastTime <= Seconds(clock)
    BY DEF TimersInv, ClockInv
  <2>2. ASSUME NEW n \in Created \ dropped
        PROVE  timeout' > 0 /\ clock + timeout' <= asked[n]
    <3>1. n \in 1..Len(timer) /\ n \notin dropped /\ timer[n].when = asked[n] /\ asked[n] \in Nat
      BY Start
    <3>2. list # <<>>
      BY <1>4, <3>1
    <3>3. /\ aeSearchNearestTimer \in Nat /\ aeSearchNearestTimer <= asked[n]
          /\ timeout' = aeSearchNearestTimer - clock /\ timeout' > 0
      BY <1>3, <3>1, <3>2
    <3> HIDE DEF aeSearchNearestTimer
    <3> QED BY <3>1, <3>3, Start
  <2> QED BY <2>1, <2>2
<1> QED BY <1>6, <1>7, <1>8, <1>9 DEF TimersInv

LEMMA WakeStep ==
  ASSUME TimersInv, Wake
  PROVE  TimersInv'
<1>1. /\ timeout # 0 /\ timeout' = 0
      /\ UNCHANGED <<list, timer, lastTime, walk, clock, asked, dropped, fired, owed, setBacks>>
  BY DEF Wake
<1>2. GoodLoop(Here, setBacks = 0)'
  BY <1>1, SameTimers
<1>3. TimersTypeOK'
  BY <1>1 DEF TimersInv, TimersTypeOK, Created
<1>4. WalkInv'
  BY <1>1 DEF TimersInv, WalkInv
<1>5. ClockInv'
  BY <1>1 DEF TimersInv, ClockInv, Seconds
<1> QED BY <1>2, <1>3, <1>4, <1>5 DEF TimersInv

LEMMA TickStep ==
  ASSUME TimersInv, Tick
  PROVE  TimersInv'
<1>1. /\ clock < MaxTime \/ timeout > 0
      /\ clock' = Min({clock + 1, MaxTime})
      /\ timeout' = IF timeout > 0 THEN timeout - 1 ELSE timeout
      /\ UNCHANGED <<list, timer, lastTime, walk, asked, dropped, fired, owed, setBacks>>
  BY DEF Tick
<1>2. clock \in Nat /\ clock >= TicksPerSecond /\ clock <= MaxTime /\ timeout \in Int
      /\ MaxTime \in Nat /\ TicksPerSecond \in Nat
  BY Start, TimersAssumption
<1>3. clock' = IF clock + 1 <= MaxTime THEN clock + 1 ELSE MaxTime
  <2>1. clock + 1 \in Int /\ MaxTime \in Int
    BY <1>2
  <2>2. Min({clock + 1, MaxTime}) = IF clock + 1 <= MaxTime THEN clock + 1 ELSE MaxTime
    BY <2>1, MaxOfTwo
  <2> QED BY <1>1, <2>2
<1>4. clock' \in TicksPerSecond..MaxTime /\ clock' >= clock /\ clock' <= clock + 1 /\ clock' \in Nat
  BY <1>2, <1>3
<1>5. GoodLoop(Here, setBacks = 0)'
  BY <1>1, SameTimers
<1>6. TimersTypeOK'
  BY <1>1, <1>2, <1>4 DEF TimersInv, TimersTypeOK, Created
<1>7. WalkInv'
  <2>1. walk.on => timeout' = 0
    BY <1>1 DEF TimersInv, WalkInv
  <2>2. \A n \in owed : timer[n].when \in Nat
    BY Start DEF TimersInv, TimersTypeOK
  <2> QED BY <1>1, <1>2, <1>4, <2>1, <2>2, SameWalk
<1>8. ClockInv'
  <2>1. Seconds(clock) <= Seconds(clock') /\ Seconds(clock) \in Nat /\ Seconds(clock') \in Nat
    BY <1>2, <1>4, SecondsMonotone
  <2>2. setBacks = 0 => lastTime' <= Seconds(clock')
    BY <1>1, <2>1, Start DEF TimersInv, ClockInv
  <2>3. ASSUME setBacks = 0, timeout' # 0, NEW n \in Created \ dropped
        PROVE  timeout' > 0 /\ clock' + timeout' <= asked[n]
    <3>1. timeout # 0
      BY <1>1, <1>2, <2>3
    <3>2. timeout > 0 /\ clock + timeout <= asked[n] /\ asked[n] \in Nat
      BY <2>3, <3>1, Start DEF TimersInv, ClockInv
    <3> QED BY <1>1, <1>2, <1>4, <2>3, <3>2
  <2> QED BY <1>1, <2>2, <2>3 DEF ClockInv, Created, Seconds
<1> QED BY <1>5, <1>6, <1>7, <1>8 DEF TimersInv

LEMMA SetBackStep ==
  ASSUME TimersInv, NEW t \in TicksPerSecond..(MaxTime - 1), SetBack(t)
  PROVE  TimersInv'
<1>1. /\ t < clock /\ clock' = t /\ setBacks' = setBacks + 1 /\ owed' = {}
      /\ UNCHANGED <<list, timer, lastTime, walk, timeout, asked, dropped, fired>>
  BY DEF SetBack
<1>2. setBacks' \in Nat /\ setBacks' # 0
  BY <1>1, Start
<1>3. GoodLoop(Here, setBacks = 0)'
  BY <1>1, <1>2 DEF TimersInv, Here, GoodLoop
<1>4. TimersTypeOK'
  <2>1. t \in TicksPerSecond..MaxTime
    BY TimersAssumption
  <2> QED BY <1>1, <1>2, <2>1 DEF TimersInv, TimersTypeOK, Created
<1>5. WalkInv'
  BY <1>1 DEF TimersInv, WalkInv, StandsAt
<1>6. ClockInv'
  BY <1>2 DEF ClockInv
<1> QED BY <1>3, <1>4, <1>5, <1>6 DEF TimersInv

\* The head of processTimeEvents
LEMMA ForcedGood ==
  ASSUME TimersInv
  PROVE  /\ Forced \in Seq(Timer) /\ Len(Forced) = Len(timer)
         /\ \A n \in 1..Len(timer) :
              /\ Forced[n].deleted = timer[n].deleted
              /\ Forced[n].when \in Nat /\ Forced[n].when <= timer[n].when
              /\ Seconds(clock) < lastTime /\ n \in ToSet(list) => Forced[n].when <= clock
              /\ setBacks = 0 => Forced[n].when = timer[n].when
<1>1. CASE ~(Seconds(clock) < lastTime)
  <2>1. Forced = timer
    BY <1>1 DEF Forced
  <2>2. timer \in Seq(Timer)
    BY Start
  <2>3. ASSUME NEW n \in 1..Len(timer)
        PROVE  timer[n].when \in Nat /\ timer[n].when <= timer[n].when
    <3>1. timer[n] \in Timer
      BY <2>2
    <3> QED BY <3>1 DEF Timer
  <2> QED BY <1>1, <2>1, <2>2, <2>3
<1>2. CASE Seconds(clock) < lastTime
  <2> DEFINE g(n) == IF n \in ToSet(list)
                     THEN [timer[n] EXCEPT !.when = @ % TicksPerSecond] ELSE timer[n]
  <2>1. Forced = [n \in 1..Len(timer) |-> g(n)]
    BY <1>2, Start DEF Forced
  <2>2. ASSUME NEW n \in 1..Len(timer)
        PROVE  /\ g(n) \in Timer /\ g(n).deleted = timer[n].deleted
               /\ g(n).when \in Nat /\ g(n).when <= timer[n].when
               /\ n \in ToSet(list) => g(n).when <= clock
    <3>1. timer[n] \in Timer /\ timer[n].when \in Nat
      <4>1. timer \in Seq(Timer)
        BY Start
      <4>2. timer[n] \in Timer
        BY <4>1
      <4> QED BY <4>2 DEF Timer
    <3>2. /\ timer[n].when % TicksPerSecond \in 0..(TicksPerSecond - 1)
          /\ timer[n].when % TicksPerSecond <= timer[n].when
      BY <3>1, ForcedWhen
    <3>3. CASE n \notin ToSet(list)
      BY <3>1, <3>3
    <3>4. CASE n \in ToSet(list)
      <4> DEFINE w == timer[n].when % TicksPerSecond
      <4>1. w \in Nat /\ w <= clock /\ w <= timer[n].when
        BY <3>2, Start, TimersAssumption
      <4> HIDE DEF w
      <4>2. g(n) = [timer[n] EXCEPT !.when = w]
        BY <3>4 DEF w
      <4>3. g(n) \in Timer /\ g(n).deleted = timer[n].deleted /\ g(n).when = w
        BY <3>1, <4>1, <4>2 DEF Timer
      <4> QED BY <4>1, <4>3
    <3> QED BY <3>3, <3>4
  <2>3. setBacks # 0
    <3>1. Seconds(clock) \in Nat /\ lastTime \in Nat
      BY Start, SecondsMonotone
    <3> QED BY <1>2, <3>1 DEF TimersInv, ClockInv
  <2> HIDE DEF g
  <2>4. Forced \in Seq(Timer) /\ Len(Forced) = Len(timer)
    BY <2>1, <2>2, Start
  <2>5. \A n \in 1..Len(timer) : Forced[n] = g(n)
    BY <2>1
  <2> QED BY <2>2, <2>3, <2>4, <2>5
<1> QED BY <1>1, <1>2

LEMMA BeginWalkStep ==
  ASSUME TimersInv, BeginWalk
  PROVE  TimersInv'
<1>1. /\ ~walk.on /\ timeout = 0 /\ list # <<>>
      /\ timer' = Forced /\ lastTime' = Seconds(clock)
      /\ walk' = [on |-> TRUE, te |-> Head(list), prev |-> NoTimer, maxId |-> Len(timer)]
      /\ fired' = {}
      /\ owed' = {n \in Created : /\ n \notin dropped
                                  /\ asked[n] <= clock \/ Seconds(clock) < lastTime}
      /\ UNCHANGED <<list, timeout, clock, asked, dropped, setBacks>>
  BY DEF BeginWalk
<1>2. /\ timer' \in Seq(Timer) /\ Len(timer') = Len(timer) /\ Created' = Created
      /\ \A n \in 1..Len(timer) :
              /\ timer'[n].deleted = timer[n].deleted
              /\ timer'[n].when \in Nat /\ timer'[n].when <= timer[n].when
              /\ Seconds(clock) < lastTime /\ n \in ToSet(list) => timer'[n].when <= clock
              /\ setBacks = 0 => timer'[n].when = timer[n].when
  BY <1>1, ForcedGood, Start DEF Created
<1>3. ASSUME NEW n \in 1..Len(timer) PROVE n \in ToSet(list) <=> \E i \in DOMAIN list : list[i] = n
  BY ToSetMember
<1>4. GoodLoop(Here, setBacks = 0)'
  <2> DEFINE x == [list |-> list, timer |-> timer', asked |-> asked, dropped |-> dropped]
  <2>1. GoodLoop(x, setBacks = 0)
    <3>1. /\ x.list = list /\ x.timer = timer' /\ x.asked = asked /\ x.dropped = dropped
          /\ DOMAIN x = {"list", "timer", "asked", "dropped"}
      OBVIOUS
    <3> HIDE DEF x
    <3>2. ASSUME NEW n \in 1..Len(timer)
          PROVE  /\ timer'[n].deleted <=> n \in dropped
                 /\ n \notin dropped => n \in ToSet(list)
                 /\ timer'[n].when <= asked[n]
                 /\ setBacks = 0 => timer'[n].when = asked[n]
      <4>1. /\ timer'[n].deleted = timer[n].deleted
            /\ timer'[n].when \in Nat /\ timer'[n].when <= timer[n].when
            /\ setBacks = 0 => timer'[n].when = timer[n].when
        BY <1>2
      <4>2. /\ timer[n].when \in Nat /\ asked[n] \in Nat
            /\ timer[n].deleted <=> n \in dropped
            /\ n \notin dropped => \E i \in DOMAIN list : list[i] = n
            /\ timer[n].when <= asked[n]
            /\ setBacks = 0 => timer[n].when = asked[n]
        BY Start
      <4> QED BY <1>3, <4>1, <4>2
    <3>3. /\ timer' \in Seq(Timer) /\ Len(timer') = Len(timer)
          /\ asked \in Seq(Nat) /\ Len(asked) = Len(timer)
          /\ list \in Seq(1..Len(timer)) /\ Distinct(list)
          /\ dropped \subseteq 1..Len(timer)
      BY <1>2, Start
    <3> QED BY <3>1, <3>2, <3>3 DEF GoodLoop
  <2>2. LoopBecomes(x)
    BY <1>1 DEF LoopBecomes
  <2> QED BY <1>1, <2>1, <2>2, BecomesGood
<1>5. 1 \in DOMAIN list /\ Head(list) = list[1] /\ list[1] \in 1..Len(timer)
  BY <1>1, Start
<1>6. TimersTypeOK'
  <2>1. Seconds(clock) \in Nat
    BY Start, SecondsMonotone
  <2>2. walk' \in [on : BOOLEAN, te : Created' \cup {NoTimer}, prev : Created' \cup {NoTimer},
                   maxId : 0..Len(timer')]
    <3>1. Head(list) \in Created' /\ Len(timer) \in 0..Len(timer')
      BY <1>2, <1>5, Start
    <3> QED BY <1>1, <3>1
  <2>3. fired' \subseteq Created' /\ owed' \subseteq Created'
    BY <1>1, <1>2
  <2> QED BY <1>1, <2>1, <2>2, <2>3 DEF TimersInv, TimersTypeOK
<1>7. /\ walk'.on /\ walk'.te = list[1] /\ walk'.prev = NoTimer /\ walk'.maxId = Len(timer)
  BY <1>1, <1>5
<1>8. ASSUME NEW n \in owed'
      PROVE  timer'[n].when <= clock' /\ \E j \in 1..Len(list') : list'[j] = n
  <2>1. /\ n \in 1..Len(timer) /\ n \notin dropped
        /\ asked[n] <= clock \/ Seconds(clock) < lastTime
    BY <1>1, Start
  <2>2. PICK i \in DOMAIN list : list[i] = n
    BY <2>1, Start
  <2>3. timer'[n].when <= clock
    <3>1. /\ timer[n].when \in Nat /\ asked[n] \in Nat /\ timer[n].when <= asked[n]
          /\ timer'[n].when \in Nat /\ timer'[n].when <= timer[n].when /\ clock \in Nat
          /\ Seconds(clock) < lastTime /\ n \in ToSet(list) => timer'[n].when <= clock
      BY <1>2, <2>1, Start
    <3>2. n \in ToSet(list)
      BY <1>3, <2>1, <2>2
    <3>3. CASE Seconds(clock) < lastTime
      BY <3>1, <3>2, <3>3
    <3>4. CASE asked[n] <= clock
      BY <3>1, <3>4
    <3> QED BY <2>1, <3>3, <3>4
  <2> QED BY <1>1, <2>2, <2>3, Start
<1>9. WalkInv'
  <2>1. StandsAt(1)'
    BY <1>1, <1>5, <1>7, <1>8, Start DEF StandsAt
  <2>2. list[1] # NoTimer
    BY <1>5, TimersAssumption
  <2> QED BY <1>1, <1>5, <1>7, <1>8, <2>1, <2>2 DEF WalkInv
<1>10. ClockInv'
  BY <1>1, Start, SecondsMonotone DEF ClockInv, Seconds
<1> QED BY <1>4, <1>6, <1>9, <1>10 DEF TimersInv

\* Where the walk stands, if it is on a timer
LEMMA Standing ==
  ASSUME TimersInv, walk.on, walk.te # NoTimer
  PROVE  \E i \in 1..Len(list) :
           /\ StandsAt(i) /\ timeout = 0
           /\ walk.te \in 1..Len(timer) /\ walk.te <= walk.maxId /\ walk.te \notin fired
           /\ After(list, walk.te) = (IF i = Len(list) THEN NoTimer ELSE list[i + 1])
           /\ UpTo(list, walk.te) = SubSeq(list, 1, i)
           /\ Behind(list, walk.te) = SubSeq(list, i + 1, Len(list))
           /\ \A n \in owed : n \in fired \/ n \in dropped \/ timer[n].when <= clock
<1>1. PICK i \in DOMAIN list : StandsAt(i)
  BY DEF TimersInv, WalkInv
<1>2. timeout = 0 /\ \A n \in owed : n \in fired \/ n \in dropped \/ timer[n].when <= clock
  BY DEF TimersInv, WalkInv
<1>3. /\ list[i] = walk.te /\ i \in 1..Len(list) /\ i \in i..Len(list)
  BY <1>1, Start DEF StandsAt
<1>4. walk.te \in 1..Len(timer) /\ walk.te <= walk.maxId /\ walk.te \notin fired
  BY <1>1, <1>3, Start DEF StandsAt
<1>5. /\ After(list, walk.te) = (IF i = Len(list) THEN NoTimer ELSE list[i + 1])
      /\ UpTo(list, walk.te) = SubSeq(list, 1, i)
      /\ Behind(list, walk.te) = SubSeq(list, i + 1, Len(list))
  <2> DEFINE S == 1..Len(timer)
  <2>1. list \in Seq(S) /\ Distinct(list) /\ i \in DOMAIN list
    BY <1>1, Start
  <2> HIDE DEF S
  <2>2. /\ UpTo(list, list[i]) = SubSeq(list, 1, i)
        /\ Behind(list, list[i]) = SubSeq(list, i + 1, Len(list))
        /\ After(list, list[i]) = IF i = Len(list) THEN NoTimer ELSE list[i + 1]
    BY <2>1, AtPosition
  <2> QED BY <1>3, <2>2
<1> QED BY <1>1, <1>2, <1>3, <1>4, <1>5

LEMMA PassStep ==
  ASSUME TimersInv, Pass
  PROVE  TimersInv'
<1>1. /\ walk.on /\ walk.te # NoTimer /\ ~timer[walk.te].deleted /\ ~Due(walk.te)
      /\ walk' = [walk EXCEPT !.te = After(list, walk.te),
                              !.prev = IF walk.te > walk.maxId THEN @ ELSE walk.te]
      /\ UNCHANGED <<list, timer, lastTime, timeout, clock, asked, dropped, fired, owed, setBacks>>
  BY DEF Pass
<1>2. PICK i \in 1..Len(list) :
           /\ StandsAt(i) /\ timeout = 0
           /\ walk.te \in 1..Len(timer) /\ walk.te <= walk.maxId /\ walk.te \notin fired
           /\ After(list, walk.te) = (IF i = Len(list) THEN NoTimer ELSE list[i + 1])
           /\ \A n \in owed : n \in fired \/ n \in dropped \/ timer[n].when <= clock
  BY <1>1, Standing
<1>3. /\ walk'.on /\ walk'.te = After(list, walk.te) /\ walk'.prev = walk.te
      /\ walk'.maxId = walk.maxId /\ DOMAIN walk' = DOMAIN walk
  <2>1. walk.te \in Int /\ walk.maxId \in Int /\ walk.te <= walk.maxId
    <3>1. walk.te \in 1..Len(timer) /\ walk.te <= walk.maxId
      BY <1>2
    <3> QED BY <3>1, Sizes
  <2>2. ~(walk.te > walk.maxId)
    BY <2>1
  <2> QED BY <1>1, <2>2, Start
<1>4. walk.te \notin owed
  <2>1. ~(clock >= timer[walk.te].when)
    BY <1>1, <1>2 DEF Due
  <2>2. walk.te \notin dropped /\ timer[walk.te].when \in Nat /\ clock \in Nat
    BY <1>1, <1>2, Start
  <2> QED BY <1>2, <2>1, <2>2
<1>5. After(list, walk.te) \in Created \cup {NoTimer}
  <2>1. i \in 1..Len(list) /\ Len(list) \in Int
    BY <1>2, Sizes
  <2>2. i # Len(list) => i + 1 \in 1..Len(list)
    BY <2>1
  <2> QED BY <1>2, <2>2, Sizes
<1>6. GoodLoop(Here, setBacks = 0)'
  BY <1>1, SameTimers
<1>7. TimersTypeOK'
  <2>1. walk' \in [on : BOOLEAN, te : Created \cup {NoTimer},
                   prev : Created \cup {NoTimer}, maxId : 0..Len(timer)]
    <3>1. walk.te \in Created /\ walk \in [on : BOOLEAN, te : Created \cup {NoTimer},
                   prev : Created \cup {NoTimer}, maxId : 0..Len(timer)]
      BY <1>2, Start DEF TimersInv, TimersTypeOK
    <3> QED BY <1>1, <1>5, <3>1
  <2> QED BY <1>1, <2>1 DEF TimersInv, TimersTypeOK, Created
<1>8. /\ \A j \in i..Len(list) : list[j] <= walk.maxId /\ list[j] \notin fired
      /\ \A n \in owed : n \in fired \/ n \in dropped \/ \E j \in i..Len(list) : list[j] = n
      /\ list[i] = walk.te
  BY <1>2 DEF StandsAt
<1>9. ASSUME NEW n \in owed, n \notin fired, n \notin dropped
      PROVE  \E j \in (i + 1)..Len(list) : list[j] = n
  <2>1. PICK j \in i..Len(list) : list[j] = n
    BY <1>8, <1>9
  <2>2. j # i
    BY <1>4, <1>8, <1>9, <2>1
  <2>3. j \in (i + 1)..Len(list)
    BY <2>1, <2>2, Sizes
  <2> QED BY <2>1, <2>3
<1>10. CASE i = Len(list)
  <2>1. walk'.te = NoTimer
    BY <1>2, <1>3, <1>10
  <2>2. owed \subseteq fired \cup dropped
    BY <1>9, <1>10, Start
  <2>3. WalkInv'
    BY <1>1, <1>2, <2>1, <2>2 DEF WalkInv
  <2> QED BY <1>1, <1>6, <1>7, <2>3 DEF TimersInv, ClockInv, Created, Seconds
<1>11. CASE i # Len(list)
  <2>1. walk'.te = list[i + 1] /\ i + 1 \in DOMAIN list /\ i + 1 > 1 /\ (i + 1) - 1 = i
    <3>1. i + 1 \in DOMAIN list /\ i + 1 > 1 /\ (i + 1) - 1 = i
      <4>1. i \in 1..Len(list) /\ Len(list) \in Int
        BY <1>2, Sizes
      <4>2. i + 1 \in 1..Len(list) /\ i + 1 > 1 /\ (i + 1) - 1 = i
        BY <1>11, <4>1
      <4> QED BY <4>2, Sizes
    <3> QED BY <1>2, <1>3, <1>11, <3>1
  <2>2. walk'.te # NoTimer /\ walk.te # NoTimer
    BY <1>1, <2>1, Start, TimersAssumption
  <2>3. \A j \in (i + 1)..Len(list) : j \in i..Len(list)
    BY Start
  <2>4. StandsAt(i + 1)'
    BY <1>1, <1>3, <1>8, <1>9, <2>1, <2>2, <2>3 DEF StandsAt
  <2>5. WalkInv'
    BY <1>1, <1>2, <2>1, <2>2, <2>4 DEF WalkInv
  <2> QED BY <1>1, <1>6, <1>7, <2>5 DEF TimersInv, ClockInv, Created, Seconds
<1> QED BY <1>10, <1>11

LEMMA EndWalkStep ==
  ASSUME TimersInv, EndWalk
  PROVE  TimersInv'
<1>1. /\ walk' = NoWalk /\ fired' = {} /\ owed' = {}
      /\ UNCHANGED <<list, timer, lastTime, timeout, clock, asked, dropped, setBacks>>
  BY DEF EndWalk
<1>2. GoodLoop(Here, setBacks = 0)'
  BY <1>1, SameTimers
<1>3. TimersTypeOK'
  BY <1>1, Start DEF TimersInv, TimersTypeOK, NoWalk, Created
<1>4. WalkInv'
  BY <1>1 DEF WalkInv, NoWalk
<1>5. ClockInv'
  BY <1>1 DEF TimersInv, ClockInv, Created, Seconds
<1> QED BY <1>2, <1>3, <1>4, <1>5 DEF TimersInv

-----------------------------------------------------------------------------
(* The two steps in which a procedure of the program runs.                 *)

\* StandsAt, of a loop x that is not yet the one of the variables
WalkAt(x, i, te, prev, f) ==
  /\ i \in DOMAIN x.list /\ x.list[i] = te
  /\ \A j \in i..Len(x.list) : x.list[j] <= walk.maxId /\ x.list[j] \notin f
  /\ IF prev = NoTimer THEN i = 1 \/ ~x.timer[te].deleted
     ELSE i > 1 /\ x.list[i - 1] = prev
  /\ \A n \in owed : n \in f \/ n \in x.dropped \/ \E j \in i..Len(x.list) : x.list[j] = n

\* A procedure does not take the walk from its place: a timer it creates comes
\* in front.
LEMMA EffectWalk ==
  ASSUME NEW exact, NEW x, NEW y, GoodLoop(x, exact), GoodLoop(y, exact), Follows(x, y),
         NEW i, NEW te, NEW prev, NEW f, WalkAt(x, i, te, prev, f),
         prev = NoTimer => i = 1,
         prev = NoTimer /\ x.timer[te].deleted => y.list = x.list
  PROVE  \E k \in DOMAIN y.list : WalkAt(y, k, te, prev, f)
<1>1. /\ i \in DOMAIN x.list /\ x.list[i] = te
      /\ \A j \in i..Len(x.list) : x.list[j] <= walk.maxId /\ x.list[j] \notin f
      /\ prev # NoTimer => i > 1 /\ x.list[i - 1] = prev
      /\ \A n \in owed : n \in f \/ n \in x.dropped \/ \E j \in i..Len(x.list) : x.list[j] = n
  BY DEF WalkAt
<1>2. x.dropped \subseteq y.dropped
  BY DEF Follows
<1>3. CASE y.list = x.list
  BY <1>1, <1>2, <1>3 DEF WalkAt
<1>4. CASE y.list # x.list
  <2> DEFINE m == Len(x.timer) + 1
  <2>1. /\ y.list = <<m>> \o x.list
        /\ \A n \in 1..Len(x.timer) : y.timer[n] = x.timer[n]
    BY <1>4 DEF Follows
  <2>2. /\ x.list \in Seq(1..Len(x.timer)) /\ Len(x.list) \in Nat /\ DOMAIN x.list = 1..Len(x.list)
        /\ \A j \in 1..Len(x.list) : x.list[j] \in 1..Len(x.timer)
    BY DEF GoodLoop
  <2> HIDE DEF m
  <2>3. Len(y.list) = Len(x.list) + 1 /\ DOMAIN y.list = 1..(Len(x.list) + 1)
        /\ \A j \in 1..Len(x.list) : y.list[j + 1] = x.list[j]
    <3> DEFINE T == 1..Len(x.timer)
               U == T \cup {m}
    <3>1. x.list \in Seq(T)
      BY <2>2
    <3> HIDE DEF T
    <3>2. x.list \in Seq(U) /\ <<m>> \in Seq(U) /\ Len(<<m>>) = 1
      BY <3>1
    <3> HIDE DEF U
    <3> QED BY <2>1, <2>2, <3>2
  <2>4. i \in 1..Len(x.list) /\ i + 1 \in DOMAIN y.list /\ (i + 1) - 1 = i
    BY <1>1, <2>2, <2>3
  <2>5. y.list[i + 1] = te /\ te \in 1..Len(x.timer)
    BY <1>1, <2>2, <2>3, <2>4
  <2>6. ASSUME NEW j \in (i + 1)..Len(y.list)
        PROVE  j - 1 \in i..Len(x.list) /\ y.list[j] = x.list[j - 1]
    <3>1. j - 1 \in i..Len(x.list) /\ j - 1 \in 1..Len(x.list) /\ (j - 1) + 1 = j
      BY <2>2, <2>3, <2>4
    <3> QED BY <2>3, <3>1
  <2>7. ASSUME NEW j \in i..Len(x.list)
        PROVE  j + 1 \in (i + 1)..Len(y.list) /\ y.list[j + 1] = x.list[j]
    <3>1. j + 1 \in (i + 1)..Len(y.list) /\ j \in 1..Len(x.list)
      BY <2>2, <2>3, <2>4
    <3> QED BY <2>3, <3>1
  <2>8. \A j \in (i + 1)..Len(y.list) : y.list[j] <= walk.maxId /\ y.list[j] \notin f
    BY <1>1, <2>6
  <2>9. IF prev = NoTimer THEN i + 1 = 1 \/ ~y.timer[te].deleted
        ELSE i + 1 > 1 /\ y.list[(i + 1) - 1] = prev
    <3>1. CASE prev = NoTimer
      BY <1>4, <2>1, <2>5, <3>1
    <3>2. CASE prev # NoTimer
      <4>1. i > 1 /\ x.list[i - 1] = prev /\ i - 1 \in 1..Len(x.list) /\ (i - 1) + 1 = i
        BY <1>1, <2>2, <2>4, <3>2
      <4>2. y.list[i] = prev
        BY <2>3, <4>1
      <4> QED BY <2>4, <3>2, <4>1, <4>2
    <3> QED BY <3>1, <3>2
  <2>10. \A n \in owed : n \in f \/ n \in y.dropped \/ \E j \in (i + 1)..Len(y.list) : y.list[j] = n
    BY <1>1, <1>2, <2>7
  <2>11. WalkAt(y, i + 1, te, prev, f)
    BY <2>4, <2>5, <2>8, <2>9, <2>10 DEF WalkAt
  <2> QED BY <2>4, <2>11
<1> QED BY <1>3, <1>4

\* The steps of a walk that change the loop to x and leave the clock alone keep
\* the invariant when the walk still has its place in x.
LEMMA WalkGoesOn ==
  ASSUME TimersInv, walk.on, walk'.on, timeout = 0,
         UNCHANGED <<lastTime, timeout, clock, owed, setBacks>>,
         NEW x, GoodLoop(x, setBacks = 0), LoopBecomes(x), Len(x.timer) >= Len(timer),
         fired' \subseteq Created, walk'.maxId = walk.maxId,
         walk' \in [on : BOOLEAN, te : Created \cup {NoTimer},
                    prev : Created \cup {NoTimer}, maxId : 0..Len(timer)],
         walk'.te # NoTimer =>
           \E k \in DOMAIN x.list : WalkAt(x, k, walk'.te, walk'.prev, fired'),
         walk'.te = NoTimer => owed \subseteq fired' \cup x.dropped,
         \A n \in owed : n \in fired' \/ n \in x.dropped \/ x.timer[n].when <= clock
  PROVE  TimersInv'
<1>1. GoodLoop(Here, setBacks = 0)'
  BY BecomesGood
<1>2. TimersTypeOK'
  BY TypesGrow DEF TimersInv, TimersTypeOK
<1>3. list' = x.list /\ timer' = x.timer /\ dropped' = x.dropped
  BY DEF LoopBecomes
<1>4. WalkInv'
  <2>1. ASSUME walk'.te # NoTimer PROVE \E k \in DOMAIN list' : StandsAt(k)'
    <3>1. PICK k \in DOMAIN x.list : WalkAt(x, k, walk'.te, walk'.prev, fired')
      BY <2>1
    <3>2. StandsAt(k)'
      BY <1>3, <3>1 DEF WalkAt, StandsAt
    <3> QED BY <1>3, <3>2
  <2> QED BY <1>3, <2>1 DEF WalkInv
<1>5. ClockInv'
  BY DEF TimersInv, ClockInv, Created, Seconds
<1> QED BY <1>1, <1>2, <1>4, <1>5 DEF TimersInv

\* A marked timer leaves the list; the walk stands where it was, on the next one.
LEMMA UnlinkedGood ==
  ASSUME TimersInv, walk.on, walk.te # NoTimer, timer[walk.te].deleted,
         NEW i \in 1..Len(list), StandsAt(i),
         After(list, walk.te) = (IF i = Len(list) THEN NoTimer ELSE list[i + 1]),
         Behind(list, walk.te) = SubSeq(list, i + 1, Len(list))
  PROVE  LET y == Unlinked(Here)
         IN  /\ GoodLoop(y, setBacks = 0) /\ y.timer = timer /\ y.dropped = dropped
             /\ walk.prev = NoTimer => i = 1
             /\ i # Len(list) => WalkAt(y, i, list[i + 1], walk.prev, fired)
             /\ i = Len(list) => owed \subseteq fired \cup dropped
<1> DEFINE y == Unlinked(Here)
           q == SubSeq(list, 1, i - 1) \o SubSeq(list, i + 1, Len(list))
           S == 1..Len(timer)
<1>1. /\ list[i] = walk.te
      /\ \A j \in i..Len(list) : list[j] <= walk.maxId /\ list[j] \notin fired
      /\ walk.prev = NoTimer => i = 1
      /\ walk.prev # NoTimer => i > 1 /\ list[i - 1] = walk.prev
      /\ \A n \in owed : n \in fired \/ n \in dropped \/ \E j \in i..Len(list) : list[j] = n
  BY DEF StandsAt
<1>2. list \in Seq(S) /\ Distinct(list) /\ Len(list) \in Nat /\ DOMAIN list = 1..Len(list)
  BY Start
<1>3. walk.te \in dropped
  BY <1>1, Start
<1>4. y.list = q
  <2>1. CASE walk.prev = NoTimer
    <3>1. y.list = <<>> \o SubSeq(list, i + 1, Len(list))
      BY <2>1, HereFields DEF Unlinked
    <3>2. SubSeq(list, 1, i - 1) = <<>>
      BY <1>1, <1>2, <2>1
    <3> QED BY <3>1, <3>2
  <2>2. CASE walk.prev # NoTimer
    <3>1. i - 1 \in DOMAIN list
      <4> DEFINE d == Len(list)
      <4>1. i > 1 /\ i \in 1..d /\ d \in Nat
        BY <1>1, <1>2, <2>2
      <4> HIDE DEF d
      <4>2. i - 1 \in 1..d
        BY <4>1
      <4> QED BY <1>2, <4>2 DEF d
    <3> HIDE DEF S
    <3>2. UpTo(list, list[i - 1]) = SubSeq(list, 1, i - 1)
      BY <1>2, <3>1, AtPosition
    <3>3. y.list = UpTo(list, walk.prev) \o SubSeq(list, i + 1, Len(list))
      BY <2>2, HereFields DEF Unlinked
    <3> QED BY <1>1, <2>2, <3>2, <3>3
  <2> QED BY <2>1, <2>2
<1>5. /\ y.timer = timer /\ y.asked = asked /\ y.dropped = dropped
      /\ DOMAIN y = {"list", "timer", "asked", "dropped"}
  BY HereFields DEF Unlinked
<1> HIDE DEF y, S
<1>6. /\ q \in Seq(S) /\ Len(q) = Len(list) - 1
      /\ \A j \in 1..Len(q) : q[j] = IF j < i THEN list[j] ELSE list[j + 1]
  BY <1>2, WithoutAt
<1> HIDE DEF q
<1> DEFINE m == Len(list)
           from(j) == IF j < i THEN j ELSE j + 1
<1>7. m \in Nat /\ i \in 1..m /\ Len(q) = m - 1 /\ DOMAIN q = 1..(m - 1)
  <2>1. Len(q) = m - 1 /\ m \in Nat /\ q \in Seq(S)
    BY <1>2, <1>6
  <2> QED BY <2>1
<1>8. ASSUME NEW j \in 1..(m - 1)
      PROVE  from(j) \in 1..m /\ q[j] = list[from(j)] /\ from(j) # i /\ from(j) \in Int
  <2>1. q[j] = list[from(j)]
    BY <1>6, <1>7
  <2> HIDE <1>6, <1>2
  <2>2. from(j) \in 1..m /\ from(j) # i /\ from(j) \in Int
    <3> HIDE DEF m
    <3> QED BY <1>7
  <2> QED BY <2>1, <2>2
<1>9. ASSUME NEW k \in 1..m, k # i
      PROVE  \E j \in 1..(m - 1) : q[j] = list[k] /\ (k > i => j >= i)
  <2>1. CASE k < i
    <3>1. k \in 1..(m - 1)
      <4> HIDE DEF m
      <4> QED BY <1>7, <2>1
    <3> QED BY <1>6, <1>7, <2>1, <3>1
  <2>2. CASE k > i
    <3>1. k - 1 \in 1..(m - 1) /\ ~(k - 1 < i) /\ (k - 1) + 1 = k /\ k - 1 >= i
      <4> HIDE DEF m
      <4> QED BY <1>7, <2>2
    <3>2. q[k - 1] = list[k]
      BY <1>6, <1>7, <3>1
    <3> QED BY <3>1, <3>2
  <2>3. k < i \/ k > i
    <3> HIDE DEF m
    <3> QED BY <1>7, <1>9
  <2> QED BY <2>1, <2>2, <2>3
<1>10. Distinct(q)
  <2> SUFFICES ASSUME NEW a \in 1..(m - 1), NEW b \in 1..(m - 1), q[a] = q[b] PROVE a = b
    BY <1>7 DEF Distinct
  <2>1. from(a) = from(b)
    <3>1. from(a) \in DOMAIN list /\ from(b) \in DOMAIN list /\ list[from(a)] = list[from(b)]
      BY <1>2, <1>8
    <3> HIDE DEF from
    <3> QED BY <1>2, <3>1 DEF Distinct
  <2> HIDE DEF m
  <2> QED BY <1>7, <2>1
<1>11. ASSUME NEW n \in 1..Len(timer), n \notin dropped PROVE n \in ToSet(q)
  <2>1. PICK k \in 1..m : list[k] = n
    BY <1>2, <1>11, Start
  <2>2. k # i
    BY <1>1, <1>3, <1>11, <2>1
  <2>3. \E j \in DOMAIN q : q[j] = n
    BY <1>7, <1>9, <2>1, <2>2
  <2> QED BY <2>3, ToSetMember
<1>12. GoodLoop(y, setBacks = 0)
  <2>1. /\ timer \in Seq(Timer) /\ asked \in Seq(Nat) /\ Len(asked) = Len(timer)
        /\ dropped \subseteq 1..Len(timer)
        /\ \A n \in 1..Len(timer) :
             /\ timer[n].deleted <=> n \in dropped
             /\ timer[n].when <= asked[n]
             /\ setBacks = 0 => timer[n].when = asked[n]
    BY Start
  <2>2. q \in Seq(1..Len(timer))
    BY <1>6 DEF S
  <2> QED BY <1>4, <1>5, <1>10, <1>11, <2>1, <2>2 DEF GoodLoop
<1>13. ASSUME NEW n \in owed, n \notin fired, n \notin dropped
       PROVE  \E k \in 1..m : list[k] = n /\ k > i
  <2>1. PICK k \in i..m : list[k] = n
    BY <1>1, <1>13
  <2>2. k # i
    BY <1>1, <1>3, <1>13, <2>1
  <2>3. k \in 1..m /\ k > i
    <3> HIDE DEF m
    <3> QED BY <1>7, <2>1, <2>2
  <2> QED BY <2>1, <2>3
<1>14. i = m => owed \subseteq fired \cup dropped
  <2> SUFFICES ASSUME i = m, NEW n \in owed PROVE n \in fired \/ n \in dropped
    OBVIOUS
  <2>1. \A k \in 1..m : ~(k > i)
    <3> HIDE DEF m
    <3> QED BY <1>7
  <2> QED BY <1>13, <2>1
<1>15. ASSUME i # m PROVE WalkAt(y, i, list[i + 1], walk.prev, fired)
  <2>1. i \in 1..(m - 1) /\ ~(i < i) /\ (i > 1 => i - 1 \in 1..(m - 1) /\ i - 1 < i)
    <3> HIDE DEF m
    <3> QED BY <1>7, <1>15
  <2>2. q[i] = list[i + 1]
    BY <1>6, <1>7, <2>1
  <2>3. i > 1 => q[i - 1] = list[i - 1]
    BY <1>6, <1>7, <2>1
  <2>4. ASSUME NEW j \in i..(m - 1) PROVE q[j] = list[j + 1] /\ j + 1 \in i..m
    <3>1. j \in 1..(m - 1) /\ ~(j < i) /\ j + 1 \in i..m
      <4> HIDE DEF m
      <4> QED BY <1>7
    <3> QED BY <1>6, <1>7, <3>1
  <2>5. ASSUME NEW n \in owed, n \notin fired, n \notin dropped
        PROVE  \E j \in i..(m - 1) : q[j] = n
    <3>1. PICK k \in 1..m : list[k] = n /\ k > i
      BY <1>13, <2>5
    <3>2. k # i
      <4> HIDE DEF m
      <4> QED BY <1>7, <3>1
    <3>3. PICK j \in 1..(m - 1) : q[j] = list[k] /\ j >= i
      BY <1>9, <3>1, <3>2
    <3>4. j \in i..(m - 1)
      <4> HIDE DEF m
      <4> QED BY <1>7, <3>3
    <3> QED BY <3>1, <3>3, <3>4
  <2>6. \A j \in i..(m - 1) : q[j] <= walk.maxId /\ q[j] \notin fired
    BY <1>1, <2>4
  <2>7. i \in DOMAIN q /\ Len(q) = m - 1
    BY <1>7, <2>1
  <2>8. IF walk.prev = NoTimer THEN i = 1 ELSE i > 1 /\ q[i - 1] = walk.prev
    BY <1>1, <2>3
  <2> HIDE DEF m
  <2> QED BY <1>4, <1>5, <2>2, <2>5, <2>6, <2>7, <2>8 DEF WalkAt
<1> QED BY <1>1, <1>5, <1>12, <1>14, <1>15 DEF y

LEMMA UnlinkStep ==
  ASSUME TimersInv, UnlinkTimer
  PROVE  TimersInv'
<1> DEFINE next == After(list, walk.te)
           y == Unlinked(Here)
<1>1. /\ walk.on /\ walk.te # NoTimer /\ timer[walk.te].deleted
      /\ walk' = [walk EXCEPT !.te = next]
      /\ UNCHANGED <<lastTime, timeout, clock, fired, owed, setBacks>>
  BY DEF UnlinkTimer
<1>2. PICK x \in IF Loses(next) THEN {y} ELSE Effects(y) : LoopBecomes(x)
  BY DEF UnlinkTimer
<1>3. PICK i \in 1..Len(list) :
           /\ StandsAt(i) /\ timeout = 0
           /\ next = (IF i = Len(list) THEN NoTimer ELSE list[i + 1])
           /\ Behind(list, walk.te) = SubSeq(list, i + 1, Len(list))
           /\ \A n \in owed : n \in fired \/ n \in dropped \/ timer[n].when <= clock
  BY <1>1, Standing
<1>4. /\ GoodLoop(y, setBacks = 0) /\ y.timer = timer /\ y.dropped = dropped
      /\ walk.prev = NoTimer => i = 1
      /\ i # Len(list) => WalkAt(y, i, list[i + 1], walk.prev, fired)
      /\ i = Len(list) => owed \subseteq fired \cup dropped
  BY <1>1, <1>3, UnlinkedGood
<1> HIDE DEF y
<1>5. GoodLoop(x, setBacks = 0) /\ Follows(y, x) /\ (Loses(next) => x = y)
  <2>1. Follows(y, y)
    <3>1. Len(y.timer) \in Nat
      BY <1>4, Start
    <3> QED BY <3>1 DEF Follows
  <2> DEFINE e == setBacks = 0
  <2>2. clock \in Nat /\ GoodLoop(y, e) /\ e \in BOOLEAN
    BY <1>4, Start
  <2> HIDE DEF e
  <2>3. x = y \/ (~Loses(next) /\ x \in Effects(y))
    BY <1>2
  <2>4. GoodLoop(x, e) /\ Follows(y, x)
    BY <2>1, <2>2, <2>3, EffectsGood
  <2> QED BY <1>2, <2>4 DEF e
<1>6. /\ walk'.on /\ walk'.te = next /\ walk'.prev = walk.prev /\ walk'.maxId = walk.maxId
  BY <1>1, Start
<1>7. next \in Created \cup {NoTimer}
  <2>1. i \in 1..Len(list) /\ Len(list) \in Int
    BY <1>3, Sizes
  <2>2. i # Len(list) => i + 1 \in 1..Len(list)
    BY <2>1
  <2> QED BY <1>3, <2>2, Sizes
<1>8. walk' \in [on : BOOLEAN, te : Created \cup {NoTimer},
                 prev : Created \cup {NoTimer}, maxId : 0..Len(timer)]
  <2>1. walk \in [on : BOOLEAN, te : Created \cup {NoTimer},
                  prev : Created \cup {NoTimer}, maxId : 0..Len(timer)]
    BY DEF TimersInv, TimersTypeOK
  <2> HIDE DEF next
  <2> QED BY <1>1, <1>7, <2>1
<1>9. fired' \subseteq Created
  BY <1>1 DEF TimersInv, TimersTypeOK
<1>10. dropped \subseteq x.dropped /\ Len(x.timer) >= Len(timer)
       /\ \A n \in 1..Len(timer) : x.timer[n].when = timer[n].when
  BY <1>4, <1>5 DEF Follows
<1>11. \A n \in owed : n \in fired' \/ n \in x.dropped \/ x.timer[n].when <= clock
  <2>1. owed \subseteq 1..Len(timer)
    BY Sizes DEF TimersInv, TimersTypeOK
  <2> QED BY <1>1, <1>3, <1>10, <2>1
<1>12. ASSUME walk'.te # NoTimer
       PROVE  \E k \in DOMAIN x.list : WalkAt(x, k, walk'.te, walk'.prev, fired')
  <2>1. i # Len(list) /\ next = list[i + 1]
    BY <1>3, <1>6, <1>12
  <2>2. WalkAt(y, i, next, walk.prev, fired)
    BY <1>4, <2>1
  <2>3. walk.prev = NoTimer /\ y.timer[next].deleted => x.list = y.list
    BY <1>4, <1>5, <1>6, <1>12 DEF Loses
  <2> HIDE DEF next
  <2> DEFINE e == setBacks = 0
  <2>4. GoodLoop(x, e) /\ GoodLoop(y, e)
    BY <1>4, <1>5
  <2> HIDE DEF e
  <2>5. \E k \in DOMAIN x.list : WalkAt(x, k, next, walk.prev, fired)
    BY <1>4, <1>5, <2>2, <2>3, <2>4, EffectWalk
  <2> QED BY <1>1, <1>6, <2>5
<1>13. ASSUME walk'.te = NoTimer PROVE owed \subseteq fired' \cup x.dropped
  <2>1. ASSUME i # Len(list) PROVE FALSE
    <3>1. i + 1 \in 1..Len(list)
      <4>1. i \in 1..Len(list) /\ Len(list) \in Int
        BY <1>3, Sizes
      <4> QED BY <2>1, <4>1
    <3>2. list[i + 1] \in Nat
      BY <3>1, Sizes
    <3> QED BY <1>3, <1>6, <1>13, <2>1, <3>2, TimersAssumption
  <2> QED BY <1>1, <1>4, <1>10, <2>1
<1> HIDE DEF next
<1> QED
  BY <1>1, <1>2, <1>3, <1>5, <1>6, <1>8, <1>9, <1>10, <1>11, <1>12, <1>13, WalkGoesOn

\* The timer asks to be called again.
LEMMA AgainGood ==
  ASSUME clock \in Nat, NEW exact \in BOOLEAN, NEW x, GoodLoop(x, exact),
         NEW n \in 1..Len(x.timer), NEW delay \in Nat
  PROVE  LET y == Again(x, n, delay)
         IN  /\ GoodLoop(y, exact) /\ y.list = x.list /\ y.dropped = x.dropped
             /\ Len(y.timer) = Len(x.timer)
             /\ \A k \in 1..Len(x.timer) : k # n => y.timer[k].when = x.timer[k].when
<1> DEFINE y == Again(x, n, delay)
           w == clock + delay
<1>1. /\ x.timer \in Seq(Timer) /\ x.asked \in Seq(Nat) /\ Len(x.asked) = Len(x.timer)
      /\ x.list \in Seq(1..Len(x.timer)) /\ Distinct(x.list)
      /\ x.dropped \subseteq 1..Len(x.timer)
  BY DEF GoodLoop
<1>2. w \in Nat
  OBVIOUS
<1> HIDE DEF w
<1>3. /\ y.list = x.list /\ y.dropped = x.dropped
      /\ y.timer = [x.timer EXCEPT ![n].when = w] /\ y.asked = [x.asked EXCEPT ![n] = w]
      /\ DOMAIN y = {"list", "timer", "asked", "dropped"}
  BY DEF Again, GoodLoop, w
<1> HIDE DEF y
<1>4. \A k \in 1..Len(x.timer) : x.timer[k] \in Timer
  BY <1>1
<1>5. [x.timer[n] EXCEPT !.when = w] \in Timer
  BY <1>2, <1>4 DEF Timer
<1>6. /\ y.timer \in Seq(Timer) /\ Len(y.timer) = Len(x.timer)
      /\ \A k \in 1..Len(x.timer) : k # n => y.timer[k] = x.timer[k]
      /\ y.timer[n] = [x.timer[n] EXCEPT !.when = w]
  BY <1>1, <1>3, <1>5
<1>7. y.timer[n].when = w /\ y.timer[n].deleted = x.timer[n].deleted
  BY <1>4, <1>6 DEF Timer
<1>8. /\ y.asked \in Seq(Nat) /\ Len(y.asked) = Len(x.timer) /\ y.asked[n] = w
      /\ \A k \in 1..Len(x.timer) : k # n => y.asked[k] = x.asked[k]
  BY <1>1, <1>2, <1>3
<1>9. w <= w
  BY <1>2
<1>10. ASSUME NEW k \in 1..Len(y.timer)
       PROVE  /\ y.timer[k].deleted <=> k \in y.dropped
              /\ k \notin y.dropped => k \in ToSet(y.list)
              /\ y.timer[k].when <= y.asked[k]
              /\ exact => y.timer[k].when = y.asked[k]
  BY <1>3, <1>6, <1>7, <1>8, <1>9 DEF GoodLoop
<1>11. GoodLoop(y, exact)
  BY <1>1, <1>3, <1>6, <1>8, <1>10 DEF GoodLoop
<1> QED BY <1>3, <1>6, <1>11 DEF y

LEMMA CallStep ==
  ASSUME TimersInv, Call
  PROVE  TimersInv'
<1> DEFINE n == walk.te
           next == After(list, n)
<1>1. /\ walk.on /\ n # NoTimer /\ ~timer[n].deleted /\ Due(n)
      /\ walk' = [walk EXCEPT !.te = next, !.prev = n]
      /\ fired' = fired \cup {n}
      /\ UNCHANGED <<lastTime, timeout, clock, owed, setBacks>>
  BY DEF Call
<1>2. PICK y \in Effects(Here) :
           \/ LoopBecomes(NoMore(y, n))
           \/ \E delay \in Delays : clock + delay <= MaxTime /\ LoopBecomes(Again(y, n, delay))
  BY DEF Call
<1>3. PICK i \in 1..Len(list) :
           /\ StandsAt(i) /\ timeout = 0 /\ n \in 1..Len(timer)
           /\ next = (IF i = Len(list) THEN NoTimer ELSE list[i + 1])
           /\ \A k \in owed : k \in fired \/ k \in dropped \/ timer[k].when <= clock
  BY <1>1, Standing
<1> DEFINE e == setBacks = 0
<1>4. clock \in Nat /\ GoodLoop(Here, e) /\ e \in BOOLEAN
  BY Start DEF TimersInv
<1> HIDE DEF e, next
<1>5. GoodLoop(y, e) /\ Follows(Here, y)
  BY <1>2, <1>4, EffectsGood
<1>6. /\ dropped \subseteq y.dropped /\ Len(y.timer) >= Len(timer)
      /\ \A k \in 1..Len(timer) : y.timer[k].when = timer[k].when
  BY <1>5, HereFields DEF Follows
<1>7. n \in 1..Len(y.timer)
  <2>1. Len(y.timer) \in Nat /\ Len(timer) \in Nat
    BY <1>5, Start DEF GoodLoop
  <2> HIDE DEF n
  <2> QED BY <1>3, <1>6, <2>1
<1>8. PICK x : /\ LoopBecomes(x) /\ GoodLoop(x, e) /\ x.list = y.list /\ y.dropped \subseteq x.dropped
               /\ Len(x.timer) = Len(y.timer)
               /\ \A k \in 1..Len(y.timer) : k # n => x.timer[k].when = y.timer[k].when
  <2> HIDE DEF n
  <2>1. CASE LoopBecomes(NoMore(y, n))
    <3>1. GoodLoop(NoMore(y, n), e)
      BY <1>4, <1>5, <1>7, DeleteGood
    <3>2. /\ NoMore(y, n).list = y.list /\ NoMore(y, n).dropped = y.dropped \cup {n}
          /\ NoMore(y, n).timer = [y.timer EXCEPT ![n].deleted = TRUE]
      BY <1>5 DEF NoMore, GoodLoop
    <3>3. /\ Len(NoMore(y, n).timer) = Len(y.timer)
          /\ \A k \in 1..Len(y.timer) : k # n => NoMore(y, n).timer[k].when = y.timer[k].when
      BY <1>5, <3>2 DEF GoodLoop
    <3> QED BY <2>1, <3>1, <3>2, <3>3
  <2>2. CASE \E delay \in Delays : LoopBecomes(Again(y, n, delay))
    <3>1. PICK delay \in Delays : LoopBecomes(Again(y, n, delay))
      BY <2>2
    <3>2. delay \in Nat
      BY TimersAssumption
    <3> QED BY <1>4, <1>5, <1>7, <3>1, <3>2, AgainGood
  <2> QED BY <1>2, <2>1, <2>2
<1>9. /\ walk'.on /\ walk'.te = next /\ walk'.prev = n /\ walk'.maxId = walk.maxId
  BY <1>1, Start
<1>10. i \in Int /\ i >= 1 /\ i <= Len(list) /\ Len(list) \in Int
       /\ (i # Len(list) => i + 1 \in 1..Len(list))
  <2>1. i \in 1..Len(list) /\ Len(list) \in Int
    BY <1>3, Sizes
  <2> QED BY <2>1
<1>11. next \in Created \cup {NoTimer} /\ (i # Len(list) => next \in Created)
  BY <1>3, <1>10, Sizes
<1>12. walk' \in [on : BOOLEAN, te : Created \cup {NoTimer},
                  prev : Created \cup {NoTimer}, maxId : 0..Len(timer)]
  <2>1. walk \in [on : BOOLEAN, te : Created \cup {NoTimer},
                  prev : Created \cup {NoTimer}, maxId : 0..Len(timer)]
    BY DEF TimersInv, TimersTypeOK
  <2>2. n \in Created
    BY <1>3, Sizes
  <2> HIDE DEF n
  <2> QED BY <1>1, <1>11, <2>1, <2>2
<1>13. fired' \subseteq Created
  <2>1. fired \subseteq Created /\ n \in Created
    BY <1>3, Sizes DEF TimersInv, TimersTypeOK
  <2> QED BY <1>1, <2>1
<1>14. Len(x.timer) >= Len(timer) /\ dropped \subseteq x.dropped
  BY <1>6, <1>8
<1>15. \A k \in owed : k \in fired' \/ k \in x.dropped \/ x.timer[k].when <= clock
  <2>1. owed \subseteq 1..Len(timer) /\ 1..Len(timer) \subseteq 1..Len(y.timer)
    <3>1. owed \subseteq 1..Len(timer) /\ Len(timer) \in Nat
      BY Sizes, Start DEF TimersInv, TimersTypeOK
    <3>2. Len(y.timer) \in Nat
      BY <1>5 DEF GoodLoop
    <3> QED BY <1>6, <3>1, <3>2
  <2>2. ASSUME NEW k \in owed, k \notin fired', k \notin x.dropped PROVE x.timer[k].when <= clock
    <3>1. k \notin fired /\ k # n /\ k \notin dropped
      BY <1>1, <1>14, <2>2
    <3>2. x.timer[k].when = timer[k].when
      BY <1>6, <1>8, <2>1, <3>1
    <3> QED BY <1>3, <3>1, <3>2
  <2> QED BY <2>2
<1>16. /\ list[i] = n
       /\ \A j \in i..Len(list) : list[j] <= walk.maxId /\ list[j] \notin fired
       /\ \A k \in owed : k \in fired \/ k \in dropped \/ \E j \in i..Len(list) : list[j] = k
  BY <1>3 DEF StandsAt
<1>17. ASSUME NEW k \in owed, k \notin fired', k \notin dropped
       PROVE  i # Len(list) /\ \E j \in (i + 1)..Len(list) : list[j] = k
  <2>1. k \notin fired /\ k # n
    BY <1>1, <1>17
  <2>2. PICK j \in i..Len(list) : list[j] = k
    BY <1>16, <1>17, <2>1
  <2>3. j # i
    BY <1>16, <2>1, <2>2
  <2>4. j \in (i + 1)..Len(list) /\ i # Len(list)
    <3> DEFINE m == Len(list)
    <3>1. i \in Int /\ m \in Int /\ j \in i..m
      BY <1>10, <2>2
    <3> HIDE DEF m
    <3>2. j \in (i + 1)..m /\ i # m
      BY <2>3, <3>1
    <3> QED BY <3>2 DEF m
  <2> QED BY <2>2, <2>4
<1>18. ASSUME walk'.te # NoTimer
       PROVE  \E k \in DOMAIN x.list : WalkAt(x, k, walk'.te, walk'.prev, fired')
  <2>1. i # Len(list) /\ next = list[i + 1] /\ i + 1 \in DOMAIN list /\ (i + 1) - 1 = i /\ i + 1 > 1
    <3>1. i # Len(list) /\ next = list[i + 1]
      BY <1>3, <1>9, <1>18
    <3>2. i + 1 \in 1..Len(list) /\ i \in Int /\ i >= 1
      BY <1>10, <3>1
    <3>3. (i + 1) - 1 = i /\ i + 1 > 1
      BY <3>2
    <3> QED BY <3>1, <3>2, <3>3, Sizes
  <2>2. ASSUME NEW j \in (i + 1)..Len(list) PROVE list[j] <= walk.maxId /\ list[j] \notin fired'
    <3>1. j \in i..Len(list) /\ j \in DOMAIN list /\ i \in DOMAIN list /\ j # i
      <4> DEFINE m == Len(list)
      <4>1. i \in Int /\ i >= 1 /\ m \in Int /\ i <= m /\ j \in (i + 1)..m
        BY <1>10
      <4>2. DOMAIN list = 1..m
        BY Sizes
      <4> HIDE DEF m
      <4>3. j \in i..m /\ j \in 1..m /\ i \in 1..m /\ j # i
        BY <4>1
      <4> QED BY <4>2, <4>3 DEF m
    <3>2. list[j] # n
      BY <1>16, <3>1, Start DEF Distinct
    <3> QED BY <1>1, <1>16, <3>1, <3>2
  <2>3. WalkAt(Here, i + 1, next, n, fired')
    <3> HIDE DEF n
    <3>1. list[(i + 1) - 1] = n
      BY <1>16, <2>1
    <3> QED BY <1>1, <1>17, <2>1, <2>2, <3>1, HereFields DEF WalkAt
  <2> DEFINE f == fired'
  <2>4. WalkAt(Here, i + 1, next, n, f)
    BY <2>3
  <2> HIDE DEF f, n
  <2>5. PICK k \in DOMAIN y.list : WalkAt(y, k, next, n, f)
    BY <1>1, <1>4, <1>5, <2>4, EffectWalk DEF n
  <2>6. WalkAt(x, k, next, n, f)
    BY <1>1, <1>8, <2>5 DEF WalkAt, n
  <2> QED BY <1>8, <1>9, <2>5, <2>6 DEF f, n
<1>19. ASSUME walk'.te = NoTimer PROVE owed \subseteq fired' \cup x.dropped
  <2>1. ASSUME i # Len(list) PROVE FALSE
    <3>1. next \in Nat
      <4>1. next \in 1..Len(timer) /\ Len(timer) \in Int
        BY <1>11, <2>1, Sizes
      <4> QED BY <4>1
    <3> QED BY <1>9, <1>19, <3>1, TimersAssumption
  <2> QED BY <1>14, <1>17, <2>1
<1>20. GoodLoop(x, setBacks = 0)
  BY <1>8 DEF e
<1> HIDE DEF n
<1> QED
  BY <1>1, <1>3, <1>8, <1>9, <1>12, <1>13, <1>14, <1>15, <1>18, <1>19, <1>20, WalkGoesOn

LEMMA TimersStep ==
  ASSUME TimersInv, [TimersNext]_tvars
  PROVE  TimersInv'
<1>1. CASE UNCHANGED tvars
  <2>1. UNCHANGED <<list, timer, lastTime, walk, timeout, clock, asked, dropped, fired, owed, setBacks>>
    BY <1>1 DEF tvars
  <2>2. GoodLoop(Here, setBacks = 0)'
    BY <2>1, SameTimers
  <2>3. TimersTypeOK'
    BY <2>1 DEF TimersInv, TimersTypeOK, Created
  <2>4. WalkInv'
    <3>1. walk.on => timeout' = 0
      BY <2>1 DEF TimersInv, WalkInv
    <3>2. clock \in Nat /\ clock' \in Nat /\ clock' >= clock /\ \A n \in owed : timer[n].when \in Nat
      BY <2>1, Start DEF TimersInv, TimersTypeOK
    <3> QED BY <2>1, <3>1, <3>2, SameWalk
  <2>5. ClockInv'
    BY <2>1 DEF TimersInv, ClockInv, Created, Seconds
  <2> QED BY <2>2, <2>3, <2>4, <2>5 DEF TimersInv
<1> QED
  BY <1>1, BeginWalkStep, UnlinkStep, PassStep, CallStep, EndWalkStep, FileEventStep, PollStep,
     WakeStep, TickStep, SetBackStep DEF TimersNext, Walk

-----------------------------------------------------------------------------

\* Whatever the procedures do to the list while it is walked, the walk calls every
\* timer that was due, and aeProcessEvents does not sleep past one unless the
\* clock was set back.
THEOREM WalksCallWhatIsDue ==
  TimersSpec => []DueAreCalled
<1>1. TimersInit => TimersInv
  BY InitTimers
<1>2. TimersInv /\ [TimersNext]_tvars => TimersInv'
  BY TimersStep
<1>3. TimersInv => DueAreCalled
  <2> SUFFICES ASSUME TimersInv PROVE DueAreCalled
    OBVIOUS
  <2>1. walk.on /\ walk.te = NoTimer => owed \subseteq fired \cup dropped
    BY DEF TimersInv, WalkInv
  <2>2. ASSUME timeout # 0, setBacks = 0, NEW n \in Created \ dropped
        PROVE  timeout # Forever /\ clock + timeout <= Max({clock, asked[n]})
    <3>1. timeout > 0 /\ clock + timeout <= asked[n] /\ timeout \in Int /\ clock \in Nat /\ asked[n] \in Nat
      BY <2>2, Start DEF TimersInv, ClockInv
    <3>2. Max({clock, asked[n]}) = IF clock >= asked[n] THEN clock ELSE asked[n]
      BY <3>1, MaxOfTwo
    <3> QED BY <3>1, <3>2 DEF Forever
  <2> QED BY <2>1, <2>2 DEF DueAreCalled
<1> QED BY <1>1, <1>2, <1>3, PTL DEF TimersSpec

\* processTimeEvents calls no timer that was deleted, none younger than the walk,
\* none twice in a walk and, unless the clock was set back, none before its time.
THEOREM WalksCallRightly ==
  TimersSpec => CalledRightly
<1> DEFINE A == /\ \A n \in fired' \ fired : /\ n \notin dropped /\ n <= walk.maxId
                                             /\ asked[n] <= clock \/ setBacks > 0
                /\ Call => walk.te \notin fired
<1>1. TimersInit => TimersInv
  BY InitTimers
<1>2. TimersInv /\ [TimersNext]_tvars => TimersInv'
  BY TimersStep
<1>3. TimersInv /\ [TimersNext]_tvars => [A]_tvars
  <2> SUFFICES ASSUME TimersInv, TimersNext PROVE A
    OBVIOUS
  <2>1. ASSUME Call PROVE A
    <3>1. /\ walk.on /\ walk.te # NoTimer /\ ~timer[walk.te].deleted /\ Due(walk.te)
          /\ fired' = fired \cup {walk.te}
      BY <2>1 DEF Call
    <3>2. walk.te \in 1..Len(timer) /\ walk.te \notin fired
      BY <3>1, Standing
    <3>3. walk.te \notin dropped /\ walk.te <= walk.maxId /\ clock >= timer[walk.te].when
      BY <3>1, <3>2, Start DEF Due
    <3>4. asked[walk.te] <= clock \/ setBacks > 0
      <4>1. setBacks \in Nat /\ (setBacks = 0 => timer[walk.te].when = asked[walk.te])
            /\ timer[walk.te].when \in Nat /\ clock \in Nat
        BY <3>2, Start
      <4> QED BY <3>3, <4>1
    <3> QED BY <3>1, <3>2, <3>3, <3>4
  <2>2. ASSUME ~Call PROVE fired' \subseteq fired
    BY <2>2 DEF TimersNext, Walk, BeginWalk, UnlinkTimer, Pass, EndWalk, FileEvent, Poll, Wake, Tick, SetBack
  <2> QED BY <2>1, <2>2
<1> QED BY <1>1, <1>2, <1>3, PTL DEF TimersSpec, CalledRightly
=============================================================================
