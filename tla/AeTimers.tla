------------------------------ MODULE AeTimers -------------------------------
(***************************************************************************)
(* The time events of ae.c: an unsorted list that processTimeEvents walks  *)
(* once per turn of the loop.  The procedures it calls in the middle of    *)
(* the walk create timers (at the head), delete them (a mark; a later walk *)
(* unlinks) and say when they want to be called again; and the wall clock  *)
(* the list is kept in may be set back.                                    *)
(*                                                                         *)
(* Time is counted in ticks, TicksPerSecond of them to what time(NULL)     *)
(* tells apart; the pair (when_sec, when_ms) is one number of ticks.       *)
(***************************************************************************)
EXTENDS Integers, Sequences, SequencesExt

CONSTANTS
  TicksPerSecond,
  Delays,          \* what timers ask for, at creation or by their return value
  MaxIds,          \* bound on the timers created
  MaxTime,         \* the clock stops here, and no timer is set beyond
  MaxSetBacks,     \* bound on the times the clock is set back
  NoTimer          \* NULL

\* What the constants have to be.
ASSUME TimersAssumption ==
  /\ TicksPerSecond \in Nat \ {0}
  /\ Delays \subseteq Nat
  /\ {MaxIds, MaxTime, MaxSetBacks} \subseteq Nat
  /\ TicksPerSecond <= MaxTime
  /\ NoTimer \notin Nat

VARIABLES
  list,        \* the timers from timeEventHead on, by number of creation
  timer,       \* what they hold: [deleted, when]
  lastTime,    \* eventLoop->lastTime, in seconds
  walk,        \* processTimeEvents: [on, te, prev, maxId]
  timeout,     \* what is left of the timeout of aeApiPoll
  clock,       \* gettimeofday
  asked,       \* for the properties: when each timer asked to be called,
  dropped,     \* the timers that were deleted or said AE_NOMORE,
  fired,       \* the timers called in this walk and those it should call,
  owed,
  setBacks     \* and how often the clock was set back

tvars == <<list, timer, lastTime, walk, timeout, clock, asked, dropped, fired, owed, setBacks>>

Ids == 1..MaxIds
Created == DOMAIN timer
Seconds(t) == t \div TicksPerSecond
Forever == -1

NoWalk == [on |-> FALSE, te |-> NoTimer, prev |-> NoTimer, maxId |-> 0]

TimersInit ==
  /\ list = <<>> /\ timer = <<>> /\ asked = <<>>
  /\ walk = NoWalk /\ timeout = 0
  /\ clock = TicksPerSecond /\ lastTime = 1
  /\ dropped = {} /\ fired = {} /\ owed = {} /\ setBacks = 0

\* The timers behind n in a list
Behind(l, n) == SubSeq(l, (CHOOSE i \in DOMAIN l : l[i] = n) + 1, Len(l))
UpTo(l, n)   == SubSeq(l, 1, CHOOSE i \in DOMAIN l : l[i] = n)
After(l, n)  == IF Behind(l, n) = <<>> THEN NoTimer ELSE Head(Behind(l, n))

\* A loop with timers in it: what its calls change, as one record.
Here == [list |-> list, timer |-> timer, asked |-> asked, dropped |-> dropped]
LoopBecomes(x) == /\ list' = x.list /\ timer' = x.timer
                  /\ asked' = x.asked /\ dropped' = x.dropped

\* aeCreateTimeEvent: the new timer goes to the head.
aeCreateTimeEvent(x, delay) ==
  [x EXCEPT !.list  = <<Len(x.timer) + 1>> \o @,
            !.timer = Append(@, [deleted |-> FALSE, when |-> clock + delay]),
            !.asked = Append(@, clock + delay)]
CanCreate(x, delay) == Len(x.timer) < MaxIds /\ clock + delay <= MaxTime

\* aeDeleteTimeEvent: the id becomes AE_DELETED_EVENT_ID.
aeDeleteTimeEvent(x, n) ==
  [x EXCEPT !.timer[n].deleted = TRUE, !.dropped = @ \cup {n}]
CanDelete(x) == {n \in Ids : n \in ToSet(x.list) /\ ~x.timer[n].deleted}

\* What a procedure of the program may do: create a timer or delete one.
Effects(x) ==
  {x} \cup {aeCreateTimeEvent(x, delay) : delay \in {e \in Delays : CanCreate(x, e)}}
      \cup {aeDeleteTimeEvent(x, n) : n \in CanDelete(x)}

-----------------------------------------------------------------------------

\* The handlers of file events, between two walks
FileEvent ==
  /\ ~walk.on /\ timeout = 0
  /\ \E x \in Effects(Here) : LoopBecomes(x)
  /\ UNCHANGED <<lastTime, walk, timeout, clock, fired, owed, setBacks>>

\* aeSearchNearestTimer; timers marked as deleted count.
aeSearchNearestTimer == Min({timer[n].when : n \in ToSet(list)})

\* aeProcessEvents goes to sleep until then, or for ever.
Poll ==
  /\ ~walk.on /\ timeout = 0 /\ fired = {}
  /\ timeout' = IF list = <<>> THEN Forever ELSE Max({0, aeSearchNearestTimer - clock})
  /\ timeout' # 0
  /\ UNCHANGED <<list, timer, lastTime, walk, clock, asked, dropped, fired, owed, setBacks>>

\* A file event ends the sleep before its time.
Wake ==
  /\ timeout # 0 /\ timeout' = 0
  /\ UNCHANGED <<list, timer, lastTime, walk, clock, asked, dropped, fired, owed, setBacks>>

\* The head of processTimeEvents: when the clock is behind the last walk, every
\* timer is made due.
Forced ==
  IF Seconds(clock) < lastTime
  THEN [n \in Created |-> IF n \in ToSet(list)
                          THEN [timer[n] EXCEPT !.when = @ % TicksPerSecond] ELSE timer[n]]
  ELSE timer

BeginWalk ==
  /\ ~walk.on /\ timeout = 0 /\ list # <<>>
  /\ timer' = Forced /\ lastTime' = Seconds(clock)
  /\ walk' = [on |-> TRUE, te |-> Head(list), prev |-> NoTimer, maxId |-> Len(timer)]
  /\ fired' = {}
  /\ owed' = {n \in Created : /\ n \notin dropped
                              /\ asked[n] <= clock \/ Seconds(clock) < lastTime}
  /\ UNCHANGED <<list, timeout, clock, asked, dropped, setBacks>>

\* Fault: the timers before the marked one are taken for removed as well.
UnlinkedAsHead(x) == [x EXCEPT !.list = Behind(x.list, walk.te)]

\* The list without te: what follows it is linked to prev, or made the head.
Unlinked(x) ==
  LET before == IF walk.prev = NoTimer THEN <<>> ELSE UpTo(x.list, walk.prev)
  IN  [x EXCEPT !.list = before \o Behind(x.list, walk.te)]

\* A marked timer is unlinked, then its finalizer runs.  A finalizer that creates
\* a timer while the head and its successor are both removed loses it: the
\* successor's removal makes what follows it the head.  That is not done here.
Loses(next) == walk.prev = NoTimer /\ next # NoTimer /\ timer[next].deleted
UnlinkTimer ==
  LET next == After(list, walk.te)
  IN  /\ walk.on /\ walk.te # NoTimer /\ timer[walk.te].deleted
      /\ \E x \in IF Loses(next) THEN {Unlinked(Here)} ELSE Effects(Unlinked(Here)) : LoopBecomes(x)
      /\ walk' = [walk EXCEPT !.te = next]
      /\ UNCHANGED <<lastTime, timeout, clock, fired, owed, setBacks>>

Due(n) == n <= walk.maxId /\ clock >= timer[n].when

\* A timer whose time has not come, or that is younger than the walk
Pass ==
  /\ walk.on /\ walk.te # NoTimer /\ ~timer[walk.te].deleted /\ ~Due(walk.te)
  /\ walk' = [walk EXCEPT !.te = After(list, walk.te),
                          !.prev = IF walk.te > walk.maxId THEN @ ELSE walk.te]
  /\ UNCHANGED <<list, timer, lastTime, timeout, clock, asked, dropped, fired, owed, setBacks>>

\* The timer is called; it asks to be called again, or says AE_NOMORE.

\* Fault: the id saved before the call is put back.
AgainWithId(x, n, delay) ==
  [x EXCEPT !.timer[n] = [deleted |-> FALSE, when |-> clock + delay], !.asked[n] = clock + delay]

Again(x, n, delay) == [x EXCEPT !.timer[n].when = clock + delay, !.asked[n] = clock + delay]
NoMore(x, n) == [x EXCEPT !.timer[n].deleted = TRUE, !.dropped = @ \cup {n}]

Call ==
  LET n == walk.te
  IN  /\ walk.on /\ n # NoTimer /\ ~timer[n].deleted /\ Due(n)
      /\ \E x \in Effects(Here) :
           \/ LoopBecomes(NoMore(x, n))
           \/ \E delay \in Delays : clock + delay <= MaxTime /\ LoopBecomes(Again(x, n, delay))
      /\ walk' = [walk EXCEPT !.te = After(list, n), !.prev = n]
      /\ fired' = fired \cup {n}
      /\ UNCHANGED <<lastTime, timeout, clock, owed, setBacks>>

EndWalk ==
  /\ walk.on /\ walk.te = NoTimer
  /\ walk' = NoWalk /\ fired' = {} /\ owed' = {}
  /\ UNCHANGED <<list, timer, lastTime, timeout, clock, asked, dropped, setBacks>>

\* Time passes, also for a loop that sleeps.
Tick ==
  /\ clock < MaxTime \/ timeout > 0
  /\ clock' = Min({clock + 1, MaxTime})
  /\ timeout' = IF timeout > 0 THEN timeout - 1 ELSE timeout
  /\ UNCHANGED <<list, timer, lastTime, walk, asked, dropped, fired, owed, setBacks>>

\* The administrator, or the time service, sets the clock back.
SetBack(t) ==
  /\ setBacks < MaxSetBacks /\ t < clock
  /\ clock' = t /\ setBacks' = setBacks + 1 /\ owed' = {}
  /\ UNCHANGED <<list, timer, lastTime, walk, timeout, asked, dropped, fired>>

\* processTimeEvents
Walk == BeginWalk \/ UnlinkTimer \/ Pass \/ Call \/ EndWalk

TimersNext == Walk \/ FileEvent \/ Poll \/ Wake \/ Tick
              \/ \E t \in TicksPerSecond..(MaxTime - 1) : SetBack(t)

TimersSpec == TimersInit /\ [][TimersNext]_tvars

-----------------------------------------------------------------------------

\* A procedure is called for a timer only while nobody has deleted it, not even
\* the procedure itself in a call that asked for another one; never for a timer
\* created in the same walk, never twice in a walk, and before its time only
\* after the clock was set back.
CalledRightly ==
  [][/\ \A n \in fired' \ fired : /\ n \notin dropped /\ n <= walk.maxId
                                  /\ asked[n] <= clock \/ setBacks > 0
     /\ Call => walk.te \notin fired]_tvars

\* "force all the time events to be processed ASAP": a walk calls every timer
\* that was due when it began, or every timer if the clock is behind the last
\* walk, whatever the procedures called before did to the list: it never loses
\* one.  And unless the clock was set back the loop does not sleep past one.
DueAreCalled ==
  /\ walk.on /\ walk.te = NoTimer => owed \subseteq fired \cup dropped
  /\ timeout # 0 /\ setBacks = 0 =>
       \A n \in Created \ dropped : timeout # Forever /\ clock + timeout <= Max({clock, asked[n]})
=============================================================================
