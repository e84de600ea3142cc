------------------------------ MODULE KeyStore -------------------------------
(***************************************************************************)
(* What GET, SET and DEL promise: a map from keys to values in which a     *)
(* value set with a time to live is gone from the moment its time is up.   *)
(* Expired values are not in the map: there is nothing lazy about it.  The *)
(* command being executed is part of the state, so every effect and every  *)
(* reply is tied to what was asked for.                                    *)
(***************************************************************************)
EXTENDS Integers, Sequences

CONSTANTS
  Key, Val, None,
  Times,        \* the numbers given to EX and PX
  Units,        \* milliseconds of their units
  LLONG_MAX,    \* the last millisecond there is
  DelLists      \* the key lists given to DEL

VARIABLES
  value,      \* the value of each key, or None
  deadline,   \* the last millisecond of that value, or None
  now,        \* the clock
  call,       \* the command being executed, or None
  left,       \* the keys a DEL has still to take
  count,      \* the keys it has removed
  ret         \* the reply to the command, or None

vars == <<value, deadline, now, call, left, count, ret>>

GetCall(k) == [op |-> "get", key |-> k]
DelCall(keys) == [op |-> "del", keys |-> keys]

Init ==
  /\ value = [k \in Key |-> None] /\ deadline = [k \in Key |-> None]
  /\ now = 0 /\ call = None /\ left = <<>> /\ count = 0 /\ ret = None

\* Time passes, and what is over disappears.
Tick ==
  /\ now' > now
  /\ LET over(k) == deadline[k] # None /\ now' > deadline[k] IN
       /\ value' = [k \in Key |-> IF over(k) THEN None ELSE value[k]]
       /\ deadline' = [k \in Key |-> IF over(k) THEN None ELSE deadline[k]]
  /\ UNCHANGED <<call, left, count, ret>>

\* A command comes in, and is over with its reply.
Begin(c) == call = None /\ call' = c
Done ==
  /\ ret # None
  /\ call' = None /\ ret' = None /\ UNCHANGED <<value, deadline, now, left, count>>

Get(k) ==
  /\ Begin(GetCall(k))
  /\ ret' = [value |-> value[k]] /\ UNCHANGED <<value, deadline, now, left, count>>

\* SET replies "invalid" to a time that is not positive and to nothing else,
\* and "nil" exactly when its condition does not hold.
Meets(c) ==
  /\ c.cond = "NX" => value[c.key] = None
  /\ c.cond = "XX" => value[c.key] # None
Invalid(c) == c.time # None /\ c.time <= 0
SetBegin(c) ==
  /\ Begin(c)
  /\ ret' = IF Invalid(c) THEN [status |-> "invalid"]
            ELSE IF Meets(c) THEN None ELSE [status |-> "nil"]
  /\ UNCHANGED <<value, deadline, now, left, count>>

\* Once its condition held, SET gives the key its value: for good without a
\* time, else until the time is up.  Where that moment is after the last one
\* there is, nothing is promised of how long the value lasts.
SetEnd ==
  LET k == call.key
      until == now + call.time * call.unit
  IN  /\ call # None /\ ret = None /\ call.op = "set"
      /\ value' = [value EXCEPT ![k] = value'[k]]
      /\ deadline' = [deadline EXCEPT ![k] = deadline'[k]]
      /\ IF call.time = None THEN value'[k] = call.val /\ deadline'[k] = None
         ELSE IF until <= LLONG_MAX THEN value'[k] = call.val /\ deadline'[k] = until
         ELSE value'[k] \in {call.val, None}
      /\ ret' = [status |-> "OK"] /\ UNCHANGED <<now, call, left, count>>

\* DEL takes its keys one by one, as they are when it comes to them, and says
\* how many were there.
DelBegin(keys) ==
  /\ Begin(DelCall(keys))
  /\ left' = keys /\ UNCHANGED <<value, deadline, now, count, ret>>
DelKey ==
  LET k == Head(left) IN
  /\ left # <<>>
  /\ left' = Tail(left)
  /\ count' = IF value[k] # None THEN count + 1 ELSE count
  /\ value' = [value EXCEPT ![k] = None]
  /\ deadline' = [deadline EXCEPT ![k] = None]
  /\ UNCHANGED <<now, call, ret>>
DelEnd ==
  /\ call # None /\ ret = None /\ call.op = "del" /\ left = <<>>
  /\ ret' = [deleted |-> count] /\ count' = 0
  /\ UNCHANGED <<value, deadline, now, call, left>>

SetCalls ==
  [op : {"set"}, key : Key, val : Val, cond : {"always", "NX", "XX"},
   time : Times \cup {None}, unit : Units]

Next ==
  \/ Tick \/ Done
  \/ \E k \in Key : Get(k)
  \/ (\E c \in SetCalls : SetBegin(c)) \/ SetEnd
  \/ (\E keys \in DelLists : DelBegin(keys)) \/ DelKey \/ DelEnd

Spec == Init /\ [][Next]_vars
=============================================================================
