------------------------------ MODULE Keyspace -------------------------------
(***************************************************************************)
(* One redisDb (db.c) and the commands of this build, GET, SET with its    *)
(* options, and DEL (t_string.c, db.c).  Keys with a time to live are in a *)
(* second dict, "expires"; nothing removes them when their time is up but  *)
(* the next command that looks at them (the active cycle is disabled), so  *)
(* a dead key is in both dicts for an arbitrary time and every command has *)
(* to see through it.                                                      *)
(*                                                                         *)
(* The two dicts are maps here, which is what Dict is shown to implement.  *)
(* The server is a master (masterhost is NULL), loads nothing and runs no  *)
(* script, so expireIfNeeded goes by the clock.                            *)
(***************************************************************************)
EXTENDS Integers, Sequences

CONSTANTS
  Key, Val,
  None,         \* not there: no entry in a dict, a null reply
  LLONG_MAX,    \* the greatest long long; 2^63-1 in the code
  SecondMs,     \* milliseconds of a second; 1000 in the code
  Times,        \* the numbers given to EX and PX, all long longs
  DelLists,     \* the key lists given to DEL
  MaxTime       \* bound on the clock

ASSUME NoneAssumption == None \notin Val /\ None \notin Int
ASSUME ClockAssumption ==
  /\ LLONG_MAX \in Nat /\ SecondMs \in Nat \ {0} /\ MaxTime \in Nat
  /\ Times \subseteq Int
ASSUME DelAssumption == DelLists \subseteq Seq(Key)

VARIABLES
  db,     \* [dict, expires], each a function on Key with None for no entry
  now,    \* mstime()
  call,   \* the command being executed (c->argv, parsed), or None
  job,    \* how far a SET or DEL has come, or None
  ret     \* the reply to the command, or None

vars == <<db, now, call, job, ret>>

\* Arithmetic on long long wraps around.
LL(x) ==
  LET m == LLONG_MAX + 1
  IN  IF x \in (-m)..LLONG_MAX THEN x ELSE ((x + m) % (2 * m)) - m

-----------------------------------------------------------------------------
(* db.c                                                                    *)

getExpire(x, k) == IF x.expires[k] = None THEN -1 ELSE x.expires[k]

\* The condition under which expireIfNeeded deletes: a time to live, and over.
\* A negative expire time is "no expire for this key".
Expired(x, k, t) == getExpire(x, k) >= 0 /\ t > getExpire(x, k)

\* Fault: the time to live outlives the key.
DeleteButExpire(x, k) == [dict |-> [x.dict EXCEPT ![k] = None], expires |-> x.expires]

dbDelete(x, k) ==
  [dict |-> [x.dict EXCEPT ![k] = None], expires |-> [x.expires EXCEPT ![k] = None]]

expireIfNeeded(x, k, t) == IF Expired(x, k, t) THEN dbDelete(x, k) ELSE x

lookupKey(x, k) == x.dict[k]

\* lookupKeyRead, lookupKeyWrite: the dicts they leave, the value they return.
lookupKeyRead(x, k, t) == lookupKey(expireIfNeeded(x, k, t), k)
lookupKeyWrite(x, k, t) == lookupKey(expireIfNeeded(x, k, t), k)

removeExpire(x, k) == [dict |-> x.dict, expires |-> [x.expires EXCEPT ![k] = None]]

\* dbAdd and dbOverwrite differ in what they assert of the key.
Stored(x, k, v) == [dict |-> [x.dict EXCEPT ![k] = v], expires |-> x.expires]

\* Fault: the time to live of the old value stays.
SetKeepsExpire(x, k, v, t) == Stored(expireIfNeeded(x, k, t), k, v)

setKey(x, k, v, t) == removeExpire(Stored(expireIfNeeded(x, k, t), k, v), k)

setExpire(x, k, when) == [dict |-> x.dict, expires |-> [x.expires EXCEPT ![k] = when]]

-----------------------------------------------------------------------------

Init ==
  /\ db = [dict |-> [k \in Key |-> None], expires |-> [k \in Key |-> None]]
  /\ now = 0 /\ call = None /\ job = None /\ ret = None

\* The clock is read anew by every call of mstime(), within a command too.
Tick == now < MaxTime /\ now' = now + 1 /\ UNCHANGED <<db, call, job, ret>>

\* processInputBuffer: one command after the other, each with its own argv.
Begin(c) == call = None /\ call' = c
resetClient ==
  /\ ret # None
  /\ call' = None /\ ret' = None
  /\ UNCHANGED <<db, now, job>>

\* getCommand
Get(k) ==
  /\ Begin([op |-> "get", key |-> k])
  /\ db' = expireIfNeeded(db, k, now)
  /\ ret' = [value |-> lookupKeyRead(db, k, now)]
  /\ UNCHANGED <<now, job>>

\* delCommand: each key is expired first, and counted when it was still there.
DelStart(keys) ==
  /\ Begin([op |-> "del", keys |-> keys])
  /\ job' = [op |-> "del", keys |-> keys, deleted |-> 0]
  /\ UNCHANGED <<db, now, ret>>
DelKey ==
  LET k == Head(job.keys)
      x == expireIfNeeded(db, k, now)
  IN  /\ job # None /\ job.op = "del" /\ job.keys # <<>>
      /\ db' = dbDelete(x, k)
      /\ job' = [op |-> "del", keys |-> Tail(job.keys),
                 deleted |-> IF x.dict[k] # None THEN job.deleted + 1 ELSE job.deleted]
      /\ UNCHANGED <<now, call, ret>>
DelReply ==
  /\ job # None /\ job.op = "del" /\ job.keys = <<>>
  /\ ret' = [deleted |-> job.deleted] /\ job' = None
  /\ UNCHANGED <<db, now, call>>

\* setCommand: a key, a value, NX or XX or neither, and a number of seconds or
\* milliseconds or none (the unit is then of no account).
Conditions == {"always", "NX", "XX"}
Units == {1, SecondMs}
SetCalls ==
  [op : {"set"}, key : Key, val : Val, cond : Conditions,
   time : Times \cup {None}, unit : Units]

\* setGenericCommand, the argument: "invalid expire time".
Invalid(c) == c.time # None /\ c.time <= 0
RefuseExpire(c) ==
  /\ Begin(c) /\ Invalid(c)
  /\ ret' = [status |-> "invalid"]
  /\ UNCHANGED <<db, now, job>>

\* What becomes of the number: milliseconds, on long longs.
Milliseconds(c) ==
  CASE c.time = None -> None
    [] c.time # None /\ c.unit = 1 -> c.time
    [] OTHER -> LL(c.time * c.unit)

\* setGenericCommand, the condition: NX and XX look the key up, and thereby
\* expire it.
Looked(k, cond) == IF cond = "always" THEN db ELSE expireIfNeeded(db, k, now)
\* Fault: NX is not looked at.
HoldsAnyway(k, cond) == cond = "XX" => lookupKeyWrite(db, k, now) # None

Holds(k, cond) ==
  CASE cond = "always" -> TRUE
    [] cond = "NX" -> lookupKeyWrite(db, k, now) = None
    [] cond = "XX" -> lookupKeyWrite(db, k, now) # None

SetCheck(c) ==
  /\ Begin(c) /\ ~Invalid(c)
  /\ db' = Looked(c.key, c.cond)
  /\ IF Holds(c.key, c.cond)
     THEN job' = [op |-> "set", ttl |-> Milliseconds(c)] /\ UNCHANGED ret
     ELSE ret' = [status |-> "nil"] /\ UNCHANGED job
  /\ UNCHANGED now

\* setGenericCommand, the store: setKey, then the expire time.
SetStore ==
  LET x == setKey(db, call.key, call.val, now) IN
  /\ job # None /\ job.op = "set"
  /\ db' = IF job.ttl = None THEN x ELSE setExpire(x, call.key, LL(now + job.ttl))
  /\ job' = None /\ ret' = [status |-> "OK"]
  /\ UNCHANGED <<now, call>>

Next ==
  \/ Tick \/ resetClient
  \/ \E k \in Key : Get(k)
  \/ (\E keys \in DelLists : DelStart(keys)) \/ DelKey \/ DelReply
  \/ (\E c \in SetCalls : RefuseExpire(c) \/ SetCheck(c)) \/ SetStore

Spec == Init /\ [][Next]_vars

-----------------------------------------------------------------------------

SetJob == [op : {"set"}, ttl : Int \cup {None}]
DelJob == [op : {"del"}, keys : Seq(Key), deleted : Nat]
GetCalls == [op : {"get"}, key : Key]
DelCalls == [op : {"del"}, keys : DelLists]
Replies ==
  [value : Val \cup {None}] \cup [deleted : Nat] \cup [status : {"OK", "nil", "invalid"}]
IsMap(f, S) == f \in [Key -> S \cup {None}]

ASSUME JobAssumption ==
  /\ None \notin SetJob /\ None \notin DelJob
  /\ None \notin SetCalls /\ None \notin GetCalls /\ None \notin DelCalls
  /\ None \notin Replies

\* The dicts map keys to values and times, the clock is within its bound, and
\* there is work in progress exactly between a command and its reply.
TypeOK ==
  /\ db = [dict |-> db.dict, expires |-> db.expires]
  /\ IsMap(db.dict, Val) /\ IsMap(db.expires, Int)
  /\ now \in 0..MaxTime
  /\ call \in {None} \cup SetCalls \cup GetCalls \cup DelCalls
  /\ ret \in {None} \cup Replies
  /\ job \in {None} \cup SetJob \cup DelJob
  /\ job = None => (call = None <=> ret = None)
  /\ job # None => ret = None
  /\ job \in SetJob => call \in SetCalls /\ ~Invalid(call) /\ job.ttl = Milliseconds(call)
  /\ job \in DelJob => call \in DelCalls

\* "The entry was found in the expire dict, this means it should also be present
\* in the main dict": getExpire asserts it on every lookup, and the expires dict
\* borrows its keys from the main dict, so an entry left behind would be both a
\* crash and a dangling key.
ExpiresHaveKeys == \A k \in Key : db.expires[k] # None => db.dict[k] # None

\* The dicts as clients may see them at time t: what is over is not there, and
\* a negative time is none.
ValueView(x, t) == [k \in Key |-> IF Expired(x, k, t) THEN None ELSE x.dict[k]]
DeadlineView(x, t) ==
  [k \in Key |-> IF Expired(x, k, t) \/ getExpire(x, k) < 0 THEN None ELSE x.expires[k]]
Left(j) == IF j \in DelJob THEN j.keys ELSE <<>>
Counted(j) == IF j \in DelJob THEN j.deleted ELSE 0

Store == INSTANCE KeyStore WITH
  value    <- ValueView(db, now),
  deadline <- DeadlineView(db, now),
  left     <- Left(job),
  count    <- Counted(job)

\* Lazy expiry is invisible: through GET, SET and DEL a database is a map whose
\* values vanish the moment their time is up, although dead keys stay in both
\* dicts until a command touches them.  In particular a SET without EX or PX
\* makes a key permanent even when the key was dead or dying, a SET with one
\* lets it live exactly that long (where the moment fits in a long long), DEL
\* does not count dead keys, NX is refused exactly on a live key and XX exactly
\* on a missing or dead one.
ImplementsStore == Store!Spec

\* A SET NX never replaces a value: whatever the clock does between its check
\* and its store, which looks the key up again, the key is not there.
NXNeverOverwrites ==
  [][ SetStore /\ call.cond = "NX" => lookupKeyWrite(db, call.key, now) = None ]_vars
=============================================================================
