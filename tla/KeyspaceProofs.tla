--------------------------- MODULE KeyspaceProofs ----------------------------
(***************************************************************************)
(* Lazy expiry proved for any keys, values, times and key lists: the       *)
(* expires dict never outlives the main dict, SET NX never overwrites, and *)
(* a database implements KeyStore, overflowing expire times included.      *)
(***************************************************************************)
EXTENDS Keyspace, TLAPS

IsDb(x) ==
  /\ x = [dict |-> x.dict, expires |-> x.expires]
  /\ IsMap(x.dict, Val) /\ IsMap(x.expires, Int)
KeysThere(x) == \A k \in Key : x.expires[k] # None => x.dict[k] # None

-----------------------------------------------------------------------------
(* The operators of db.c.                                                  *)

\* Arithmetic on long long stays an integer, and is exact in range.
LEMMA LLInt == ASSUME NEW n \in Int PROVE LL(n) \in Int
  <1> DEFINE m == LLONG_MAX + 1
  <1>1. m \in Int /\ m > 0  BY ClockAssumption
  <1>2. CASE n \in (-m)..LLONG_MAX  BY <1>2 DEF LL
  <1>3. CASE n \notin (-m)..LLONG_MAX
    <2>1. LL(n) = ((n + m) % (2 * m)) - m  BY <1>3 DEF LL
    <2>2. n + m \in Int /\ 2 * m \in Nat \ {0}  BY <1>1
    <2> HIDE DEF m
    <2>3. (n + m) % (2 * m) \in Int  BY <2>2
    <2> QED  BY <2>1, <2>3, <1>1
  <1> QED  BY <1>2, <1>3

LEMMA LLExact == ASSUME NEW n \in Int, n >= 0, n <= LLONG_MAX PROVE LL(n) = n
  BY ClockAssumption DEF LL

\* The units and the time to live of a SET are integers.
LEMMA UnitsInt == ASSUME NEW c \in SetCalls PROVE c.unit \in Nat \ {0}
  BY ClockAssumption DEF SetCalls, Units

LEMMA MillisecondsInt ==
  ASSUME NEW c \in SetCalls
  PROVE  /\ c.time = None \/ (c.time # None /\ c.time \in Int)
         /\ Milliseconds(c) \in Int \cup {None}
         /\ Milliseconds(c) = None <=> c.time = None
  <1>1. c.time = None \/ (c.time # None /\ c.time \in Int)
    BY ClockAssumption, NoneAssumption DEF SetCalls
  <1>2. CASE c.time = None  BY <1>2 DEF Milliseconds
  <1>3. CASE c.time # None
    <2>1. c.time * c.unit \in Int  BY <1>1, <1>3, UnitsInt
    <2>2. LL(c.time * c.unit) \in Int  BY <2>1, LLInt
    <2>3. Milliseconds(c) = IF c.unit = 1 THEN c.time ELSE LL(c.time * c.unit)
      BY <1>3 DEF Milliseconds
    <2> QED  BY <1>1, <1>3, <2>2, <2>3, NoneAssumption
  <1> QED  BY <1>1, <1>2, <1>3

\* A positive number whose moment fits in a long long is not distorted.
LEMMA MomentExact ==
  ASSUME NEW c \in SetCalls, ~Invalid(c), c.time # None, NEW t \in Nat,
         t + c.time * c.unit <= LLONG_MAX
  PROVE  /\ t + Milliseconds(c) \in Int /\ LL(t + Milliseconds(c)) = t + c.time * c.unit
         /\ t + c.time * c.unit > t
  <1>1. c.time \in Int /\ c.time > 0 /\ c.unit \in Nat \ {0}
    BY MillisecondsInt, UnitsInt DEF Invalid
  <1> DEFINE p == c.time * c.unit
  <1>2. p \in Int /\ p > 0
    <2>1. \A m, n \in Nat \ {0} : m * n \in Nat \ {0}  OBVIOUS
    <2> QED  BY <1>1, <2>1
  <1>a. c.unit = 1 => p = c.time  BY <1>1
  <1>3. t + p <= LLONG_MAX  OBVIOUS
  <1> HIDE DEF p
  <1>4. p <= LLONG_MAX /\ t + p \in Int /\ t + p >= 0 /\ t + p > t
    BY <1>2, <1>3, ClockAssumption
  <1>5. LL(p) = p /\ LL(t + p) = t + p  BY <1>2, <1>3, <1>4, LLExact
  <1>6. Milliseconds(c) = p  BY <1>5, <1>a DEF Milliseconds, p
  <1> QED  BY <1>4, <1>5, <1>6 DEF p

\* dbDelete keeps a database a database and removes the key from both dicts.
LEMMA DeleteFacts ==
  ASSUME NEW x, IsDb(x), NEW k \in Key
  PROVE  /\ IsDb(dbDelete(x, k))
         /\ dbDelete(x, k).dict = [x.dict EXCEPT ![k] = None]
         /\ dbDelete(x, k).expires = [x.expires EXCEPT ![k] = None]
         /\ KeysThere(x) => KeysThere(dbDelete(x, k))
  BY DEF IsDb, IsMap, dbDelete, KeysThere

\* expireIfNeeded keeps a database a database, and takes out at most k.
LEMMA ExpireFacts ==
  ASSUME NEW x, IsDb(x), NEW k \in Key, NEW t \in Int
  PROVE  /\ IsDb(expireIfNeeded(x, k, t))
         /\ KeysThere(x) => KeysThere(expireIfNeeded(x, k, t))
         /\ \A j \in Key : x.dict[j] = None => expireIfNeeded(x, k, t).dict[j] = None
  <1>1. CASE Expired(x, k, t)
    <2>1. expireIfNeeded(x, k, t) = dbDelete(x, k)  BY <1>1 DEF expireIfNeeded
    <2>2. \A j \in Key : x.dict[j] = None => dbDelete(x, k).dict[j] = None
      BY DEF IsDb, IsMap, dbDelete
    <2>3. IsDb(dbDelete(x, k)) /\ (KeysThere(x) => KeysThere(dbDelete(x, k)))
      BY DeleteFacts, Zenon
    <2> QED  BY <2>1, <2>2, <2>3, Zenon
  <1>2. CASE ~Expired(x, k, t)  BY <1>2 DEF expireIfNeeded
  <1> QED  BY <1>1, <1>2

\* What setKey leaves: the new value, and no time to live.
LEMMA SetKeyFacts ==
  ASSUME NEW x, IsDb(x), NEW k \in Key, NEW v \in Val, NEW t \in Int
  PROVE  /\ IsDb(setKey(x, k, v, t))
         /\ setKey(x, k, v, t).dict = [expireIfNeeded(x, k, t).dict EXCEPT ![k] = v]
         /\ setKey(x, k, v, t).expires = [expireIfNeeded(x, k, t).expires EXCEPT ![k] = None]
  <1> DEFINE y == expireIfNeeded(x, k, t)
  <1>1. IsDb(y)  BY ExpireFacts
  <1> HIDE DEF y
  <1>2. /\ IsDb(removeExpire(Stored(y, k, v), k))
        /\ removeExpire(Stored(y, k, v), k).dict = [y.dict EXCEPT ![k] = v]
        /\ removeExpire(Stored(y, k, v), k).expires = [y.expires EXCEPT ![k] = None]
    BY <1>1 DEF IsDb, IsMap, removeExpire, Stored
  <1> QED  BY <1>2 DEF setKey, y

-----------------------------------------------------------------------------
(* The inductive invariant.                                                *)

\* Between the check and the store of a SET NX the key is not in the main dict.
NXPending == job \in SetJob /\ call.cond = "NX" => db.dict[call.key] = None

IInv == TypeOK /\ ExpiresHaveKeys /\ NXPending

\* The control of a command: what there is between it and its reply.
Control ==
  /\ call \in {None} \cup SetCalls \cup GetCalls \cup DelCalls
  /\ ret \in {None} \cup Replies
  /\ job \in {None} \cup SetJob \cup DelJob
  /\ job = None => (call = None <=> ret = None)
  /\ job # None => ret = None
  /\ job \in SetJob => call \in SetCalls /\ ~Invalid(call) /\ job.ttl = Milliseconds(call)
  /\ job \in DelJob => call \in DelCalls

LEMMA Unfold ==
  IInv => /\ IsDb(db) /\ KeysThere(db) /\ now \in Int /\ now \in Nat /\ now \in 0..MaxTime
          /\ Control /\ NXPending
  BY ClockAssumption DEF IInv, TypeOK, IsDb, ExpiresHaveKeys, KeysThere, Control

LEMMA Fold ==
  ASSUME IsDb(db'), KeysThere(db'), now' \in 0..MaxTime, Control', NXPending'
  PROVE  IInv'
  BY DEF IInv, TypeOK, IsDb, ExpiresHaveKeys, KeysThere, Control

\* The kinds of commands and of work are told apart, and None is neither.
LEMMA Kinds ==
  /\ None \notin SetJob /\ None \notin DelJob
  /\ \A j \in SetJob : j.op = "set" /\ j \notin DelJob /\ j # None
  /\ \A j \in DelJob : j.op = "del" /\ j \notin SetJob /\ j # None
  /\ \A c \in SetCalls : c # None /\ c.op = "set"
  /\ \A c \in GetCalls : c # None
  /\ \A c \in DelCalls : c # None /\ c.op = "del"
  /\ \A r \in Replies : r # None
  <1>1. /\ \A j \in SetJob : j.op = "set" /\ j \notin DelJob
        /\ \A j \in DelJob : j.op = "del" /\ j \notin SetJob
    BY DEF SetJob, DelJob
  <1>2. /\ \A c \in SetCalls : c.op = "set"
        /\ \A c \in DelCalls : c.op = "del"
    BY DEF SetCalls, DelCalls
  <1> QED  BY <1>1, <1>2, JobAssumption, Zenon

\* A reply to a command ends its work.
LEMMA Replied ==
  ASSUME job' = None, (call \in SetCalls \cup GetCalls \cup DelCalls)', (ret \in Replies)'
  PROVE  Control' /\ NXPending'
  BY Kinds, Zenon DEF Control, NXPending

\* A step of the clock, or one within a DEL.
LEMMA SameControl ==
  ASSUME Control, NXPending, call' = call, ret' = ret, job' = job,
         \A k \in Key : db.dict[k] = None => db'.dict[k] = None
  PROVE  Control' /\ NXPending'
  <1>1. Control'  BY DEF Control
  <1>2. NXPending'
    <2> SUFFICES ASSUME job \in SetJob, call.cond = "NX" PROVE db'.dict[call.key] = None
      BY DEF NXPending
    <2>1. call.key \in Key  BY DEF Control, SetCalls
    <2> QED  BY <2>1 DEF NXPending
  <1> QED  BY <1>1, <1>2

LEMMA InitIInv == Init => IInv
  <1> SUFFICES ASSUME Init PROVE IInv  OBVIOUS
  <1>1. /\ db = [dict |-> db.dict, expires |-> db.expires]
        /\ IsMap(db.dict, Val) /\ IsMap(db.expires, Int) /\ now \in 0..MaxTime
    BY ClockAssumption DEF Init, IsMap
  <1>2. job = None /\ call = None /\ ret = None  BY DEF Init
  <1>3. TypeOK  BY <1>1, <1>2, Kinds, Zenon DEF TypeOK
  <1>4. ExpiresHaveKeys  BY DEF Init, ExpiresHaveKeys
  <1>5. NXPending  BY <1>2, Kinds DEF NXPending
  <1> QED  BY <1>3, <1>4, <1>5 DEF IInv

\* Every step preserves the invariant: one case per action.
LEMMA NextIInv == IInv /\ [Next]_vars => IInv'
  <1> SUFFICES ASSUME IInv, [Next]_vars PROVE IInv'  OBVIOUS
  <1>0. IsDb(db) /\ KeysThere(db) /\ now \in Int /\ now \in 0..MaxTime  BY Unfold
  <1>a. Control /\ NXPending  BY Unfold
  <1>c. ASSUME NEW k \in Key
        PROVE  /\ IsDb(expireIfNeeded(db, k, now)) /\ KeysThere(expireIfNeeded(db, k, now))
               /\ \A j \in Key : db.dict[j] = None => expireIfNeeded(db, k, now).dict[j] = None
    BY <1>0, ExpireFacts, Zenon
  <1>1. CASE Tick
    <2>1. now' \in 0..MaxTime  BY <1>0, <1>1, ClockAssumption DEF Tick
    <2>2. db' = db /\ call' = call /\ job' = job /\ ret' = ret  BY <1>1 DEF Tick
    <2>3. Control' /\ NXPending'  BY <2>2, <1>a, SameControl
    <2>4. IsDb(db') /\ KeysThere(db')  BY <2>2, <1>0
    <2> QED  BY <2>1, <2>3, <2>4, Fold
  <1>b. CASE resetClient
    <2>1. /\ db' = db /\ now' = now /\ call' = None /\ ret' = None /\ job' = job /\ ret # None
      BY <1>b DEF resetClient
    <2>2. job = None  BY <2>1, <1>a DEF Control
    <2>3. Control' /\ NXPending'  BY <2>1, <2>2, Kinds, Zenon DEF Control, NXPending
    <2>4. IsDb(db') /\ KeysThere(db')  BY <2>1, <1>0
    <2> QED  BY <2>1, <2>3, <2>4, <1>0, Fold
  <1>2. ASSUME NEW k \in Key, Get(k) PROVE IInv'
    <2>1. /\ db' = expireIfNeeded(db, k, now) /\ now' = now /\ job' = job /\ call = None
          /\ call' = [op |-> "get", key |-> k] /\ ret' = [value |-> lookupKeyRead(db, k, now)]
      BY <1>2 DEF Get, Begin
    <2>2. IsDb(db') /\ KeysThere(db')  BY <2>1, <1>c
    <2>3. lookupKeyRead(db, k, now) \in Val \cup {None}
      BY <1>c DEF lookupKeyRead, lookupKey, IsDb, IsMap
    <2>4. call' \in GetCalls /\ ret' \in Replies  BY <2>1, <2>3 DEF GetCalls, Replies
    <2>5. job' = None  BY <2>1, <1>a, Kinds DEF Control
    <2>6. Control' /\ NXPending'  BY <2>4, <2>5, Replied
    <2> QED  BY <2>1, <2>2, <2>6, <1>0, Fold
  <1>3. ASSUME NEW keys \in DelLists, DelStart(keys) PROVE IInv'
    <2>1. /\ db' = db /\ now' = now /\ job' = [op |-> "del", keys |-> keys, deleted |-> 0]
          /\ call = None /\ call' = [op |-> "del", keys |-> keys] /\ ret' = ret
      BY <1>3 DEF DelStart, Begin
    <2>2. job' \in DelJob /\ call' \in DelCalls  BY <2>1, DelAssumption DEF DelJob, DelCalls
    <2>3. ret' = None  BY <2>1, <1>a DEF Control
    <2>4. Control' /\ NXPending'  BY <2>2, <2>3, Kinds, Zenon DEF Control, NXPending
    <2>5. IsDb(db') /\ KeysThere(db')  BY <2>1, <1>0
    <2> QED  BY <2>1, <2>4, <2>5, <1>0, Fold
  <1>4. CASE DelKey
    <2> DEFINE k == Head(job.keys)
               y == expireIfNeeded(db, k, now)
    <2>1. job \in DelJob  BY <1>4, <1>a DEF DelKey, Control, SetJob, DelJob
    <2>2. k \in Key /\ Tail(job.keys) \in Seq(Key)  BY <1>4, <2>1 DEF DelKey, DelJob
    <2>3. /\ db' = dbDelete(y, k) /\ now' = now /\ call' = call /\ ret' = ret
          /\ job' = [op |-> "del", keys |-> Tail(job.keys),
                     deleted |-> IF y.dict[k] # None THEN job.deleted + 1 ELSE job.deleted]
      BY <1>4 DEF DelKey
    <2>4. job' \in DelJob  BY <2>1, <2>2, <2>3 DEF DelJob
    <2>a. call \in DelCalls /\ ret = None  BY <2>1, <1>a, Kinds, Zenon DEF Control
    <2>5. Control' /\ NXPending'
      BY <2>a, <2>3, <2>4, Kinds, Zenon DEF Control, NXPending
    <2>6. IsDb(y) /\ KeysThere(y)  BY <2>2, <1>c
    <2> HIDE DEF y, k
    <2>7. IsDb(db') /\ KeysThere(db')  BY <2>2, <2>3, <2>6, DeleteFacts, Zenon
    <2> QED  BY <2>3, <2>5, <2>7, <1>0, Fold
  <1>5. CASE DelReply
    <2>1. /\ db' = db /\ now' = now /\ job' = None /\ ret' = [deleted |-> job.deleted]
          /\ call' = call /\ job \in DelJob
      BY <1>5, <1>a DEF DelReply, Control, SetJob, DelJob
    <2>2. call' \in DelCalls  BY <2>1, <1>a DEF Control
    <2>3. ret' \in Replies  BY <2>1 DEF DelJob, Replies
    <2>4. Control' /\ NXPending'  BY <2>1, <2>2, <2>3, Replied
    <2>5. IsDb(db') /\ KeysThere(db')  BY <2>1, <1>0
    <2> QED  BY <2>1, <2>4, <2>5, <1>0, Fold
  <1>6. ASSUME NEW c \in SetCalls, RefuseExpire(c) PROVE IInv'
    <2>1. /\ db' = db /\ now' = now /\ job' = job /\ call = None /\ call' = c
          /\ ret' = [status |-> "invalid"]
      BY <1>6 DEF RefuseExpire, Begin
    <2>2. job' = None  BY <2>1, <1>a, Kinds DEF Control
    <2>3. ret' \in Replies  BY <2>1 DEF Replies
    <2>4. Control' /\ NXPending'  BY <2>1, <2>2, <2>3, Replied
    <2>5. IsDb(db') /\ KeysThere(db')  BY <2>1, <1>0
    <2> QED  BY <2>1, <2>4, <2>5, <1>0, Fold
  <1>7. ASSUME NEW c \in SetCalls, SetCheck(c) PROVE IInv'
    <2> DEFINE j == [op |-> "set", ttl |-> Milliseconds(c)]
    <2>1. /\ db' = Looked(c.key, c.cond) /\ now' = now /\ call = None /\ call' = c /\ ~Invalid(c)
          /\ \/ job' = j /\ ret' = ret /\ Holds(c.key, c.cond)
             \/ job' = job /\ ret' = [status |-> "nil"]
      BY <1>7 DEF SetCheck, Begin
    <2>2. j \in SetJob /\ j.ttl = Milliseconds(c)  BY MillisecondsInt DEF SetJob
    <2>3. c.key \in Key /\ job = None /\ ret = None  BY <2>1, <1>a, Kinds DEF SetCalls, Control
    <2>4. IsDb(db') /\ KeysThere(db')  BY <2>1, <2>3, <1>0, <1>c DEF Looked
    <2>5. CASE job' = j /\ ret' = ret /\ Holds(c.key, c.cond)
      <3>1. c.cond = "NX" => db'.dict[c.key] = None
        BY <2>1, <2>5 DEF Holds, Looked, lookupKeyWrite, lookupKey
      <3>2. job' \in SetJob /\ job'.ttl = Milliseconds(c) /\ ret' = None
        BY <2>2, <2>3, <2>5
      <3> HIDE DEF j
      <3>3. Control' /\ NXPending'
        BY <2>1, <3>1, <3>2, Kinds, Zenon DEF Control, NXPending
      <3> QED  BY <2>1, <2>4, <3>3, <1>0, Fold
    <2>6. CASE job' = job /\ ret' = [status |-> "nil"]
      <3>1. ret' \in Replies /\ job' = None  BY <2>3, <2>6 DEF Replies
      <3>2. Control' /\ NXPending'  BY <2>1, <3>1, Replied
      <3> QED  BY <2>1, <2>4, <3>2, <1>0, Fold
    <2> QED  BY <2>1, <2>5, <2>6
  <1>8. CASE SetStore
    <2> DEFINE k == call.key
               v == call.val
               x == setKey(db, k, v, now)
    <2>1. job \in SetJob /\ call \in SetCalls
      BY <1>8, <1>a DEF SetStore, Control, SetJob, DelJob
    <2>2. k \in Key /\ v \in Val /\ v # None /\ job.ttl \in Int \cup {None}
      BY <2>1, NoneAssumption DEF SetCalls, SetJob
    <2>3. /\ db' = IF job.ttl = None THEN x ELSE setExpire(x, k, LL(now + job.ttl))
          /\ job' = None /\ now' = now /\ call' = call /\ ret' = [status |-> "OK"]
      BY <1>8 DEF SetStore
    <2>a. ret' \in Replies  BY <2>3 DEF Replies
    <2>4. Control' /\ NXPending'  BY <2>1, <2>3, <2>a, Replied
    <2> HIDE DEF k, v
    <2>5. IsDb(x) /\ KeysThere(x) /\ x.dict[k] = v
      <3> DEFINE y == expireIfNeeded(db, k, now)
      <3>1. IsDb(y) /\ KeysThere(y)  BY <1>c, <2>2
      <3>a. IsDb(x)  BY SetKeyFacts, <1>0, <2>2, Zenon
      <3>2. x.dict = [y.dict EXCEPT ![k] = v] /\ x.expires = [y.expires EXCEPT ![k] = None]
        BY SetKeyFacts, <1>0, <2>2
      <3> HIDE DEF x, y
      <3>3. KeysThere(x) /\ x.dict[k] = v
        BY <3>1, <3>2, <2>2 DEF IsDb, IsMap, KeysThere
      <3> QED  BY <3>a, <3>3
    <2> HIDE DEF x
    <2>6. IsDb(db') /\ KeysThere(db')
      <3>1. CASE job.ttl = None  BY <3>1, <2>3, <2>5
      <3>2. CASE job.ttl # None
        <4>1. job.ttl \in Int  BY <3>2, <2>2
        <4>2. LL(now + job.ttl) \in Int  BY <4>1, <1>0, LLInt
        <4>4. db' = setExpire(x, k, LL(now + job.ttl))  BY <2>3, <3>2
        <4> QED  BY <4>2, <4>4, <2>2, <2>5 DEF setExpire, IsDb, IsMap, KeysThere
      <3> QED  BY <3>1, <3>2
    <2> QED  BY <2>3, <2>4, <2>6, <1>0, Fold
  <1>9. CASE UNCHANGED vars
    <2>1. db' = db /\ now' = now /\ call' = call /\ job' = job /\ ret' = ret  BY <1>9 DEF vars
    <2>2. Control' /\ NXPending'  BY <2>1, <1>a, SameControl
    <2>3. IsDb(db') /\ KeysThere(db')  BY <2>1, <1>0
    <2> QED  BY <2>1, <2>2, <2>3, <1>0, Fold
  <1> QED  BY <1>1, <1>b, <1>2, <1>3, <1>4, <1>5, <1>6, <1>7, <1>8, <1>9 DEF Next

LEMMA AlwaysIInv == Spec => []IInv
  BY InitIInv, NextIInv, PTL DEF Spec

\* The database of db.c is always a pair of maps, and a command is either at
\* work or has its reply, whatever commands run and whenever the clock moves.
THEOREM KeyspaceTypeCorrect == Spec => []TypeOK
  <1>1. IInv => TypeOK  BY DEF IInv
  <1> QED  BY <1>1, AlwaysIInv, PTL

\* getExpire's assertion never fails: a key of the expires dict is a key of the
\* main dict, for any keys, times and DELs.
THEOREM ExpiresAlwaysHaveKeys == Spec => []ExpiresHaveKeys
  <1>1. IInv => ExpiresHaveKeys  BY DEF IInv
  <1> QED  BY <1>1, AlwaysIInv, PTL

\* SET NX stores only where nothing is, at whatever moment the clock moves
\* between the condition and setKey.
THEOREM NXSafe == Spec => NXNeverOverwrites
  <1>1. IInv /\ [Next]_vars
          => [SetStore /\ call.cond = "NX" => lookupKeyWrite(db, call.key, now) = None]_vars
    <2> SUFFICES ASSUME IInv, SetStore, call.cond = "NX"
                 PROVE  lookupKeyWrite(db, call.key, now) = None
      OBVIOUS
    <2>0. Control /\ NXPending /\ IsDb(db) /\ now \in Int  BY Unfold
    <2>1. job \in SetJob /\ call \in SetCalls  BY <2>0 DEF Control, SetStore, SetJob, DelJob
    <2>2. call.key \in Key /\ db.dict[call.key] = None  BY <2>0, <2>1 DEF NXPending, SetCalls
    <2>4. expireIfNeeded(db, call.key, now).dict[call.key] = None
      BY <2>0, <2>2, ExpireFacts, Zenon
    <2> QED  BY <2>4 DEF lookupKeyWrite, lookupKey
  <1> QED  BY <1>1, AlwaysIInv, PTL DEF Spec, NXNeverOverwrites

-----------------------------------------------------------------------------
(* The refinement.                                                         *)

\* Expiring a key changes nothing a client may see.
LEMMA ExpireUnseen ==
  ASSUME NEW x, IsDb(x), NEW k \in Key, NEW t \in Int
  PROVE  /\ ValueView(expireIfNeeded(x, k, t), t) = ValueView(x, t)
         /\ DeadlineView(expireIfNeeded(x, k, t), t) = DeadlineView(x, t)
  <1>1. CASE ~Expired(x, k, t)  BY <1>1 DEF expireIfNeeded
  <1>2. CASE Expired(x, k, t)
    <2> DEFINE y == dbDelete(x, k)
    <2>1. expireIfNeeded(x, k, t) = y  BY <1>2 DEF expireIfNeeded
    <2>2. y.dict = [x.dict EXCEPT ![k] = None] /\ y.expires = [x.expires EXCEPT ![k] = None]
      BY DEF dbDelete
    <2> HIDE DEF y
    <2>3. y.dict[k] = None /\ y.expires[k] = None  BY <2>2 DEF IsDb, IsMap
    <2>4. ~Expired(y, k, t)  BY <2>3 DEF Expired, getExpire
    <2>5. \A j \in Key \ {k} : /\ y.dict[j] = x.dict[j] /\ y.expires[j] = x.expires[j]
                               /\ getExpire(y, j) = getExpire(x, j)
                               /\ Expired(y, j, t) <=> Expired(x, j, t)
      BY <2>2 DEF IsDb, IsMap, Expired, getExpire
    <2> QED  BY <2>1, <2>3, <2>4, <2>5, <1>2 DEF ValueView, DeadlineView
  <1> QED  BY <1>1, <1>2

\* What an expired lookup returns is what a client may see.
LEMMA LookupSees ==
  ASSUME NEW x, IsDb(x), NEW k \in Key, NEW t \in Int
  PROVE  expireIfNeeded(x, k, t).dict[k] = ValueView(x, t)[k]
  BY DEF IsDb, IsMap, expireIfNeeded, dbDelete, ValueView

\* What a client sees of a value stored at time t: no other key changes, and
\* stored for good or until after t it is there at once.
Put(y, k, v, e) ==
  [dict |-> [y.dict EXCEPT ![k] = v], expires |-> [y.expires EXCEPT ![k] = e]]
LEMMA StoreSeen ==
  ASSUME NEW y, IsDb(y), NEW k \in Key, NEW v, NEW e \in Int \cup {None}, NEW t \in Nat
  PROVE  /\ ValueView(Put(y, k, v, e), t)
              = [ValueView(y, t) EXCEPT ![k] = ValueView(Put(y, k, v, e), t)[k]]
         /\ DeadlineView(Put(y, k, v, e), t)
              = [DeadlineView(y, t) EXCEPT ![k] = DeadlineView(Put(y, k, v, e), t)[k]]
         /\ ValueView(Put(y, k, v, e), t)[k] \in {v, None}
         /\ e = None \/ (e \in Int /\ e > t)
              => /\ ValueView(Put(y, k, v, e), t)[k] = v
                 /\ DeadlineView(Put(y, k, v, e), t)[k] = e
  <1> DEFINE z == Put(y, k, v, e)
  <1>0. z.dict = [y.dict EXCEPT ![k] = v] /\ z.expires = [y.expires EXCEPT ![k] = e]
    BY DEF Put
  <1> HIDE DEF z
  <1>1. z.dict[k] = v /\ z.expires[k] = e  BY <1>0 DEF IsDb, IsMap
  <1>2. e = None \/ (e \in Int /\ e > t)
        => ~Expired(z, k, t) /\ (getExpire(z, k) < 0 => e = None)
    BY <1>1 DEF Expired, getExpire
  <1>3. \A j \in Key \ {k} : /\ z.dict[j] = y.dict[j] /\ z.expires[j] = y.expires[j]
                             /\ getExpire(z, j) = getExpire(y, j)
                             /\ Expired(z, j, t) <=> Expired(y, j, t)
    BY <1>0 DEF IsDb, IsMap, Expired, getExpire
  <1>4. /\ ValueView(z, t)[k] \in {v, None}
        /\ e = None \/ (e \in Int /\ e > t)
             => ValueView(z, t)[k] = v /\ DeadlineView(z, t)[k] = e
        /\ \A j \in Key \ {k} : /\ ValueView(z, t)[j] = ValueView(y, t)[j]
                                /\ DeadlineView(z, t)[j] = DeadlineView(y, t)[j]
    BY <1>1, <1>2, <1>3 DEF ValueView, DeadlineView
  <1>5. /\ ValueView(z, t) = [j \in Key |-> ValueView(z, t)[j]]
        /\ ValueView(y, t) = [j \in Key |-> ValueView(y, t)[j]]
        /\ DeadlineView(z, t) = [j \in Key |-> DeadlineView(z, t)[j]]
        /\ DeadlineView(y, t) = [j \in Key |-> DeadlineView(y, t)[j]]
    BY DEF ValueView, DeadlineView
  <1>6. /\ ValueView(z, t) = [ValueView(y, t) EXCEPT ![k] = ValueView(z, t)[k]]
        /\ DeadlineView(z, t) = [DeadlineView(y, t) EXCEPT ![k] = DeadlineView(z, t)[k]]
    BY <1>4, <1>5
  <1> QED  BY <1>4, <1>6 DEF z

\* Deleting a key at time t leaves it out of what a client may see.
LEMMA DeleteSeen ==
  ASSUME NEW y, IsDb(y), NEW k \in Key, NEW t \in Nat
  PROVE  /\ ValueView(dbDelete(y, k), t) = [ValueView(y, t) EXCEPT ![k] = None]
         /\ DeadlineView(dbDelete(y, k), t) = [DeadlineView(y, t) EXCEPT ![k] = None]
  <1>1. dbDelete(y, k) = Put(y, k, None, None)  BY DEF dbDelete, Put
  <1>2. /\ ValueView(Put(y, k, None, None), t) = [ValueView(y, t) EXCEPT ![k] = None]
        /\ DeadlineView(Put(y, k, None, None), t) = [DeadlineView(y, t) EXCEPT ![k] = None]
    BY StoreSeen
  <1> QED  BY <1>1, <1>2

\* When the clock moves, exactly what is over disappears.
LEMMA TimePasses ==
  ASSUME NEW x, IsDb(x), NEW t \in Int, NEW u \in Int, u > t
  PROVE  LET over(k) == DeadlineView(x, t)[k] # None /\ u > DeadlineView(x, t)[k] IN
           /\ ValueView(x, u) = [k \in Key |-> IF over(k) THEN None ELSE ValueView(x, t)[k]]
           /\ DeadlineView(x, u)
                = [k \in Key |-> IF over(k) THEN None ELSE DeadlineView(x, t)[k]]
  <1> DEFINE over(k) == DeadlineView(x, t)[k] # None /\ u > DeadlineView(x, t)[k]
  <1>1. ASSUME NEW k \in Key
        PROVE  Expired(x, k, u) <=> Expired(x, k, t) \/ over(k)
    <2>1. x.expires[k] = None \/ (x.expires[k] \in Int /\ x.expires[k] # None)
      BY NoneAssumption DEF IsDb, IsMap
    <2> QED  BY <2>1 DEF Expired, getExpire, DeadlineView
  <1> HIDE DEF over
  <1>2. /\ ValueView(x, u) = [k \in Key |-> IF over(k) THEN None ELSE ValueView(x, t)[k]]
        /\ DeadlineView(x, u) = [k \in Key |-> IF over(k) THEN None ELSE DeadlineView(x, t)[k]]
    BY <1>1 DEF ValueView, DeadlineView
  <1> QED  BY <1>2 DEF over

\* Every step of the database is a step of the map with times to live.
LEMMA StepRefines ==
  ASSUME IInv, [Next]_vars
  PROVE  [Store!Next]_(Store!vars)
  <1>0. IsDb(db) /\ now \in Int /\ now \in Nat  BY Unfold
  <1>a. Control  BY Unfold
  <1>n. Counted(None) = 0 /\ Left(None) = <<>>  BY Kinds DEF Counted, Left
  <1>s. \A j \in SetJob : Counted(j) = 0 /\ Left(j) = <<>>  BY Kinds DEF Counted, Left
  <1>d. \A j \in DelJob : Counted(j) = j.deleted /\ Left(j) = j.keys  BY DEF Counted, Left
  <1>i. Store!SetCalls = SetCalls
    BY DEF SetCalls, Store!SetCalls, Conditions
  <1>c. ASSUME NEW k \in Key
        PROVE  /\ IsDb(expireIfNeeded(db, k, now))
               /\ ValueView(expireIfNeeded(db, k, now), now) = ValueView(db, now)
               /\ DeadlineView(expireIfNeeded(db, k, now), now) = DeadlineView(db, now)
               /\ expireIfNeeded(db, k, now).dict[k] = ValueView(db, now)[k]
    <2>1. IsDb(expireIfNeeded(db, k, now))  BY <1>0, ExpireFacts, Zenon
    <2> QED  BY <1>0, <2>1, ExpireUnseen, LookupSees, Zenon
  <1>1. CASE Tick
    <2>1. db' = db /\ now' = now + 1 /\ call' = call /\ job' = job /\ ret' = ret
      BY <1>1 DEF Tick
    <2>2. now' \in Int /\ now' > now  BY <2>1, <1>0
    <2>3. Store!Tick  BY <2>1, <2>2, <1>0, TimePasses DEF Store!Tick
    <2> QED  BY <2>3 DEF Store!Next
  <1>b. CASE resetClient
    <2>1. /\ ret # None /\ db' = db /\ now' = now /\ job' = job /\ call' = None /\ ret' = None
      BY <1>b DEF resetClient
    <2>2. Store!Done  BY <2>1 DEF Store!Done
    <2> QED  BY <2>2 DEF Store!Next
  <1>2. ASSUME NEW k \in Key, Get(k) PROVE Store!Get(k)
    <2>1. /\ db' = expireIfNeeded(db, k, now) /\ now' = now /\ job' = job
          /\ call = None /\ call' = [op |-> "get", key |-> k]
          /\ ret' = [value |-> expireIfNeeded(db, k, now).dict[k]]
      BY <1>2 DEF Get, Begin, lookupKeyRead, lookupKey
    <2> QED  BY <2>1, <1>c DEF Store!Get, Store!Begin, Store!GetCall
  <1>3. ASSUME NEW keys \in DelLists, DelStart(keys) PROVE Store!DelBegin(keys)
    <2>1. /\ db' = db /\ now' = now /\ ret' = ret /\ call = None
          /\ call' = [op |-> "del", keys |-> keys]
          /\ job' = [op |-> "del", keys |-> keys, deleted |-> 0]
      BY <1>3 DEF DelStart, Begin
    <2>2. job = None  BY <2>1, <1>a, Kinds DEF Control
    <2>3. job' \in DelJob  BY <2>1, DelAssumption DEF DelJob
    <2>4. Counted(job') = 0 /\ Left(job') = keys  BY <2>1, <2>3, <1>d
    <2> QED  BY <2>1, <2>2, <2>4, <1>n DEF Store!DelBegin, Store!Begin, Store!DelCall
  <1>4. CASE DelKey
    <2> DEFINE k == Head(job.keys)
               y == expireIfNeeded(db, k, now)
    <2>1. job \in DelJob  BY <1>4, <1>a DEF DelKey, Control, SetJob, DelJob
    <2>2. k \in Key /\ Tail(job.keys) \in Seq(Key) /\ job.deleted \in Nat /\ job.keys # <<>>
      BY <1>4, <2>1 DEF DelKey, DelJob
    <2>3. /\ db' = dbDelete(y, k) /\ now' = now /\ ret' = ret /\ call' = call
          /\ job' = [op |-> "del", keys |-> Tail(job.keys),
                     deleted |-> IF y.dict[k] # None THEN job.deleted + 1 ELSE job.deleted]
      BY <1>4 DEF DelKey
    <2>4. Counted(job) = job.deleted /\ Left(job) = job.keys /\ k = Head(Left(job))
      BY <2>1, <1>d
    <2>5. IsDb(y) /\ y.dict[k] = ValueView(db, now)[k]  BY <2>2, <1>c
    <2>a. ValueView(y, now) = ValueView(db, now) /\ DeadlineView(y, now) = DeadlineView(db, now)
      BY <2>2, <1>c
    <2> HIDE DEF y, k
    <2>6. job' \in DelJob  BY <2>2, <2>3 DEF DelJob
    <2>7. /\ Counted(job') = IF ValueView(db, now)[k] # None THEN Counted(job) + 1
                            ELSE Counted(job)
          /\ Left(job') = Tail(Left(job)) /\ Left(job) # <<>>
      <3>1. /\ job'.deleted = IF ValueView(db, now)[k] # None THEN job.deleted + 1 ELSE job.deleted
            /\ job'.keys = Tail(job.keys)
        BY <2>3, <2>5
      <3> QED  BY <3>1, <2>2, <2>4, <2>6, <1>d
    <2>8. /\ ValueView(db', now) = [ValueView(db, now) EXCEPT ![k] = None]
          /\ DeadlineView(db', now) = [DeadlineView(db, now) EXCEPT ![k] = None]
      BY <2>2, <2>3, <2>5, <2>a, <1>0, DeleteSeen
    <2>9. Store!DelKey  BY <2>3, <2>4, <2>7, <2>8 DEF Store!DelKey
    <2> QED  BY <2>9 DEF Store!Next
  <1>5. CASE DelReply
    <2>1. /\ db' = db /\ now' = now /\ job' = None /\ ret' = [deleted |-> job.deleted]
          /\ call' = call /\ job.keys = <<>> /\ job \in DelJob
      BY <1>5, <1>a DEF DelReply, Control, SetJob, DelJob
    <2>2. Counted(job) = job.deleted /\ Left(job) = <<>>  BY <2>1, <1>d
    <2>3. call # None /\ call.op = "del" /\ ret = None
      BY <2>1, <1>a, Kinds, Zenon DEF Control
    <2>4. Store!DelEnd  BY <2>1, <2>2, <2>3, <1>n DEF Store!DelEnd
    <2> QED  BY <2>4 DEF Store!Next
  <1>6. ASSUME NEW c \in SetCalls, RefuseExpire(c) PROVE Store!SetBegin(c)
    <2>1. /\ db' = db /\ now' = now /\ job' = job /\ call = None /\ call' = c /\ Invalid(c)
          /\ ret' = [status |-> "invalid"]
      BY <1>6 DEF RefuseExpire, Begin
    <2> QED  BY <2>1 DEF Store!SetBegin, Store!Begin, Store!Invalid, Invalid
  <1>7. ASSUME NEW c \in SetCalls, SetCheck(c) PROVE Store!SetBegin(c)
    <2> DEFINE j == [op |-> "set", ttl |-> Milliseconds(c)]
    <2>1. j \in SetJob  BY MillisecondsInt DEF SetJob
    <2>2. /\ call = None /\ call' = c /\ now' = now /\ ~Invalid(c)
          /\ db' = Looked(c.key, c.cond)
          /\ IF Holds(c.key, c.cond) THEN job' = j /\ ret' = ret
             ELSE job' = job /\ ret' = [status |-> "nil"]
      BY <1>7 DEF SetCheck, Begin
    <2>a. c.key \in Key /\ job = None /\ ret = None  BY <2>2, <1>a, Kinds DEF SetCalls, Control
    <2> HIDE DEF j
    <2>3. Counted(job') = Counted(job) /\ Left(job') = Left(job)
      BY <2>1, <2>2, <2>a, <1>n, <1>s
    <2>4. /\ ValueView(db', now) = ValueView(db, now)
          /\ DeadlineView(db', now) = DeadlineView(db, now)
      BY <2>2, <2>a, <1>c DEF Looked
    <2>5. Holds(c.key, c.cond) <=> Store!Meets(c)
      <3>1. lookupKeyWrite(db, c.key, now) = ValueView(db, now)[c.key]
        BY <2>a, <1>c DEF lookupKeyWrite, lookupKey
      <3>2. c.cond \in {"always", "NX", "XX"}  BY DEF SetCalls, Conditions
      <3> QED  BY <3>1, <3>2 DEF Holds, Store!Meets
    <2>6. ret' = IF Store!Invalid(c) THEN [status |-> "invalid"]
                 ELSE IF Store!Meets(c) THEN None ELSE [status |-> "nil"]
      BY <2>2, <2>5, <2>a DEF Store!Invalid, Invalid
    <2> QED  BY <2>2, <2>3, <2>4, <2>6 DEF Store!SetBegin, Store!Begin
  <1>8. CASE SetStore
    <2> DEFINE k == call.key
               v == call.val
               x == setKey(db, k, v, now)
               y == expireIfNeeded(db, k, now)
               e == IF job.ttl = None THEN None ELSE LL(now + job.ttl)
               until == now + call.time * call.unit
    <2>1. job \in SetJob /\ call \in SetCalls /\ ~Invalid(call) /\ job.ttl = Milliseconds(call)
      BY <1>8, <1>a DEF SetStore, Control, SetJob, DelJob
    <2>2. k \in Key /\ v \in Val /\ v # None /\ job.ttl \in Int \cup {None}
      BY <2>1, NoneAssumption DEF SetCalls, SetJob
    <2>3. /\ db' = IF job.ttl = None THEN x ELSE setExpire(x, k, LL(now + job.ttl))
          /\ job' = None /\ now' = now /\ call' = call /\ ret' = [status |-> "OK"]
      BY <1>8 DEF SetStore
    <2>4. call # None /\ call.op = "set" /\ ret = None
      BY <2>1, <1>a, Kinds, Zenon DEF Control
    <2>5. /\ IsDb(y) /\ ValueView(y, now) = ValueView(db, now)
          /\ DeadlineView(y, now) = DeadlineView(db, now)
      BY <2>2, <1>c
    <2>6. Counted(job') = Counted(job) /\ Left(job') = Left(job)  BY <2>1, <2>3, <1>n, <1>s
    <2>7. e \in Int \cup {None}
      <3>1. CASE job.ttl = None  BY <3>1
      <3>2. CASE job.ttl # None
        <4>1. now + job.ttl \in Int  BY <3>2, <2>2, <1>0
        <4> QED  BY <4>1, <3>2, LLInt
      <3> QED  BY <3>1, <3>2
    <2>a. /\ call.time = None => e = None
          /\ call.time # None /\ until <= LLONG_MAX => e = until /\ until \in Int /\ until > now
      <3>1. CASE call.time = None  BY <3>1, <2>1, MillisecondsInt
      <3>2. CASE call.time # None
        <4>1. job.ttl # None  BY <3>2, <2>1, MillisecondsInt
        <4>2. until \in Int  BY <3>2, <2>1, <1>0, MillisecondsInt, UnitsInt
        <4> QED  BY <3>2, <4>1, <4>2, <2>1, <1>0, MomentExact
      <3> QED  BY <3>1, <3>2
    <2>8. db' = Put(y, k, v, e)
      <3>1. x = [dict |-> [y.dict EXCEPT ![k] = v], expires |-> [y.expires EXCEPT ![k] = None]]
        BY DEF setKey, removeExpire, Stored
      <3> HIDE DEF x, y, k, v
      <3>2. CASE job.ttl = None  BY <3>1, <3>2, <2>3 DEF Put
      <3>3. CASE job.ttl # None
        <4>1. db' = setExpire(x, k, e)  BY <3>3, <2>3
        <4> HIDE DEF e
        <4>2. [[y.expires EXCEPT ![k] = None] EXCEPT ![k] = e] = [y.expires EXCEPT ![k] = e]
          BY <2>2, <2>5 DEF IsDb, IsMap
        <4> QED  BY <4>1, <4>2, <3>1 DEF setExpire, Put
      <3> QED  BY <3>2, <3>3
    <2>9. (~(call.time = None) /\ ~(until <= LLONG_MAX)) \/ e = None \/ (e \in Int /\ e > now)
      BY <2>a
    <2> HIDE DEF x, y, e, until, k, v
    <2>10. /\ ValueView(db', now) = [ValueView(db, now) EXCEPT ![k] = ValueView(db', now)[k]]
           /\ DeadlineView(db', now) = [DeadlineView(db, now) EXCEPT ![k] = DeadlineView(db', now)[k]]
           /\ ValueView(db', now)[k] \in {v, None}
           /\ e = None \/ (e \in Int /\ e > now)
                => ValueView(db', now)[k] = v /\ DeadlineView(db', now)[k] = e
      BY <2>2, <2>5, <2>7, <2>8, <1>0, StoreSeen
    <2>11. IF call.time = None THEN ValueView(db', now)[k] = v /\ DeadlineView(db', now)[k] = None
           ELSE IF until <= LLONG_MAX
                THEN ValueView(db', now)[k] = v /\ DeadlineView(db', now)[k] = until
           ELSE ValueView(db', now)[k] \in {v, None}
      BY <2>a, <2>10
    <2>12. Store!SetEnd
      BY <2>3, <2>4, <2>6, <2>10, <2>11 DEF Store!SetEnd, k, v, until
    <2> QED  BY <2>12 DEF Store!Next
  <1>9. CASE UNCHANGED vars  BY <1>9 DEF vars, Store!vars
  <1> QED
    BY <1>1, <1>b, <1>2, <1>3, <1>4, <1>5, <1>6, <1>7, <1>8, <1>9, <1>i DEF Next, Store!Next

\* Lazy expiry implements real expiry: a database behaves as a map whose values
\* vanish on time, for any keys, times and commands and whenever the clock
\* moves.  A time too great for a long long is within the theorem: the value is
\* stored, but how long it lasts is then not promised.
THEOREM KeyspaceImplementsStore == Spec => ImplementsStore
  <1>1. Init => Store!Init
    <2> SUFFICES ASSUME Init PROVE Store!Init  OBVIOUS
    <2>a. \A k \in Key : db.expires[k] = None  BY DEF Init
    <2>1. \A k \in Key : ~Expired(db, k, now) /\ getExpire(db, k) = -1
      <3> SUFFICES ASSUME NEW k \in Key PROVE ~Expired(db, k, now) /\ getExpire(db, k) = -1
        OBVIOUS
      <3>1. getExpire(db, k) = -1  BY <2>a DEF getExpire
      <3> QED  BY <3>1 DEF Expired
    <2>2. Counted(job) = 0 /\ Left(job) = <<>>  BY Kinds DEF Init, Counted, Left
    <2> QED  BY <2>1, <2>2 DEF Init, Store!Init, ValueView, DeadlineView
  <1>2. IInv /\ [Next]_vars => [Store!Next]_(Store!vars)  BY StepRefines
  <1> QED  BY <1>1, <1>2, AlwaysIInv, PTL DEF Spec, ImplementsStore, Store!Spec
=============================================================================
