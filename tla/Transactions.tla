---------------------------- MODULE Transactions -----------------------------
(***************************************************************************)
(* multi.c and the part of processCommand that queues or refuses requests: *)
(* watched keys are kept twice, in a list of each client and in a table of *)
(* each database, both tables and the queues holding references to the key *)
(* objects that requests arrive in.                                        *)
(*                                                                         *)
(* The server's one thread handles a request at a time, so an action is a  *)
(* whole request: its arguments are created, it is dispatched, and         *)
(* resetClient lets go of the arguments.  The calls that createClient,     *)
(* freeClient and signalModifiedKey make to multi.c are comments in this   *)
(* tree; they are made here.                                               *)
(***************************************************************************)
EXTENDS Integers, Sequences, FiniteSets, SequencesExt, Functions

CONSTANTS
  Client, Db,
  Name,        \* the names of keys
  Obj,         \* the objects there is memory for
  Arguments,   \* the keys a request names: sequences over Name
  MaxWatched,  \* bound on the keys a client watches
  MaxQueued,   \* bound on the commands a client queues
  Nobody       \* what a freed object names

ASSUME TransactionsAssumption ==
  0 \in Db /\ IsFiniteSet(Obj) /\ Arguments \subseteq Seq(Name) /\ Nobody \notin Name

VARIABLES
  t,           \* [client, watched, ref, name, panic], see TransactionsInit
  keys,        \* the keys of each database's dict
  loading,     \* server.loading
  asked,       \* history: what each client has asked to watch and not unwatched
  stale,       \* history: which of that was modified since
  spoiled      \* history: clients whose transaction had an error in place of a command

transvars == <<t, keys, loading, asked, stale, spoiled>>

MULTI == "multi"   DIRTY_CAS == "dirty_cas"   DIRTY_EXEC == "dirty_exec"
-----------------------------------------------------------------------------
(* object.c *)

incrRefCount(x, o) == [x EXCEPT !.ref[o] = @ + 1]

\* The last reference frees the object; there must be one to drop.
decrRefCount(x, o) == IF x.ref[o] = 0 THEN [x EXCEPT !.panic = TRUE]
                      ELSE IF x.ref[o] = 1 THEN [x EXCEPT !.ref[o] = 0, !.name[o] = Nobody]
                      ELSE [x EXCEPT !.ref[o] = @ - 1]

incrAll(x, objs) == FoldLeft(incrRefCount, x, objs)
decrAll(x, objs) == FoldLeft(decrRefCount, x, objs)
-----------------------------------------------------------------------------
(* WATCH: multi.c *)

Watches(x, c, d, k) == \E i \in DOMAIN x.client[c].watched :
                         LET w == x.client[c].watched[i] IN w.db = d /\ x.name[w.key] = k

WithEntry(f, k, e) == [n \in DOMAIN f \cup {k} |-> IF n = k THEN e ELSE f[n]]

\* The table takes the object as its key when it had none for that name.
AddWatch(x, c, o) ==
  LET d == x.client[c].db
      k == x.name[o]
      own == [x EXCEPT !.client[c].watched = Append(@, [key |-> o, db |-> d])]
  IN  incrRefCount(
        IF k \in DOMAIN x.watched[d]
        THEN [own EXCEPT !.watched[d][k].clients = Append(@, c)]
        ELSE incrRefCount([own EXCEPT !.watched[d] = WithEntry(x.watched[d], k, [key |-> o, clients |-> <<c>>])], o),
        o)

\* Fault: a key that is watched already is added again.
WatchAgain(x, c, o) == AddWatch(x, c, o)

watchForKey(x, c, o) == IF Watches(x, c, x.client[c].db, x.name[o]) THEN x ELSE AddWatch(x, c, o)

\* One round of unwatchAllKeys: the client leaves the table's list, the entry
\* goes with the last client and drops its own key, then the client's is dropped.
Unwatched(x, c, w) ==
  LET k == x.name[w.key]
      e == x.watched[w.db][k]
      left == RemoveFirst(e.clients, c)
  IN  IF k \notin DOMAIN x.watched[w.db] THEN [x EXCEPT !.panic = TRUE]
      ELSE IF c \notin ToSet(e.clients) THEN [x EXCEPT !.panic = TRUE]
      ELSE decrRefCount(
             IF left = <<>>
             THEN decrRefCount([x EXCEPT !.watched[w.db] = Restrict(@, DOMAIN @ \ {k})], e.key)
             ELSE [x EXCEPT !.watched[w.db][k].clients = left],
             w.key)

unwatchAllKeys(x, c) ==
  [FoldLeft(LAMBDA y, w : Unwatched(y, c, w), x, x.client[c].watched) EXCEPT !.client[c].watched = <<>>]

Flagged(x, cs, f) ==
  [x EXCEPT !.client = [c \in Client |-> IF c \in cs THEN [x.client[c] EXCEPT !.flags = @ \cup {f}]
                                         ELSE x.client[c]]]

\* Fault: only the first of a key's watchers is told.
TouchFirst(x, d, k) == IF k \notin DOMAIN x.watched[d] THEN x
                       ELSE Flagged(x, {x.watched[d][k].clients[1]}, DIRTY_CAS)

touchWatchedKey(x, d, k) == IF k \notin DOMAIN x.watched[d] THEN x
                            ELSE Flagged(x, ToSet(x.watched[d][k].clients), DIRTY_CAS)

\* Of all databases: whoever watches a key that is there to be removed.
touchWatchedKeysOnFlush(x, present) ==
  Flagged(x, {c \in Client : x.client[c].live /\ \E d \in Db : \E k \in present[d] : Watches(x, c, d, k)}, DIRTY_CAS)
-----------------------------------------------------------------------------
(* MULTI: multi.c *)

initClientMultiState(x, c) == [x EXCEPT !.client[c].commands = <<>>]
freeClientMultiState(x, c) == FoldLeft(LAMBDA y, argv : decrAll(y, argv), x, x.client[c].commands)

\* Fault: the queue keeps arguments that resetClient frees.
QueueBare(x, c, argv) == [x EXCEPT !.client[c].commands = Append(@, argv)]

queueMultiCommand(x, c, argv) == incrAll([x EXCEPT !.client[c].commands = Append(@, argv)], argv)

discardTransaction(x, c) ==
  unwatchAllKeys([initClientMultiState(freeClientMultiState(x, c), c) EXCEPT !.client[c].flags = @ \ {MULTI, DIRTY_CAS, DIRTY_EXEC}], c)

flagTransaction(x, c) == IF MULTI \in x.client[c].flags THEN Flagged(x, {c}, DIRTY_EXEC) ELSE x
-----------------------------------------------------------------------------
(* processCommand and the command procedures. *)

inMulti(c) == MULTI \in t.client[c].flags

\* Memory for the arguments of a request, each holding one reference.
Free == {o \in Obj : t.ref[o] = 0}
Argv(names) == CHOOSE argv \in [1..Len(names) -> Free] : IsInjective(argv)
WithArgv(names) ==
  LET argv == Argv(names)
      new(o) == names[CHOOSE j \in DOMAIN argv : argv[j] = o]
  IN  [t EXCEPT !.ref = [o \in Obj |-> IF o \in ToSet(argv) THEN 1 ELSE t.ref[o]],
                !.name = [o \in Obj |-> IF o \in ToSet(argv) THEN new(o) ELSE t.name[o]]]

\* A request is answered with an error where it would have been queued.
NotQueued(c) == spoiled' = IF inMulti(c) THEN spoiled \cup {c} ELSE spoiled

\* One of the tests that come first says no: the name, the arity, the password
\* or the state of the disk.
Refused(c) ==
  /\ t' = flagTransaction(t, c)
  /\ NotQueued(c)
  /\ UNCHANGED <<keys, loading, asked, stale>>

\* The last test: all but a few commands are refused while loading.
RefusedLoading(c) ==
  /\ loading
  /\ NotQueued(c)
  /\ UNCHANGED <<t, keys, loading, asked, stale>>

\* In MULTI all but MULTI, EXEC, DISCARD and WATCH are queued.
Queue(c, names) ==
  /\ inMulti(c)
  /\ Len(t.client[c].commands) < MaxQueued /\ Len(names) <= Cardinality(Free)
  /\ t' = decrAll(queueMultiCommand(WithArgv(names), c, Argv(names)), Argv(names))
  /\ UNCHANGED <<keys, loading, asked, stale, spoiled>>

multiCommand(c) ==
  /\ ~inMulti(c)    \* MULTI calls can not be nested
  /\ t' = Flagged(t, {c}, MULTI)
  /\ UNCHANGED <<keys, loading, asked, stale, spoiled>>

discardCommand(c) ==
  /\ inMulti(c)     \* DISCARD without MULTI
  /\ t' = discardTransaction(t, c)
  /\ asked' = [asked EXCEPT ![c] = {}] /\ stale' = [stale EXCEPT ![c] = {}]
  /\ spoiled' = spoiled \ {c}
  /\ UNCHANGED <<keys, loading>>

watchCommand(c, names) ==
  /\ ~inMulti(c)    \* WATCH inside MULTI is not allowed
  /\ Len(t.client[c].watched) + Len(names) <= MaxWatched /\ Len(names) <= Cardinality(Free)
  /\ t' = decrAll(FoldLeft(LAMBDA x, o : watchForKey(x, c, o), WithArgv(names), Argv(names)), Argv(names))
  /\ asked' = [asked EXCEPT ![c] = @ \cup ({t.client[c].db} \X ToSet(names))]
  /\ UNCHANGED <<keys, loading, stale, spoiled>>

unwatchCommand(c) ==
  /\ ~inMulti(c)
  /\ t' = [unwatchAllKeys(t, c) EXCEPT !.client[c].flags = @ \ {DIRTY_CAS}]
  /\ asked' = [asked EXCEPT ![c] = {}] /\ stale' = [stale EXCEPT ![c] = {}]
  /\ UNCHANGED <<keys, loading, spoiled>>

\* SET stores the key and signals it; DEL signals one that was there.
signalModifiedKey(c, k, now) ==
  LET d == t.client[c].db
  IN  /\ ~inMulti(c)
      /\ t' = touchWatchedKey(t, d, k)
      /\ keys' = [keys EXCEPT ![d] = now]
      /\ stale' = [b \in Client |-> stale[b] \cup (asked[b] \cap {<<d, k>>})]
      /\ UNCHANGED <<loading, asked, spoiled>>

setCommand(c, k) == signalModifiedKey(c, k, keys[t.client[c].db] \cup {k})
delCommand(c, k) == /\ k \in keys[t.client[c].db]
                    /\ signalModifiedKey(c, k, keys[t.client[c].db] \ {k})

\* SELECT: the one command here that is also let through while loading.
selectDb(c, d) == /\ ~inMulti(c)
                  /\ t' = [t EXCEPT !.client[c].db = d]
                  /\ UNCHANGED <<keys, loading, asked, stale, spoiled>>

\* A request that a procedure answers with an error (a nested MULTI, a WATCH
\* inside MULTI, a DISCARD without) changes nothing.
processCommand(c) ==
  /\ t.client[c].live
  /\ \/ Refused(c) \/ RefusedLoading(c)
     \/ \E d \in Db : selectDb(c, d)
     \/ /\ ~loading
        /\ \/ \E names \in Arguments : Queue(c, names) \/ watchCommand(c, names)
           \/ \E k \in Name : setCommand(c, k) \/ delCommand(c, k)
           \/ multiCommand(c) \/ discardCommand(c) \/ unwatchCommand(c)
-----------------------------------------------------------------------------
(* Around them. *)

\* A full resynchronization: signalFlushedDb(-1) and emptyDb before the load,
\* during which clients are served.
FlushForLoading ==
  /\ ~loading /\ loading' = TRUE
  /\ t' = touchWatchedKeysOnFlush(t, keys)
  /\ keys' = [d \in Db |-> {}]
  /\ stale' = [c \in Client |-> stale[c] \cup {p \in asked[c] : p[2] \in keys[p[1]]}]
  /\ UNCHANGED <<asked, spoiled>>

Loaded == /\ loading /\ loading' = FALSE
          /\ keys' \in [Db -> SUBSET Name]
          /\ UNCHANGED <<t, asked, stale, spoiled>>

NoClient == [live |-> FALSE, db |-> 0, flags |-> {}, watched |-> <<>>, commands |-> <<>>]

createClient(c) ==
  /\ ~t.client[c].live
  /\ t' = initClientMultiState([t EXCEPT !.client[c].live = TRUE], c)
  /\ UNCHANGED <<keys, loading, asked, stale, spoiled>>

\* Between two requests, at any time.
freeClient(c) ==
  /\ t.client[c].live
  /\ t' = [freeClientMultiState(unwatchAllKeys(t, c), c) EXCEPT !.client[c] = NoClient]
  /\ asked' = [asked EXCEPT ![c] = {}] /\ stale' = [stale EXCEPT ![c] = {}]
  /\ spoiled' = spoiled \ {c}
  /\ UNCHANGED <<keys, loading>>

TransactionsInit ==
  /\ t = [client |-> [c \in Client |-> NoClient],
          watched |-> [d \in Db |-> <<>>],    \* db->watched_keys: name -> [key, clients]
          ref |-> [o \in Obj |-> 0], name |-> [o \in Obj |-> Nobody],
          panic |-> FALSE]
  /\ keys = [d \in Db |-> {}] /\ loading = FALSE
  /\ asked = [c \in Client |-> {}] /\ stale = [c \in Client |-> {}] /\ spoiled = {}

TransactionsNext ==
  /\ ~t.panic
  /\ \/ \E c \in Client : createClient(c) \/ freeClient(c) \/ processCommand(c)
     \/ FlushForLoading \/ Loaded
TransactionsSpec == TransactionsInit /\ [][TransactionsNext]_transvars
-----------------------------------------------------------------------------
(* Properties. *)

Pairs(c) == LET w == t.client[c].watched IN {<<w[i].db, t.name[w[i].key]>> : i \in DOMAIN w}

\* Through any requests, disconnections and flushes the client's list and the
\* databases' tables hold the same, each pair once and under the name of an
\* object that is alive, no list is left empty and none names a client that is
\* gone: touchWatchedKey writes to every client of a list without a check, and
\* unwatchAllKeys asserts that it finds its entry.
TablesAgree ==
  /\ ~t.panic
  /\ \A c \in Client : Pairs(c) = asked[c] /\ Len(t.client[c].watched) = Cardinality(asked[c])
  /\ \A d \in Db :
       /\ DOMAIN t.watched[d] = {k \in Name : \E c \in Client : <<d, k>> \in asked[c]}
       /\ \A k \in DOMAIN t.watched[d] :
            LET e == t.watched[d][k]
            IN  /\ t.name[e.key] = k
                /\ ToSet(e.clients) = {c \in Client : <<d, k>> \in asked[c]}
                /\ Len(e.clients) = Cardinality(ToSet(e.clients))

\* Who holds an object between two requests.
Holders(o) ==
  (UNION {{<<"list", c, i>> : i \in {j \in DOMAIN t.client[c].watched : t.client[c].watched[j].key = o}}
            : c \in Client})
  \cup (UNION {{<<"table", d, k>> : k \in {n \in DOMAIN t.watched[d] : t.watched[d][n].key = o}} : d \in Db})
  \cup (UNION {UNION {{<<"queue", c, <<i, j>>>> :
                         j \in {n \in DOMAIN t.client[c].commands[i] : t.client[c].commands[i][n] = o}}
                        : i \in DOMAIN t.client[c].commands} : c \in Client})

\* An object a table, a list or a queue refers to is never freed under it, and
\* none outlives its last holder: the three let go of the same object in any
\* order, and the table keeps the object of whoever watched first.
HoldersCounted == \A o \in Obj : t.ref[o] = Cardinality(Holders(o))

\* A client is DIRTY_CAS exactly when EXEC has to refuse it for a key: one it
\* watches was modified, or flushed away, since it asked, even if another client
\* watched it first or unwatched it meanwhile.  And it is DIRTY_EXEC only for an
\* error within the transaction it is in: the flag of an earlier transaction, or
\* of the client that had its place before, is gone.
AbortsRightly ==
  \A c \in Client : /\ DIRTY_CAS \in t.client[c].flags <=> stale[c] # {}
                    /\ DIRTY_EXEC \in t.client[c].flags => c \in spoiled

\* "Flag the transaction as DIRTY_EXEC so that EXEC will fail.  Should be called
\* every time there is an error while queueing a command" (flagTransaction): a
\* client whose transaction misses a command that was answered with an error is
\* DIRTY_EXEC.
ErrorsSpoil == \A c \in spoiled : DIRTY_EXEC \in t.client[c].flags
=============================================================================
