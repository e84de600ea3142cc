----------------------------- MODULE Replication -----------------------------
(***************************************************************************)
(* Masters and replicas running replication.c over connections that break: *)
(* writes feed the replicas and the backlog, a replica connects, shakes    *)
(* hands, takes the whole dataset or continues where it was, reads the     *)
(* stream and acknowledges it; links are cut, go silent, servers restart   *)
(* and are told to follow somebody else, and saves fail.                   *)
(*                                                                         *)
(* Each server is one thread, so a handler is one step.  Time is not       *)
(* counted: any link may have been silent for repl_timeout when            *)
(* replicationCron looks at it.                                            *)
(***************************************************************************)
EXTENDS ReplicaOps

CONSTANTS
  InitialMaster,   \* whom each server follows when it starts, or NULL
  MayFollow,       \* the pairs <<n, m>> of SLAVEOF commands that are given
  Db,              \* database numbers
  Diskless,        \* the values of server.repl_diskless_sync
  BacklogSize,     \* server.repl_backlog_size at start
  NewSizes,        \* sizes the backlog is given at runtime
  Limit,           \* bounds on writes, pings, commands and faults
  MaxEvents        \* bound on all of them together

-----------------------------------------------------------------------------
(* What the state is made of.                                              *)

RunId   == Node \X Nat
Command == {"set", "select", "ping"} \X Int
Dataset == Seq(Int \X Int)

\* What goes to a replica: answers, the stream, and a dataset in pieces with
\* what frames it.
Byte    == [t : {"byte"}, cmd : Command, k : Nat]
Payload == [t : {"err", "newline", "eofmark", "eof"}] \cup Byte
             \cup [t : {"bulklen"}, n : Nat] \cup [t : {"rdb"}, data : Dataset, k : Nat]
Answer  == [t : {"pong", "ok", "continue"}] \cup [t : {"fullresync"}, runid : RunId, offset : Int]
Item    == Payload \cup Answer

\* What goes to a master
Request == [t : {"ping", "auth", "port", "ip", "capa", "sync"}] \cup [t : {"ack"}, offset : Int]
             \cup [t : {"psync"}, runid : RunId \cup {NULL}, offset : Int]

ReplicaClient ==
  [slave : BOOLEAN, pre_psync : BOOLEAN, asap : BOOLEAN,
   replstate : {"NONE", "WAIT_BGSAVE_START", "WAIT_BGSAVE_END", "SEND_BULK", "ONLINE"},
   capa : SUBSET {"eof"}, out : Seq(Payload), bulk : Seq(Payload), psync_initial_offset : Int,
   put_online_on_ack : BOOLEAN, ack_off : Int]
MasterClient ==
  [conn : Conn \cup {NULL}, reploff : Int, replrunid : RunId \cup {NULL}, pre_psync : BOOLEAN,
   db : Int, querybuf : Seq(Item)]
Save == [type : {"disk", "socket"}, snapshot : Dataset, targets : SUBSET Conn, sent : Nat]

\* The sizes a backlog may have, and its ring
Sizes == {BacklogSize} \cup {Max({n, CONFIG_REPL_BACKLOG_MIN_SIZE}) : n \in NewSizes}
Ring(size) == [0..(size - 1) -> Byte \cup {NULL}]

\* The bounds limit writes, pings, commands and faults; NULL is none of the
\* things it stands for the absence of.
ASSUME ReplicationAssumption ==
  /\ BacklogSize \in Nat \ {0} /\ NewSizes \subseteq Int /\ Db \subseteq Int
  /\ Diskless \subseteq BOOLEAN
  /\ InitialMaster \in [Node -> Node \cup {NULL}]
  /\ MayFollow \subseteq Node \X (Node \cup {NULL})
  /\ {"writes", "pings", "commands", "faults"} \subseteq DOMAIN Limit
  /\ NULL \notin Node /\ NULL \notin Conn /\ NULL \notin RunId /\ NULL \notin Byte
  /\ NULL \notin ReplicaClient /\ NULL \notin MasterClient /\ NULL \notin Save
  /\ \A size \in Sizes : NULL \notin Ring(size)

VARIABLES
  server,    \* the servers
  conn,      \* the connections
  count      \* what the bounds limit

vars == <<server, conn, count>>

\* Writes, PINGs fed to replicas, commands of the administrator, and faults:
\* links that break or are silent for too long, saves and files that fail,
\* servers that start again.
Counters == DOMAIN Limit

Init ==
  /\ \E diskless \in Diskless :
       server = [n \in Node |-> NewServer(<<n, 0>>, InitialMaster[n], BacklogSize, diskless)]
  /\ conn = [c \in Conn |-> NoConn]
  /\ count = [k \in Counters |-> 0]

\* The world of server n: writes fail on some or none of the lost connections.
Lost(n) == {c \in Conn : \/ conn[c].r = n /\ conn[c].ropen /\ LostToR(conn, c)
                         \/ conn[c].m = n /\ conn[c].mopen /\ LostToM(conn, c)}
World(n, bad) == [s |-> server[n], net |-> conn, bad |-> bad, fork |-> TRUE]
Worlds(n) == {World(n, bad) : bad \in {{}, Lost(n)}}

Becomes(n, x) == server' = [server EXCEPT ![n] = x.s] /\ conn' = x.net
Spent == FoldFunction(+, 0, count)
Left(k) == count[k] < Limit[k] /\ Spent < MaxEvents
Spend(k) == Left(k) /\ count' = [count EXCEPT ![k] = @ + 1]

\* A step that may meet a failing system call: it succeeds, or a fault is spent.
Succeeds(ok) == IF ok THEN UNCHANGED count ELSE Spend("faults")

-----------------------------------------------------------------------------
(* The master.                                                             *)

\* call() of a write command, with the propagation server.c keeps as a comment
Write(n, db) ==
  /\ server[n].masterhost = NULL
  /\ LET w == count["writes"] + 1
         x == [World(n, {}) EXCEPT !.s.data = Append(@, <<w, db>>)]
     IN  Becomes(n, replicationFeedSlaves(x, db, <<"set", w>>))
  /\ Spend("writes")

\* A connection is accepted (acceptTcpHandler) when something comes over it.
Open(n, c) == conn[c].m = n /\ conn[c].mopen
Accepted(n, c) == IF server[n].cli[c] = NULL
                  THEN [World(n, {}) EXCEPT !.s.cli[c] = NewClient] ELSE World(n, {})
Client(n, c) == Open(n, c) /\ server[n].cli[c] # NULL

\* A request of a client that is, or wants to be, a replica: the answer to a
\* plain command is on the wire before the server sleeps again.
MasterReads(n, c) ==
  /\ Open(n, c) /\ conn[c].toM # <<>>
  /\ \E bad \in {{}, Lost(n)}, fork \in BOOLEAN :
       LET msg == Head(conn[c].toM)
           x   == [Accepted(n, c) EXCEPT !.net[c].toM = Tail(@), !.bad = bad, !.fork = fork]
           say(y, kind) == [y EXCEPT !.net = SendToR(@, c, <<Reply(kind)>>)]
           y == CASE msg.t = "ping" -> say(x, "pong")
                  [] msg.t \in {"auth", "port", "ip"} -> say(x, "ok")
                  [] msg.t = "capa" -> say([x EXCEPT !.s.cli[c].capa = {"eof"}], "ok")
                  [] msg.t = "ack"  -> replconfAck(x, c, msg.offset)
                  [] msg.t \in {"psync", "sync"} -> syncCommand(x, c, msg)
       IN  /\ msg.t \notin {"psync", "sync"} => fork
           /\ Becomes(n, y) /\ Succeeds(fork)

\* readQueryFromClient finds the connection closed.
SlaveLost(n, c) ==
  /\ Open(n, c) /\ LostToM(conn, c)
  /\ Becomes(n, freeSlave(World(n, {}), c)) /\ UNCHANGED count

\* freeClientsInAsyncFreeQueue
FreeAsync(n, c) ==
  /\ Client(n, c) /\ server[n].cli[c].asap
  /\ Becomes(n, freeSlave(World(n, {}), c)) /\ UNCHANGED count

\* sendReplyToClient.  How much one call writes makes no difference here: what
\* is left in the buffer and what waits in the socket are both ahead of it.
SendReply(n, c) ==
  /\ Client(n, c) /\ server[n].cli[c].out # <<>> /\ CanWrite(server[n].cli[c])
  /\ \E x \in Worlds(n) : Becomes(n, writeToSlave(x, c))
  /\ UNCHANGED count

SendBulk(n, c) ==
  /\ Client(n, c) /\ server[n].cli[c].replstate = "SEND_BULK"
  /\ \E x \in Worlds(n) : Becomes(n, sendBulkToSlave(x, c))
  /\ UNCHANGED count

\* The child of a diskless save writes one piece to all its targets.
ChildWrites(n) ==
  LET child == server[n].child
      data  == <<[t |-> "eofmark"]>> \o RdbPieces(child.snapshot) \o <<[t |-> "eof"]>>
  IN  /\ child # NULL /\ child.type = "socket" /\ child.sent < RdbLen + 2
      /\ server' = [server EXCEPT ![n].child.sent = @ + 1]
      /\ conn' = [c \in Conn |-> IF c \in child.targets /\ server[n].cli[c] # NULL
                                    /\ server[n].cli[c].replstate = "WAIT_BGSAVE_END"
                                 THEN SendToR(conn, c, <<data[child.sent + 1]>>)[c]
                                 ELSE conn[c]]
      /\ UNCHANGED count

\* backgroundSaveDoneHandler: the child is gone; a diskless one has reported
\* the targets it could not write to.
BgsaveDone(n, ok, fork) ==
  LET child == server[n].child
      x == [World(n, {}) EXCEPT !.s.child = NULL, !.fork = fork]
  IN  /\ child # NULL
      /\ child.type = "socket" => child.sent = RdbLen + 2
      /\ WaitStart(server[n]) = {} => fork
      /\ Becomes(n, updateSlavesWaitingBgsave(x, ok, child,
                      IF child.type = "socket" THEN {c \in child.targets : LostToM(conn, c)} ELSE {}))
      /\ Succeeds(ok /\ fork)

\* CONFIG SET repl-backlog-size
ResizeBacklog(n, size) ==
  /\ size # server[n].b.size
  /\ server' = [server EXCEPT ![n].b = resizeReplicationBacklog(@, size)]
  /\ Spend("commands") /\ UNCHANGED conn

-----------------------------------------------------------------------------
(* The replica.                                                            *)

\* The answer a blocking read gives: the next one, or an error, after which
\* nothing more comes.
Answers(c) == {conn[c].toR[i] : i \in 1..Min({1, Len(conn[c].toR)})}
              \cup (IF LostToR(conn, c) THEN {Reply("err")} ELSE {})
Took(x, c, rep) == [x EXCEPT !.net[c].toR =
                      IF @ # <<>> /\ rep = Head(@) THEN Tail(@) ELSE <<>>]

TookMany(x, c, k) == [x EXCEPT !.net[c].toR = SubSeq(@, k + 1, Len(@))]

\* syncWithMaster when the connection is made: the PING goes out.
SendPing(n) ==
  /\ server[n].repl_state = "CONNECTING"
  /\ \E x \in Worlds(n) : Becomes(n, Ask(x, Reply("ping"), "RECEIVE_PONG"))
  /\ UNCHANGED count

\* syncWithMaster finds an error on the socket.
SocketError(n) ==
  /\ server[n].repl_state = "CONNECTING" \/ InHandshake(server[n])
  /\ LostToR(conn, server[n].transfer_s)
  /\ Becomes(n, SyncError(World(n, {}))) /\ UNCHANGED count

\* syncWithMaster in the states that await an answer, up to PSYNC
Handshake(n) ==
  LET st == server[n].repl_state
      c  == server[n].transfer_s
  IN  /\ InHandshake(server[n]) /\ st # "RECEIVE_PSYNC"
      /\ \E w \in Worlds(n), rep \in Answers(c) :
           LET x == Took(w, c, rep)
           IN  Becomes(n, CASE st = "RECEIVE_PONG" -> AfterPong(x, n, rep)
                            [] st = "RECEIVE_AUTH" -> AfterAuth(x, n, rep)
                            [] st = "RECEIVE_PORT" -> AfterPort(x, n, rep)
                            [] st = "RECEIVE_IP"   -> AfterIp(x, n, rep)
                            [] st = "RECEIVE_CAPA" -> AfterCapa(x, n, rep))
      /\ UNCHANGED count

\* syncWithMaster with the answer to PSYNC; the temporary file may not open.
ReceivePsync(n, opens) ==
  LET c == server[n].transfer_s
  IN  /\ server[n].repl_state = "RECEIVE_PSYNC"
      /\ \E w \in Worlds(n), rep \in Answers(c) :
           /\ rep.t \in {"newline", "continue"} => opens
           /\ Becomes(n, AfterPsync(Took(w, c, rep), rep, opens))
      /\ Succeeds(opens)

\* readSyncBulkPayload: a line with the length, an error, or as many pieces as
\* have arrived and the read takes.
ReadBulk(n) ==
  LET c == server[n].transfer_s
      w == World(n, {})
      q == conn[c].toR
  IN  /\ server[n].repl_state = "TRANSFER"
      /\ \/ /\ server[n].transfer_size = -1
            /\ \E rep \in Answers(c) : Becomes(n, ReadBulkLength(Took(w, c, rep), rep))
         \/ /\ server[n].transfer_size # -1
            /\ LostToR(conn, c)
            /\ Becomes(n, cancelReplicationHandshake(TookMany(w, c, Len(q))))
         \/ /\ server[n].transfer_size # -1
            /\ \E k \in 1..ReadLen(w, Len(q)) :
                 Becomes(n, ReadBulkPieces(TookMany(w, c, k), SubSeq(q, 1, k)))
      /\ UNCHANGED count

\* readQueryFromClient for the master's client; reading more than a byte at
\* once is this step several times.
ReadStream(n) ==
  /\ server[n].master # NULL
  /\ LET c == server[n].master.conn
     IN  /\ conn[c].toR # <<>>
         /\ Becomes(n, ReadFromMaster(Took(World(n, {}), c, Head(conn[c].toR)), Head(conn[c].toR)))
  /\ UNCHANGED count

MasterLost(n) ==
  /\ server[n].master # NULL /\ LostToR(conn, server[n].master.conn)
  /\ Becomes(n, replicationCacheMaster(World(n, {}))) /\ UNCHANGED count

\* SLAVEOF
Slaveof(n, m) ==
  /\ server[n].masterhost # m
  /\ Becomes(n, IF m = NULL THEN replicationUnsetMaster(World(n, {}))
                ELSE replicationSetMaster(World(n, {}), m))
  /\ Spend("commands")
-----------------------------------------------------------------------------
(* replicationCron.  Its arguments are what the clock says: whether the    *)
(* link to the master has been silent for repl_timeout, which replica has  *)
(* not acknowledged for as long, whether the backlog has been idle, and    *)
(* whether a diskless save has been delayed enough.                        *)

CronTimeout(x, silent) ==
  IF ~silent THEN x
  ELSE IF x.s.master # NULL THEN replicationCacheMaster(x)
  ELSE cancelReplicationHandshake(x)

FreeConns(net) == {c \in Conn : net[c] = NoConn}

CronConnect(x, n) ==
  IF x.s.repl_state = "CONNECT" /\ FreeConns(x.net) # {}
  THEN connectWithMaster(x, n, Min(FreeConns(x.net))) ELSE x

CronAck(x) ==
  IF x.s.master # NULL /\ ~x.s.master.pre_psync THEN replicationSendAck(x) ELSE x

CronPing(x, ping) ==
  IF ping THEN replicationFeedSlaves(x, x.s.slaveseldb, <<"ping", 0>>) ELSE x

\* Fault: the newline also goes to a socket an RDB file is being written to.
NewlineEverywhere(x) ==
  LET waiting == WaitStart(x.s) \cup WaitEnd(x.s)
  IN  [x EXCEPT !.net = [c \in Conn |->
         IF c \in waiting /\ (@[c].toR = <<>> \/ Last(@[c].toR) # Newline)
         THEN SendToR(@, c, <<Newline>>)[c] ELSE @[c]]]

\* A newline keeps the link to a replica that waits for its file alive; one
\* right after another changes nothing and is not written here.
CronNewline(x) ==
  LET socket  == x.s.child # NULL /\ x.s.child.type = "socket"
      waiting == WaitStart(x.s) \cup (IF socket THEN {} ELSE WaitEnd(x.s))
  IN  [x EXCEPT !.net = [c \in Conn |->
         IF c \in waiting /\ (@[c].toR = <<>> \/ Last(@[c].toR) # Newline)
         THEN SendToR(@, c, <<Newline>>)[c] ELSE @[c]]]

CronSlow(x, slow) == FoldLeft(freeSlave, x, SetToSeq(slow))

CronBacklog(x, idle) ==
  IF idle THEN [x EXCEPT !.s.b = freeReplicationBacklog(@)] ELSE x

CronBgsave(x, ripe) ==
  IF x.s.child = NULL /\ WaitStart(x.s) # {} /\ (~x.s.diskless \/ ripe)
  THEN startBgsaveForReplication(x, mincapa(x.s)) ELSE x

\* A timeout of a link that works costs a fault: it was silent for that long.
HasLink(s) == s.repl_state \notin {"NONE", "CONNECT"}
LinkOf(s)  == IF s.master # NULL THEN s.master.conn ELSE s.transfer_s

\* The master has dropped the replica without a word (DropWaiting).
Dropped(c) == LET cl == server[conn[c].m].cli[c]
              IN  cl # NULL /\ ~cl.slave /\ cl.replstate = "WAIT_BGSAVE_START"
Dead(n) == HasLink(server[n]) /\ (LostToR(conn, LinkOf(server[n])) \/ Dropped(LinkOf(server[n])))
Online(s) == {c \in ToSet(s.slaves) : s.cli[c].replstate = "ONLINE" /\ ~s.cli[c].pre_psync}

\* When each argument matters; otherwise it has one value.
May(b)  == IF b THEN BOOLEAN ELSE {FALSE}
Must(b) == IF b THEN BOOLEAN ELSE {TRUE}

Idle(n, slow) == ToSet(server[n].slaves) \subseteq slow /\ server[n].b.buf # NULL
CanStart(n)   == server[n].child = NULL /\ WaitStart(server[n]) # {}
CanDelay(n)   == server[n].diskless /\ CanStart(n)

Cron(n, silent, slow, idle, ripe, ping, fork) ==
  LET fault == (silent /\ ~Dead(n)) \/ (\E c \in slow : ~LostToM(conn, c)) \/ ~fork
  IN  /\ ~fork => ripe
      /\ fault => Left("faults") /\ ~ping
      /\ \E w \in {CronTimeout([World(n, {}) EXCEPT !.fork = fork], silent)} :
         \E x \in {CronAck(CronConnect(w, n))} :
         \E y \in {CronNewline(CronPing(x, ping))} :
         \E z \in {CronBacklog(CronSlow(y, slow), idle)} : Becomes(n, CronBgsave(z, ripe))
      /\ count' = [count EXCEPT !["pings"] = IF ping THEN @ + 1 ELSE @,
                                !["faults"] = IF fault THEN @ + 1 ELSE @]

-----------------------------------------------------------------------------
(* What goes wrong outside the servers.                                    *)

\* A link breaks; the two ends find out later, and each for itself.
Break(c) ==
  /\ conn[c].up
  /\ conn' = [conn EXCEPT ![c].up = FALSE] /\ Spend("faults") /\ UNCHANGED server

\* A server starts again: another run id, no dataset, no connections.
Restart(n) ==
  /\ server' = [server EXCEPT ![n] =
                  NewServer(<<n, server[n].runid[2] + 1>>, InitialMaster[n], BacklogSize, server[n].diskless)]
  /\ conn' = [c \in Conn |-> IF conn[c].r = n /\ conn[c].ropen THEN CloseR(conn, c)[c]
                             ELSE IF conn[c].m = n /\ conn[c].mopen THEN CloseM(conn, c)[c]
                             ELSE conn[c]]
  /\ Spend("faults")

\* What the sockets of a server wake it up for: the link to its master,
Link(n) ==
  \/ SendPing(n) \/ SocketError(n) \/ Handshake(n)
  \/ \E opens \in BOOLEAN : ReceivePsync(n, opens)
  \/ ReadBulk(n) \/ ReadStream(n) \/ MasterLost(n)

\* a replica's connection that can be written to, and one that is over.
Writable(n, c) == SendReply(n, c) \/ SendBulk(n, c)
Over(n, c)     == SlaveLost(n, c) \/ FreeAsync(n, c)

Next ==
  \/ \E n \in Node :
       \/ Link(n) \/ ChildWrites(n)
       \/ \E c \in Conn : MasterReads(n, c) \/ Writable(n, c) \/ Over(n, c)
       \/ \E ok, fork \in BOOLEAN : BgsaveDone(n, ok, fork)
       \/ \E db \in Db : Write(n, db)
       \/ \E size \in NewSizes : ResizeBacklog(n, size)
       \/ \E silent \in May(HasLink(server[n])), ping \in May(Left("pings")),
             slow \in {{}} \cup {{c} : c \in Online(server[n])} :
            \E idle \in May(Idle(n, slow)), ripe \in Must(CanDelay(n)), fork \in Must(CanStart(n)) :
              Cron(n, silent, slow, idle, ripe, ping, fork)
       \/ Restart(n)
  \/ \E p \in MayFollow : Slaveof(p[1], p[2])
  \/ \E c \in Conn : Break(c)

Spec == Init /\ [][Next]_vars

\* Every server runs: it calls replicationCron once a second, serves every
\* connection that has something for it, and learns in time that a link is
\* dead; background saves end.
FairSpec ==
  /\ Spec
  /\ \A n \in Node :
       /\ WF_vars(Cron(n, FALSE, {}, FALSE, TRUE, FALSE, TRUE))
       /\ WF_vars(Dead(n) /\ Cron(n, TRUE, {}, FALSE, TRUE, FALSE, TRUE))
       /\ WF_vars(Link(n))
       /\ WF_vars(ChildWrites(n) \/ BgsaveDone(n, TRUE, TRUE))
       /\ \A c \in Conn : /\ WF_vars(MasterReads(n, c))
                          /\ WF_vars(Writable(n, c)) /\ WF_vars(Over(n, c))

-----------------------------------------------------------------------------

Reader(n, m) == [data |-> server[n].data, db |-> m.db, querybuf |-> m.querybuf]
Follow(reader, bytes) == FoldLeft(ReadByte, reader, bytes)

\* A replica on a working link receives the stream of its master without gap,
\* repetition or torn command, and executes each write in the database it was
\* executed in there: what it has, with what is on the way to it, is what the
\* master has, and its offset counts the same bytes.  It holds from the moment
\* a dataset is loaded or a stream continued, whatever was lost before.
StreamExact ==
  \A n \in Node :
    LET m == server[n].master IN
    m # NULL /\ ~LostToR(conn, m.conn) =>
      LET up    == server[conn[m.conn].m]
          bytes == conn[m.conn].toR \o up.cli[m.conn].out
      IN  /\ Follow(Reader(n, m), bytes).data = up.data
          /\ ~m.pre_psync => m.reploff + Len(bytes) = up.b.offset

\* Whenever a master would accept to continue the stream of a replica, what it
\* would send is what that replica lacks: a backlog that was overwritten,
\* freed, resized or made anew never serves an offset it no longer holds.
PartialResyncSafe ==
  \A n \in Node : \A m \in {server[n].master, server[n].cached_master} :
    server[n].masterhost # NULL /\ m # NULL =>
      LET up == server[server[n].masterhost] IN
      CanContinue(up, m.replrunid, m.reploff + 1) =>
        Follow(Reader(n, m), BacklogFrom(up.b, m.reploff + 1)).data = up.data

\* An offset stands for one byte as long as a ring holds it.  An offset that was
\* counted before a step and is held after it was held before, and what is given
\* out for it is what was given out then, with new bytes at the end only: no
\* byte is taken for another when the ring wraps, is resized or made anew, and
\* what was written while there was no ring is in none.
BacklogSteady ==
  [][\A n \in Node :
       LET b == server[n].b
           e == server'[n].b
       IN  e # b =>
             \A o \in e.off..(b.offset + 1) :
               Held(e, o) => Held(b, o) /\ IsPrefix(BacklogFrom(b, o), BacklogFrom(e, o))]_vars

\* The file a replica collects is a beginning of one snapshot: nothing that
\* keeps a link alive gets into it, nor what is sent behind the delimiter, and
\* pieces of two transfers never mix.
TransferIntact ==
  \A n \in Node :
    LET file == server[n].file IN
    file # <<>> => /\ file[1].t = "rdb"
                   /\ IsPrefix(file, RdbPieces(file[1].data))

\* The state of the replica's link and its descriptors agree: no attempt that
\* was given up leaves a connection behind, and a cached master is never there
\* together with a live one.  At the other end the list of slaves is that of the
\* clients flagged as such, and there is a backlog as long as there are slaves:
\* both are asserted where the stream is fed.
LinkOwned ==
  \A n \in Node :
    LET s == server[n] IN
    /\ \A c \in Conn : conn[c].r = n /\ conn[c].ropen <=> HasLink(s) /\ c = LinkOf(s)
    /\ (s.master # NULL) <=> (s.repl_state = "CONNECTED")
    /\ s.master # NULL => s.cached_master = NULL
    /\ ToSet(s.slaves) = {c \in Conn : s.cli[c] # NULL /\ s.cli[c].slave}
    /\ s.slaves # <<>> => s.b.buf # NULL

\* Once links, saves and servers stop failing, every replica ends up connected
\* and with its master's dataset.
InSync(n) == server[n].masterhost # NULL =>
               /\ server[n].repl_state = "CONNECTED"
               /\ server[n].data = server[server[n].masterhost].data
EventuallyInSync == <>[](\A n \in Node : InSync(n))
=============================================================================
