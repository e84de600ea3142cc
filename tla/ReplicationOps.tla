--------------------------- MODULE ReplicationOps ----------------------------
(***************************************************************************)
(* What the functions of replication.c do to one server and to its         *)
(* connections.  An operator takes the world x of the server that runs the *)
(* handler and returns the one the C function leaves:                      *)
(*   x.s     the server: "struct redisServer" and its replication clients  *)
(*   x.net   the connections                                               *)
(*   x.bad   the connections on which a write(2) fails                     *)
(*   x.fork  whether a background save can be started                      *)
(*                                                                         *)
(* The replication stream is a sequence of bytes; a byte knows its command *)
(* and its place in it, so that a lost, doubled or torn command shows.     *)
(***************************************************************************)
EXTENDS BacklogOps, SequencesExt

CONSTANTS
  Node,         \* the servers
  Conn,         \* connections that may exist at one time: 1..n
  WithAuth,     \* the servers with a masterauth
  WithIp,       \* the servers with a slave_announce_ip
  CmdLen,       \* bytes of a command, by kind
  RdbLen        \* pieces an RDB file is transferred in

ASSUME ConnAssumption == Conn \subseteq Nat
ASSUME LengthAssumption ==
  /\ RdbLen \in Nat \ {0}
  /\ \A k \in {"set", "select", "ping"} : k \in DOMAIN CmdLen /\ CmdLen[k] \in Nat \ {0}

-----------------------------------------------------------------------------
(* The stream and the dataset.                                             *)

\* A command is <<kind, argument>>: a write with its number, a SELECT, a PING.
Bytes(cmd) == [k \in 1..CmdLen[cmd[1]] |-> [t |-> "byte", cmd |-> cmd, k |-> k]]

\* The dataset is the sequence of the writes executed, each with its database.
Garbage == <<0, 0>>

\* What the reader of a stream has: its dataset, the database selected and the
\* bytes of a command that is not complete.
Execute(m, cmd) ==
  CASE cmd[1] = "set"    -> [m EXCEPT !.data = Append(@, <<cmd[2], m.db>>)]
    [] cmd[1] = "select" -> [m EXCEPT !.db = cmd[2]]
    [] cmd[1] = "ping"   -> m

ReadByte(m, byte) ==
  LET have == Append(m.querybuf, byte)
  IN  IF byte.t = "newline" /\ m.querybuf = <<>> THEN m
      ELSE IF byte.t # "byte" THEN [m EXCEPT !.data = Append(@, Garbage)]
      ELSE IF have # SubSeq(Bytes(byte.cmd), 1, byte.k)
           THEN [m EXCEPT !.data = Append(@, Garbage), !.querybuf = <<>>]
      ELSE IF byte.k < CmdLen[byte.cmd[1]] THEN [m EXCEPT !.querybuf = have]
      ELSE Execute([m EXCEPT !.querybuf = <<>>], byte.cmd)

-----------------------------------------------------------------------------
(* Connections: r is the replica's end, m the master's; each direction is  *)
(* a queue.  A link that is not up delivers nothing more.                  *)

NoConn == [r |-> NULL, m |-> NULL, toM |-> <<>>, toR |-> <<>>,
           ropen |-> FALSE, mopen |-> FALSE, up |-> FALSE]

Opened(r, m) == [NoConn EXCEPT !.r = r, !.m = m, !.ropen = TRUE, !.mopen = TRUE, !.up = TRUE]

CloseR(net, c) == IF net[c].mopen THEN [net EXCEPT ![c].ropen = FALSE, ![c].toR = <<>>]
                  ELSE [net EXCEPT ![c] = NoConn]
CloseM(net, c) == IF net[c].ropen THEN [net EXCEPT ![c].mopen = FALSE, ![c].toM = <<>>]
                  ELSE [net EXCEPT ![c] = NoConn]

\* Each end may find out that the other one cannot be reached.
LostToR(net, c) == ~(net[c].mopen /\ net[c].up)
LostToM(net, c) == ~(net[c].ropen /\ net[c].up)

SendToR(net, c, items) == IF LostToM(net, c) THEN net ELSE [net EXCEPT ![c].toR = @ \o items]
SendToM(net, c, item)  == IF LostToR(net, c) THEN net ELSE [net EXCEPT ![c].toM = Append(@, item)]

Newline == [t |-> "newline"]
Reply(kind) == [t |-> kind]

-----------------------------------------------------------------------------
(* The structures.                                                         *)

\* createClient, as far as replication uses it; slave stands for CLIENT_SLAVE,
\* asap for CLIENT_CLOSE_ASAP, out for the output buffers, bulk for what is
\* left to send of the RDB file.
NewClient ==
  [slave |-> FALSE, pre_psync |-> FALSE, asap |-> FALSE, replstate |-> "NONE",
   capa |-> {}, out |-> <<>>, bulk |-> <<>>, psync_initial_offset |-> 0,
   put_online_on_ack |-> FALSE, ack_off |-> 0]

\* initServerConfig and initServer
NewServer(runid, masterhost, size, diskless) ==
  [runid |-> runid, diskless |-> diskless, data |-> <<>>, b |-> NoBacklog(size), slaveseldb |-> -1,
   slaves |-> <<>>, cli |-> [c \in Conn |-> NULL], child |-> NULL,
   masterhost |-> masterhost,
   repl_state |-> IF masterhost = NULL THEN "NONE" ELSE "CONNECT",
   transfer_s |-> NULL, master_runid |-> NULL, initial_offset |-> -1,
   transfer_size |-> -1, usemark |-> FALSE, file |-> <<>>,
   master |-> NULL, cached_master |-> NULL]

WaitStart(s) == {c \in ToSet(s.slaves) : s.cli[c].replstate = "WAIT_BGSAVE_START"}
WaitEnd(s)   == {c \in ToSet(s.slaves) : s.cli[c].replstate = "WAIT_BGSAVE_END"}
InHandshake(s) == s.repl_state \in {"RECEIVE_PONG", "RECEIVE_AUTH", "RECEIVE_PORT",
                                    "RECEIVE_IP", "RECEIVE_CAPA", "RECEIVE_PSYNC"}

\* freeClient for a slave, with the cleanup networking.c keeps as a comment
freeSlave(x, c) ==
  [x EXCEPT !.s.cli[c] = NULL, !.s.slaves = RemoveFirst(@, c), !.net = CloseM(@, c)]

disconnectSlaves(x) == FoldLeft(freeSlave, x, x.s.slaves)

-----------------------------------------------------------------------------
(* The master's side.                                                      *)

\* replicationFeedSlaves: every slave but those whose save has not begun
Fed(client, bytes) == [client EXCEPT !.out = @ \o bytes]
replicationFeedSlaves(x, db, cmd) ==
  LET select == IF x.s.slaveseldb = db THEN <<>> ELSE Bytes(<<"select", db>>)
      bytes  == select \o Bytes(cmd)
      fed    == ToSet(x.s.slaves) \ WaitStart(x.s)
  IN  IF x.s.b.buf = NULL /\ x.s.slaves = <<>> THEN x
      ELSE [x EXCEPT
        !.s.slaveseldb = db,
        !.s.b = IF @.buf = NULL THEN @ ELSE feedReplicationBacklog(@, bytes),
        !.s.cli = [c \in Conn |-> IF c \in fed THEN Fed(@[c], bytes) ELSE @[c]]]

\* replicationSetupSlaveForFullResync
replicationSetupSlaveForFullResync(x, c, offset) ==
  LET y == [x EXCEPT !.s.cli[c].psync_initial_offset = offset,
                     !.s.cli[c].replstate = "WAIT_BGSAVE_END",
                     !.s.slaveseldb = -1]
      reply == [t |-> "fullresync", runid |-> x.s.runid, offset |-> offset]
  IN  IF x.s.cli[c].pre_psync THEN y
      ELSE IF c \in x.bad THEN [y EXCEPT !.s.cli[c].asap = TRUE]
      ELSE [y EXCEPT !.net = SendToR(@, c, <<reply>>)]

\* A background save: the snapshot it took, where it goes, and how many pieces
\* the child has written when it writes to the sockets of its targets.
Child(type, snapshot, targets) ==
  [type |-> type, snapshot |-> snapshot, targets |-> targets, sent |-> 0]

\* A save that cannot be started: the slaves waiting for it are told, and leave
\* the list.  Their replstate stays, so that prepareClientToWrite schedules
\* nothing: the error is never sent and the connection is not closed.
Drop(waiting, y, c) ==
  IF c \in waiting
  THEN [y EXCEPT !.s.slaves = RemoveFirst(@, c), !.s.cli[c].slave = FALSE,
                 !.s.cli[c].out = Append(@, Reply("err"))]
  ELSE y
DropWaiting(x) == FoldLeft(LAMBDA y, c : Drop(WaitStart(x.s), y, c), x, x.s.slaves)

\* Both targets set up every slave that waits: the socket one inside
\* rdbSaveToSlavesSockets.
SetUp(waiting, y, c) ==
  IF c \in waiting
  THEN replicationSetupSlaveForFullResync(y, c, getPsyncInitialOffset(y.s.b)) ELSE y

startBgsaveForReplication(x, mincapa) ==
  LET socket == x.s.diskless /\ "eof" \in mincapa
  IN  IF ~x.fork THEN DropWaiting(x)
      ELSE FoldLeft(LAMBDA y, c : SetUp(WaitStart(x.s), y, c),
             [x EXCEPT !.s.child = IF socket THEN Child("socket", x.s.data, WaitStart(x.s))
                                   ELSE Child("disk", x.s.data, {})],
             x.s.slaves)

\* The bitwise AND of the capabilities of the slaves that wait
mincapa(s) == {p \in {"eof"} : \A c \in WaitStart(s) : p \in s.cli[c].capa}

\* The conditions of masterTryPartialResynchronization
CanContinue(s, runid, offset) == runid = s.runid /\ Held(s.b, offset)

\* masterTryPartialResynchronization once the conditions hold
AcceptPartial(x, c, offset) ==
  LET y == [x EXCEPT !.s.slaves = Append(@, c),
                     !.s.cli[c] = [@ EXCEPT !.slave = TRUE, !.replstate = "ONLINE",
                                            !.put_online_on_ack = FALSE]]
  IN  IF c \in x.bad THEN [y EXCEPT !.s.cli[c].asap = TRUE]
      ELSE [y EXCEPT !.s.cli[c].out = @ \o BacklogFrom(x.s.b, offset),
                     !.net = SendToR(@, c, <<Reply("continue")>>)]

\* Fault: the differences registered so far are not copied.
AttachBare(x, c, d) ==
  replicationSetupSlaveForFullResync(x, c, x.s.cli[d].psync_initial_offset)

\* copyClientOutputBuffer, and the set-up with the offset of the other slave
AttachTo(x, c, d) ==
  replicationSetupSlaveForFullResync([x EXCEPT !.s.cli[c].out = x.s.cli[d].out],
                                     c, x.s.cli[d].psync_initial_offset)

\* Case 1 of syncCommand: a save to disk is on.  It is good for this slave if
\* some slave registers the differences and has no capability it lacks.
JoinDiskSave(x, c) ==
  LET others == {i \in DOMAIN x.s.slaves : x.s.slaves[i] \in WaitEnd(x.s)}
      d      == x.s.slaves[Min(others)]
  IN  IF others # {} /\ x.s.cli[d].capa \subseteq x.s.cli[c].capa
      THEN AttachTo(x, c, d) ELSE x

\* syncCommand from "Full resynchronization" on: the client becomes a slave that
\* waits, joins a save or gets one started, and is the first one to need a backlog.
Enlist(x, c, pre) ==
  LET client == x.s.cli[c]
  IN  [x EXCEPT !.s.slaves = Append(@, c),
                !.s.cli[c] = [client EXCEPT !.slave = TRUE, !.pre_psync = pre \/ client.pre_psync,
                                            !.replstate = "WAIT_BGSAVE_START"]]
FindSave(x, c) ==
  IF x.s.child # NULL
  THEN IF x.s.child.type = "disk" THEN JoinDiskSave(x, c) ELSE x
  ELSE IF x.s.diskless /\ "eof" \in x.s.cli[c].capa THEN x
  ELSE startBgsaveForReplication(x, x.s.cli[c].capa)
FullResync(x, c, pre) ==
  LET z == FindSave(Enlist(x, c, pre), c)
  IN  IF Len(z.s.slaves) = 1 /\ z.s.b.buf = NULL
      THEN [z EXCEPT !.s.b = createReplicationBacklog(@)] ELSE z

\* SYNC and PSYNC.  Pending output cannot be: a peer in the handshake has read
\* every reply before it sends this.
syncCommand(x, c, msg) ==
  IF x.s.cli[c].slave THEN x
  ELSE IF x.s.masterhost # NULL /\ x.s.repl_state # "CONNECTED"
       THEN [x EXCEPT !.net = SendToR(@, c, <<Reply("err")>>)]
  ELSE IF msg.t = "psync" /\ CanContinue(x.s, msg.runid, msg.offset)
       THEN AcceptPartial(x, c, msg.offset)
  ELSE FullResync(x, c, msg.t = "sync")

putSlaveOnline(x, c) ==
  [x EXCEPT !.s.cli[c].replstate = "ONLINE", !.s.cli[c].put_online_on_ack = FALSE]

\* Fault: the first ACK does not put the slave of a diskless transfer online.
AckOnly(x, c, offset) ==
  [x EXCEPT !.s.cli[c].ack_off = IF offset > @ THEN offset ELSE @]

\* REPLCONF ACK
replconfAck(x, c, offset) ==
  LET y == [x EXCEPT !.s.cli[c].ack_off = IF offset > @ THEN offset ELSE @]
  IN  IF ~x.s.cli[c].slave THEN x
      ELSE IF x.s.cli[c].put_online_on_ack /\ x.s.cli[c].replstate = "ONLINE"
      THEN putSlaveOnline(y, c) ELSE y

\* The file as it is read back: a length and its pieces
RdbPieces(snapshot) == [k \in 1..RdbLen |-> [t |-> "rdb", data |-> snapshot, k |-> k]]
RdbFile(snapshot) == <<[t |-> "bulklen", n |-> RdbLen]>> \o RdbPieces(snapshot)

\* A slave that waited for the save; failed are those whose transfer the child
\* reports as broken, which rdb.c disconnects first.
Served(ok, child, failed, y, c) ==
  IF c \in failed THEN freeSlave(y, c)
  ELSE IF child.type = "socket"
  THEN [y EXCEPT !.s.cli[c].replstate = "ONLINE", !.s.cli[c].put_online_on_ack = TRUE]
  ELSE IF ~ok THEN freeSlave(y, c)
  ELSE [y EXCEPT !.s.cli[c].replstate = "SEND_BULK",
                 !.s.cli[c].bulk = RdbFile(child.snapshot)]

updateSlavesWaitingBgsave(x, ok, child, failed) ==
  LET update(y, c) == IF c \in WaitEnd(x.s) THEN Served(ok, child, failed, y, c) ELSE y
      z == FoldLeft(update, x, x.s.slaves)
  IN  IF WaitStart(z.s) # {} THEN startBgsaveForReplication(z, mincapa(z.s)) ELSE z

\* sendBulkToSlave: the preamble with the first piece, or one more piece.  The
\* slave is freed when writing fails and when the file ends too early.
sendBulkToSlave(x, c) ==
  LET bulk == x.s.cli[c].bulk
      n    == IF bulk[1].t = "bulklen" THEN 2 ELSE 1
      y    == [x EXCEPT !.s.cli[c].bulk = SubSeq(@, n + 1, Len(@)),
                        !.net = SendToR(@, c, SubSeq(bulk, 1, n))]
  IN  IF c \in x.bad \/ Len(bulk) < n THEN freeSlave(x, c)
      ELSE IF Len(bulk) = n THEN putSlaveOnline(y, c) ELSE y

\* writeToClient under the condition with which prepareClientToWrite schedules
CanWrite(cl) ==
  cl.replstate = "NONE" \/ (cl.replstate = "ONLINE" /\ ~cl.put_online_on_ack)
writeToSlave(x, c) ==
  IF c \in x.bad THEN freeSlave(x, c)
  ELSE [x EXCEPT !.s.cli[c].out = <<>>, !.net = SendToR(@, c, x.s.cli[c].out)]
=============================================================================
