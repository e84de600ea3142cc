----------------------------- MODULE ReplicaOps ------------------------------
(***************************************************************************)
(* The replica's side of replication.c: the link to the master, the states *)
(* of the handshake (server.repl_state), the transfer of the dataset, and  *)
(* the master's client, which is cached when its link is lost so that the  *)
(* stream can be taken up where it was left.                               *)
(***************************************************************************)
EXTENDS ReplicationOps

\* replicationCreateMasterClient: a client on database 0
CreateMasterClient(s) ==
  [conn |-> s.transfer_s, reploff |-> s.initial_offset, replrunid |-> s.master_runid,
   pre_psync |-> s.initial_offset = -1, db |-> 0, querybuf |-> <<>>]

\* replicationCacheMaster with replicationHandleMasterDisconnection: what
\* freeClient does to the master's client, by the hook networking.c keeps as
\* a comment.  Its output buffer, ACKs not yet written, is not modelled: an ACK
\* is on its way when it is made.
replicationCacheMaster(x) ==
  [x EXCEPT !.s.cached_master = [x.s.master EXCEPT !.conn = NULL],
            !.s.master = NULL, !.s.repl_state = "CONNECT",
            !.net = CloseR(@, x.s.master.conn)]

replicationDiscardCachedMaster(x) == [x EXCEPT !.s.cached_master = NULL]

\* Fault: the descriptor is forgotten and not closed.
UndoWithoutClose(x) == [x EXCEPT !.s.transfer_s = NULL]

undoConnectWithMaster(x) ==
  [x EXCEPT !.s.transfer_s = NULL, !.net = CloseR(@, x.s.transfer_s)]

\* replicationAbortSyncTransfer: also unlinks the temporary file.
replicationAbortSyncTransfer(x) ==
  [undoConnectWithMaster(x) EXCEPT !.s.file = <<>>]

cancelReplicationHandshake(x) ==
  IF x.s.repl_state = "TRANSFER"
  THEN [replicationAbortSyncTransfer(x) EXCEPT !.s.repl_state = "CONNECT"]
  ELSE IF x.s.repl_state = "CONNECTING" \/ InHandshake(x.s)
  THEN [undoConnectWithMaster(x) EXCEPT !.s.repl_state = "CONNECT"]
  ELSE x

\* The label error of syncWithMaster
SyncError(x) == [undoConnectWithMaster(x) EXCEPT !.s.repl_state = "CONNECT"]

\* connectWithMaster on a free connection
connectWithMaster(x, n, c) ==
  [x EXCEPT !.s.transfer_s = c, !.s.repl_state = "CONNECTING",
            !.net[c] = Opened(n, x.s.masterhost)]

\* sendSynchronousCommand with SYNC_CMD_WRITE, and the state that awaits the
\* answer; a write error ends the attempt.
Ask(x, msg, state) ==
  LET c == x.s.transfer_s
  IN  IF c \in x.bad THEN SyncError(x)
      ELSE [x EXCEPT !.net = SendToM(@, c, msg), !.s.repl_state = state]

AskPort(x) == Ask(x, Reply("port"), "RECEIVE_PORT")
AskCapa(x) == Ask(x, Reply("capa"), "RECEIVE_CAPA")

\* The writing half of slaveTryPartialResynchronization; NULL stands for "?".
AskPsync(x) ==
  LET cached == x.s.cached_master
      msg == IF cached = NULL THEN [t |-> "psync", runid |-> NULL, offset |-> -1]
             ELSE [t |-> "psync", runid |-> cached.replrunid, offset |-> cached.reploff + 1]
  IN  Ask([x EXCEPT !.s.initial_offset = -1], msg, "RECEIVE_PSYNC")

\* What each state of the handshake does with the answer it waited for; rep is
\* the answer, an error one included when reading failed.
AfterPong(x, n, rep) ==
  IF rep.t = "err" THEN SyncError(x)
  ELSE IF n \in WithAuth THEN Ask(x, Reply("auth"), "RECEIVE_AUTH")
  ELSE AskPort(x)
AfterAuth(x, n, rep) == IF rep.t = "err" THEN SyncError(x) ELSE AskPort(x)
AfterPort(x, n, rep) ==
  IF n \in WithIp THEN Ask(x, Reply("ip"), "RECEIVE_IP") ELSE AskCapa(x)
AfterIp(x, n, rep)   == AskCapa(x)
AfterCapa(x, n, rep) == AskPsync(x)

\* The tail of syncWithMaster: the replica's own replicas have to start afresh,
\* and the file is opened (or cannot be).
StartTransfer(x, opens) ==
  LET y == disconnectSlaves(x)
      z == [y EXCEPT !.s.b = freeReplicationBacklog(@)]
  IN  IF ~opens THEN SyncError(z)
      ELSE [z EXCEPT !.s.repl_state = "TRANSFER", !.s.transfer_size = -1, !.s.file = <<>>]

\* replicationResurrectCachedMaster; there is no output left over to write.
replicationResurrectCachedMaster(x) ==
  [x EXCEPT !.s.master = [x.s.cached_master EXCEPT !.conn = x.s.transfer_s],
            !.s.cached_master = NULL, !.s.repl_state = "CONNECTED"]

\* The answer +FULLRESYNC
AfterFullResync(x, rep, opens) ==
  StartTransfer(replicationDiscardCachedMaster(
    [x EXCEPT !.s.master_runid = rep.runid, !.s.initial_offset = rep.offset]), opens)

\* An error: fall back to SYNC on the same connection.
AfterNotSupported(x, opens) ==
  LET y == replicationDiscardCachedMaster(x)
      c == x.s.transfer_s
  IN  IF c \in x.bad
      THEN LET d == disconnectSlaves(y)
           IN  SyncError([d EXCEPT !.s.b = freeReplicationBacklog(@)])
      ELSE StartTransfer([y EXCEPT !.net = SendToM(@, c, Reply("sync"))], opens)

\* The reading half of slaveTryPartialResynchronization and what follows it
AfterPsync(x, rep, opens) ==
  CASE rep.t = "newline"    -> x
    [] rep.t = "fullresync" -> AfterFullResync(x, rep, opens)
    [] rep.t = "continue"   -> replicationResurrectCachedMaster(x)
    [] OTHER                -> AfterNotSupported(x, opens)

\* readSyncBulkPayload while the length is not known
ReadBulkLength(x, rep) ==
  CASE rep.t = "newline" -> x
    [] rep.t = "bulklen" -> [x EXCEPT !.s.transfer_size = rep.n, !.s.usemark = FALSE]
    [] rep.t = "eofmark" -> [x EXCEPT !.s.transfer_size = 0, !.s.usemark = TRUE]
    [] OTHER             -> cancelReplicationHandshake(x)

\* rdbLoad: the dataset of a file that holds the pieces of one snapshot
Loadable(file) == Len(file) = RdbLen /\ file[1].t = "rdb" /\ file = RdbPieces(file[1].data)

\* The end of the transfer: the old dataset is flushed, the new one loaded.
LoadDataset(x, file) ==
  IF ~Loadable(file)
  THEN cancelReplicationHandshake([x EXCEPT !.s.data = <<>>])
  ELSE [x EXCEPT !.s.data = file[1].data, !.s.file = <<>>,
                 !.s.master = CreateMasterClient(x.s), !.s.repl_state = "CONNECTED"]

\* The most pieces of the file one read returns: no more than were announced,
\* and with a delimiter whatever is there.
ReadLen(x, there) ==
  IF x.s.usemark THEN there ELSE Min({there, x.s.transfer_size - Len(x.s.file)})

\* readSyncBulkPayload for the pieces one read returned: the transfer is over at
\* the announced length, or when the delimiter, which is cut off, ends the read.
ReadBulkPieces(x, pieces) ==
  LET file == x.s.file \o pieces
  IN  IF x.s.usemark /\ Last(pieces).t = "eof" THEN LoadDataset(x, Front(file))
      ELSE IF ~x.s.usemark /\ Len(file) = x.s.transfer_size THEN LoadDataset(x, file)
      ELSE [x EXCEPT !.s.file = file]

\* replicationSendAck.  The master keeps the largest offset acknowledged, so an
\* ACK it has not read is as good as gone when the next one follows it.
replicationSendAck(x) ==
  LET c   == x.s.master.conn
      ack == [t |-> "ack", offset |-> x.s.master.reploff]
      q   == x.net[c].toM
      y   == IF q # <<>> /\ Last(q).t = "ack" THEN [x EXCEPT !.net[c].toM = Front(@)] ELSE x
  IN  [y EXCEPT !.net = SendToM(@, c, ack)]

\* readQueryFromClient for the master's client: the byte counts as read even
\* when its command is not complete; a write is passed on to the replica's
\* own replicas.
ReadFromMaster(x, byte) ==
  LET m == x.s.master
      r == ReadByte([data |-> x.s.data, db |-> m.db, querybuf |-> m.querybuf], byte)
      y == [x EXCEPT !.s.data = r.data,
                     !.s.master = [m EXCEPT !.db = r.db, !.querybuf = r.querybuf,
                                            !.reploff = @ + 1]]
  IN  IF Len(r.data) = Len(x.s.data) THEN y
      ELSE replicationFeedSlaves(y, r.db, <<"set", Last(r.data)[1]>>)

\* replicationSetMaster and replicationUnsetMaster (SLAVEOF)
replicationSetMaster(x, m) ==
  LET y == IF x.s.master # NULL THEN replicationCacheMaster(x) ELSE x
      z == cancelReplicationHandshake(replicationDiscardCachedMaster(disconnectSlaves(y)))
  IN  [z EXCEPT !.s.masterhost = m, !.s.repl_state = "CONNECT",
                !.s.b = [freeReplicationBacklog(@) EXCEPT !.offset = 0]]

replicationUnsetMaster(x) ==
  LET a == IF x.s.master # NULL /\ x.s.slaves = <<>>
           THEN [x EXCEPT !.s.b = [freeReplicationBacklog(@) EXCEPT !.offset = x.s.master.reploff]]
           ELSE x
      y == IF x.s.master # NULL THEN replicationCacheMaster(a) ELSE a
      z == cancelReplicationHandshake(replicationDiscardCachedMaster(y))
  IN  [z EXCEPT !.s.masterhost = NULL, !.s.repl_state = "NONE"]
=============================================================================
