----------------------------- MODULE Networking ------------------------------
(***************************************************************************)
(* The server as its clients see it: the event loop of ae.c (aeMain,       *)
(* aeProcessEvents) running the handlers of networking.c (accept, read,    *)
(* execute, write) against sockets whose other end sends, reads and closes *)
(* at any time.  The server is one thread; what can interleave is the      *)
(* peers, the order in which ready descriptors are served, and how much a  *)
(* socket takes or gives in one call.                                      *)
(***************************************************************************)
EXTENDS ClientOps

CONSTANTS
  Remote,         \* the connections that are not from the loopback interface
  ProtectedMode,  \* server.protected_mode, with no bind address or password
  MaxClients,     \* server.maxclients
  MaxQueryBuf,    \* server.client_max_querybuf_len, in requests
  Request,        \* the requests peers send: [kind, reply]
  MaxRequests,    \* bound on the requests of one connection
  SendBuffer,     \* bytes the kernel holds for a peer that does not read
  AddCanFail      \* whether epoll_ctl may fail when a handler is installed

ASSUME RequestAssumption ==
  \A r \in Request : /\ r.kind \in {"command", "multibulk", "quit", "bad", "empty"}
                     /\ r.reply \in Seq([len : Nat, kind : {EMBSTR, RAW, SHARED}, alloc : Nat])
ASSUME LimitAssumption ==
  {MaxClients, MaxQueryBuf, MaxRequests, SendBuffer} \subseteq Nat

VARIABLES
  server,   \* struct redisServer
  loop,     \* where the event loop is, and the events poll returned
  sock      \* the connections: the kernel's buffers and the peer's end

vars == <<server, loop, sock>>

LISTEN == 0   \* the listening socket; connections have the descriptors Fd

Live(c) == c \in ToSet(server.clients)
FreeFds == {f \in Fd : \A c \in Client : server.client[c].fd # f}

Init ==
  /\ server = NewServer
  /\ loop = [phase |-> "beforesleep", fired |-> {}, event |-> {}]
  /\ sock = [c \in Client |-> [state |-> "none", inbox |-> <<>>, asked |-> 0,
                               room |-> SendBuffer, wire |-> <<>>, hungup |-> FALSE]]

-----------------------------------------------------------------------------
(* The other end.                                                          *)

Connect(c) ==
  /\ sock[c].state = "none"
  /\ sock' = [sock EXCEPT ![c].state = "backlog"]
  /\ UNCHANGED <<server, loop>>

Ask(c, r) ==
  /\ sock[c].state \in {"backlog", "open"} /\ ~sock[c].hungup
  /\ sock[c].asked < MaxRequests
  /\ sock' = [sock EXCEPT ![c].inbox = Append(@, r), ![c].asked = @ + 1]
  /\ UNCHANGED <<server, loop>>

PeerReads(c) ==
  /\ sock[c].room < SendBuffer
  /\ sock' = [sock EXCEPT ![c].room = SendBuffer]
  /\ UNCHANGED <<server, loop>>

HangUp(c) ==
  /\ sock[c].state \in {"backlog", "open"} /\ ~sock[c].hungup
  /\ sock' = [sock EXCEPT ![c].hungup = TRUE]
  /\ UNCHANGED <<server, loop>>

Closed(c) == [sock EXCEPT ![c] = [@ EXCEPT !.state = "closed", !.inbox = <<>>,
                                           !.room = SendBuffer]]

-----------------------------------------------------------------------------
(* aeMain: beforesleep, poll, dispatch.                                    *)

\* The socket takes n bytes: at least one when it has room, no more than it
\* has room for.
Takes(c, n) ==
  /\ n <= sock[c].room /\ n <= Len(Unsent(server.client[c]))
  /\ n = 0 => sock[c].room = 0 \/ Unsent(server.client[c]) = <<>>
  /\ CanStopAfter(server.client[c], n)

\* What the peer and the socket see of a writeToClient that left server r.
Transmit(r, c, n) ==
  sock' = LET x == server.client[c]
              t == [sock EXCEPT ![c].wire = @ \o SubSeq(Unsent(x), 1, n),
                                ![c].room = @ - n]
          IN  IF c \in ToSet(r.clients) THEN t
              ELSE [t EXCEPT ![c] = [@ EXCEPT !.state = "closed", !.inbox = <<>>,
                                              !.room = SendBuffer]]

\* Fault: the client leaves the list with its flag set.
LeavesFlag(c) == [server EXCEPT !.clients_pending_write = Tail(@)]

\* One client of handleClientsWithPendingWrites: unflag it, write, and install
\* the handler when output is left.
Unflagged(c) ==
  ClearFlag([server EXCEPT !.clients_pending_write = Tail(@)], c, PENDING_WRITE)

StillPending(r, c) == c \in ToSet(r.clients) /\ clientHasPendingReplies(r.client[c])

\* Fault: no write handler for what the socket did not take.
HandleWithoutHandler(c, n) ==
  LET w == writeToClient(Unflagged(c), c, n, FALSE) IN
  /\ loop.phase = "beforesleep"
  /\ server.clients_pending_write # <<>> /\ c = Head(server.clients_pending_write)
  /\ Takes(c, n)
  /\ server' = w
  /\ Transmit(w, c, n)
  /\ UNCHANGED loop

HandlePendingWrite(c, n) ==
  LET w == writeToClient(Unflagged(c), c, n, FALSE) IN
  /\ loop.phase = "beforesleep"
  /\ server.clients_pending_write # <<>> /\ c = Head(server.clients_pending_write)
  /\ Takes(c, n)
  /\ \/ ~StillPending(w, c) /\ server' = w
     \/ StillPending(w, c) /\ server' = aeCreateFileEvent(w, w.client[c].fd, WRITABLE, c)
     \/ StillPending(w, c) /\ AddCanFail /\ server' = freeClientAsync(w, c)
  /\ Transmit(w, c, n)
  /\ UNCHANGED loop

\* The write fails because the peer is gone.
HandlePendingWriteError(c) ==
  /\ loop.phase = "beforesleep"
  /\ server.clients_pending_write # <<>> /\ c = Head(server.clients_pending_write)
  /\ sock[c].hungup /\ Unsent(server.client[c]) # <<>>
  /\ server' = freeClient(Unflagged(c), c)
  /\ sock' = Closed(c)
  /\ UNCHANGED loop

\* aeApiPoll: the registered events that are ready now (the serverCron timer
\* is always due, so the call never blocks).
ReadyMask(f, c) ==
  {m \in server.events[f].mask :
     \/ m = READABLE /\ (sock[c].inbox # <<>> \/ sock[c].hungup)
     \/ m = WRITABLE /\ (sock[c].room > 0 \/ sock[c].hungup)}
Backlog == {c \in Client : sock[c].state = "backlog"}
FiredEvents ==
  {[fd |-> f, mask |-> UNION {ReadyMask(f, c) : c \in server.events[f].clientData}]
     : f \in Fd}
  \cup {[fd |-> LISTEN, mask |-> IF Backlog = {} THEN {} ELSE {READABLE}]}

Poll ==
  /\ loop.phase = "beforesleep" /\ server.clients_pending_write = <<>>
  /\ loop' = [phase |-> "dispatch", event |-> {},
              fired |-> {e \in FiredEvents : e.mask # {}}]
  /\ UNCHANGED <<server, sock>>

\* The next fired event: the read handler runs if the event is still wanted.
Dispatch(e) ==
  /\ loop.phase = "dispatch" /\ e \in loop.fired
  /\ loop' = [phase |-> IF e.fd = LISTEN THEN "accept"
                        ELSE IF READABLE \in e.mask \cap server.events[e.fd].mask
                             THEN "read" ELSE "write",
              fired |-> loop.fired \ {e}, event |-> {e}]
  /\ UNCHANGED <<server, sock>>

\* No event is left: the time events (serverCron does nothing), and around.
EndOfEvents ==
  /\ loop.phase = "dispatch" /\ loop.fired = {}
  /\ loop' = [loop EXCEPT !.phase = "beforesleep"]
  /\ UNCHANGED <<server, sock>>

Fired == CHOOSE e \in loop.event : TRUE
Goto(phase) == loop' = [loop EXCEPT !.phase = phase]
NextEvent == loop' = [loop EXCEPT !.phase = "dispatch", !.event = {}]
\* The client the handler of the current event is called with.
Handled == CHOOSE c \in server.events[Fired.fd].clientData : TRUE

-----------------------------------------------------------------------------
(* acceptTcpHandler, acceptCommonHandler.                                  *)

\* createClient fails: the descriptor is beyond the table.
RefuseDescriptor(c, f) ==
  /\ loop.phase = "accept" /\ c \in Backlog
  /\ f \in FreeFds /\ f >= SetSize
  /\ sock' = Closed(c)
  /\ UNCHANGED <<server, loop>>

Rejected(r, c) == Len(r.clients) > MaxClients \/ (ProtectedMode /\ c \in Remote)

\* A client is created for every connection, and freed at once when it is one
\* too many or comes from outside in protected mode.
Accept(c, f) ==
  LET r == createClient(server, c, f) IN
  /\ loop.phase = "accept" /\ c \in Backlog
  /\ f \in FreeFds /\ f < SetSize
  /\ IF Rejected(r, c)
     THEN server' = freeClient(r, c) /\ sock' = Closed(c)
     ELSE server' = r /\ sock' = [sock EXCEPT ![c].state = "open"]
  /\ UNCHANGED loop

AcceptDone ==
  /\ loop.phase = "accept" /\ (Backlog = {} \/ FreeFds = {})
  /\ NextEvent
  /\ UNCHANGED <<server, sock>>

-----------------------------------------------------------------------------
(* readQueryFromClient, processInputBuffer.                                *)

\* k requests arrive in the query buffer; 0 is EAGAIN.  A query buffer over
\* the limit costs the client its connection.
Read(k) ==
  LET c == Handled
      q == server.client[c].querybuf \o SubSeq(sock[c].inbox, 1, k)
  IN  /\ loop.phase = "read"
      /\ k <= Len(sock[c].inbox)
      /\ k = 0 => sock[c].inbox = <<>> /\ ~sock[c].hungup
      /\ IF Len(q) > MaxQueryBuf
         THEN server' = freeClient(server, c) /\ sock' = Closed(c) /\ Goto("write")
         ELSE /\ server' = [server EXCEPT !.client[c].querybuf = q]
              /\ sock' = [sock EXCEPT ![c].inbox = SubSeq(@, k + 1, Len(@))]
              /\ Goto(IF k = 0 THEN "write" ELSE "input")

\* read returns 0, or an error.
ReadEnds ==
  /\ loop.phase = "read" /\ sock[Handled].hungup
  /\ server' = freeClient(server, Handled)
  /\ sock' = Closed(Handled)
  /\ Goto("write")

\* One turn of the loop of processInputBuffer: parse a request, run it.
Execute(c, r) ==
  CASE r.kind = "command"   -> addReplies(server, c, r.reply)
    [] r.kind = "multibulk" -> addMultiBulk(server, c, r.reply)
    [] r.kind = "quit"      -> SetFlag(addReplies(server, c, r.reply), c, CLOSE_AFTER_REPLY)
    [] r.kind = "bad"       -> SetFlag(addReplies(server, c, r.reply), c, CLOSE_AFTER_REPLY)
    [] r.kind = "empty"     -> server

\* Fault: input is executed although the connection is to be closed.
HasInput(x) == x.querybuf # <<>>

\* The loop goes on while there is input and the client is not to be closed.
HasWork(x) == x.querybuf # <<>> /\ x.flags \cap {CLOSE_AFTER_REPLY, CLOSE_ASAP} = {}

\* A request with a protocol error stays in the query buffer.
ProcessInput ==
  LET c == Handled
      x == server.client[c]
      r == Head(x.querybuf)
  IN  /\ loop.phase = "input" /\ HasWork(x)
      /\ server' = [Execute(c, r) EXCEPT
                      !.client[c].querybuf = IF r.kind = "bad" THEN @ ELSE Tail(@)]
      /\ UNCHANGED <<loop, sock>>

InputDone ==
  /\ loop.phase = "input" /\ ~HasWork(server.client[Handled])
  /\ Goto("write")
  /\ UNCHANGED <<server, sock>>

-----------------------------------------------------------------------------
(* sendReplyToClient, the second half of a dispatch.                       *)

WriteWanted == WRITABLE \in Fired.mask \cap server.events[Fired.fd].mask

SendReply(n) ==
  LET c == Handled
      w == writeToClient(server, c, n, TRUE)
  IN  /\ loop.phase = "write" /\ WriteWanted
      /\ Takes(c, n)
      /\ server' = w /\ Transmit(w, c, n) /\ NextEvent

SendReplyError ==
  /\ loop.phase = "write" /\ WriteWanted
  /\ sock[Handled].hungup /\ Unsent(server.client[Handled]) # <<>>
  /\ server' = freeClient(server, Handled)
  /\ sock' = Closed(Handled)
  /\ NextEvent

WriteNotWanted ==
  /\ loop.phase = "write" /\ ~WriteWanted
  /\ NextEvent
  /\ UNCHANGED <<server, sock>>

-----------------------------------------------------------------------------

Peer(c) == Connect(c) \/ (\E r \in Request : Ask(c, r)) \/ PeerReads(c) \/ HangUp(c)

Writes == 0..SendBuffer

BeforeSleep ==
  \E c \in Client : HandlePendingWriteError(c) \/ \E n \in Writes : HandlePendingWrite(c, n)
Accepting ==
  AcceptDone \/ \E c \in Client, f \in Fd : RefuseDescriptor(c, f) \/ Accept(c, f)
Reading == ReadEnds \/ (\E k \in 0..MaxRequests : Read(k)) \/ ProcessInput \/ InputDone
Writing == SendReplyError \/ WriteNotWanted \/ \E n \in Writes : SendReply(n)

ServerStep ==
  \/ BeforeSleep \/ Poll \/ (\E e \in loop.fired : Dispatch(e)) \/ EndOfEvents
  \/ Accepting \/ Reading \/ Writing

Next == (\E c \in Client : Peer(c)) \/ ServerStep

Spec == Init /\ [][Next]_vars

\* The server's thread runs, and peers read what they are sent.
FairSpec == Spec /\ WF_vars(ServerStep) /\ \A c \in Client : WF_vars(PeerReads(c))

-----------------------------------------------------------------------------
(* Properties.                                                             *)

NoDuplicates(list) == Len(list) = Cardinality(ToSet(list))

\* A list and the flag that says a client is on it always agree, and no client
\* is on a list twice: unlinkClient and freeClient assert it when they remove
\* the client, and a client freed while it is still on a list is used after
\* free when the list is walked.
ListsMatchFlags ==
  /\ NoDuplicates(server.clients)
  /\ NoDuplicates(server.clients_pending_write)
  /\ NoDuplicates(server.clients_to_close)
  /\ \A c \in Client :
       /\ c \in ToSet(server.clients_pending_write) <=> HasFlag(server, c, PENDING_WRITE)
       /\ c \in ToSet(server.clients_to_close) <=> HasFlag(server, c, CLOSE_ASAP)
       /\ server.client[c].flags # {} => Live(c)

\* The event table never leads to a freed client, nor to the wrong one, though
\* descriptors are reused as soon as they are closed: whoever owns a registered
\* descriptor is the live client whose socket it is.
EventsReachTheirClient ==
  /\ \A f \in Fd : server.events[f].mask # {} =>
       \A c \in server.events[f].clientData : Live(c) /\ server.client[c].fd = f
  /\ \A c \in Client : Live(c) => READABLE \in server.events[server.client[c].fd].mask

\* The stream a peer receives is exactly what the commands asked to send, in
\* order: what was written followed by what is buffered is the whole output so
\* far, whatever was short-written, spilled from the static buffer to the list,
\* glued to an earlier chunk or filled in later by a deferred length.
StreamIntact ==
  \A c \in Client : Live(c) =>
    sock[c].wire \o Unsent(server.client[c]) = [i \in 1..server.client[c].made |-> i]

\* reply_bytes, on which the output limits rest, is the memory the strings of
\* the reply list take now, though they were counted when they were queued and
\* have been copied, grown beyond their length, glued and removed since.
ReplyBytesExact ==
  \A c \in Client : server.client[c].reply_bytes = ListMemory(server.client[c].reply)

\* No output is forgotten: when the loop polls, a client with output has a
\* write handler (or is waiting to be closed), and a client with none has no
\* handler, or the level-triggered poll would spin on it.
OutputScheduled ==
  loop.phase = "beforesleep" /\ server.clients_pending_write = <<>> =>
    \A c \in Client : Live(c) =>
      LET handler == WRITABLE \in server.events[server.client[c].fd].mask
          pending == clientHasPendingReplies(server.client[c])
      IN  /\ pending => handler \/ HasFlag(server, c, CLOSE_ASAP)
          /\ handler => pending

\* "Make sure to not let the reply grow after this flag has been set": once a
\* client is to be closed after its reply, nothing is added to its output and
\* none of its input is executed, whatever it sends.
ClosingIsFinal ==
  [][\A c \in Client :
       HasFlag(server, c, CLOSE_AFTER_REPLY) =>
         \/ c \notin ToSet(server'.clients)
         \/ /\ HasFlag(server', c, CLOSE_AFTER_REPLY)
            /\ server'.client[c].made = server.client[c].made
            /\ Len(server'.client[c].querybuf) >= Len(server.client[c].querybuf)]_vars

\* A connection that ends by QUIT or by a protocol error is closed by the write
\* path only when its peer, if it is still there, was sent the last byte.
AllSentBeforeClose ==
  [][\A c \in Client :
       /\ HasFlag(server, c, CLOSE_AFTER_REPLY) /\ c \notin ToSet(server'.clients)
       /\ loop.phase # "read" /\ ~sock[c].hungup
       => Len(sock'[c].wire) = server.client[c].made]_vars

Pending(c) ==
  /\ Live(c) /\ ~HasFlag(server, c, CLOSE_ASAP)
  /\ clientHasPendingReplies(server.client[c]) \/ HasFlag(server, c, CLOSE_AFTER_REPLY)

\* Output is always delivered in the end, and the connection of a client that
\* quit or broke the protocol is closed in the end: the pending-write pass, the
\* write handler and the cap on one event's writes leave no client waiting,
\* unless it was given up (freeClientAsync).
OutputDelivered == \A c \in Client : Pending(c) ~> ~Pending(c)
=============================================================================
