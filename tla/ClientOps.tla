------------------------------ MODULE ClientOps ------------------------------
(***************************************************************************)
(* What networking.c and ae.c do to "struct redisServer": the list of      *)
(* clients, each with its output buffers, the two work lists clients are   *)
(* put on, and the table of file events.  Every operator takes the server  *)
(* and returns the one the C function leaves.                              *)
(*                                                                         *)
(* Output is a stream of bytes, numbered per client in the order in which  *)
(* addReply was asked to send them: the number stands for the content.     *)
(***************************************************************************)
EXTENDS Integers, SequencesExt

CONSTANTS
  Client,                    \* client structures; none is allocated twice
  Fd,                        \* file descriptors, the listening socket aside
  SetSize,                   \* el->setsize: greater descriptors are refused
  PROTO_REPLY_CHUNK_BYTES,   \* size of c->buf, and limit of a joined chunk
  NET_MAX_WRITES_PER_EVENT,  \* what one call may write before it gives way
  NodeSize,                  \* sizeof(listNode)+sizeof(robj)
  HardLimit,                 \* client_obuf_limits[].hard_limit_bytes, 0: none
  MultiBulkHeader,           \* length of the "*<n>" line of a multi bulk reply
  SDS_MAX_PREALLOC,          \* strings are grown to twice their size up to this
  SdsHeader,                 \* the header of an sds and its final zero
  ObjectSize,                \* sizeof(robj)
  LongSize,                  \* sizeof(long), to which blocks are padded
  PREFIX_SIZE                \* what zmalloc puts before a block

ASSUME FdAssumption == Fd \subseteq Nat \ {0}
ASSUME BufferAssumption ==
  /\ PROTO_REPLY_CHUNK_BYTES \in Nat \ {0}
  /\ NET_MAX_WRITES_PER_EVENT \in Nat
  /\ {NodeSize, HardLimit, MultiBulkHeader} \subseteq Nat
ASSUME AllocatorAssumption ==
  /\ {SDS_MAX_PREALLOC, SdsHeader, ObjectSize, PREFIX_SIZE} \subseteq Nat
  /\ LongSize \in Nat \ {0}

READABLE == "readable"
WRITABLE == "writable"
PENDING_WRITE     == "pending_write"      \* in server.clients_pending_write
CLOSE_AFTER_REPLY == "close_after_reply"  \* close once the output is sent
CLOSE_ASAP        == "close_asap"         \* in server.clients_to_close

\* The objects of a reply list: of the encoding EMBSTR, of the encoding RAW and
\* the list's own, RAW with other references to it, and without a string yet.
EMBSTR == "embstr"
RAW    == "raw"
SHARED == "shared"
NULL   == "null"

-----------------------------------------------------------------------------
(* The structures.                                                         *)

\* createClient; bufpos is Len(buf).  made counts the bytes addReply was given.
NewClient(fd) ==
  [fd |-> fd, flags |-> {}, buf |-> <<>>, sentlen |-> 0, reply |-> <<>>,
   reply_bytes |-> 0, querybuf |-> <<>>, made |-> 0]

NoEvent == [mask |-> {}, clientData |-> {}]

\* initServer
NewServer ==
  [client |-> [c \in Client |-> NewClient(-1)],
   clients |-> <<>>, clients_pending_write |-> <<>>, clients_to_close |-> <<>>,
   events |-> [f \in Fd |-> NoEvent]]

With(s, c, x) == [s EXCEPT !.client[c] = x]
HasFlag(s, c, flag) == flag \in s.client[c].flags
SetFlag(s, c, flag) == [s EXCEPT !.client[c].flags = @ \cup {flag}]
ClearFlag(s, c, flag) == [s EXCEPT !.client[c].flags = @ \ {flag}]

-----------------------------------------------------------------------------
(* File events.  The registration of a descriptor in the event table; its  *)
(* clientData is the client it was registered for.                         *)

aeCreateFileEvent(s, fd, mask, c) ==
  [s EXCEPT !.events[fd] = [mask |-> @.mask \cup {mask}, clientData |-> {c}]]

aeDeleteFileEvent(s, fd, mask) == [s EXCEPT !.events[fd].mask = @ \ {mask}]

-----------------------------------------------------------------------------
(* The life of a client.                                                   *)

createClient(s, c, fd) ==
  LET r == aeCreateFileEvent(s, fd, READABLE, c)
  IN  [r EXCEPT !.client[c] = NewClient(fd), !.clients = Append(@, c)]

\* Fault: the write event stays registered.
UnlinkButWritable(s, c) ==
  LET r == aeDeleteFileEvent(s, s.client[c].fd, READABLE)
      u == [r EXCEPT !.clients = RemoveFirst(@, c), !.client[c].fd = -1]
  IN  IF ~HasFlag(s, c, PENDING_WRITE) THEN u
      ELSE ClearFlag([u EXCEPT !.clients_pending_write = RemoveFirst(@, c)],
                     c, PENDING_WRITE)

\* unlinkClient: out of the client list, of the event table, of the list of
\* pending writes.
unlinkClient(s, c) ==
  LET fd == s.client[c].fd
      r  == aeDeleteFileEvent(aeDeleteFileEvent(s, fd, READABLE), fd, WRITABLE)
      u  == [r EXCEPT !.clients = RemoveFirst(@, c), !.client[c].fd = -1]
  IN  IF ~HasFlag(s, c, PENDING_WRITE) THEN u
      ELSE ClearFlag([u EXCEPT !.clients_pending_write = RemoveFirst(@, c)],
                     c, PENDING_WRITE)

freeClient(s, c) ==
  LET r == unlinkClient(s, c)
      q == IF HasFlag(s, c, CLOSE_ASAP)
           THEN [r EXCEPT !.clients_to_close = RemoveFirst(@, c)] ELSE r
  IN  With(q, c, NewClient(-1))

freeClientAsync(s, c) ==
  IF HasFlag(s, c, CLOSE_ASAP) THEN s
  ELSE SetFlag([s EXCEPT !.clients_to_close = Append(@, c)], c, CLOSE_ASAP)

-----------------------------------------------------------------------------
(* Queueing output.  A piece [len, kind, alloc] is what one addReply call  *)
(* sends: a string of len bytes with room for alloc of them, and the kind  *)
(* of object it is in.  A shared object stays shared while it is queued.   *)

\* sdsMakeRoomFor: the room of a string of len bytes once add more are in it.
sdsMakeRoomFor(alloc, len, add) ==
  IF alloc - len >= add THEN alloc
  ELSE len + add + (IF len + add < SDS_MAX_PREALLOC THEN len + add ELSE SDS_MAX_PREALLOC)

\* What a block of n bytes takes, and a string with room for alloc bytes.
zmalloc_size(n) == PREFIX_SIZE + LongSize * ((n + LongSize - 1) \div LongSize)
sdsZmallocSize(alloc) == zmalloc_size(SdsHeader + alloc)

\* getStringObjectSdsUsedMemory: the memory of an object's string, which may be
\* in the block of the object itself.
UsedMemory(o) ==
  CASE o.kind = NULL -> 0
    [] o.kind = EMBSTR -> zmalloc_size(ObjectSize + SdsHeader + o.alloc) - ObjectSize
    [] o.kind \in {RAW, SHARED} -> sdsZmallocSize(o.alloc)

\* The memory of the strings of a reply list.
ListMemory(list) == FoldLeft(LAMBDA m, o : m + UsedMemory(o), 0, list)

clientHasPendingReplies(x) == x.buf # <<>> \/ x.reply # <<>>

\* checkClientOutputBufferLimits; the soft limit needs server.unixtime, which
\* nothing updates.
asyncCloseClientOnOutputBufferLimitReached(s, c) ==
  LET x == s.client[c] IN
  IF /\ x.reply_bytes # 0
     /\ HardLimit # 0
     /\ x.reply_bytes + NodeSize * Len(x.reply) >= HardLimit
  THEN freeClientAsync(s, c) ELSE s

\* The flag, and the list that is walked before the loop sleeps.
prepareClientToWrite(s, c) ==
  IF clientHasPendingReplies(s.client[c]) \/ HasFlag(s, c, PENDING_WRITE) THEN s
  ELSE SetFlag([s EXCEPT !.clients_pending_write = <<c>> \o @], c, PENDING_WRITE)

NewBytes(x, n) == [i \in 1..n |-> x.made + i]

\* Fault: the buffer is used although later output is in the list.
FitsAnyway(x, n) == Len(x.buf) + n <= PROTO_REPLY_CHUNK_BYTES

\* _addReplyToBuffer succeeds when nothing is in the list yet and it fits.
FitsBuffer(x, n) == x.reply = <<>> /\ Len(x.buf) + n <= PROTO_REPLY_CHUNK_BYTES

\* A string can be appended to when it is not embedded in its object.
Appendable(o) == o.kind \in {RAW, SHARED}

\* dupLastObjectIfNeeded and sdscatlen: a shared object is copied first, to a
\* string without spare room, and the string may be grown beyond what it needs.
Joined(o, bytes) ==
  LET len   == Len(o.bytes)
      alloc == IF o.kind = SHARED THEN len ELSE o.alloc
  IN  [bytes |-> o.bytes \o bytes, kind |-> RAW,
       alloc |-> sdsMakeRoomFor(alloc, len, Len(bytes))]

\* Fault: what joins a chunk is counted as if it were a chunk of its own.
CountsPiece(x, bytes, kind, alloc) ==
  LET n == Len(x.reply)
      new == [bytes |-> bytes, kind |-> kind, alloc |-> alloc]
      joins == /\ n > 0 /\ Appendable(x.reply[n])
               /\ Len(x.reply[n].bytes) + Len(bytes) <= PROTO_REPLY_CHUNK_BYTES
      list == IF joins THEN [x.reply EXCEPT ![n] = Joined(@, bytes)] ELSE Append(x.reply, new)
  IN  [x EXCEPT !.reply = list, !.reply_bytes = @ + UsedMemory(new), !.made = @ + Len(bytes)]

\* _addReplyObjectToList, _addReplySdsToList, _addReplyStringToList: the bytes
\* join the last chunk when that is possible, or become one of their own.  The
\* chunk's memory is taken off reply_bytes before and counted again after.
ToList(x, bytes, kind, alloc) ==
  LET n == Len(x.reply)
      new == [bytes |-> bytes, kind |-> kind, alloc |-> alloc]
      joins == /\ n > 0 /\ Appendable(x.reply[n])
               /\ Len(x.reply[n].bytes) + Len(bytes) <= PROTO_REPLY_CHUNK_BYTES
      list == IF joins THEN [x.reply EXCEPT ![n] = Joined(@, bytes)] ELSE Append(x.reply, new)
      counted == IF joins THEN UsedMemory(x.reply[n]) ELSE 0
  IN  [x EXCEPT !.reply = list, !.made = @ + Len(bytes),
                !.reply_bytes = @ - counted + UsedMemory(list[Len(list)])]

addReply(s, c, piece) ==
  LET r == prepareClientToWrite(s, c)
      x == r.client[c]
      bytes == NewBytes(x, piece.len)
  IN  IF HasFlag(r, c, CLOSE_AFTER_REPLY) THEN r
      ELSE IF FitsBuffer(x, piece.len)
           THEN With(r, c, [x EXCEPT !.buf = @ \o bytes, !.made = @ + piece.len])
      ELSE asyncCloseClientOnOutputBufferLimitReached(
             With(r, c, ToList(x, bytes, piece.kind, piece.alloc)), c)

addReplies(s, c, pieces) ==
  FoldLeft(LAMBDA r, piece : addReply(r, c, piece), s, pieces)

\* addDeferredMultiBulkLength: an empty node (its object has no string yet, so
\* nothing is appended to it) where the header will be.
addDeferredMultiBulkLength(s, c) ==
  LET r == prepareClientToWrite(s, c)
      x == r.client[c]
      node == [bytes |-> <<>>, kind |-> NULL, alloc |-> 0]
  IN  With(r, c, [x EXCEPT !.reply = Append(@, node), !.made = @ + MultiBulkHeader])

\* setDeferredMultiBulkLength: the header, whose bytes follow the from bytes
\* sent before, is stored in node i, as a string that sdscatprintf grew, and the
\* node behind it is glued to it when that has a string.
setDeferredMultiBulkLength(s, c, i, from) ==
  LET x == s.client[c]
      header == [bytes |-> [j \in 1..MultiBulkHeader |-> from + j], kind |-> RAW,
                 alloc |-> sdsMakeRoomFor(0, 0, MultiBulkHeader)]
      glued == i < Len(x.reply) /\ x.reply[i + 1].kind # NULL
      node == IF glued THEN Joined(header, x.reply[i + 1].bytes) ELSE header
      list == [x.reply EXCEPT ![i] = node]
      counted == IF glued THEN UsedMemory(x.reply[i + 1]) ELSE 0
  IN  asyncCloseClientOnOutputBufferLimitReached(
        With(s, c, [x EXCEPT !.reply = IF glued THEN RemoveAt(list, i + 1) ELSE list,
                             !.reply_bytes = @ + UsedMemory(node) - counted]), c)

\* A command that does not know how many elements it will send.
addMultiBulk(s, c, pieces) ==
  LET r == addDeferredMultiBulkLength(s, c)
  IN  setDeferredMultiBulkLength(addReplies(r, c, pieces), c,
                                 Len(r.client[c].reply), s.client[c].made)

-----------------------------------------------------------------------------
(* Sending output.                                                         *)

\* The bytes of the first k chunks.
EndOf(x, k) == Len(FlattenSeq([i \in 1..k |-> x.reply[i].bytes]))
InList(x) == FlattenSeq([i \in 1..Len(x.reply) |-> x.reply[i].bytes])

\* Where the list starts in the output not yet sent, and that output; sentlen
\* is a position in buf, or in the first chunk when buf is empty.
ListStart(x) == Len(x.buf) - x.sentlen
Unsent(x) == SubSeq(x.buf \o InList(x), x.sentlen + 1, Len(x.buf) + EndOf(x, Len(x.reply)))

\* The loop of writeToClient can stop after n bytes unless it passed the end
\* of a buffer with more than NET_MAX_WRITES_PER_EVENT bytes written.  (It would
\* go on when memory is over server.maxmemory, which is 0: no limit.)
CanStopAfter(x, n) ==
  \A k \in 0..Len(x.reply) :
    LET written == ListStart(x) + EndOf(x, k)
    IN  written > NET_MAX_WRITES_PER_EVENT => n <= written

\* The client after n bytes: the chunks sent are gone, and the empty ones the
\* loop met; those behind the chunk it stopped at are not met.
AfterWrite(x, n) ==
  LET at == n - ListStart(x)      \* bytes of the list written, if any
      sent == {k \in 0..Len(x.reply) : EndOf(x, k) <= at}
      last == CHOOSE k \in sent : \A j \in sent : j <= k
      gone == IF n <= NET_MAX_WRITES_PER_EVENT \/ EndOf(x, last) < at THEN last
              ELSE CHOOSE k \in sent : /\ EndOf(x, k) = EndOf(x, last)
                                       /\ \A j \in sent : EndOf(x, j) = EndOf(x, last) => k <= j
  IN  IF at < 0 THEN [x EXCEPT !.sentlen = @ + n]
      ELSE [x EXCEPT !.buf = <<>>, !.sentlen = at - EndOf(x, gone),
                     !.reply = SubSeq(@, gone + 1, Len(@)),
                     !.reply_bytes = @ - ListMemory(SubSeq(x.reply, 1, gone))]

\* Faults: the handler stays when all is sent; closed before all is sent.
WriteKeepsHandler(s, c, n, handler_installed) ==
  LET x == AfterWrite(s.client[c], n)
      r == With(s, c, x)
  IN  IF ~clientHasPendingReplies(x) /\ HasFlag(r, c, CLOSE_AFTER_REPLY)
      THEN freeClient(r, c) ELSE r
WriteCloses(s, c, n, handler_installed) ==
  LET x == AfterWrite(s.client[c], n)
      r == With(s, c, x)
  IN  IF HasFlag(r, c, CLOSE_AFTER_REPLY) THEN freeClient(r, c)
      ELSE IF clientHasPendingReplies(x) \/ ~handler_installed THEN r
      ELSE aeDeleteFileEvent(r, x.fd, WRITABLE)

\* writeToClient when the socket took n bytes and reported no error.
writeToClient(s, c, n, handler_installed) ==
  LET x == AfterWrite(s.client[c], n)
      r == With(s, c, x)
      q == IF handler_installed THEN aeDeleteFileEvent(r, x.fd, WRITABLE) ELSE r
  IN  IF clientHasPendingReplies(x) THEN r
      ELSE IF HasFlag(q, c, CLOSE_AFTER_REPLY) THEN freeClient(q, c)
      ELSE q
=============================================================================
