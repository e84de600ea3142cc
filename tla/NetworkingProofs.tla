-------------------------- MODULE NetworkingProofs ---------------------------
(***************************************************************************)
(* What networking.c does to the server keeps its lists, its event table   *)
(* and the output of its clients in order, for any number of clients and   *)
(* descriptors and for buffers and limits of any size.                     *)
(***************************************************************************)
EXTENDS Networking, ListFacts

Flags == {PENDING_WRITE, CLOSE_AFTER_REPLY, CLOSE_ASAP}
Kinds == {EMBSTR, RAW, SHARED, NULL}
Chunk == [bytes : Seq(Nat), kind : Kinds, alloc : Nat]
ClientRec ==
  [fd : Fd \cup {-1}, flags : SUBSET Flags, buf : Seq(Nat), sentlen : Int, reply : Seq(Chunk),
   reply_bytes : Int, querybuf : Seq(Request), made : Nat]
FileEvent == [mask : SUBSET {READABLE, WRITABLE}, clientData : SUBSET Client]

\* sentlen is a position in the buffer, or in the first chunk when that is empty,
\* and reply_bytes is the memory of the list.
Bytes(x) ==
  /\ x.reply_bytes = ListMemory(x.reply)
  /\ x.sentlen \in Nat
  /\ x.buf # <<>> => x.sentlen < Len(x.buf)
  /\ x.buf = <<>> => x.sentlen = 0 \/ (x.reply # <<>> /\ x.sentlen < Len(x.reply[1].bytes))

OneList(l) == l \in Seq(Client) /\ Distinct(l)

ServerTypes(s) ==
  /\ DOMAIN s = {"client", "clients", "clients_pending_write", "clients_to_close", "events"}
  /\ s.client \in [Client -> ClientRec] /\ s.events \in [Fd -> FileEvent]
  /\ OneList(s.clients) /\ OneList(s.clients_pending_write) /\ OneList(s.clients_to_close)

\* The lists agree with the flags, a client that is not live is as it was made,
\* one that is is the only one registered for its descriptor, and a descriptor
\* with an event has an owner.
GoodServer(s) ==
  /\ ServerTypes(s)
  /\ \A c \in Client :
       /\ Bytes(s.client[c])
       /\ c \in ToSet(s.clients_pending_write) <=> PENDING_WRITE \in s.client[c].flags
       /\ c \in ToSet(s.clients_to_close) <=> CLOSE_ASAP \in s.client[c].flags
       /\ c \notin ToSet(s.clients) => s.client[c] = NewClient(-1)
       /\ c \in ToSet(s.clients) =>
            /\ s.client[c].fd \in Fd
            /\ READABLE \in s.events[s.client[c].fd].mask
            /\ s.events[s.client[c].fd].clientData = {c}
  /\ \A f \in Fd : s.events[f].mask # {} =>
       \E c \in Client : c \in ToSet(s.clients) /\ s.client[c].fd = f

\* A client with output has a write handler, or is in the list of pending writes
\* or in the one of clients to close; one without output has no handler.
Handler(s, c) == WRITABLE \in s.events[s.client[c].fd].mask
Scheduled(s, c) ==
  /\ PENDING_WRITE \in s.client[c].flags => ~Handler(s, c)
  /\ Handler(s, c) => clientHasPendingReplies(s.client[c])
  /\ clientHasPendingReplies(s.client[c]) =>
       Handler(s, c) \/ s.client[c].flags \cap {PENDING_WRITE, CLOSE_ASAP} # {}

Seg(a, b) == [i \in 1..(b - a) |-> a + i]

SockRec ==
  [state : {"none", "backlog", "open", "closed"}, inbox : Seq(Request), asked : Nat,
   room : Nat, wire : Seq(Nat), hungup : BOOLEAN]

\* A client and its socket k: nothing is sent before the client is made, and what
\* was sent is the part of its output that is not buffered.
Connection(s, k, c) ==
  /\ c \in ToSet(s.clients) =>
       /\ k.state = "open" /\ Scheduled(s, c)
       /\ k.wire \o Unsent(s.client[c]) = Seg(0, s.client[c].made)
  /\ k.state \in {"none", "backlog"} => k.wire = <<>>

\* The event that is being handled belongs to a live client.
LoopInv ==
  /\ DOMAIN loop = {"phase", "fired", "event"}
  /\ \A e \in loop.fired : e.fd \in Fd \cup {LISTEN}
  /\ loop.phase \in {"read", "input", "write"} =>
       \E e \in loop.event : loop.event = {e} /\ e.fd \in Fd
  /\ loop.phase \in {"read", "input"} =>
       \A e \in loop.event : READABLE \in server.events[e.fd].mask

ServerInv ==
  /\ GoodServer(server)
  /\ sock \in [Client -> SockRec]
  /\ \A c \in Client : Connection(server, sock[c], c)
  /\ LoopInv

-----------------------------------------------------------------------------
(* The output of one client.                                               *)

Texts(x) == [i \in 1..Len(x.reply) |-> x.reply[i].bytes]
All(x) == x.buf \o InList(x)

LEMMA ListOf ==
  ASSUME NEW x \in ClientRec
  PROVE  /\ Texts(x) \in Seq(Seq(Nat)) /\ Len(Texts(x)) = Len(x.reply)
         /\ \A i \in 1..Len(x.reply) : Texts(x)[i] = x.reply[i].bytes
         /\ Len(x.reply) \in Nat
         /\ InList(x) = FlattenSeq(Texts(x)) /\ InList(x) \in Seq(Nat)
         /\ \A k \in 0..Len(x.reply) : EndOf(x, k) = Len(Flat(Texts(x), k)) /\ EndOf(x, k) \in Nat
         /\ Len(InList(x)) = EndOf(x, Len(x.reply))
<1>1. x.reply \in Seq(Chunk) /\ Len(x.reply) \in Nat
  BY DEF ClientRec
<1>2. \A i \in 1..Len(x.reply) : x.reply[i].bytes \in Seq(Nat)
  <2>1. \A i \in 1..Len(x.reply) : x.reply[i] \in Chunk
    BY <1>1
  <2> QED BY <2>1 DEF Chunk
<1> DEFINE t == Texts(x)
           n == Len(x.reply)
<1>3. t \in Seq(Seq(Nat)) /\ Len(t) = n /\ \A i \in 1..n : t[i] = x.reply[i].bytes
  BY <1>1, <1>2 DEF Texts
<1>4. InList(x) = FlattenSeq(t)
  BY DEF InList, Texts
<1> HIDE DEF t
<1>5. InList(x) \in Seq(Nat)
  BY <1>3, <1>4, FlatType
<1>6. ASSUME NEW k \in 0..n PROVE EndOf(x, k) = Len(Flat(t, k)) /\ EndOf(x, k) \in Nat
  <2>1. [i \in 1..k |-> x.reply[i].bytes] = [i \in 1..k |-> t[i]]
    <3>1. \A i \in 1..k : i \in 1..n
      BY <1>1
    <3> QED BY <1>3, <3>1
  <2>2. EndOf(x, k) = Len(Flat(t, k))
    BY <2>1 DEF EndOf, Flat
  <2>3. Flat(t, k) \in Seq(Nat)
    BY <1>3, FlatSteps
  <2> QED BY <2>2, <2>3
<1>7. Len(InList(x)) = EndOf(x, n)
  <2>1. n \in 0..n
    BY <1>1
  <2> QED BY <1>3, <1>4, <1>6, <2>1, FlatSteps
<1> QED BY <1>1, <1>3, <1>4, <1>5, <1>6, <1>7 DEF t

\* What is not sent yet: all that is buffered, from sentlen on
LEMMA UnsentIs ==
  ASSUME NEW x \in ClientRec, Bytes(x)
  PROVE  /\ All(x) \in Seq(Nat) /\ Len(All(x)) = Len(x.buf) + Len(InList(x))
         /\ Unsent(x) = SubSeq(All(x), x.sentlen + 1, Len(All(x)))
         /\ Unsent(x) \in Seq(Nat) /\ Len(Unsent(x)) = Len(All(x)) - x.sentlen
         /\ x.sentlen <= Len(All(x)) /\ Len(All(x)) \in Nat /\ Len(x.buf) \in Nat
         /\ ~clientHasPendingReplies(x) => Unsent(x) = <<>> /\ x.sentlen = 0
<1>1. /\ x.buf \in Seq(Nat) /\ InList(x) \in Seq(Nat) /\ Len(InList(x)) = EndOf(x, Len(x.reply))
      /\ x.sentlen \in Nat
  BY ListOf DEF ClientRec, Bytes
<1> DEFINE l == InList(x)
           b == x.buf
<1>2. All(x) \in Seq(Nat) /\ Len(All(x)) = Len(b) + Len(l) /\ Len(b) \in Nat /\ Len(l) \in Nat
  <2>1. l \in Seq(Nat) /\ b \in Seq(Nat) /\ All(x) = b \o l
    BY <1>1 DEF All
  <2> HIDE DEF l, b
  <2> QED BY <2>1
<1>3. Unsent(x) = SubSeq(All(x), x.sentlen + 1, Len(All(x)))
  BY <1>1, <1>2 DEF Unsent, All
<1>4. x.sentlen <= Len(All(x))
  <2>1. CASE b # <<>>
    BY <1>1, <1>2, <2>1 DEF Bytes
  <2>2. CASE b = <<>> /\ x.sentlen # 0
    <3>1. x.reply # <<>> /\ x.sentlen < Len(x.reply[1].bytes)
      BY <2>2 DEF Bytes
    <3>2. x.reply \in Seq(Chunk)
      BY DEF ClientRec
    <3>3. 1 \in 1..Len(x.reply) /\ Len(x.reply) \in Nat
      BY <3>1, <3>2
    <3> DEFINE t == Texts(x)
    <3>4. /\ t \in Seq(Seq(Nat)) /\ Len(t) = Len(x.reply) /\ t[1] = x.reply[1].bytes
          /\ l = FlattenSeq(t)
      BY <3>3, ListOf
    <3> HIDE DEF t
    <3>5. Flat(t, 1) = t[1]
      <4>1. t[1] \in Seq(Nat)
        BY <3>3, <3>4
      <4>3. Flat(t, 0) = <<>> /\ \A k \in 1..Len(t) : Flat(t, k) = Flat(t, k - 1) \o t[k]
        BY <3>4, FlatSteps
      <4>4. Flat(t, 1) = Flat(t, 1 - 1) \o t[1]
        BY <3>3, <3>4, <4>3
      <4>2. 1 - 1 = 0
        OBVIOUS
      <4> QED BY <4>1, <4>2, <4>3, <4>4, ConcatEmptySeq
    <3>6. Len(Flat(t, 1)) <= Len(Flat(t, Len(t)))
      <4>1. Len(t) \in 0..Len(t) /\ 1 \in 0..Len(t)
        BY <3>3, <3>4
      <4> QED BY <3>4, <4>1, FlatMonotone
    <3>7. Len(t[1]) <= Len(l) /\ Len(t[1]) \in Nat
      <4>1. t[1] \in Seq(Nat)
        BY <3>3, <3>4
      <4>2. FlattenSeq(t) = Flat(t, Len(t))
        BY <3>4, FlatSteps
      <4> QED BY <4>2, <3>4, <3>5, <3>6, <4>1
    <3>8. x.sentlen < Len(t[1]) /\ x.sentlen \in Nat
      BY <1>1, <3>1, <3>4
    <3>9. Len(All(x)) = Len(b) + Len(l) /\ Len(b) \in Nat /\ Len(l) \in Nat
      BY <1>2
    <3> HIDE DEF b, l
    <3> QED BY <3>7, <3>8, <3>9
  <2>3. CASE b = <<>> /\ x.sentlen = 0
    BY <1>2, <2>3
  <2> QED BY <2>1, <2>2, <2>3
<1>5. Unsent(x) \in Seq(Nat) /\ Len(Unsent(x)) = Len(All(x)) - x.sentlen
  <2> DEFINE a == All(x)
             k == x.sentlen
  <2>1. a \in Seq(Nat) /\ k \in Nat /\ k <= Len(a) /\ Len(a) \in Nat
    BY <1>1, <1>2, <1>4
  <2> HIDE DEF a, k
  <2>2. /\ SubSeq(a, k + 1, Len(a)) \in Seq(Nat)
        /\ Len(SubSeq(a, k + 1, Len(a))) = Len(a) - k
    BY <2>1
  <2> QED BY <1>3, <2>2 DEF a, k
<1>6. ASSUME ~clientHasPendingReplies(x) PROVE Unsent(x) = <<>> /\ x.sentlen = 0
  <2>1. b = <<>> /\ x.reply = <<>>
    BY <1>6 DEF clientHasPendingReplies
  <2>2. x.sentlen = 0
    BY <2>1 DEF Bytes
  <2>3. l = <<>>
    <3>1. Texts(x) = <<>>
      BY <2>1 DEF Texts
    <3> QED BY <3>1, ListOf, FlatType
  <2>4. All(x) = <<>>
    BY <2>1, <2>3 DEF All
  <2>5. Len(Unsent(x)) = 0 /\ Unsent(x) \in Seq(Nat)
    BY <1>5, <2>2, <2>4
  <2> QED BY <2>2, <2>5
<1> QED BY <1>2, <1>3, <1>4, <1>5, <1>6

\* Two clients that hold the same bytes behind the same position
LEMMA UnsentMore ==
  ASSUME NEW x \in ClientRec, Bytes(x), NEW y \in ClientRec, Bytes(y), NEW m \in Seq(Nat),
         y.sentlen = x.sentlen, All(y) = All(x) \o m
  PROVE  Unsent(y) = Unsent(x) \o m
<1> DEFINE a == All(x)
           k == x.sentlen
           n == Len(a)
<1>1. /\ a \in Seq(Nat) /\ k \in Nat /\ k <= n /\ n \in Nat
      /\ Unsent(x) = SubSeq(a, k + 1, n)
  BY UnsentIs DEF Bytes
<1>2. /\ All(y) \in Seq(Nat) /\ All(y) = a \o m
      /\ Unsent(y) = SubSeq(a \o m, k + 1, Len(a \o m))
  BY UnsentIs
<1> HIDE DEF a, k
<1> DEFINE j == Len(m)
           u == SubSeq(a, k + 1, n)
           v == SubSeq(a \o m, k + 1, n + j)
<1>3. /\ a \o m \in Seq(Nat) /\ Len(a \o m) = n + j /\ j \in Nat
      /\ \A i \in 1..(n + j) : (a \o m)[i] = IF i <= n THEN a[i] ELSE m[i - n]
  BY <1>1, ConcatProperties
<1>4. u \in Seq(Nat) /\ Len(u) = n - k /\ \A i \in 1..(n - k) : u[i] = a[k + i]
  <2>1. u \in Seq(Nat) /\ Len(u) = n - k
    BY <1>1
  <2>2. ASSUME NEW i \in 1..(n - k) PROVE u[i] = a[k + i]
    <3>1. (k + 1) + i - 1 = k + i /\ i \in 1..(n - (k + 1) + 1)
      BY <1>1
    <3>2. u[i] = a[(k + 1) + i - 1]
      BY <1>1, <3>1
    <3> QED BY <3>1, <3>2
  <2> QED BY <2>1, <2>2
<1>5. /\ v \in Seq(Nat) /\ Len(v) = (n + j) - k
      /\ \A i \in 1..((n + j) - k) : v[i] = (a \o m)[k + i]
  <2> DEFINE b == a \o m
             N == n + j
  <2>1. b \in Seq(Nat) /\ Len(b) = N /\ N \in Nat /\ k <= N
    BY <1>1, <1>3
  <2> HIDE DEF b, N
  <2>2. SubSeq(b, k + 1, N) \in Seq(Nat) /\ Len(SubSeq(b, k + 1, N)) = N - k
    BY <1>1, <2>1
  <2>3. ASSUME NEW i \in 1..(N - k) PROVE SubSeq(b, k + 1, N)[i] = b[k + i]
    <3>1. (k + 1) + i - 1 = k + i /\ i \in 1..(N - (k + 1) + 1)
      BY <1>1, <2>1
    <3>2. SubSeq(b, k + 1, N)[i] = b[(k + 1) + i - 1]
      BY <1>1, <2>1, <3>1
    <3> QED BY <3>1, <3>2
  <2> QED BY <2>2, <2>3 DEF b, N
<1> HIDE DEF u, v
<1>6. /\ u \o m \in Seq(Nat) /\ Len(u \o m) = (n - k) + j
      /\ \A i \in 1..((n - k) + j) : (u \o m)[i] = IF i <= n - k THEN u[i] ELSE m[i - (n - k)]
  <2>1. u \in Seq(Nat) /\ Len(u) = n - k
    BY <1>4
  <2>2. /\ u \o m \in Seq(Nat) /\ Len(u \o m) = Len(u) + j
        /\ \A i \in 1..(Len(u) + j) : (u \o m)[i] = IF i <= Len(u) THEN u[i] ELSE m[i - Len(u)]
    BY <2>1, ConcatProperties
  <2> QED BY <2>1, <2>2
<1>7. (n - k) + j = (n + j) - k
  BY <1>1, <1>3
<1> HIDE DEF n, j
<1>8. ASSUME NEW i \in 1..((n + j) - k) PROVE v[i] = (u \o m)[i]
  <2>1. k + i \in 1..(n + j) /\ (k + i <= n <=> i <= n - k) /\ (k + i) - n = i - (n - k)
    BY <1>1, <1>3
  <2>2. v[i] = IF i <= n - k THEN a[k + i] ELSE m[i - (n - k)]
    BY <1>3, <1>5, <2>1
  <2>3. (u \o m)[i] = IF i <= n - k THEN u[i] ELSE m[i - (n - k)]
    BY <1>6, <1>7
  <2>4. i <= n - k => i \in 1..(n - k)
    BY <1>1, <1>3
  <2> QED BY <1>4, <2>2, <2>3, <2>4
<1>9. v = u \o m
  BY <1>5, <1>6, <1>7, <1>8, SeqEqual
<1> QED BY <1>1, <1>2, <1>3, <1>9 DEF u, v, n, j

LEMMA Associative ==
  \A a, b, m \in Seq(Nat) : /\ (a \o b) \o m = a \o (b \o m) /\ a \o b \in Seq(Nat)
                            /\ Len(a \o b) = Len(a) + Len(b)
<1> TAKE a, b, m \in Seq(Nat)
<1>1. a \o b \in Seq(Nat) /\ Len(a \o b) = Len(a) + Len(b)
  OBVIOUS
<1>2. (a \o b) \o m = a \o (b \o m)
  <2> DEFINE S == Nat
  <2>1. a \in Seq(S) /\ b \in Seq(S) /\ m \in Seq(S)
    OBVIOUS
  <2> HIDE DEF S
  <2> QED BY <2>1, ConcatAssociative
<1> QED BY <1>1, <1>2

\* A stream without its first k bytes
Drop(a, k) == SubSeq(a, k + 1, Len(a))

LEMMA DropIs ==
  ASSUME NEW S, NEW a \in Seq(S), NEW k \in 0..Len(a)
  PROVE  /\ Drop(a, k) \in Seq(S) /\ Len(Drop(a, k)) = Len(a) - k
         /\ \A i \in 1..(Len(a) - k) : Drop(a, k)[i] = a[k + i]
<1> DEFINE n == Len(a)
           u == SubSeq(a, k + 1, n)
<1>1. n \in Nat /\ k \in Nat /\ k <= n
  OBVIOUS
<1>2. u \in Seq(S) /\ Len(u) = n - k
  BY <1>1
<1>3. ASSUME NEW i \in 1..(n - k) PROVE u[i] = a[k + i]
  <2>1. (k + 1) + i - 1 = k + i /\ i \in 1..(n - (k + 1) + 1)
    BY <1>1
  <2>2. u[i] = a[(k + 1) + i - 1]
    BY <1>1, <2>1
  <2> QED BY <2>1, <2>2
<1> QED BY <1>2, <1>3 DEF Drop

-----------------------------------------------------------------------------
(* The memory of a list of chunks.                                         *)

MemoryOp(p, m, o) == m + UsedMemory(o)
MemoryGood(p, i, m) == m \in Int
Memory == INSTANCE FoldFacts WITH Op <- MemoryOp, Good <- MemoryGood

LEMMA RoomIsNat ==
  ASSUME NEW alloc \in Nat, NEW len \in Nat, NEW add \in Nat
  PROVE  sdsMakeRoomFor(alloc, len, add) \in Nat
<1>1. SDS_MAX_PREALLOC \in Nat
  BY AllocatorAssumption
<1> QED BY <1>1 DEF sdsMakeRoomFor

LEMMA MemoryIsInt ==
  ASSUME NEW o \in Chunk
  PROVE  UsedMemory(o) \in Int
<1>1. o.alloc \in Nat /\ o.kind \in Kinds
  BY DEF Chunk
<1>2. ASSUME NEW n \in Nat PROVE zmalloc_size(n) \in Int
  <2> DEFINE k == (n + LongSize - 1) \div LongSize
  <2>1. k \in Int
    BY AllocatorAssumption
  <2> HIDE DEF k
  <2>2. LongSize * k \in Int
    BY <2>1, AllocatorAssumption
  <2> QED BY <2>2, AllocatorAssumption DEF zmalloc_size, k
<1>3. SdsHeader + o.alloc \in Nat /\ ObjectSize + SdsHeader + o.alloc \in Nat
  BY <1>1, AllocatorAssumption
<1>4. sdsZmallocSize(o.alloc) \in Int
  BY <1>2, <1>3 DEF sdsZmallocSize
<1>5. zmalloc_size(ObjectSize + SdsHeader + o.alloc) - ObjectSize \in Int
  <2> DEFINE z == zmalloc_size(ObjectSize + SdsHeader + o.alloc)
  <2>1. z \in Int
    BY <1>2, <1>3
  <2> HIDE DEF z
  <2>2. z - ObjectSize \in Int
    BY <2>1, AllocatorAssumption
  <2> QED BY <2>2 DEF z
<1>6. CASE o.kind = NULL
  BY <1>6 DEF UsedMemory, NULL, EMBSTR, RAW, SHARED
<1>7. CASE o.kind = EMBSTR
  <2>1. UsedMemory(o) = zmalloc_size(ObjectSize + SdsHeader + o.alloc) - ObjectSize
    BY <1>7 DEF UsedMemory, NULL, EMBSTR, RAW, SHARED
  <2> QED BY <1>5, <2>1
<1>8. CASE o.kind \in {RAW, SHARED}
  <2>1. UsedMemory(o) = sdsZmallocSize(o.alloc)
    BY <1>8 DEF UsedMemory, NULL, EMBSTR, RAW, SHARED
  <2> QED BY <1>4, <2>1
<1> QED BY <1>1, <1>6, <1>7, <1>8 DEF Kinds

\* f is the memory of the first chunks of p.
Running(f, p) == f[0] = 0 /\ \A k \in 1..Len(p) : f[k] = f[k - 1] + UsedMemory(p[k])

LEMMA RunningExists ==
  ASSUME NEW p \in Seq(Chunk)
  PROVE  \E f : /\ Running(f, p) /\ ListMemory(p) = f[Len(p)]
                /\ \A k \in 0..Len(p) : f[k] \in Int
<1>1. PICK f : /\ f[0] = 0
               /\ \A k \in 1..Len(p) : f[k] = MemoryOp(p, f[k - 1], p[k])
               /\ Memory!Fold(p, 0, p) = f[Len(p)]
  BY Memory!FoldSteps
<1>2. Running(f, p)
  BY <1>1 DEF Running, MemoryOp
<1>3. ListMemory(p) = f[Len(p)]
  <2>1. ListMemory(p) = Memory!Fold(p, 0, p)
    BY DEF ListMemory, Memory!Fold, MemoryOp, FoldLeft, MapThenFoldSet, Max,
           Memory!FoldLeft, Memory!MapThenFoldSet, Memory!Max
  <2> QED BY <1>1, <2>1
<1>4. \A k \in 1..Len(p) : UsedMemory(p[k]) \in Int
  BY MemoryIsInt
<1> DEFINE T == {k \in 0..Len(p) : f[k] \in Int}
<1>5. 0 \in T /\ Len(p) \in Nat
  BY <1>1
<1>6. \A k \in 1..Len(p) : k - 1 \in T => k \in T
  BY <1>2, <1>4, <1>5 DEF Running
<1> HIDE DEF T
<1>7. \A k \in 0..Len(p) : k \in T
  BY <1>5, <1>6, RangeInduction
<1> QED BY <1>2, <1>3, <1>7 DEF T

LEMMA RunningIs ==
  ASSUME NEW p \in Seq(Chunk), NEW g, Running(g, p)
  PROVE  ListMemory(p) = g[Len(p)] /\ ListMemory(p) \in Int
<1>1. PICK f : /\ Running(f, p) /\ ListMemory(p) = f[Len(p)]
               /\ \A k \in 0..Len(p) : f[k] \in Int
  BY RunningExists
<1> DEFINE T == {k \in 0..Len(p) : f[k] = g[k]}
<1>2. 0 \in T /\ Len(p) \in Nat /\ Len(p) \in 0..Len(p)
  BY <1>1 DEF Running
<1>3. \A k \in 1..Len(p) : k - 1 \in T => k \in T
  BY <1>1, <1>2 DEF Running
<1> HIDE DEF T
<1>4. \A k \in 0..Len(p) : k \in T
  BY <1>2, <1>3, RangeInduction
<1> QED BY <1>1, <1>2, <1>4 DEF T

LEMMA MemoryEmpty == ListMemory(<<>>) = 0
<1> DEFINE p == <<>>
<1>1. p \in Seq(Chunk) /\ Len(p) = 0
  OBVIOUS
<1> HIDE DEF p
<1>2. PICK f : Running(f, p) /\ ListMemory(p) = f[Len(p)]
  BY <1>1, RunningExists
<1> QED BY <1>1, <1>2 DEF Running, p

LEMMA MemoryAppend ==
  ASSUME NEW p \in Seq(Chunk), NEW o \in Chunk
  PROVE  ListMemory(Append(p, o)) = ListMemory(p) + UsedMemory(o)
<1> DEFINE n == Len(p)
           q == Append(p, o)
<1>1. /\ n \in Nat /\ q \in Seq(Chunk) /\ Len(q) = n + 1 /\ q[n + 1] = o
      /\ \A i \in 1..n : q[i] = p[i]
  OBVIOUS
<1>2. PICK f : Running(f, p) /\ ListMemory(p) = f[n]
  BY RunningExists
<1> HIDE DEF n, q
<1> DEFINE g == [k \in 0..(n + 1) |-> IF k = n + 1 THEN f[n] + UsedMemory(o) ELSE f[k]]
<1>3. g[n + 1] = f[n] + UsedMemory(o) /\ \A k \in 0..n : g[k] = f[k]
  BY <1>1
<1> HIDE DEF g
<1>4. ASSUME NEW k \in 1..(n + 1) PROVE g[k] = g[k - 1] + UsedMemory(q[k])
  <2>1. CASE k = n + 1
    <3>1. k - 1 = n /\ n \in 0..n
      BY <1>1, <2>1
    <3> QED BY <1>1, <1>3, <2>1, <3>1
  <2>2. CASE k # n + 1
    <3>1. k \in 1..n /\ k \in 0..n /\ k - 1 \in 0..n
      BY <1>1, <2>2
    <3>2. f[k] = f[k - 1] + UsedMemory(p[k])
      BY <1>2, <3>1 DEF Running, n
    <3> QED BY <1>1, <1>3, <3>1, <3>2
  <2> QED BY <2>1, <2>2
<1>5. Running(g, q)
  <2>1. g[0] = 0
    BY <1>1, <1>2, <1>3 DEF Running
  <2> QED BY <1>1, <1>4, <2>1 DEF Running
<1>6. ListMemory(q) = g[n + 1]
  BY <1>1, <1>5, RunningIs
<1> QED BY <1>2, <1>3, <1>6 DEF q

\* One chunk replaced by another
LEMMA MemoryReplace ==
  ASSUME NEW p \in Seq(Chunk), NEW q \in Seq(Chunk), NEW k \in 1..Len(p), Len(q) = Len(p),
         \A i \in 1..Len(p) : i # k => q[i] = p[i]
  PROVE  ListMemory(q) = ListMemory(p) + UsedMemory(q[k]) - UsedMemory(p[k])
<1> DEFINE n == Len(p)
           a == UsedMemory(p[k])
           b == UsedMemory(q[k])
<1>1. n \in Nat /\ Len(q) = n /\ k \in Nat /\ k >= 1 /\ k <= n
  OBVIOUS
<1>2. a \in Int /\ b \in Int /\ \A i \in 1..n : UsedMemory(p[i]) \in Int
  <2>1. q[k] \in Chunk /\ \A i \in 1..n : p[i] \in Chunk
    BY <1>1
  <2> QED BY <2>1, MemoryIsInt
<1>3. PICK f : Running(f, p) /\ ListMemory(p) = f[n] /\ \A i \in 0..n : f[i] \in Int
  BY RunningExists
<1>4. \A i \in 1..n : f[i] = f[i - 1] + UsedMemory(p[i])
  BY <1>3 DEF Running
<1>10. \A i \in 1..n : i # k => q[i] = p[i]
  OBVIOUS
<1> HIDE DEF n
<1> DEFINE g == [i \in 0..n |-> IF i < k THEN f[i] ELSE f[i] + b - a]
<1>5. \A i \in 0..n : g[i] = IF i < k THEN f[i] ELSE f[i] + b - a
  OBVIOUS
<1> HIDE DEF g
<1>6. ASSUME NEW i \in 1..n PROVE g[i] = g[i - 1] + UsedMemory(q[i])
  <2>1. i \in 0..n /\ i - 1 \in 0..n /\ f[i] \in Int /\ f[i - 1] \in Int
    BY <1>1, <1>3
  <2>2. CASE i = k
    <3>1. ~(i < k) /\ i - 1 < k
      BY <1>1, <2>2
    <3>2. g[i] = f[i] + b - a /\ g[i - 1] = f[i - 1] /\ f[i] = f[i - 1] + a
      BY <1>4, <1>5, <2>1, <2>2, <3>1
    <3>3. UsedMemory(q[i]) = b
      BY <2>2
    <3> HIDE DEF a, b
    <3> QED BY <1>2, <2>1, <3>2, <3>3
  <2>3. CASE i # k
    <3> DEFINE c == UsedMemory(p[i])
    <3>1. UsedMemory(q[i]) = c /\ f[i] = f[i - 1] + c /\ c \in Int
      BY <1>2, <1>4, <1>10, <2>3
    <3> HIDE DEF a, b, c
    <3>2. CASE i < k
      <4>1. g[i] = f[i] /\ g[i - 1] = f[i - 1]
        BY <1>1, <1>5, <2>1, <3>2
      <4> QED BY <3>1, <4>1
    <3>3. CASE ~(i < k)
      <4>1. ~(i - 1 < k)
        BY <1>1, <2>3, <3>3
      <4>2. g[i] = f[i] + b - a /\ g[i - 1] = f[i - 1] + b - a
        BY <1>5, <2>1, <3>3, <4>1
      <4> QED BY <1>2, <2>1, <3>1, <4>2
    <3> QED BY <3>2, <3>3
  <2> QED BY <2>2, <2>3
<1>7. Running(g, q)
  <2>1. g[0] = 0
    BY <1>1, <1>3, <1>5 DEF Running
  <2> QED BY <1>1, <1>6, <2>1 DEF Running
<1>8. ListMemory(q) = g[n]
  BY <1>1, <1>7, RunningIs
<1>9. g[n] = f[n] + b - a
  BY <1>1, <1>5
<1> QED BY <1>3, <1>8, <1>9

\* Two neighbours replaced by one chunk
LEMMA MemoryGlue ==
  ASSUME NEW p \in Seq(Chunk), NEW q \in Seq(Chunk), NEW k \in 1..Len(q), Len(q) = Len(p) - 1,
         \A i \in 1..(k - 1) : q[i] = p[i], \A i \in (k + 1)..Len(q) : q[i] = p[i + 1]
  PROVE  ListMemory(q) = ListMemory(p) + UsedMemory(q[k]) - UsedMemory(p[k]) - UsedMemory(p[k + 1])
<1> DEFINE n == Len(q)
           a == UsedMemory(p[k])
           c == UsedMemory(p[k + 1])
           b == UsedMemory(q[k])
<1>1. n \in Nat /\ Len(p) = n + 1 /\ k \in Nat /\ k >= 1 /\ k <= n /\ k \in 1..(n + 1) /\ k + 1 \in 1..(n + 1)
  <2>1. Len(p) \in Nat /\ Len(q) \in Nat
    OBVIOUS
  <2> QED BY <2>1
<1>2. a \in Int /\ b \in Int /\ c \in Int /\ \A i \in 1..(n + 1) : UsedMemory(p[i]) \in Int
  <2>1. q[k] \in Chunk /\ \A i \in 1..(n + 1) : p[i] \in Chunk
    BY <1>1
  <2> QED BY <1>1, <2>1, MemoryIsInt
<1>3. PICK f : Running(f, p) /\ ListMemory(p) = f[n + 1] /\ \A i \in 0..(n + 1) : f[i] \in Int
  BY <1>1, RunningExists
<1>4. \A i \in 1..(n + 1) : f[i] = f[i - 1] + UsedMemory(p[i])
  BY <1>1, <1>3 DEF Running
<1>10. /\ \A i \in 1..(k - 1) : q[i] = p[i]
       /\ \A i \in (k + 1)..n : q[i] = p[i + 1]
  OBVIOUS
<1> HIDE DEF n
<1> DEFINE g == [i \in 0..n |-> IF i < k THEN f[i] ELSE f[i + 1] + b - a - c]
<1>5. \A i \in 0..n : g[i] = IF i < k THEN f[i] ELSE f[i + 1] + b - a - c
  OBVIOUS
<1> HIDE DEF g
<1>6. ASSUME NEW i \in 1..n PROVE g[i] = g[i - 1] + UsedMemory(q[i])
  <2>1. /\ i \in 0..n /\ i - 1 \in 0..n /\ f[i] \in Int /\ f[i - 1] \in Int /\ f[i + 1] \in Int
        /\ i \in 1..(n + 1) /\ i + 1 \in 1..(n + 1) /\ (i + 1) - 1 = i /\ (i - 1) + 1 = i
    BY <1>1, <1>3
  <2>4. f[i] = f[i - 1] + UsedMemory(p[i]) /\ f[i + 1] = f[i] + UsedMemory(p[i + 1])
    BY <1>4, <2>1
  <2>2. CASE i = k
    <3>1. ~(i < k) /\ i - 1 < k
      BY <1>1, <2>2
    <3>2. g[i] = f[i + 1] + b - a - c /\ g[i - 1] = f[i - 1]
      BY <1>5, <2>1, <3>1
    <3>3. UsedMemory(q[i]) = b /\ f[i] = f[i - 1] + a /\ f[i + 1] = f[i] + c
      BY <2>2, <2>4
    <3> DEFINE x0 == f[i - 1]
               x1 == f[i]
               x2 == f[i + 1]
    <3>4. x0 \in Int /\ x1 = x0 + a /\ x2 = x1 + c /\ g[i - 1] = x0 /\ g[i] = x2 + b - a - c
      BY <2>1, <3>2, <3>3
    <3> HIDE DEF a, b, c, x0, x1, x2
    <3>5. g[i] = x0 + b
      BY <1>2, <3>4
    <3> QED BY <3>3, <3>4, <3>5
  <2>3. CASE i < k
    <3> DEFINE d == UsedMemory(p[i])
    <3>1. i \in 1..(k - 1)
      BY <1>1, <2>3
    <3>2. UsedMemory(q[i]) = d /\ f[i] = f[i - 1] + d
      BY <1>10, <2>4, <3>1
    <3> HIDE DEF d
    <3>3. g[i] = f[i] /\ g[i - 1] = f[i - 1]
      BY <1>1, <1>5, <2>1, <2>3
    <3> QED BY <3>2, <3>3
  <2>5. CASE i > k
    <3> DEFINE d == UsedMemory(p[i + 1])
    <3>1. i \in (k + 1)..n /\ ~(i < k) /\ ~(i - 1 < k)
      BY <1>1, <2>5
    <3>2. UsedMemory(q[i]) = d /\ f[i + 1] = f[i] + d /\ d \in Int
      BY <1>2, <1>10, <2>1, <2>4, <3>1
    <3>3. g[i] = f[i + 1] + b - a - c /\ g[i - 1] = f[i] + b - a - c
      BY <1>5, <2>1, <3>1
    <3> HIDE DEF a, b, c, d
    <3> QED BY <1>2, <2>1, <3>2, <3>3
  <2> QED BY <1>1, <2>2, <2>3, <2>5
<1>7. Running(g, q)
  <2>1. g[0] = 0
    BY <1>1, <1>3, <1>5 DEF Running
  <2> QED BY <1>6, <2>1 DEF Running, n
<1>8. ListMemory(q) = g[n]
  BY <1>7, RunningIs DEF n
<1>9. g[n] = f[n + 1] + b - a - c
  BY <1>1, <1>5
<1> QED BY <1>3, <1>8, <1>9

\* The first chunks removed
LEMMA MemorySplit ==
  ASSUME NEW p \in Seq(Chunk), NEW k \in 0..Len(p)
  PROVE  /\ ListMemory(SubSeq(p, k + 1, Len(p))) = ListMemory(p) - ListMemory(SubSeq(p, 1, k))
         /\ ListMemory(p) \in Int /\ ListMemory(SubSeq(p, 1, k)) \in Int
<1> DEFINE n == Len(p)
           u == SubSeq(p, 1, k)
           v == SubSeq(p, k + 1, n)
<1>1. n \in Nat /\ k \in Nat /\ k <= n /\ n \in 0..n
  OBVIOUS
<1>2. PICK f : Running(f, p) /\ ListMemory(p) = f[n] /\ \A i \in 0..n : f[i] \in Int
  BY RunningExists
<1>3. f[0] = 0 /\ \A i \in 1..n : f[i] = f[i - 1] + UsedMemory(p[i])
  BY <1>2 DEF Running
<1>4. \A i \in 1..n : UsedMemory(p[i]) \in Int
  BY MemoryIsInt
<1>5. u \in Seq(Chunk) /\ Len(u) = k /\ \A i \in 1..k : u[i] = p[i]
  <2>1. u \in Seq(Chunk) /\ Len(u) = k
    BY <1>1
  <2>2. ASSUME NEW i \in 1..k PROVE u[i] = p[i]
    BY <1>1
  <2> QED BY <2>1, <2>2
<1>6. v \in Seq(Chunk) /\ Len(v) = n - k /\ \A i \in 1..(n - k) : v[i] = p[k + i]
  <2> DEFINE S == Chunk
  <2>1. p \in Seq(S) /\ k \in 0..Len(p) /\ v = Drop(p, k)
    BY DEF Drop
  <2> HIDE DEF S, v
  <2>2. /\ Drop(p, k) \in Seq(S) /\ Len(Drop(p, k)) = Len(p) - k
        /\ \A i \in 1..(Len(p) - k) : Drop(p, k)[i] = p[k + i]
    BY <2>1, DropIs
  <2> QED BY <2>1, <2>2 DEF S
<1> HIDE DEF n, u, v
<1>7. ListMemory(u) = f[k]
  <2>1. Running(f, u)
    <3>1. \A i \in 1..k : i \in 1..n
      BY <1>1
    <3> QED BY <1>3, <1>5, <3>1 DEF Running
  <2> QED BY <1>5, <2>1, RunningIs
<1> DEFINE g == [i \in 0..(n - k) |-> f[k + i] - f[k]]
<1>8. \A i \in 0..(n - k) : g[i] = f[k + i] - f[k]
  OBVIOUS
<1> HIDE DEF g
<1>9. Running(g, v)
  <2>1. g[0] = 0
    <3>1. 0 \in 0..(n - k) /\ k + 0 = k /\ f[k] \in Int
      BY <1>1, <1>2
    <3> QED BY <1>8, <3>1
  <2>2. ASSUME NEW i \in 1..(n - k) PROVE g[i] = g[i - 1] + UsedMemory(v[i])
    <3>1. /\ k + i \in 1..n /\ k + i \in 0..n /\ (k + i) - 1 \in 0..n /\ k + (i - 1) = (k + i) - 1
          /\ i \in 0..(n - k) /\ i - 1 \in 0..(n - k) /\ k \in 0..n
      BY <1>1
    <3> DEFINE j == k + i
               d == UsedMemory(p[j])
    <3>2. j \in 1..n /\ j \in 0..n /\ j - 1 \in 0..n
      BY <3>1
    <3>3. g[i] = f[j] - f[k] /\ g[i - 1] = f[j - 1] - f[k] /\ v[i] = p[j]
      BY <1>6, <1>8, <3>1
    <3> HIDE DEF j
    <3>4. f[j] = f[j - 1] + d /\ d \in Int /\ f[j] \in Int /\ f[j - 1] \in Int /\ f[k] \in Int
      BY <1>2, <1>3, <1>4, <3>1, <3>2
    <3>5. UsedMemory(v[i]) = d
      BY <3>3
    <3> HIDE DEF d
    <3> QED BY <3>3, <3>4, <3>5
  <2> QED BY <1>6, <2>1, <2>2 DEF Running
<1>10. ListMemory(v) = g[n - k]
  BY <1>6, <1>9, RunningIs
<1>11. n - k \in 0..(n - k) /\ k + (n - k) = n /\ k \in 0..n
  BY <1>1
<1>12. g[n - k] = f[n] - f[k]
  BY <1>8, <1>11
<1> QED BY <1>1, <1>2, <1>7, <1>10, <1>11, <1>12 DEF u, v, n

-----------------------------------------------------------------------------
(* What is queued.                                                         *)

\* The same client with another reply list
LEMMA ListIs ==
  ASSUME NEW x \in ClientRec, NEW t \in Seq(Seq(Nat)), Len(t) = Len(x.reply),
         \A i \in 1..Len(t) : x.reply[i].bytes = t[i]
  PROVE  /\ InList(x) = FlattenSeq(t)
         /\ EndOf(x, Len(x.reply)) = Len(FlattenSeq(t))
<1> DEFINE n == Len(x.reply)
<1>1. /\ Texts(x) \in Seq(Seq(Nat)) /\ Len(Texts(x)) = n /\ n \in Nat
      /\ \A i \in 1..n : Texts(x)[i] = x.reply[i].bytes
      /\ InList(x) = FlattenSeq(Texts(x)) /\ Len(InList(x)) = EndOf(x, n)
  BY ListOf
<1> HIDE DEF n
<1>2. Texts(x) = t
  <2> DEFINE R == Seq(Nat)
             u == Texts(x)
  <2>1. u \in Seq(R) /\ t \in Seq(R) /\ Len(u) = n /\ Len(t) = n /\ \A i \in 1..n : u[i] = t[i]
    BY <1>1 DEF n
  <2> HIDE DEF R, u
  <2>2. u = t
    BY <2>1, SeqEqual
  <2> QED BY <2>2 DEF u
<1> QED BY <1>1, <1>2 DEF n

\* A list of texts whose last one grows
LEMMA FlatGrow ==
  ASSUME NEW t \in Seq(Seq(Nat)), NEW m \in Seq(Nat), t # <<>>,
         NEW u \in Seq(Seq(Nat)), Len(u) = Len(t), u[Len(t)] = t[Len(t)] \o m,
         \A i \in 1..Len(t) : i # Len(t) => u[i] = t[i]
  PROVE  FlattenSeq(u) = FlattenSeq(t) \o m
<1> DEFINE n == Len(t)
<1>1. n \in Nat /\ n \in 1..n /\ n - 1 \in 0..n /\ DOMAIN t = 1..n
  OBVIOUS
<1>2. \A i \in 1..n : t[i] \in Seq(Nat)
  OBVIOUS
<1>4. u \in Seq(Seq(Nat)) /\ Len(u) = n /\ u[n] = t[n] \o m /\ \A i \in 1..n : i # n => u[i] = t[i]
  OBVIOUS
<1> HIDE DEF n
<1>5. FlattenSeq(u) = Flat(u, n - 1) \o u[n] /\ FlattenSeq(t) = Flat(t, n - 1) \o t[n]
  <2>1. FlattenSeq(u) = Flat(u, Len(u)) /\ \A k \in 1..Len(u) : Flat(u, k) = Flat(u, k - 1) \o u[k]
    BY <1>4, FlatSteps
  <2>2. FlattenSeq(t) = Flat(t, Len(t)) /\ \A k \in 1..Len(t) : Flat(t, k) = Flat(t, k - 1) \o t[k]
    BY FlatSteps
  <2> QED BY <1>1, <1>4, <2>1, <2>2 DEF n
<1>6. Flat(u, n - 1) = Flat(t, n - 1)
  <2>1. \A i \in 1..(n - 1) : i \in 1..n /\ i # n
    BY <1>1
  <2>2. \A i \in 1..(n - 1) : u[i] = t[i]
    BY <1>4, <2>1
  <2> QED BY <2>2, FlatSame
<1> DEFINE a == Flat(t, n - 1)
           b == t[n]
<1>7. a \in Seq(Nat) /\ b \in Seq(Nat)
  <2>1. \A k \in 0..Len(t) : Flat(t, k) \in Seq(Nat)
    BY FlatSteps
  <2> QED BY <1>1, <1>2, <2>1 DEF n
<1>8. FlattenSeq(u) = a \o (b \o m) /\ FlattenSeq(t) = a \o b
  BY <1>4, <1>5, <1>6
<1> HIDE DEF a, b
<1>9. a \o (b \o m) = (a \o b) \o m
  BY <1>7, Associative
<1> QED BY <1>4, <1>8, <1>9 DEF n

\* A chunk with more bytes
LEMMA JoinedFacts ==
  ASSUME NEW o \in Chunk, NEW m \in Seq(Nat)
  PROVE  Joined(o, m) \in Chunk /\ Joined(o, m).bytes = o.bytes \o m
<1> DEFINE len == Len(o.bytes)
           a == IF o.kind = SHARED THEN len ELSE o.alloc
           r == sdsMakeRoomFor(a, len, Len(m))
           b == o.bytes \o m
<1>1. o.bytes \in Seq(Nat) /\ o.alloc \in Nat
  BY DEF Chunk
<1>2. len \in Nat /\ a \in Nat /\ Len(m) \in Nat
  BY <1>1
<1> HIDE DEF len, a
<1>3. r \in Nat
  BY <1>2, RoomIsNat
<1>4. b \in Seq(Nat)
  BY <1>1
<1>5. Joined(o, m) = [bytes |-> b, kind |-> RAW, alloc |-> r]
  BY DEF Joined, len, a
<1> HIDE DEF r, b
<1> QED BY <1>3, <1>4, <1>5 DEF Chunk, Kinds, b

\* Output that goes to the list is the last of it, and the chunks nothing may be
\* appended to stay as they are.
Listed(x, m, y) ==
  /\ y \in ClientRec /\ Bytes(y)
  /\ y.fd = x.fd /\ y.flags = x.flags /\ y.querybuf = x.querybuf /\ y.buf = x.buf
  /\ y.sentlen = x.sentlen /\ y.made = x.made + Len(m)
  /\ InList(y) = InList(x) \o m
  /\ y.reply # <<>> /\ Len(y.reply) >= Len(x.reply)
  /\ \A i \in 1..Len(x.reply) :
       i # Len(x.reply) \/ ~Appendable(x.reply[i]) => y.reply[i] = x.reply[i]

LEMMA ToListFacts ==
  ASSUME NEW x \in ClientRec, Bytes(x), NEW m \in Seq(Nat), NEW kind \in Kinds, NEW alloc \in Nat,
         NEW y, y = ToList(x, m, kind, alloc)
  PROVE  Listed(x, m, y)
<1> DEFINE p == x.reply
           n == Len(p)
           joins == /\ n > 0 /\ Appendable(p[n])
                    /\ Len(p[n].bytes) + Len(m) <= PROTO_REPLY_CHUNK_BYTES
           q == IF joins THEN [p EXCEPT ![n] = Joined(@, m)]
                ELSE Append(p, [bytes |-> m, kind |-> kind, alloc |-> alloc])
           more == UsedMemory(q[Len(q)]) - (IF joins THEN UsedMemory(p[n]) ELSE 0)
           t == Texts(x)
<1>1. /\ p \in Seq(Chunk) /\ n \in Nat /\ x.made \in Nat /\ x.reply_bytes \in Int
      /\ x.reply_bytes = ListMemory(p) /\ Len(m) \in Nat /\ DOMAIN p = 1..n
  BY ListOf DEF ClientRec, Bytes
<1>2. /\ t \in Seq(Seq(Nat)) /\ Len(t) = n /\ \A i \in 1..n : t[i] = p[i].bytes
      /\ InList(x) = FlattenSeq(t)
  BY ListOf
<1>3. y = [x EXCEPT !.reply = q, !.made = @ + Len(m),
                    !.reply_bytes = @ - (IF joins THEN UsedMemory(p[n]) ELSE 0) + UsedMemory(q[Len(q)])]
  BY DEF ToList
<1> HIDE DEF t
<1>4. /\ q \in Seq(Chunk) /\ q # <<>> /\ Len(q) >= n
      /\ \A i \in 1..n : i # n \/ ~Appendable(p[i]) => q[i] = p[i]
      /\ \A i \in 1..n : \E b \in Seq(Nat) : q[i].bytes = p[i].bytes \o b
      /\ \E u \in Seq(Seq(Nat)) : /\ Len(u) = Len(q) /\ FlattenSeq(u) = FlattenSeq(t) \o m
                                  /\ \A i \in 1..Len(u) : q[i].bytes = u[i]
      /\ ListMemory(q) = ListMemory(p) + UsedMemory(q[Len(q)])
                          - (IF joins THEN UsedMemory(p[n]) ELSE 0)
  <2>1. CASE joins
    <3>1. n \in 1..n /\ p # <<>> /\ t # <<>>
      BY <1>1, <1>2, <2>1
    <3>2. p[n] \in Chunk
      BY <1>1, <3>1
    <3> DEFINE z == Joined(p[n], m)
    <3>3. z \in Chunk /\ z.bytes = p[n].bytes \o m
      BY <3>2, JoinedFacts
    <3>4. q = [p EXCEPT ![n] = z]
      BY <2>1, <3>1, <1>1
    <3> HIDE DEF z, q
    <3>5. q \in Seq(Chunk) /\ Len(q) = n /\ q[n] = z /\ \A i \in 1..n : i # n => q[i] = p[i]
      BY <1>1, <3>1, <3>3, <3>4
    <3> DEFINE u == [i \in 1..n |-> q[i].bytes]
    <3>6. /\ u \in Seq(Seq(Nat)) /\ Len(u) = n /\ u[n] = t[n] \o m
          /\ \A i \in 1..n : i # n => u[i] = t[i]
          /\ FlattenSeq(u) = FlattenSeq(t) \o m
      <4>1. \A i \in 1..n : q[i].bytes \in Seq(Nat)
        <5>1. \A i \in 1..n : q[i] \in Chunk
          BY <3>5
        <5> QED BY <5>1 DEF Chunk
      <4>2. /\ u \in Seq(Seq(Nat)) /\ Len(u) = n
            /\ \A i \in 1..n : u[i] = q[i].bytes
        BY <1>1, <4>1
      <4> HIDE DEF u
      <4>3. u[n] = t[n] \o m /\ \A i \in 1..n : i # n => u[i] = t[i]
        BY <1>2, <3>1, <3>3, <3>5, <4>2
      <4>4. /\ Len(u) = Len(t) /\ u[Len(t)] = t[Len(t)] \o m
            /\ \A i \in 1..Len(t) : i # Len(t) => u[i] = t[i]
        BY <1>2, <4>2, <4>3
      <4>5. FlattenSeq(u) = FlattenSeq(t) \o m
        BY <1>2, <3>1, <4>2, <4>4, FlatGrow
      <4> QED BY <4>2, <4>3, <4>5
    <3> HIDE DEF u
    <3>7. \A i \in 1..n : q[i].bytes = u[i]
      BY <1>2, <3>1, <3>3, <3>5, <3>6
    <3>8. q # <<>>
      BY <3>1, <3>5
    <3>9. \A i \in 1..n : i # n \/ ~Appendable(p[i]) => q[i] = p[i]
      BY <2>1, <3>5
    <3>10. ASSUME NEW i \in 1..n PROVE \E b \in Seq(Nat) : q[i].bytes = p[i].bytes \o b
      <4>1. p[i] \in Chunk
        BY <1>1
      <4>2. p[i].bytes \in Seq(Nat)
        BY <4>1 DEF Chunk
      <4>3. CASE i = n
        BY <3>3, <3>5, <4>3
      <4>4. CASE i # n
        <5>1. q[i].bytes = p[i].bytes \o <<>> /\ <<>> \in Seq(Nat)
          BY <3>5, <4>2, <4>4, ConcatEmptySeq
        <5> QED BY <5>1
      <4> QED BY <4>3, <4>4
    <3>11. u \in Seq(Seq(Nat)) /\ Len(u) = Len(q) /\ Len(q) >= n
           /\ \A i \in 1..Len(u) : q[i].bytes = u[i]
      BY <1>1, <3>5, <3>6, <3>7
    <3>12. ListMemory(q) = ListMemory(p) + UsedMemory(q[Len(q)]) - UsedMemory(p[n])
      <4>1. p \in Seq(Chunk) /\ Len(p) = n
        BY <1>1
      <4> HIDE DEF p, n
      <4>2. ListMemory(q) = ListMemory(p) + UsedMemory(q[n]) - UsedMemory(p[n])
        BY <3>1, <3>5, <4>1, MemoryReplace
      <4> QED BY <3>5, <4>2
    <3> QED BY <2>1, <3>5, <3>6, <3>8, <3>9, <3>10, <3>11, <3>12
  <2>2. CASE ~joins
    <3> DEFINE z == [bytes |-> m, kind |-> kind, alloc |-> alloc]
    <3>1. z \in Chunk /\ z.bytes = m
      BY DEF Chunk
    <3>2. q = Append(p, z)
      BY <2>2
    <3> HIDE DEF z, q
    <3>3. q \in Seq(Chunk) /\ Len(q) = n + 1 /\ q[n + 1] = z /\ \A i \in 1..n : q[i] = p[i]
      BY <1>1, <3>1, <3>2
    <3> DEFINE u == Append(t, m)
    <3>4. u \in Seq(Seq(Nat)) /\ Len(u) = n + 1 /\ u[n + 1] = m /\ \A i \in 1..n : u[i] = t[i]
      BY <1>1, <1>2
    <3>5. FlattenSeq(u) = FlattenSeq(t) \o m
      BY <1>2, FlatAppend
    <3> HIDE DEF u
    <3>6. \A i \in 1..(n + 1) : i \in 1..n \/ i = n + 1
      BY <1>1
    <3>7. \A i \in 1..Len(u) : q[i].bytes = u[i]
      BY <1>2, <3>1, <3>3, <3>4, <3>6
    <3>8. q # <<>> /\ Len(q) >= n
      BY <1>1, <3>3
    <3>9. ASSUME NEW i \in 1..n PROVE \E b \in Seq(Nat) : q[i].bytes = p[i].bytes \o b
      <4>1. p[i] \in Chunk
        BY <1>1
      <4>2. p[i].bytes \in Seq(Nat)
        BY <4>1 DEF Chunk
      <4>3. q[i].bytes = p[i].bytes \o <<>> /\ <<>> \in Seq(Nat)
        BY <3>3, <4>2, ConcatEmptySeq
      <4> QED BY <4>3
    <3>10. ListMemory(q) = ListMemory(p) + UsedMemory(q[Len(q)]) - 0
      <4>1. p \in Seq(Chunk) /\ z \in Chunk /\ q[Len(q)] = z
        BY <1>1, <3>1, <3>3
      <4> HIDE DEF p
      <4>2. ListMemory(q) = ListMemory(p) + UsedMemory(z) /\ UsedMemory(z) \in Int
        BY <3>2, <4>1, MemoryAppend, MemoryIsInt
      <4>3. ListMemory(p) \in Int
        <5>1. \E f : Running(f, p)
          BY <4>1, RunningExists
        <5> QED BY <4>1, <5>1, RunningIs
      <4> QED BY <4>1, <4>2, <4>3
    <3> QED BY <2>2, <3>3, <3>4, <3>5, <3>7, <3>8, <3>9, <3>10
  <2> QED BY <2>1, <2>2
<1>10. more \in Int /\ UsedMemory(q[Len(q)]) \in Int /\ (joins => UsedMemory(p[n]) \in Int)
  <2>1. Len(q) \in 1..Len(q) /\ (joins => n \in 1..n)
    <3>1. joins => n > 0
      OBVIOUS
    <3> HIDE DEF q, joins
    <3> QED BY <1>1, <1>4, <3>1
  <2>2. q[Len(q)] \in Chunk /\ (joins => p[n] \in Chunk)
    <3> HIDE DEF q, joins
    <3> QED BY <1>1, <1>4, <2>1
  <2>3. UsedMemory(q[Len(q)]) \in Int /\ (joins => UsedMemory(p[n]) \in Int)
    <3> HIDE DEF q, joins
    <3> QED BY <2>2, MemoryIsInt
  <2> HIDE DEF q, joins
  <2> QED BY <2>3
<1> HIDE DEF q, joins
<1>5. /\ y \in ClientRec /\ y.reply = q /\ y.reply_bytes = x.reply_bytes + more
      /\ y.fd = x.fd /\ y.flags = x.flags /\ y.querybuf = x.querybuf /\ y.buf = x.buf
      /\ y.sentlen = x.sentlen /\ y.made = x.made + Len(m)
  <2> DEFINE a == x.reply_bytes + more
             b == x.made + Len(m)
  <2>1. a \in Int /\ b \in Nat /\ q \in Seq(Chunk)
    <3> HIDE DEF more
    <3> QED BY <1>1, <1>4, <1>10
  <2>2. y = [x EXCEPT !.reply = q, !.reply_bytes = a, !.made = b]
    <3> DEFINE f == UsedMemory(q[Len(q)])
               g == IF joins THEN UsedMemory(p[n]) ELSE 0
    <3>1. f \in Int /\ g \in Int /\ a = x.reply_bytes + (f - g) /\ x.reply_bytes \in Int
      BY <1>1, <1>10
    <3>2. y = [x EXCEPT !.reply = q, !.made = b, !.reply_bytes = x.reply_bytes - g + f]
      BY <1>3
    <3> HIDE DEF f, g, a, b
    <3>3. x.reply_bytes - g + f = a
      BY <3>1
    <3> QED BY <3>2, <3>3
  <2> HIDE DEF a, b
  <2>3. /\ y \in ClientRec /\ y.reply = q /\ y.reply_bytes = a
        /\ y.fd = x.fd /\ y.flags = x.flags /\ y.querybuf = x.querybuf /\ y.buf = x.buf
        /\ y.sentlen = x.sentlen /\ y.made = b
    BY <2>1, <2>2 DEF ClientRec
  <2> QED BY <2>3 DEF a, b
<1>6. PICK u \in Seq(Seq(Nat)) : /\ Len(u) = Len(q) /\ FlattenSeq(u) = FlattenSeq(t) \o m
                                 /\ \A i \in 1..Len(u) : q[i].bytes = u[i]
  BY <1>4
<1>7. InList(y) = InList(x) \o m
  BY <1>2, <1>5, <1>6, ListIs
<1>9. Bytes(y)
  <2>1. y.reply_bytes = ListMemory(y.reply)
    <3> DEFINE f == UsedMemory(q[Len(q)])
               g == IF joins THEN UsedMemory(p[n]) ELSE 0
               l == ListMemory(p)
    <3>1. f \in Int /\ g \in Int /\ more = f - g /\ l \in Int /\ ListMemory(q) = l + f - g
      BY <1>1, <1>4, <1>10
    <3>2. y.reply = q /\ y.reply_bytes = l + more
      BY <1>1, <1>5
    <3> HIDE DEF f, g, l, more
    <3> QED BY <3>1, <3>2
  <2>2. ASSUME x.reply # <<>>, x.sentlen < Len(x.reply[1].bytes)
        PROVE  y.sentlen < Len(y.reply[1].bytes)
    <3>1. 1 \in 1..n
      BY <1>1, <2>2
    <3>2. PICK b \in Seq(Nat) : q[1].bytes = p[1].bytes \o b
      BY <1>4, <3>1
    <3>3. p[1] \in Chunk
      BY <1>1, <3>1
    <3> DEFINE a == p[1].bytes
    <3>4. a \in Seq(Nat)
      BY <3>3 DEF Chunk
    <3>5. b \in Seq(Nat) /\ x.sentlen < Len(a) /\ x.sentlen \in Nat
      BY <2>2, <3>2 DEF Bytes
    <3>6. q[1].bytes = a \o b
      BY <3>2
    <3> HIDE DEF a, p
    <3>7. Len(a \o b) = Len(a) + Len(b) /\ Len(a) \in Nat /\ Len(b) \in Nat
      BY <3>4, <3>5
    <3>8. x.sentlen < Len(a \o b)
      BY <3>5, <3>7
    <3> QED BY <1>5, <3>6, <3>8
  <2> QED BY <1>4, <1>5, <2>1, <2>2 DEF Bytes
<1> QED BY <1>4, <1>5, <1>7, <1>9 DEF Listed

LEMMA DropSplit ==
  ASSUME NEW a \in Seq(Nat), NEW k \in Nat, NEW n \in Nat, k + n <= Len(a)
  PROVE  /\ Drop(a, k) = SubSeq(Drop(a, k), 1, n) \o Drop(a, k + n)
         /\ SubSeq(Drop(a, k), 1, n) \in Seq(Nat) /\ Len(SubSeq(Drop(a, k), 1, n)) = n
<1> DEFINE N == Len(a)
           d == Drop(a, k)
           e == Drop(a, k + n)
           b == SubSeq(d, 1, n)
<1>1. N \in Nat /\ k \in 0..N /\ k + n \in 0..N /\ n <= N - k /\ N - (k + n) \in Nat /\ N - k \in Nat
  OBVIOUS
<1>2. d \in Seq(Nat) /\ Len(d) = N - k /\ \A i \in 1..(N - k) : d[i] = a[k + i]
  BY <1>1, DropIs
<1>3. /\ e \in Seq(Nat) /\ Len(e) = N - (k + n)
      /\ \A i \in 1..(N - (k + n)) : e[i] = a[(k + n) + i]
  BY <1>1, DropIs
<1> HIDE DEF d, e
<1>4. b \in Seq(Nat) /\ Len(b) = n /\ \A i \in 1..n : b[i] = d[i]
  BY <1>1, <1>2
<1> HIDE DEF b
<1>5. /\ b \o e \in Seq(Nat) /\ Len(b \o e) = Len(b) + Len(e)
      /\ \A i \in 1..(Len(b) + Len(e)) : (b \o e)[i] = IF i <= Len(b) THEN b[i] ELSE e[i - Len(b)]
  <2>1. b \in Seq(Nat) /\ e \in Seq(Nat)
    BY <1>3, <1>4
  <2> QED BY <2>1, ConcatProperties
<1> HIDE DEF N
<1>6. Len(b) + Len(e) = N - k
  BY <1>1, <1>3, <1>4
<1>7. ASSUME NEW i \in 1..(N - k) PROVE d[i] = (b \o e)[i]
  <2>1. CASE i <= n
    <3>1. i \in 1..n
      BY <2>1, <1>1
    <3> QED BY <1>4, <1>5, <1>6, <2>1, <3>1
  <2>2. CASE ~(i <= n)
    <3>1. i - n \in 1..(N - (k + n)) /\ (k + n) + (i - n) = k + i
      BY <2>2, <1>1
    <3>2. (b \o e)[i] = e[i - n]
      BY <1>4, <1>5, <1>6, <2>2
    <3>3. e[i - n] = a[(k + n) + (i - n)]
      BY <1>3, <3>1
    <3> QED BY <1>2, <3>1, <3>2, <3>3
  <2> QED BY <2>1, <2>2
<1>8. d = b \o e
  BY <1>2, <1>5, <1>6, <1>7, SeqEqual
<1> QED BY <1>4, <1>8 DEF b, d, e

LEMMA DropConcat ==
  ASSUME NEW p \in Seq(Nat), NEW q \in Seq(Nat), NEW j \in 0..Len(q)
  PROVE  Drop(p \o q, Len(p) + j) = Drop(q, j)
<1> DEFINE P == Len(p)
           Q == Len(q)
           a == p \o q
           d == Drop(a, P + j)
           e == Drop(q, j)
<1>1. P \in Nat /\ Q \in Nat /\ j \in Nat /\ j <= Q
  OBVIOUS
<1>2. /\ a \in Seq(Nat) /\ Len(a) = P + Q
      /\ \A i \in 1..(P + Q) : a[i] = IF i <= P THEN p[i] ELSE q[i - P]
  BY ConcatProperties
<1>3. e \in Seq(Nat) /\ Len(e) = Q - j /\ \A i \in 1..(Q - j) : e[i] = q[j + i]
  BY DropIs
<1> HIDE DEF a, e, P, Q
<1>4. P + j \in 0..Len(a) /\ Len(a) - (P + j) = Q - j
  BY <1>1, <1>2
<1>5. d \in Seq(Nat) /\ Len(d) = Q - j /\ \A i \in 1..(Q - j) : d[i] = a[(P + j) + i]
  <2>1. /\ d \in Seq(Nat) /\ Len(d) = Len(a) - (P + j)
        /\ \A i \in 1..(Len(a) - (P + j)) : d[i] = a[(P + j) + i]
    BY <1>2, <1>4, DropIs
  <2> QED BY <1>4, <2>1
<1> HIDE DEF d
<1>6. ASSUME NEW i \in 1..(Q - j) PROVE d[i] = e[i]
  <2>1. (P + j) + i \in 1..(P + Q) /\ ~((P + j) + i <= P) /\ ((P + j) + i) - P = j + i
    BY <1>1
  <2>2. d[i] = a[(P + j) + i] /\ e[i] = q[j + i]
    BY <1>3, <1>5
  <2>3. a[(P + j) + i] = q[((P + j) + i) - P]
    <3> DEFINE k == (P + j) + i
    <3>1. k \in 1..(P + Q) /\ ~(k <= P)
      BY <2>1
    <3> HIDE DEF k
    <3>2. a[k] = q[k - P]
      BY <1>2, <3>1
    <3> QED BY <3>2 DEF k
  <2> QED BY <2>1, <2>2, <2>3
<1>7. d = e
  BY <1>3, <1>5, <1>6, SeqEqual
<1> QED BY <1>7 DEF d, e, a, P

LEMMA UnsentDrop ==
  ASSUME NEW x \in ClientRec, Bytes(x)
  PROVE  Unsent(x) = Drop(All(x), x.sentlen) /\ x.sentlen \in 0..Len(All(x))
<1>1. /\ Unsent(x) = SubSeq(All(x), x.sentlen + 1, Len(All(x)))
      /\ x.sentlen <= Len(All(x)) /\ Len(All(x)) \in Nat /\ x.sentlen \in Nat
  BY UnsentIs DEF Bytes
<1> QED BY <1>1 DEF Drop

\* Output that fits the buffer is behind all there is.
LEMMA BufferFacts ==
  ASSUME NEW x \in ClientRec, Bytes(x), NEW m \in Seq(Nat), x.reply = <<>>,
         NEW y, y = [x EXCEPT !.buf = @ \o m, !.made = @ + Len(m)]
  PROVE  /\ y \in ClientRec /\ Bytes(y)
         /\ y.fd = x.fd /\ y.flags = x.flags /\ y.querybuf = x.querybuf
         /\ y.reply = x.reply /\ y.sentlen = x.sentlen /\ y.made = x.made + Len(m)
         /\ All(y) = All(x) \o m
<1> DEFINE a == x.buf \o m
           b == x.made + Len(m)
<1>1. x.buf \in Seq(Nat) /\ x.made \in Nat /\ x.sentlen \in Nat /\ Len(m) \in Nat
  BY DEF ClientRec, Bytes
<1>2. a \in Seq(Nat) /\ b \in Nat /\ Len(a) = Len(x.buf) + Len(m) /\ Len(x.buf) \in Nat
  BY <1>1
<1>3. y = [x EXCEPT !.buf = a, !.made = b]
  OBVIOUS
<1> HIDE DEF a, b
<1>4. /\ y \in ClientRec /\ y.buf = a /\ y.made = b /\ y.reply_bytes = x.reply_bytes
      /\ y.fd = x.fd /\ y.flags = x.flags /\ y.querybuf = x.querybuf
      /\ y.reply = x.reply /\ y.sentlen = x.sentlen
  BY <1>2, <1>3 DEF ClientRec
<1>5. InList(x) = <<>> /\ InList(y) = <<>> /\ EndOf(y, Len(y.reply)) = EndOf(x, Len(x.reply))
  <2>1. Texts(x) = <<>> /\ Texts(y) = <<>>
    BY <1>4 DEF Texts
  <2>2. FlattenSeq(<<>>) = <<>>
    BY FlatType, <2>1, ListOf
  <2>3. InList(x) = FlattenSeq(Texts(x)) /\ InList(y) = FlattenSeq(Texts(y))
    BY <1>4, ListOf
  <2>4. EndOf(y, Len(y.reply)) = EndOf(x, Len(x.reply))
    BY <1>4 DEF EndOf
  <2> QED BY <2>1, <2>2, <2>3, <2>4
<1>6. x.sentlen = 0 \/ x.sentlen < Len(x.buf)
  BY DEF Bytes
<1>7. Bytes(y)
  <2>1. a # <<>> => x.sentlen < Len(a)
    <3>1. a # <<>> => Len(a) > 0
      BY <1>2
    <3> QED BY <1>1, <1>2, <1>6, <3>1
  <2>2. a = <<>> => x.sentlen = 0
    <3>1. a = <<>> => Len(a) = 0
      OBVIOUS
    <3> QED BY <1>1, <1>2, <1>6, <3>1
  <2> QED BY <1>1, <1>4, <1>5, <2>1, <2>2 DEF Bytes
<1>8. All(y) = All(x) \o m
  <2>1. All(y) = a /\ All(x) = x.buf
    BY <1>1, <1>2, <1>4, <1>5, ConcatEmptySeq DEF All
  <2> QED BY <2>1 DEF a
<1> QED BY <1>4, <1>7, <1>8 DEF b

\* What AfterWrite calls gone: the chunks written in full
Gone(x, at, n) ==
  LET sent == {k \in 0..Len(x.reply) : EndOf(x, k) <= at}
      last == CHOOSE k \in sent : \A j \in sent : j <= k
  IN  IF n <= NET_MAX_WRITES_PER_EVENT \/ EndOf(x, last) < at THEN last
      ELSE CHOOSE k \in sent : /\ EndOf(x, k) = EndOf(x, last)
                               /\ \A j \in sent : EndOf(x, j) = EndOf(x, last) => k <= j

LEMMA GoneFacts ==
  ASSUME NEW x \in ClientRec, Bytes(x), NEW at \in Nat, at <= Len(InList(x)), NEW n
  PROVE  /\ Gone(x, at, n) \in 0..Len(x.reply) /\ EndOf(x, Gone(x, at, n)) <= at
         /\ at # EndOf(x, Gone(x, at, n)) =>
              /\ Gone(x, at, n) + 1 \in 1..Len(x.reply)
              /\ at - EndOf(x, Gone(x, at, n)) < Len(x.reply[Gone(x, at, n) + 1].bytes)
<1> DEFINE sent == {k \in 0..Len(x.reply) : EndOf(x, k) <= at}
           last == CHOOSE k \in sent : \A j \in sent : j <= k
           gone == IF n <= NET_MAX_WRITES_PER_EVENT \/ EndOf(x, last) < at THEN last
                   ELSE CHOOSE k \in sent : /\ EndOf(x, k) = EndOf(x, last)
                                            /\ \A j \in sent : EndOf(x, j) = EndOf(x, last) => k <= j
<1>0. gone = Gone(x, at, n)
  BY DEF Gone
<1> DEFINE N == Len(x.reply)
           t == Texts(x)
           E(k) == EndOf(x, k)
<1>1. /\ t \in Seq(Seq(Nat)) /\ Len(t) = N /\ \A i \in 1..N : t[i] = x.reply[i].bytes
      /\ N \in Nat /\ \A k \in 0..N : E(k) = Len(Flat(t, k)) /\ E(k) \in Nat
      /\ Len(InList(x)) = E(N)
  BY ListOf
<1>2. E(0) = 0 /\ \A k \in 1..N : E(k) = E(k - 1) + Len(t[k]) /\ Len(t[k]) \in Nat
  <2>1. /\ Flat(t, 0) = <<>> /\ \A k \in 0..N : Flat(t, k) \in Seq(Nat)
        /\ \A k \in 1..N : Flat(t, k) = Flat(t, k - 1) \o t[k]
    BY <1>1, FlatSteps
  <2>2. E(0) = 0
    <3>1. 0 \in 0..N
      BY <1>1
    <3> QED BY <1>1, <2>1, <3>1
  <2>3. ASSUME NEW k \in 1..N PROVE E(k) = E(k - 1) + Len(t[k]) /\ Len(t[k]) \in Nat
    <3> DEFINE a == Flat(t, k - 1)
               b == t[k]
    <3>1. k \in 0..N /\ k - 1 \in 0..N
      BY <1>1
    <3>2. a \in Seq(Nat) /\ b \in Seq(Nat) /\ Flat(t, k) = a \o b
      <4>1. t[k] \in Seq(Nat)
        BY <1>1
      <4> QED BY <2>1, <3>1, <4>1
    <3>3. E(k) = Len(a \o b) /\ E(k - 1) = Len(a)
      BY <1>1, <3>1, <3>2
    <3> HIDE DEF a, b, E
    <3>4. Len(a \o b) = Len(a) + Len(b) /\ Len(b) \in Nat
      BY <3>2
    <3> QED BY <3>3, <3>4 DEF b
  <2> QED BY <2>2, <2>3
<1>3. sent \in SUBSET (0..N) /\ 0 \in sent /\ \A k \in 0..N : k \in sent <=> E(k) <= at
  BY <1>1, <1>2
<1> HIDE DEF t, E, N, sent
<1>4. \E k \in sent : \A j \in sent : j <= k
  <2> DEFINE T == {i \in 0..N : \E k \in sent : k <= i /\ \A j \in sent : j <= i => j <= k}
  <2>1. 0 \in T
    <3>1. \A j \in sent : j \in Nat /\ (j <= 0 => j <= 0)
      BY <1>1, <1>3
    <3> QED BY <1>1, <1>3, <3>1
  <2>2. ASSUME NEW i \in 1..N, i - 1 \in T PROVE i \in T
    <3>1. PICK k \in sent : k <= i - 1 /\ \A j \in sent : j <= i - 1 => j <= k
      BY <2>2
    <3>2. k \in Nat /\ \A j \in sent : j \in Nat
      BY <1>3, <3>1
    <3>3. CASE i \in sent
      BY <1>1, <1>3, <3>2, <3>3
    <3>4. CASE i \notin sent
      <4>1. \A j \in sent : j <= i => j <= i - 1
        BY <3>2, <3>4
      <4>2. k <= i
        BY <3>1, <3>2
      <4> QED BY <1>1, <3>1, <4>1, <4>2
    <3> QED BY <3>3, <3>4
  <2> HIDE DEF T
  <2>3. N \in T
    <3>1. N \in 0..N
      BY <1>1
    <3> QED BY <1>1, <2>1, <2>2, <3>1, RangeInduction
  <2>4. PICK k \in sent : k <= N /\ \A j \in sent : j <= N => j <= k
    BY <2>3 DEF T
  <2>5. \A j \in sent : j <= N
    BY <1>1, <1>3
  <2> QED BY <2>4, <2>5
<1>5. last \in sent /\ \A j \in sent : j <= last
  BY <1>4
<1> HIDE DEF last
<1>6. last \in 0..N /\ E(last) <= at /\ E(last) \in Nat
  BY <1>1, <1>3, <1>5
<1>7. at # E(last) => last + 1 \in 1..N /\ at - E(last) < Len(t[last + 1])
  <2> SUFFICES ASSUME at # E(last) PROVE last + 1 \in 1..N /\ at - E(last) < Len(t[last + 1])
    OBVIOUS
  <2>1. last # N
    <3>1. at <= E(N)
      BY <1>1
    <3>2. ASSUME last = N PROVE FALSE
      <4>1. at <= E(last)
        BY <3>1, <3>2
      <4> DEFINE v == E(last)
      <4>2. v <= at /\ v \in Nat /\ at <= v /\ at # v
        BY <1>6, <4>1
      <4> HIDE DEF v
      <4> QED BY <4>2
    <3> QED BY <3>2
  <2>2. last + 1 \in 1..N /\ last + 1 \in 0..N /\ (last + 1) - 1 = last
    <3>1. N \in Nat /\ last \in 0..N
      BY <1>1, <1>6
    <3> QED BY <2>1, <3>1
  <2>3. ~(E(last + 1) <= at)
    <3>1. last + 1 \notin sent
      BY <1>5, <1>6
    <3> QED BY <1>3, <2>2, <3>1
  <2>4. E(last + 1) = E(last) + Len(t[last + 1]) /\ Len(t[last + 1]) \in Nat
    BY <1>2, <2>2
  <2> QED BY <1>6, <2>2, <2>3, <2>4
<1>8. CASE n <= NET_MAX_WRITES_PER_EVENT \/ E(last) < at
  <2>1. gone = last
    BY <1>8 DEF E
  <2> HIDE DEF gone
  <2> QED BY <1>0, <1>1, <1>6, <1>7, <2>1 DEF E, N
<1>9. CASE ~(n <= NET_MAX_WRITES_PER_EVENT \/ E(last) < at)
  <2>1. E(last) = at
    BY <1>6, <1>9
  <2> DEFINE same == {k \in sent : E(k) = at}
  <2>2. same \in SUBSET Nat /\ last \in same
    <3>1. 0..N \subseteq Nat
      BY <1>1
    <3>2. sent \subseteq Nat
      BY <1>3, <3>1
    <3> QED BY <1>5, <2>1, <3>2
  <2>3. \E k \in same : \A j \in same : k <= j
    BY <2>2, MinIsLeast
  <2>4. gone = CHOOSE k \in sent : E(k) = E(last) /\ \A j \in sent : E(j) = E(last) => k <= j
    BY <1>9 DEF E
  <2>5. gone \in sent /\ E(gone) = E(last)
    BY <2>1, <2>3, <2>4
  <2> HIDE DEF gone
  <2>6. gone \in 0..N /\ E(gone) = at /\ E(gone) \in Nat
    BY <1>3, <1>6, <2>1, <2>5
  <2> QED BY <1>0, <2>6 DEF E, N
<1> HIDE DEF gone
<1> QED BY <1>0, <1>8, <1>9 DEF E

\* The loop of writeToClient takes its n bytes from the front, whatever chunks
\* it frees on the way.
LEMMA AfterWriteFacts ==
  ASSUME NEW x \in ClientRec, Bytes(x), NEW n \in Nat, n <= Len(Unsent(x)),
         NEW y, y = AfterWrite(x, n)
  PROVE  /\ y \in ClientRec /\ Bytes(y)
         /\ y.fd = x.fd /\ y.flags = x.flags /\ y.querybuf = x.querybuf /\ y.made = x.made
         /\ Unsent(x) = SubSeq(Unsent(x), 1, n) \o Unsent(y)
         /\ SubSeq(Unsent(x), 1, n) \in Seq(Nat)
         /\ clientHasPendingReplies(y) => clientHasPendingReplies(x)
<1> DEFINE s == x.sentlen
           B == Len(x.buf)
           a == All(x)
           A == Len(a)
           N == Len(x.reply)
           at == n - (B - s)
<1>1. /\ x.buf \in Seq(Nat) /\ B \in Nat /\ s \in Nat /\ A \in Nat /\ a \in Seq(Nat)
      /\ InList(x) \in Seq(Nat) /\ Len(InList(x)) = EndOf(x, N) /\ Len(InList(x)) \in Nat
      /\ A = B + Len(InList(x)) /\ s <= A /\ Len(Unsent(x)) = A - s /\ Unsent(x) = Drop(a, s)
      /\ x.reply_bytes = ListMemory(x.reply) /\ x.reply \in Seq(Chunk) /\ N \in Nat
  <2>1. x.buf \in Seq(Nat) /\ x.reply \in Seq(Chunk)
    BY DEF ClientRec
  <2>2. s \in Nat /\ x.reply_bytes = ListMemory(x.reply)
    BY DEF Bytes
  <2>3. InList(x) \in Seq(Nat) /\ Len(InList(x)) = EndOf(x, N) /\ N \in Nat
    BY ListOf
  <2>4. /\ B \in Nat /\ A \in Nat /\ a \in Seq(Nat) /\ A = B + Len(InList(x)) /\ s <= A
        /\ Len(Unsent(x)) = A - s
    BY UnsentIs
  <2>5. Unsent(x) = Drop(a, s)
    BY UnsentDrop
  <2>6. Len(InList(x)) \in Nat
    <3> DEFINE l == InList(x)
    <3>1. l \in Seq(Nat)
      BY <2>3
    <3> HIDE DEF l
    <3> QED BY <3>1 DEF l
  <2> QED BY <2>1, <2>2, <2>3, <2>4, <2>5, <2>6
<1>2. s + n <= A /\ at \in Int /\ at <= Len(InList(x)) /\ s + n \in Nat
  <2> HIDE DEF s, B, A
  <2> QED BY <1>1
<1>3. ASSUME Unsent(y) = Drop(a, s + n)
      PROVE  /\ Unsent(x) = SubSeq(Unsent(x), 1, n) \o Unsent(y)
             /\ SubSeq(Unsent(x), 1, n) \in Seq(Nat)
  <2> HIDE DEF a, s
  <2>1. /\ Drop(a, s) = SubSeq(Drop(a, s), 1, n) \o Drop(a, s + n)
        /\ SubSeq(Drop(a, s), 1, n) \in Seq(Nat)
    BY <1>1, <1>2, DropSplit
  <2> QED BY <1>1, <1>3, <2>1
<1>4. CASE at < 0
  <2> DEFINE k == s + n
  <2>1. y = [x EXCEPT !.sentlen = k]
    BY <1>4 DEF AfterWrite, ListStart
  <2>2. k \in Nat /\ k \in Int /\ k < B
    <3> HIDE DEF s, B
    <3> QED BY <1>1, <1>2, <1>4
  <2> HIDE DEF k
  <2>3. /\ y \in ClientRec /\ y.sentlen = k /\ y.fd = x.fd /\ y.flags = x.flags
        /\ y.querybuf = x.querybuf /\ y.made = x.made /\ y.buf = x.buf /\ y.reply = x.reply
        /\ y.reply_bytes = x.reply_bytes
    BY <2>1, <2>2 DEF ClientRec
  <2>4. InList(y) = InList(x) /\ All(y) = a /\ EndOf(y, N) = EndOf(x, N)
    BY <2>3 DEF InList, All, EndOf
  <2>5. x.buf # <<>>
    <3>1. x.buf = <<>> => B = 0
      OBVIOUS
    <3> HIDE DEF B
    <3> QED BY <2>2, <3>1
  <2>6. Bytes(y)
    BY <1>1, <2>2, <2>3, <2>4, <2>5 DEF Bytes
  <2>7. Unsent(y) = Drop(a, k)
    BY <2>3, <2>4, <2>6, UnsentDrop
  <2> QED BY <1>3, <2>3, <2>5, <2>6, <2>7 DEF k, clientHasPendingReplies
<1>5. CASE ~(at < 0)
  <2>1. at \in Nat
    BY <1>2, <1>5
  <2> DEFINE g == Gone(x, at, n)
             e == EndOf(x, g)
             z == SubSeq(x.reply, g + 1, N)
             w == ListMemory(SubSeq(x.reply, 1, g))
  <2>2. /\ g \in 0..N /\ e <= at
        /\ at # e => g + 1 \in 1..N /\ at - e < Len(x.reply[g + 1].bytes)
    <3> HIDE DEF at
    <3> QED BY <1>2, <2>1, GoneFacts
  <2>3. y = [x EXCEPT !.buf = <<>>, !.sentlen = at - e, !.reply = z, !.reply_bytes = @ - w]
    BY <1>5 DEF AfterWrite, ListStart, Gone
  <2> HIDE DEF g, at
  <2>4. e \in Nat /\ e = Len(Flat(Texts(x), g))
    BY <2>2, ListOf
  <2> HIDE DEF e
  <2>5. /\ z \in Seq(Chunk) /\ Len(z) = N - g
        /\ \A i \in 1..(N - g) : g + i \in 1..N /\ z[i] = x.reply[g + i]
    <3> DEFINE p == x.reply
    <3>1. p \in Seq(Chunk) /\ Len(p) = N
      BY <1>1
    <3> HIDE DEF p, N
    <3>2. SubSeq(p, g + 1, N) \in Seq(Chunk) /\ Len(SubSeq(p, g + 1, N)) = N - g
      BY <1>1, <2>2, <3>1
    <3>3. ASSUME NEW i \in 1..(N - g) PROVE g + i \in 1..N /\ SubSeq(p, g + 1, N)[i] = p[g + i]
      <4>1. (g + 1) + (i - 1) = g + i /\ i \in 1..(N - (g + 1) + 1) /\ g + i \in 1..N
        BY <1>1, <2>2
      <4>2. SubSeq(p, g + 1, N)[i] = p[(g + 1) + (i - 1)]
        BY <1>1, <2>2, <3>1, <4>1
      <4> QED BY <4>1, <4>2
    <3> QED BY <3>2, <3>3 DEF p
  <2>13. ListMemory(z) = ListMemory(x.reply) - w /\ ListMemory(x.reply) \in Int /\ w \in Int
    <3> DEFINE p == x.reply
    <3>1. p \in Seq(Chunk) /\ g \in 0..Len(p)
      BY <1>1, <2>2
    <3> HIDE DEF p
    <3>2. /\ ListMemory(SubSeq(p, g + 1, Len(p))) = ListMemory(p) - ListMemory(SubSeq(p, 1, g))
          /\ ListMemory(p) \in Int /\ ListMemory(SubSeq(p, 1, g)) \in Int
      BY <3>1, MemorySplit
    <3> QED BY <3>2 DEF p
  <2> DEFINE k == at - e
             r == x.reply_bytes - w
  <2>6. k \in Nat /\ r \in Int
    <3> HIDE DEF w
    <3> QED BY <1>1, <2>1, <2>2, <2>4, <2>13
  <2>7. /\ y \in ClientRec /\ y.sentlen = k /\ y.fd = x.fd /\ y.flags = x.flags
        /\ y.querybuf = x.querybuf /\ y.made = x.made /\ y.buf = <<>> /\ y.reply = z
        /\ y.reply_bytes = r
    <3>1. y = [x EXCEPT !.buf = <<>>, !.sentlen = k, !.reply = z, !.reply_bytes = r]
      BY <2>3
    <3>2. k \in Int /\ <<>> \in Seq(Nat)
      BY <2>6
    <3> HIDE DEF k, r, z, w
    <3> QED BY <2>5, <2>6, <3>1, <3>2 DEF ClientRec
  <2>8. /\ InList(x) = Flat(Texts(x), g) \o InList(y)
        /\ EndOf(y, Len(y.reply)) = Len(InList(y)) /\ InList(y) \in Seq(Nat)
        /\ Flat(Texts(x), g) \in Seq(Nat)
    <3> DEFINE t == Texts(x)
               u == SubSeq(t, g + 1, Len(t))
    <3>1. /\ t \in Seq(Seq(Nat)) /\ Len(t) = N /\ \A i \in 1..N : t[i] = x.reply[i].bytes
          /\ InList(x) = FlattenSeq(t)
      BY ListOf
    <3> HIDE DEF t
    <3>2. FlattenSeq(t) = Flat(t, g) \o FlattenSeq(u) /\ u \in Seq(Seq(Nat))
      BY <2>2, <3>1, FlatSplit
    <3>3. Flat(t, g) \in Seq(Nat)
      BY <2>2, <3>1, FlatSteps
    <3>4. Len(u) = N - g /\ \A i \in 1..(N - g) : u[i] = t[g + i]
      <4> DEFINE R == Seq(Nat)
      <4>1. t \in Seq(R) /\ Len(t) = N /\ N \in Nat
        BY <1>1, <3>1
      <4> HIDE DEF R, N
      <4>2. Len(SubSeq(t, g + 1, N)) = N - g
        BY <2>2, <4>1
      <4>3. ASSUME NEW i \in 1..(N - g) PROVE SubSeq(t, g + 1, N)[i] = t[g + i]
        <5>1. (g + 1) + (i - 1) = g + i /\ i \in 1..(N - (g + 1) + 1)
          BY <2>2, <4>1
        <5>2. SubSeq(t, g + 1, N)[i] = t[(g + 1) + (i - 1)]
          BY <2>2, <4>1, <5>1
        <5> QED BY <5>1, <5>2
      <4> QED BY <4>1, <4>2, <4>3
    <3> HIDE DEF u
    <3>5. \A i \in 1..Len(u) : z[i].bytes = u[i]
      BY <2>5, <3>1, <3>4
    <3>6. Len(u) = Len(y.reply) /\ \A i \in 1..Len(u) : y.reply[i].bytes = u[i]
      <4> HIDE DEF z
      <4> QED BY <2>5, <2>7, <3>4, <3>5
    <3>7. InList(y) = FlattenSeq(u) /\ EndOf(y, Len(y.reply)) = Len(FlattenSeq(u))
      BY <2>7, <3>2, <3>6, ListIs
    <3>8. FlattenSeq(u) \in Seq(Nat)
      BY <3>2, FlatType
    <3> QED BY <3>1, <3>2, <3>3, <3>7, <3>8 DEF t
  <2> DEFINE f == Flat(Texts(x), g)
             l == InList(y)
  <2>9. Len(f) = e /\ Len(InList(x)) = e + Len(l) /\ Len(l) \in Nat
    <3>1. f \in Seq(Nat) /\ l \in Seq(Nat) /\ InList(x) = f \o l /\ Len(f) = e
      BY <2>4, <2>8
    <3> HIDE DEF f, l
    <3>2. Len(f \o l) = Len(f) + Len(l)
      BY <3>1, Associative
    <3>3. Len(l) \in Nat
      BY <3>1
    <3> QED BY <3>1, <3>2, <3>3
  <2> HIDE DEF z
  <2>10. Bytes(y)
    <3>1. y.reply_bytes = ListMemory(y.reply)
      <4> HIDE DEF w
      <4> QED BY <1>1, <2>7, <2>13
    <3>2. k # 0 => y.reply # <<>> /\ k < Len(y.reply[1].bytes)
      <4> SUFFICES ASSUME k # 0 PROVE y.reply # <<>> /\ k < Len(y.reply[1].bytes)
        OBVIOUS
      <4>1. at # e
        BY <2>1, <2>4
      <4>2. g + 1 \in 1..N /\ k < Len(x.reply[g + 1].bytes)
        BY <2>2, <4>1
      <4>3. 1 \in 1..(N - g)
        BY <1>1, <2>2, <4>2
      <4>4. z[1] = x.reply[g + 1] /\ z # <<>>
        BY <2>5, <4>3
      <4> QED BY <2>7, <4>2, <4>4
    <3> HIDE DEF k
    <3> QED BY <2>6, <2>7, <3>1, <3>2 DEF Bytes
  <2>11. Unsent(y) = Drop(a, s + n)
    <3>1. All(y) = l
      BY <2>7, <2>8, ConcatEmptySeq DEF All
    <3>2. Unsent(y) = Drop(l, k) /\ k \in 0..Len(l)
      BY <2>7, <2>10, <3>1, UnsentDrop
    <3> DEFINE b == x.buf
               p == b \o f
    <3>3. b \in Seq(Nat) /\ f \in Seq(Nat) /\ l \in Seq(Nat) /\ a = b \o (f \o l)
      BY <1>1, <2>8 DEF All
    <3> HIDE DEF b, f, l, a, k
    <3>4. p \in Seq(Nat) /\ Len(p) = Len(b) + Len(f) /\ a = p \o l
      BY <3>3, Associative
    <3> HIDE DEF p
    <3>5. Drop(p \o l, Len(p) + k) = Drop(l, k)
      BY <3>2, <3>3, <3>4, DropConcat
    <3>6. Len(p) + k = s + n
      <4>1. Len(p) = B + e /\ k = at - e /\ at = n - (B - s)
        BY <2>9, <3>4 DEF at, k, b
      <4> HIDE DEF B, s
      <4> QED BY <1>1, <2>1, <2>4, <4>1
    <3> QED BY <3>2, <3>4, <3>5, <3>6
  <2>12. clientHasPendingReplies(y) => clientHasPendingReplies(x)
    <3>1. x.reply = <<>> => N = 0
      OBVIOUS
    <3>2. N = 0 => N - g = 0
      <4>1. N \in Nat /\ g \in 0..N
        BY <1>1, <2>2
      <4> SUFFICES ASSUME N = 0 PROVE N - g = 0
        OBVIOUS
      <4> HIDE DEF N
      <4>2. g = 0
        BY <4>1
      <4> QED BY <4>2
    <3>3. N - g = 0 => z = <<>>
      BY <2>5
    <3> QED BY <2>7, <3>1, <3>2, <3>3 DEF clientHasPendingReplies
  <2> QED BY <1>3, <2>7, <2>10, <2>11, <2>12
<1> QED BY <1>4, <1>5

-----------------------------------------------------------------------------
(* Adding to the output of one client.                                     *)

LEMMA SegFacts ==
  ASSUME NEW a \in Nat, NEW b \in Nat, NEW d \in Nat, a <= b, b <= d
  PROVE  /\ Seg(a, b) \in Seq(Nat) /\ Len(Seg(a, b)) = b - a
         /\ Seg(a, b) \o Seg(b, d) = Seg(a, d)
         /\ Seg(a, a) = <<>>
<1>1. \A k, l \in Nat : k <= l => /\ Seg(k, l) \in Seq(Nat) /\ Len(Seg(k, l)) = l - k
                                  /\ \A i \in 1..(l - k) : Seg(k, l)[i] = k + i
  BY DEF Seg
<1> DEFINE u == Seg(a, b)
           v == Seg(b, d)
           w == Seg(a, d)
<1>2. /\ u \in Seq(Nat) /\ Len(u) = b - a /\ \A i \in 1..(b - a) : u[i] = a + i
      /\ v \in Seq(Nat) /\ Len(v) = d - b /\ \A i \in 1..(d - b) : v[i] = b + i
      /\ w \in Seq(Nat) /\ Len(w) = d - a /\ \A i \in 1..(d - a) : w[i] = a + i
  <2>1. a <= d
    OBVIOUS
  <2>2. u \in Seq(Nat) /\ Len(u) = b - a /\ \A i \in 1..(b - a) : u[i] = a + i
    BY <1>1
  <2>3. v \in Seq(Nat) /\ Len(v) = d - b /\ \A i \in 1..(d - b) : v[i] = b + i
    BY <1>1
  <2>4. w \in Seq(Nat) /\ Len(w) = d - a /\ \A i \in 1..(d - a) : w[i] = a + i
    BY <1>1, <2>1
  <2> QED BY <2>2, <2>3, <2>4
<1> HIDE DEF u, v, w
<1>3. /\ u \o v \in Seq(Nat) /\ Len(u \o v) = Len(u) + Len(v)
      /\ \A i \in 1..(Len(u) + Len(v)) : (u \o v)[i] = IF i <= Len(u) THEN u[i] ELSE v[i - Len(u)]
  <2>1. u \in Seq(Nat) /\ v \in Seq(Nat)
    BY <1>2
  <2> QED BY <2>1, ConcatProperties
<1>4. Len(u) + Len(v) = d - a
  BY <1>2
<1>5. ASSUME NEW i \in 1..(d - a) PROVE (u \o v)[i] = w[i]
  <2>1. CASE i <= b - a
    <3>1. i \in 1..(b - a)
      BY <2>1
    <3>2. (u \o v)[i] = u[i]
      BY <1>2, <1>3, <1>4, <2>1
    <3> QED BY <1>2, <3>1, <3>2
  <2>2. CASE ~(i <= b - a)
    <3>1. i - (b - a) \in 1..(d - b) /\ b + (i - (b - a)) = a + i
      BY <2>2
    <3>2. (u \o v)[i] = v[i - (b - a)]
      BY <1>2, <1>3, <1>4, <2>2
    <3> QED BY <1>2, <3>1, <3>2
  <2> QED BY <2>1, <2>2
<1>6. u \o v = w
  BY <1>2, <1>3, <1>4, <1>5, SeqEqual
<1>7. Seg(a, a) = <<>>
  <2>1. Seg(a, a) \in Seq(Nat) /\ Len(Seg(a, a)) = 0
    BY <1>1
  <2> QED BY <2>1
<1> QED BY <1>2, <1>6, <1>7 DEF u, v, w

\* The chunks of x that are not the last, or that nothing may be appended to
Kept(x, y) ==
  x.reply # <<>> =>
    /\ y.buf = x.buf /\ y.reply # <<>> /\ Len(y.reply) >= Len(x.reply)
    /\ \A i \in 1..Len(x.reply) :
         i # Len(x.reply) \/ ~Appendable(x.reply[i]) => y.reply[i] = x.reply[i]

\* y is x with more output
Grown(x, y) ==
  /\ y \in ClientRec /\ Bytes(y)
  /\ y.fd = x.fd /\ y.querybuf = x.querybuf /\ y.sentlen = x.sentlen
  /\ y.flags \cup {PENDING_WRITE, CLOSE_ASAP} = x.flags \cup {PENDING_WRITE, CLOSE_ASAP}
  /\ x.flags \subseteq y.flags
  /\ clientHasPendingReplies(x) => clientHasPendingReplies(y)
  /\ x.made <= y.made
  /\ All(y) = All(x) \o Seg(x.made, y.made)
  /\ Kept(x, y)

LEMMA GrownSelf ==
  ASSUME NEW x \in ClientRec, Bytes(x), NEW y \in ClientRec,
         x.flags \subseteq y.flags, y.flags \subseteq x.flags \cup {PENDING_WRITE, CLOSE_ASAP},
         y.fd = x.fd, y.querybuf = x.querybuf, y.sentlen = x.sentlen, y.buf = x.buf,
         y.reply = x.reply, y.reply_bytes = x.reply_bytes, y.made = x.made
  PROVE  Grown(x, y)
<1>1. Bytes(y)
  BY DEF Bytes, EndOf
<1>2. All(y) = All(x)
  BY DEF All, InList
<1>3. x.made \in Nat
  BY DEF ClientRec
<1>4. All(x) \o Seg(x.made, x.made) = All(x)
  <2>1. Seg(x.made, x.made) = <<>>
    <3>1. x.made <= x.made
      BY <1>3
    <3> QED BY <1>3, <3>1, SegFacts
  <2>2. All(x) \in Seq(Nat)
    BY UnsentIs
  <2> QED BY <2>1, <2>2, ConcatEmptySeq
<1>5. Kept(x, y)
  BY DEF Kept, ClientRec
<1>6. clientHasPendingReplies(x) => clientHasPendingReplies(y)
  BY DEF clientHasPendingReplies
<1>7. y.flags \cup {PENDING_WRITE, CLOSE_ASAP} = x.flags \cup {PENDING_WRITE, CLOSE_ASAP}
  OBVIOUS
<1> QED BY <1>1, <1>2, <1>3, <1>4, <1>5, <1>6, <1>7 DEF Grown

LEMMA GrownTrans ==
  ASSUME NEW x \in ClientRec, Bytes(x), NEW y, NEW z, Grown(x, y), Grown(y, z)
  PROVE  Grown(x, z)
<1>1. /\ y \in ClientRec /\ z \in ClientRec /\ Bytes(y) /\ Bytes(z)
      /\ All(y) = All(x) \o Seg(x.made, y.made) /\ All(z) = All(y) \o Seg(y.made, z.made)
      /\ x.made <= y.made /\ y.made <= z.made
  BY DEF Grown
<1>2. x.made \in Nat /\ y.made \in Nat /\ z.made \in Nat
  BY <1>1 DEF ClientRec
<1>3. All(z) = All(x) \o Seg(x.made, z.made)
  <2> DEFINE a == All(x)
             u == Seg(x.made, y.made)
             v == Seg(y.made, z.made)
  <2>1. a \in Seq(Nat)
    BY UnsentIs
  <2>2. u \in Seq(Nat) /\ u \o v = Seg(x.made, z.made)
    BY <1>1, <1>2, SegFacts
  <2>3. v \in Seq(Nat)
    <3>1. z.made <= z.made
      BY <1>2
    <3> QED BY <1>1, <1>2, <3>1, SegFacts
  <2>4. All(z) = (a \o u) \o v
    BY <1>1
  <2> HIDE DEF a, u, v
  <2>5. (a \o u) \o v = a \o (u \o v)
    BY <2>1, <2>2, <2>3, Associative
  <2> QED BY <2>2, <2>4, <2>5 DEF a
<1>4. Kept(x, z)
  <2> SUFFICES ASSUME x.reply # <<>> PROVE Kept(x, z)
    BY DEF Kept
  <2> DEFINE l == Len(x.reply)
             m == Len(y.reply)
             n == Len(z.reply)
  <2>1. l \in Nat /\ m \in Nat /\ n \in Nat
    <3>1. x.reply \in Seq(Chunk) /\ y.reply \in Seq(Chunk) /\ z.reply \in Seq(Chunk)
      BY <1>1 DEF ClientRec
    <3> QED BY <3>1, LenProperties
  <2>2. /\ y.buf = x.buf /\ y.reply # <<>> /\ m >= l
        /\ \A i \in 1..l : i # l \/ ~Appendable(x.reply[i]) => y.reply[i] = x.reply[i]
    BY DEF Grown, Kept
  <2>3. /\ z.buf = y.buf /\ z.reply # <<>> /\ n >= m
        /\ \A i \in 1..m : i # m \/ ~Appendable(y.reply[i]) => z.reply[i] = y.reply[i]
    BY <2>2 DEF Grown, Kept
  <2>4. ASSUME NEW i \in 1..l, i # l \/ ~Appendable(x.reply[i]) PROVE z.reply[i] = x.reply[i]
    <3>1. y.reply[i] = x.reply[i]
      BY <2>2, <2>4
    <3>2. i \in 1..m /\ (i # l => i # m)
      BY <2>1, <2>2
    <3> QED BY <2>3, <2>4, <3>1, <3>2
  <2>5. n >= l
    BY <2>1, <2>2, <2>3
  <2> QED BY <2>2, <2>3, <2>4, <2>5 DEF Kept
<1>5. x.made <= z.made
  BY <1>1, <1>2
<1> QED BY <1>1, <1>3, <1>4, <1>5 DEF Grown

\* A piece of output, in the buffer or in the list
Pieced(x, n, kind, alloc) ==
  IF FitsBuffer(x, n) THEN [x EXCEPT !.buf = @ \o NewBytes(x, n), !.made = @ + n]
  ELSE ToList(x, NewBytes(x, n), kind, alloc)

LEMMA PieceGrows ==
  ASSUME NEW x \in ClientRec, Bytes(x), NEW n \in Nat, NEW kind \in Kinds,
         NEW alloc \in Nat, NEW y, y = Pieced(x, n, kind, alloc)
  PROVE  Grown(x, y) /\ y.flags = x.flags
<1> DEFINE m == NewBytes(x, n)
<1>1. x.made \in Nat
  BY DEF ClientRec
<1>2. m \in Seq(Nat) /\ Len(m) = n /\ m = Seg(x.made, x.made + n) /\ (x.made + n) - x.made = n
  <2>1. (x.made + n) - x.made = n /\ \A i \in 1..n : x.made + i \in Nat
    BY <1>1
  <2> QED BY <2>1 DEF NewBytes, Seg
<1> HIDE DEF m
<1>3. CASE FitsBuffer(x, n)
  <2>1. x.reply = <<>>
    BY <1>3 DEF FitsBuffer
  <2>2. y = [x EXCEPT !.buf = @ \o m, !.made = @ + Len(m)]
    BY <1>2, <1>3 DEF m, Pieced
  <2>3. /\ y \in ClientRec /\ Bytes(y)
        /\ y.fd = x.fd /\ y.flags = x.flags /\ y.querybuf = x.querybuf
        /\ y.reply = x.reply /\ y.sentlen = x.sentlen /\ y.made = x.made + n
        /\ All(y) = All(x) \o m
    <3>1. /\ y \in ClientRec /\ Bytes(y)
          /\ y.fd = x.fd /\ y.flags = x.flags /\ y.querybuf = x.querybuf
          /\ y.reply = x.reply /\ y.sentlen = x.sentlen /\ y.made = x.made + Len(m)
          /\ All(y) = All(x) \o m
      <4>1. m \in Seq(Nat)
        BY <1>2
      <4> QED BY <2>1, <2>2, <4>1, BufferFacts
    <3> QED BY <1>2, <3>1
  <2>4. clientHasPendingReplies(x) => clientHasPendingReplies(y)
    <3>1. x.buf \in Seq(Nat) /\ y.buf = x.buf \o m
      BY <2>2 DEF ClientRec
    <3> DEFINE b == x.buf
    <3>2. b \in Seq(Nat) /\ y.buf = b \o m
      BY <3>1
    <3> HIDE DEF b
    <3>3. Len(b \o m) = Len(b) + n /\ Len(b) \in Nat
      <4>1. m \in Seq(Nat) /\ Len(m) = n
        BY <1>2
      <4>2. Len(b \o m) = Len(b) + Len(m)
        BY <3>2, <4>1, Associative
      <4>3. Len(b) \in Nat
        BY <3>2
      <4> QED BY <4>1, <4>2, <4>3
    <3>4. b \o m = <<>> => Len(b) = 0
      BY <3>3
    <3>5. b \o m = <<>> => b = <<>>
      BY <3>2, <3>4
    <3> QED BY <2>1, <3>2, <3>5 DEF clientHasPendingReplies, b
  <2>5. x.made <= y.made
    BY <1>1, <2>3
  <2>6. Kept(x, y)
    BY <2>1 DEF Kept
  <2> QED BY <1>2, <2>3, <2>4, <2>5, <2>6 DEF Grown
<1>4. CASE ~FitsBuffer(x, n)
  <2>1. y = ToList(x, m, kind, alloc)
    BY <1>4 DEF m, Pieced
  <2>2. /\ y \in ClientRec /\ Bytes(y)
        /\ y.fd = x.fd /\ y.flags = x.flags /\ y.querybuf = x.querybuf /\ y.buf = x.buf
        /\ y.sentlen = x.sentlen /\ y.made = x.made + Len(m)
        /\ InList(y) = InList(x) \o m
        /\ y.reply # <<>> /\ Len(y.reply) >= Len(x.reply)
        /\ \A i \in 1..Len(x.reply) :
              i # Len(x.reply) \/ ~Appendable(x.reply[i]) => y.reply[i] = x.reply[i]
    <3>1. Listed(x, m, y)
      BY <1>2, <2>1, ToListFacts
    <3> QED BY <3>1 DEF Listed
  <2>3. All(y) = All(x) \o m
    <3> DEFINE b == x.buf
               l == InList(x)
    <3>1. b \in Seq(Nat) /\ l \in Seq(Nat) /\ All(x) = b \o l /\ All(y) = b \o (l \o m)
      BY <2>2, ListOf DEF All, ClientRec
    <3> HIDE DEF b, l
    <3>2. (b \o l) \o m = b \o (l \o m)
      BY <1>2, <3>1, Associative
    <3> QED BY <3>1, <3>2
  <2>4. x.made <= y.made /\ y.made = x.made + n
    BY <1>1, <1>2, <2>2
  <2>5. Kept(x, y) /\ clientHasPendingReplies(y)
    BY <2>2 DEF Kept, clientHasPendingReplies
  <2> QED BY <1>2, <2>2, <2>3, <2>4, <2>5 DEF Grown
<1> QED BY <1>3, <1>4

\* addDeferredMultiBulkLength: the place of the header
Deferred(x) == [x EXCEPT !.reply = Append(@, [bytes |-> <<>>, kind |-> NULL, alloc |-> 0]),
                         !.made = @ + MultiBulkHeader]

LEMMA DeferredFacts ==
  ASSUME NEW x \in ClientRec, Bytes(x), MultiBulkHeader \in Nat, NEW d, d = Deferred(x)
  PROVE  /\ d \in ClientRec /\ Bytes(d)
         /\ d.fd = x.fd /\ d.flags = x.flags /\ d.querybuf = x.querybuf /\ d.buf = x.buf
         /\ d.sentlen = x.sentlen /\ d.made = x.made + MultiBulkHeader
         /\ InList(d) = InList(x) /\ d.reply # <<>> /\ Len(d.reply) = Len(x.reply) + 1
         /\ \A i \in 1..Len(x.reply) : d.reply[i] = x.reply[i]
         /\ d.reply[Len(x.reply) + 1] = [bytes |-> <<>>, kind |-> NULL, alloc |-> 0]
<1> DEFINE z == [bytes |-> <<>>, kind |-> NULL, alloc |-> 0]
           p == x.reply
           n == Len(p)
           q == Append(p, z)
           b == x.made + MultiBulkHeader
           t == Texts(x)
           u == Append(t, <<>>)
<1>1. p \in Seq(Chunk) /\ n \in Nat /\ x.made \in Nat /\ b \in Nat
  BY DEF ClientRec
<1>2. z \in Chunk /\ z.bytes = <<>>
  BY DEF Chunk, Kinds
<1>3. d = [x EXCEPT !.reply = q, !.made = b]
  BY DEF Deferred
<1> HIDE DEF z
<1>4. /\ q \in Seq(Chunk) /\ Len(q) = n + 1 /\ q[n + 1] = z /\ \A i \in 1..n : q[i] = p[i]
      /\ q # <<>>
  BY <1>1, <1>2
<1> HIDE DEF q, b
<1>5. /\ d \in ClientRec /\ d.reply = q /\ d.made = b
      /\ d.fd = x.fd /\ d.flags = x.flags /\ d.querybuf = x.querybuf /\ d.buf = x.buf
      /\ d.sentlen = x.sentlen /\ d.reply_bytes = x.reply_bytes
  BY <1>1, <1>3, <1>4 DEF ClientRec
<1>6. /\ t \in Seq(Seq(Nat)) /\ Len(t) = n /\ \A i \in 1..n : t[i] = p[i].bytes
      /\ InList(x) = FlattenSeq(t) /\ InList(x) \in Seq(Nat) /\ Len(InList(x)) = EndOf(x, n)
  BY ListOf
<1> HIDE DEF t, p
<1>7. u \in Seq(Seq(Nat)) /\ Len(u) = n + 1 /\ u[n + 1] = <<>> /\ \A i \in 1..n : u[i] = t[i]
  <2> DEFINE R == Seq(Nat)
  <2>1. t \in Seq(R) /\ <<>> \in R
    BY <1>6
  <2> HIDE DEF R
  <2>2. u \in Seq(R) /\ Len(u) = n + 1 /\ u[n + 1] = <<>> /\ \A i \in 1..n : u[i] = t[i]
    BY <1>6, <2>1
  <2> QED BY <2>2 DEF R
<1>8. FlattenSeq(u) = FlattenSeq(t)
  <2>1. FlattenSeq(u) = FlattenSeq(t) \o <<>>
    <3> DEFINE e == <<>>
    <3>1. e \in Seq(Nat) /\ t \in Seq(Seq(Nat))
      BY <1>6
    <3> HIDE DEF e
    <3>2. FlattenSeq(Append(t, e)) = FlattenSeq(t) \o e
      BY <3>1, FlatAppend
    <3> QED BY <3>2 DEF e
  <2> QED BY <1>6, <2>1, ConcatEmptySeq
<1> HIDE DEF u
<1>9. \A i \in 1..Len(u) : q[i].bytes = u[i]
  <2>1. \A i \in 1..(n + 1) : i \in 1..n \/ i = n + 1
    BY <1>1
  <2> QED BY <1>2, <1>4, <1>6, <1>7, <2>1
<1>10. InList(d) = InList(x) /\ EndOf(d, Len(d.reply)) = Len(InList(x))
  <2>1. d \in ClientRec /\ u \in Seq(Seq(Nat)) /\ Len(u) = Len(d.reply)
    BY <1>4, <1>5, <1>7
  <2>2. \A i \in 1..Len(u) : d.reply[i].bytes = u[i]
    BY <1>5, <1>9
  <2>3. InList(d) = FlattenSeq(u) /\ EndOf(d, Len(d.reply)) = Len(FlattenSeq(u))
    BY <2>1, <2>2, ListIs
  <2> QED BY <1>6, <1>8, <2>3
<1>11. x.reply_bytes = ListMemory(q) /\ x.sentlen \in Nat
  <2>1. ListMemory(q) = ListMemory(p) + UsedMemory(z)
    BY <1>1, <1>2, MemoryAppend DEF q
  <2>2. UsedMemory(z) = 0
    BY DEF UsedMemory, z, NULL, EMBSTR, RAW, SHARED
  <2>3. x.reply_bytes = ListMemory(p) /\ x.reply_bytes \in Int /\ x.sentlen \in Nat
    BY DEF Bytes, ClientRec, p
  <2> QED BY <2>1, <2>2, <2>3
<1>12. x.reply # <<>> => q[1] = x.reply[1]
  <2>1. x.reply # <<>> => 1 \in 1..n
    BY <1>1 DEF p
  <2> QED BY <1>4, <2>1 DEF p
<1>13. Bytes(d)
  BY <1>4, <1>5, <1>10, <1>11, <1>12 DEF Bytes
<1> QED BY <1>4, <1>5, <1>10, <1>13 DEF p, b, z

\* setDeferredMultiBulkLength: node k filled in with h, and glued to the next one
\* when that has a string
Glues(p, k) == k < Len(p) /\ p[k + 1].kind # NULL
Header(h) == [bytes |-> h, kind |-> RAW, alloc |-> sdsMakeRoomFor(0, 0, MultiBulkHeader)]
GlueNode(p, k, h) == IF Glues(p, k) THEN Joined(Header(h), p[k + 1].bytes) ELSE Header(h)
Glue(p, k, h) ==
  IF Glues(p, k) THEN RemoveAt([p EXCEPT ![k] = GlueNode(p, k, h)], k + 1)
  ELSE [p EXCEPT ![k] = GlueNode(p, k, h)]
GlueCounted(p, k) == IF Glues(p, k) THEN UsedMemory(p[k + 1]) ELSE 0

Glued(p, k, h, q) ==
  /\ q \in Seq(Chunk) /\ \A i \in 1..(k - 1) : q[i] = p[i]
  /\ k \in 1..Len(q) /\ Len(q) = IF Glues(p, k) THEN Len(p) - 1 ELSE Len(p)
  /\ q[k] = GlueNode(p, k, h)
  /\ q[k].bytes = IF Glues(p, k) THEN h \o p[k + 1].bytes ELSE h
  /\ \A i \in (k + 1)..Len(q) : q[i] = IF Glues(p, k) THEN p[i + 1] ELSE p[i]

Without(l, i, q) ==
  /\ Len(q) = Len(l) - 1
  /\ \A j \in 1..Len(q) : q[j] = IF j < i THEN l[j] ELSE l[j + 1]

LEMMA WithoutOne ==
  ASSUME NEW S, NEW l \in Seq(S), NEW i \in 1..Len(l), NEW q,
         q = SubSeq(l, 1, i - 1) \o SubSeq(l, i + 1, Len(l))
  PROVE  q \in Seq(S) /\ Without(l, i, q)
BY WithoutAt DEF Without

LEMMA GlueList ==
  ASSUME NEW p \in Seq(Chunk), NEW k \in 1..Len(p), NEW h \in Seq(Nat), NEW q, q = Glue(p, k, h),
         MultiBulkHeader \in Nat
  PROVE  Glued(p, k, h, q)
<1> DEFINE n == Len(p)
           g == Glues(p, k)
           z == GlueNode(p, k, h)
           l == [p EXCEPT ![k] = z]
<1>1. n \in Nat /\ k \in Nat /\ k <= n /\ k >= 1 /\ (g => k < n)
  BY DEF Glues
<1>2. Header(h) \in Chunk /\ Header(h).bytes = h
  <2> DEFINE a == sdsMakeRoomFor(0, 0, MultiBulkHeader)
  <2>1. a \in Nat
    BY RoomIsNat
  <2> HIDE DEF a
  <2>2. Header(h) = [bytes |-> h, kind |-> RAW, alloc |-> a]
    BY DEF Header, a
  <2> QED BY <2>1, <2>2 DEF Chunk, Kinds
<1>3. z \in Chunk /\ z.bytes = IF g THEN h \o p[k + 1].bytes ELSE h
  <2>1. CASE g
    <3>1. k + 1 \in 1..n
      BY <1>1, <2>1
    <3>2. p[k + 1] \in Chunk
      BY <3>1
    <3> DEFINE m == p[k + 1].bytes
               o == Header(h)
    <3>3. m \in Seq(Nat) /\ o \in Chunk /\ o.bytes = h
      BY <1>2, <3>2 DEF Chunk
    <3>5. z = Joined(o, m)
      BY <2>1 DEF GlueNode
    <3> HIDE DEF m, o, z, g
    <3>4. Joined(o, m) \in Chunk /\ Joined(o, m).bytes = o.bytes \o m
      BY <3>3, JoinedFacts
    <3>6. z \in Chunk /\ z.bytes = h \o m
      BY <3>3, <3>4, <3>5
    <3> QED BY <2>1, <3>6 DEF m
  <2>2. CASE ~g
    <3>1. z = Header(h)
      BY <2>2 DEF GlueNode
    <3> HIDE DEF z, g
    <3> QED BY <1>2, <2>2, <3>1
  <2> QED BY <2>1, <2>2
<1>8. q = IF g THEN RemoveAt(l, k + 1) ELSE l
  BY DEF Glue
<1> HIDE DEF z, g
<1>4. l \in Seq(Chunk) /\ Len(l) = n /\ l[k] = z /\ \A i \in 1..n : i # k => l[i] = p[i]
  BY <1>1, <1>3
<1> HIDE DEF l, n
<1>6. CASE g
  <2>1. q = SubSeq(l, 1, (k + 1) - 1) \o SubSeq(l, (k + 1) + 1, Len(l))
    BY <1>8, <1>6 DEF RemoveAt
  <2>2. k + 1 \in 1..Len(l)
    BY <1>1, <1>4, <1>6
  <2>3. /\ q \in Seq(Chunk) /\ Len(q) = Len(l) - 1
        /\ \A j \in 1..Len(q) : q[j] = IF j < k + 1 THEN l[j] ELSE l[j + 1]
    <3> DEFINE i == k + 1
    <3>1. i \in 1..Len(l) /\ q = SubSeq(l, 1, i - 1) \o SubSeq(l, i + 1, Len(l))
      BY <2>1, <2>2
    <3> HIDE DEF i
    <3>2. l \in Seq(Chunk)
      BY <1>4
    <3>3. q \in Seq(Chunk) /\ Without(l, i, q)
      BY <3>1, <3>2, WithoutOne
    <3> QED BY <3>3 DEF i, Without
  <2>4. Len(q) = n - 1 /\ k \in 1..Len(q)
    BY <1>1, <1>4, <1>6, <2>3
  <2>5. ASSUME NEW i \in 1..(k - 1) PROVE q[i] = p[i]
    <3>1. i \in 1..Len(q) /\ i < k + 1 /\ i \in 1..n /\ i # k
      BY <1>1, <2>4
    <3> QED BY <1>4, <2>3, <3>1
  <2>6. q[k] = z
    <3>1. k < k + 1
      BY <1>1
    <3> QED BY <1>4, <2>3, <2>4, <3>1
  <2>7. ASSUME NEW i \in (k + 1)..Len(q) PROVE q[i] = p[i + 1]
    <3>1. i \in 1..Len(q) /\ ~(i < k + 1) /\ i + 1 \in 1..n /\ i + 1 # k
      BY <1>1, <2>4
    <3>2. q[i] = l[i + 1]
      BY <2>3, <3>1
    <3> DEFINE j == i + 1
    <3>3. j \in 1..n /\ j # k
      BY <3>1
    <3> HIDE DEF j
    <3>4. l[j] = p[j]
      BY <1>4, <3>3
    <3> QED BY <3>2, <3>4 DEF j
  <2> QED BY <1>3, <1>6, <2>3, <2>4, <2>5, <2>6, <2>7 DEF n, g, z, Glued
<1>7. CASE ~g
  <2>1. q = l
    BY <1>8, <1>7
  <2>2. \A i \in 1..(k - 1) : i \in 1..n /\ i # k
    BY <1>1
  <2>3. \A i \in (k + 1)..n : i \in 1..n /\ i # k
    BY <1>1
  <2>4. k \in 1..n
    BY <1>1
  <2>5. /\ q \in Seq(Chunk) /\ Len(q) = n /\ q[k] = z /\ k \in 1..Len(q)
        /\ \A i \in 1..(k - 1) : q[i] = p[i]
        /\ \A i \in (k + 1)..Len(q) : q[i] = p[i]
    BY <1>4, <2>1, <2>2, <2>3, <2>4
  <2> QED BY <1>3, <1>7, <2>5 DEF n, g, z, Glued
<1> QED BY <1>6, <1>7

\* What gluing does to the memory of the list
LEMMA GlueMemory ==
  ASSUME NEW p \in Seq(Chunk), NEW k \in 1..Len(p), NEW h, NEW q, Glued(p, k, h, q)
  PROVE  /\ ListMemory(q) = ListMemory(p) + UsedMemory(q[k]) - UsedMemory(p[k]) - GlueCounted(p, k)
         /\ {UsedMemory(q[k]), UsedMemory(p[k]), GlueCounted(p, k), ListMemory(p)} \subseteq Int
<1>1. /\ q \in Seq(Chunk) /\ \A i \in 1..(k - 1) : q[i] = p[i]
      /\ k \in 1..Len(q) /\ Len(q) = IF Glues(p, k) THEN Len(p) - 1 ELSE Len(p)
      /\ \A i \in (k + 1)..Len(q) : q[i] = IF Glues(p, k) THEN p[i + 1] ELSE p[i]
  BY DEF Glued
<1>2. UsedMemory(q[k]) \in Int /\ UsedMemory(p[k]) \in Int /\ GlueCounted(p, k) \in Int
  <2>1. q[k] \in Chunk /\ p[k] \in Chunk
    BY <1>1
  <2>2. Glues(p, k) => p[k + 1] \in Chunk
    <3>1. Glues(p, k) => k + 1 \in 1..Len(p)
      BY DEF Glues
    <3> QED BY <3>1
  <2> QED BY <2>1, <2>2, MemoryIsInt DEF GlueCounted
<1>3. ListMemory(p) \in Int
  <2>1. \E f : Running(f, p)
    BY RunningExists
  <2> QED BY <2>1, RunningIs
<1>4. CASE Glues(p, k)
  <2>1. ListMemory(q) = ListMemory(p) + UsedMemory(q[k]) - UsedMemory(p[k]) - UsedMemory(p[k + 1])
    BY <1>1, <1>4, MemoryGlue
  <2> QED BY <1>2, <1>3, <1>4, <2>1 DEF GlueCounted
<1>5. CASE ~Glues(p, k)
  <2>1. \A i \in 1..Len(p) : i # k => i \in 1..(k - 1) \/ i \in (k + 1)..Len(q)
    BY <1>1, <1>5
  <2>2. \A i \in 1..Len(p) : i # k => q[i] = p[i]
    BY <1>1, <1>5, <2>1
  <2>3. ListMemory(q) = ListMemory(p) + UsedMemory(q[k]) - UsedMemory(p[k])
    BY <1>1, <1>5, <2>2, MemoryReplace
  <2>4. GlueCounted(p, k) = 0
    BY <1>5 DEF GlueCounted
  <2> QED BY <1>2, <1>3, <2>3, <2>4
<1> QED BY <1>4, <1>5

\* The header is where its place was, and what came after it behind it.
Gluing(p, k, h, q, t, w) ==
  /\ p \in Seq(Chunk) /\ k \in 1..Len(p) /\ h \in Seq(Nat) /\ q = Glue(p, k, h)
  /\ p[k].bytes = <<>>
  /\ t \in Seq(Seq(Nat)) /\ Len(t) = Len(p) /\ \A i \in 1..Len(p) : t[i] = p[i].bytes
  /\ w \in Seq(Seq(Nat)) /\ Len(w) = Len(q) /\ \A i \in 1..Len(q) : w[i] = q[i].bytes

GluedFlat(k, h, t, w) ==
  \E S \in Seq(Nat) : /\ FlattenSeq(t) = Flat(t, k - 1) \o S
                      /\ FlattenSeq(w) = Flat(t, k - 1) \o (h \o S)

LEMMA GlueFlat ==
  ASSUME NEW p, NEW k, NEW h, NEW q, NEW t, NEW w, Gluing(p, k, h, q, t, w), MultiBulkHeader \in Nat
  PROVE  GluedFlat(k, h, t, w)
<1> DEFINE n == Len(p)
           m == Len(q)
           L == Flat(t, k - 1)
           g == Glues(p, k)
<1>0. /\ p \in Seq(Chunk) /\ k \in 1..n /\ h \in Seq(Nat) /\ q = Glue(p, k, h)
      /\ t \in Seq(Seq(Nat)) /\ Len(t) = n /\ w \in Seq(Seq(Nat)) /\ Len(w) = m
  BY DEF Gluing
<1>1. n \in Nat /\ k \in Nat /\ k <= n /\ k >= 1 /\ k - 1 \in 0..n /\ k \in 1..n
  BY <1>0
<1>2. /\ q \in Seq(Chunk) /\ \A i \in 1..(k - 1) : q[i] = p[i]
      /\ k \in 1..m /\ m = (IF g THEN n - 1 ELSE n) /\ (g => k < n)
      /\ q[k].bytes = IF g THEN h \o p[k + 1].bytes ELSE h
      /\ \A i \in (k + 1)..m : q[i] = IF g THEN p[i + 1] ELSE p[i]
  <2>2. g => k < n
    BY DEF Glues
  <2>1. Glued(p, k, h, q)
    BY <1>0, GlueList
  <2> QED BY <2>1, <2>2 DEF Glued
<1>3. /\ Flat(t, 0) = <<>> /\ \A i \in 0..n : Flat(t, i) \in Seq(Nat)
      /\ \A i \in 1..n : Flat(t, i) = Flat(t, i - 1) \o t[i]
      /\ FlattenSeq(t) = Flat(t, n)
  BY <1>0, FlatSteps
<1>4. /\ \A i \in 1..m : Flat(w, i) = Flat(w, i - 1) \o w[i]
      /\ FlattenSeq(w) = Flat(w, m)
  BY <1>0, FlatSteps
<1>5. /\ \A i \in 1..n : t[i] = p[i].bytes /\ t[i] \in Seq(Nat)
      /\ \A i \in 1..m : w[i] = q[i].bytes /\ w[i] \in Seq(Nat)
  BY DEF Gluing
<1>6. L \in Seq(Nat) /\ Flat(t, k) = L
  <2>1. t[k] = <<>>
    BY <1>1, <1>5 DEF Gluing
  <2>2. L \in Seq(Nat)
    BY <1>1, <1>3
  <2>3. Flat(t, k) = L \o <<>>
    BY <1>1, <1>3, <2>1
  <2> QED BY <2>2, <2>3, ConcatEmptySeq
<1>7. Flat(w, k - 1) = L
  <2>1. \A i \in 1..(k - 1) : i \in 1..n /\ i \in 1..m
    BY <1>1, <1>2
  <2>2. \A i \in 1..(k - 1) : w[i] = t[i]
    BY <1>2, <1>5, <2>1
  <2> QED BY <2>2, FlatSame
<1>8. Flat(w, k) = L \o w[k]
  BY <1>2, <1>4, <1>7
<1>11. h \in Seq(Nat) /\ t \in Seq(Seq(Nat)) /\ w \in Seq(Seq(Nat))
  BY <1>0
<1> HIDE DEF L, n, m, g
<1>9. CASE g
  <2> DEFINE a == t[k + 1]
             u == SubSeq(t, (k + 1) + 1, Len(t))
             v == SubSeq(w, k + 1, Len(w))
             R == FlattenSeq(u)
  <2>1. k + 1 \in 1..n /\ k + 1 \in 0..n /\ (k + 1) - 1 = k /\ k \in 0..m
    BY <1>1, <1>2, <1>9
  <2>2. a \in Seq(Nat) /\ Flat(t, k + 1) = L \o a
    <3> DEFINE j == k + 1
    <3>1. j \in 1..n /\ j - 1 = k
      BY <2>1
    <3> HIDE DEF j
    <3>2. t[j] \in Seq(Nat) /\ Flat(t, j) = Flat(t, j - 1) \o t[j]
      BY <1>3, <1>5, <3>1
    <3> QED BY <1>6, <3>1, <3>2 DEF j
  <2>3. FlattenSeq(t) = (L \o a) \o R /\ R \in Seq(Nat)
    <3> DEFINE j == k + 1
    <3>1. j \in 0..Len(t) /\ SubSeq(t, j + 1, Len(t)) = u
      BY <1>0, <2>1 DEF n
    <3> HIDE DEF j, u
    <3>2. /\ FlattenSeq(t) = Flat(t, j) \o FlattenSeq(SubSeq(t, j + 1, Len(t)))
          /\ SubSeq(t, j + 1, Len(t)) \in Seq(Seq(Nat))
      BY <1>11, <3>1, FlatSplit
    <3>3. u \in Seq(Seq(Nat))
      BY <3>1, <3>2
    <3>4. FlattenSeq(u) \in Seq(Nat)
      BY <3>3, FlatType
    <3> QED BY <2>2, <3>1, <3>2, <3>4 DEF j
  <2>4. w[k] = h \o a
    <3>1. q[k].bytes = h \o p[k + 1].bytes
      BY <1>2, <1>9
    <3> QED BY <1>2, <1>5, <2>1, <3>1
  <2>5. v = u
    <3> DEFINE T == Seq(Nat)
    <3>1. t \in Seq(T) /\ w \in Seq(T) /\ Len(t) = n /\ Len(w) = m /\ m = n - 1
      BY <1>0, <1>2, <1>9 DEF n, m
    <3>3. ASSUME NEW i \in (k + 1)..m PROVE w[i] = t[i + 1]
      <4> DEFINE j == i + 1
      <4>1. i \in 1..m /\ j \in 1..n
        BY <1>1, <3>1
      <4>2. q[i] = p[j]
        BY <1>2, <1>9
      <4> HIDE DEF j
      <4>3. w[i] = q[i].bytes /\ t[j] = p[j].bytes
        BY <1>5, <4>1
      <4> QED BY <4>2, <4>3 DEF j
    <3> HIDE DEF T
    <3>4. /\ u \in Seq(T) /\ Len(u) = n - (k + 1)
          /\ \A i \in 1..(n - (k + 1)) : u[i] = t[(k + 1) + i]
      <4> DEFINE j == k + 1
      <4>1. j \in 0..Len(t) /\ u = Drop(t, j)
        BY <2>1, <3>1 DEF Drop
      <4> HIDE DEF j, u
      <4>2. /\ Drop(t, j) \in Seq(T) /\ Len(Drop(t, j)) = Len(t) - j
            /\ \A i \in 1..(Len(t) - j) : Drop(t, j)[i] = t[j + i]
        BY <3>1, <4>1, DropIs
      <4> QED BY <3>1, <4>1, <4>2 DEF j
    <3>5. /\ v \in Seq(T) /\ Len(v) = n - (k + 1)
          /\ \A i \in 1..(n - (k + 1)) : v[i] = w[k + i]
      <4>1. k \in 0..Len(w) /\ v = Drop(w, k)
        BY <2>1, <3>1 DEF Drop
      <4>2. /\ Drop(w, k) \in Seq(T) /\ Len(Drop(w, k)) = Len(w) - k
            /\ \A i \in 1..(Len(w) - k) : Drop(w, k)[i] = w[k + i]
        BY <3>1, <4>1, DropIs
      <4>3. Len(w) - k = n - (k + 1)
        BY <1>1, <3>1
      <4> HIDE DEF v
      <4> QED BY <4>1, <4>2, <4>3
    <3>6. ASSUME NEW i \in 1..(n - (k + 1)) PROVE v[i] = u[i]
      <4>1. k + i \in (k + 1)..m /\ (k + i) + 1 = (k + 1) + i
        BY <1>1, <1>9, <3>1
      <4>2. w[k + i] = t[(k + i) + 1]
        BY <3>3, <4>1
      <4> HIDE DEF u, v
      <4> QED BY <3>4, <3>5, <4>1, <4>2
    <3> HIDE DEF u, v
    <3> QED BY <3>4, <3>5, <3>6, SeqEqual
  <2>6. FlattenSeq(w) = (L \o (h \o a)) \o R
    <3>1. FlattenSeq(w) = Flat(w, k) \o FlattenSeq(v)
      <4>1. k \in 0..Len(w)
        BY <1>0, <2>1 DEF m
      <4> QED BY <1>11, <4>1, FlatSplit
    <3> HIDE DEF u, v
    <3> QED BY <1>8, <2>4, <2>5, <3>1
  <2> HIDE DEF a, R
  <2>7. a \o R \in Seq(Nat) /\ (L \o a) \o R = L \o (a \o R)
    <3>1. L \in Seq(Nat) /\ a \in Seq(Nat) /\ R \in Seq(Nat)
      BY <1>6, <2>2, <2>3
    <3> QED BY <3>1, Associative
  <2>8. h \o a \in Seq(Nat) /\ (h \o a) \o R = h \o (a \o R)
    <3>1. h \in Seq(Nat) /\ a \in Seq(Nat) /\ R \in Seq(Nat)
      BY <1>11, <2>2, <2>3
    <3> QED BY <3>1, Associative
  <2>9. (L \o (h \o a)) \o R = L \o ((h \o a) \o R)
    <3> DEFINE b == h \o a
    <3>1. b \in Seq(Nat) /\ L \in Seq(Nat) /\ R \in Seq(Nat)
      BY <1>6, <2>3, <2>8
    <3> HIDE DEF b
    <3>2. (L \o b) \o R = L \o (b \o R)
      BY <3>1, Associative
    <3> QED BY <3>2 DEF b
  <2> QED BY <2>3, <2>6, <2>7, <2>8, <2>9 DEF L, GluedFlat
<1>10. CASE ~g
  <2> DEFINE u == SubSeq(t, k + 1, Len(t))
             v == SubSeq(w, k + 1, Len(w))
             R == FlattenSeq(u)
  <2>1. m = n /\ k \in 0..n
    BY <1>1, <1>2, <1>10
  <2>2. FlattenSeq(t) = L \o R /\ R \in Seq(Nat)
    <3>1. k \in 0..Len(t)
      BY <1>0, <2>1 DEF n
    <3>2. FlattenSeq(t) = Flat(t, k) \o FlattenSeq(u) /\ u \in Seq(Seq(Nat))
      BY <1>11, <3>1, FlatSplit
    <3> HIDE DEF u
    <3>3. FlattenSeq(u) \in Seq(Nat)
      BY <3>2, FlatType
    <3> QED BY <1>6, <3>2, <3>3
  <2>3. v = u
    <3> DEFINE T == Seq(Nat)
    <3>1. t \in Seq(T) /\ w \in Seq(T) /\ Len(t) = n /\ Len(w) = n
      BY <1>0, <2>1 DEF n, m
    <3>3. ASSUME NEW i \in (k + 1)..n PROVE w[i] = t[i]
      <4>1. i \in 1..m /\ i \in 1..n
        BY <1>1, <2>1
      <4>2. q[i] = p[i]
        BY <1>2, <1>10, <2>1
      <4> QED BY <1>5, <4>1, <4>2
    <3> HIDE DEF T
    <3>4. u \in Seq(T) /\ Len(u) = n - k /\ \A i \in 1..(n - k) : u[i] = t[k + i]
      <4>1. k \in 0..Len(t) /\ u = Drop(t, k)
        BY <2>1, <3>1 DEF Drop
      <4> HIDE DEF u
      <4>2. /\ Drop(t, k) \in Seq(T) /\ Len(Drop(t, k)) = Len(t) - k
            /\ \A i \in 1..(Len(t) - k) : Drop(t, k)[i] = t[k + i]
        BY <3>1, <4>1, DropIs
      <4> QED BY <3>1, <4>1, <4>2
    <3>5. v \in Seq(T) /\ Len(v) = n - k /\ \A i \in 1..(n - k) : v[i] = w[k + i]
      <4>1. k \in 0..Len(w) /\ v = Drop(w, k)
        BY <2>1, <3>1 DEF Drop
      <4> HIDE DEF v
      <4>2. /\ Drop(w, k) \in Seq(T) /\ Len(Drop(w, k)) = Len(w) - k
            /\ \A i \in 1..(Len(w) - k) : Drop(w, k)[i] = w[k + i]
        BY <3>1, <4>1, DropIs
      <4> QED BY <3>1, <4>1, <4>2
    <3>6. ASSUME NEW i \in 1..(n - k) PROVE v[i] = u[i]
      <4>1. k + i \in (k + 1)..n
        BY <1>1
      <4>2. w[k + i] = t[k + i]
        BY <3>3, <4>1
      <4> HIDE DEF u, v
      <4> QED BY <3>4, <3>5, <4>2
    <3> HIDE DEF u, v
    <3> QED BY <3>4, <3>5, <3>6, SeqEqual
  <2>4. FlattenSeq(w) = (L \o h) \o R
    <3>1. w[k] = h
      BY <1>2, <1>5, <1>10
    <3>2. FlattenSeq(w) = Flat(w, k) \o FlattenSeq(v)
      <4>1. k \in 0..Len(w)
        BY <1>0, <2>1 DEF m
      <4> QED BY <1>11, <4>1, FlatSplit
    <3> HIDE DEF u, v
    <3> QED BY <1>8, <2>3, <3>1, <3>2
  <2> HIDE DEF R
  <2>5. (L \o h) \o R = L \o (h \o R)
    BY <1>6, <1>11, <2>2, Associative
  <2> QED BY <2>2, <2>4, <2>5 DEF L, GluedFlat
<1> QED BY <1>9, <1>10

LEMMA Cancel ==
  ASSUME NEW a \in Seq(Nat), NEW u \in Seq(Nat), NEW v \in Seq(Nat), a \o u = a \o v
  PROVE  u = v
<1>1. \A w \in Seq(Nat) : Drop(a \o w, Len(a) + 0) = w
  <2> TAKE w \in Seq(Nat)
  <2>1. 0 \in 0..Len(w)
    OBVIOUS
  <2>2. Drop(a \o w, Len(a) + 0) = Drop(w, 0)
    BY <2>1, DropConcat
  <2>3. Drop(w, 0) = w
    BY SubSeqFull DEF Drop
  <2> QED BY <2>2, <2>3
<1> QED BY <1>1

Filled(x, y, from) ==
  LET k == Len(x.reply) + 1
      h == [j \in 1..MultiBulkHeader |-> from + j]
  IN  [y EXCEPT !.reply = Glue(y.reply, k, h),
                !.reply_bytes = @ + UsedMemory(GlueNode(y.reply, k, h)) - GlueCounted(y.reply, k)]

\* A multi bulk reply: the header is sent before the elements that were queued
\* before its length was known.
LEMMA HeaderGrows ==
  ASSUME NEW x \in ClientRec, Bytes(x), MultiBulkHeader \in Nat,
         NEW y, Grown(Deferred(x), y), NEW z, z = Filled(x, y, x.made)
  PROVE  Grown(x, z) /\ z.flags = y.flags /\ clientHasPendingReplies(z)
<1> DEFINE d == Deferred(x)
           n == Len(x.reply)
           k == n + 1
           h == Seg(x.made, x.made + MultiBulkHeader)
           p == y.reply
           q == Glue(p, k, h)
           H == MultiBulkHeader
<1>1. x.made \in Nat /\ n \in Nat /\ k \in Nat /\ H \in Nat
  BY DEF ClientRec
<1>2. h = [j \in 1..MultiBulkHeader |-> x.made + j] /\ h \in Seq(Nat) /\ Len(h) = H
  <2>1. (x.made + MultiBulkHeader) - x.made = MultiBulkHeader
    BY <1>1
  <2>2. /\ x.made <= x.made + MultiBulkHeader /\ x.made + MultiBulkHeader \in Nat
        /\ x.made + MultiBulkHeader <= x.made + MultiBulkHeader
    BY <1>1
  <2>3. h \in Seq(Nat) /\ Len(h) = (x.made + MultiBulkHeader) - x.made
    BY <1>1, <2>2, SegFacts
  <2> QED BY <2>1, <2>3 DEF Seg
<1> HIDE DEF h
<1>3. /\ d \in ClientRec /\ Bytes(d)
      /\ d.fd = x.fd /\ d.flags = x.flags /\ d.querybuf = x.querybuf /\ d.buf = x.buf
      /\ d.sentlen = x.sentlen /\ d.made = x.made + H
      /\ InList(d) = InList(x) /\ d.reply # <<>> /\ Len(d.reply) = k
      /\ \A i \in 1..n : d.reply[i] = x.reply[i]
      /\ d.reply[k] = [bytes |-> <<>>, kind |-> NULL, alloc |-> 0]
  BY DeferredFacts
<1> HIDE DEF d
<1>4. Grown(d, y)
  BY DEF d
<1>5. /\ y \in ClientRec /\ Bytes(y) /\ y.fd = x.fd /\ y.querybuf = x.querybuf
      /\ y.sentlen = x.sentlen /\ y.buf = x.buf
      /\ y.flags \cup {PENDING_WRITE, CLOSE_ASAP} = x.flags \cup {PENDING_WRITE, CLOSE_ASAP}
      /\ x.flags \subseteq y.flags /\ d.made <= y.made
      /\ All(y) = All(d) \o Seg(d.made, y.made)
  BY <1>3, <1>4 DEF Grown, Kept
<1>6. /\ p \in Seq(Chunk) /\ Len(p) \in Nat /\ Len(p) >= k /\ k \in 1..Len(p)
      /\ \A i \in 1..k : p[i] = d.reply[i]
  <2>1. p \in Seq(Chunk) /\ Len(p) \in Nat
    BY <1>5 DEF ClientRec
  <2>2. /\ Len(p) >= k
        /\ \A i \in 1..k : i # k \/ ~Appendable(d.reply[i]) => p[i] = d.reply[i]
    BY <1>3, <1>4 DEF Grown, Kept
  <2>3. ~Appendable(d.reply[k])
    BY <1>3 DEF Appendable, NULL, RAW, SHARED
  <2>4. \A i \in 1..k : p[i] = d.reply[i]
    BY <2>2, <2>3
  <2>5. k \in 1..Len(p)
    BY <1>1, <2>1, <2>2
  <2> QED BY <2>1, <2>2, <2>4, <2>5
<1>7. p[k].bytes = <<>> /\ \A i \in 1..n : p[i] = x.reply[i]
  <2>1. k \in 1..k /\ \A i \in 1..n : i \in 1..k
    BY <1>1
  <2> QED BY <1>3, <1>6, <2>1
<1>8. Glued(p, k, h, q)
  BY <1>2, <1>6, GlueList
<1>9. /\ q \in Seq(Chunk) /\ Len(q) \in Nat /\ Len(q) >= k /\ q # <<>>
      /\ \A i \in 1..n : q[i] = x.reply[i]
  <2>1. q \in Seq(Chunk) /\ k \in 1..Len(q) /\ \A i \in 1..(k - 1) : q[i] = p[i]
    BY <1>8 DEF Glued
  <2> HIDE DEF q
  <2>2. Len(q) \in Nat /\ Len(q) >= k /\ q # <<>>
    BY <1>1, <2>1
  <2>3. k - 1 = n
    BY <1>1
  <2>4. \A i \in 1..n : q[i] = x.reply[i]
    BY <1>7, <2>1, <2>3
  <2> QED BY <2>1, <2>2, <2>4
<1>14. /\ ListMemory(q) = ListMemory(p) + UsedMemory(q[k]) - GlueCounted(p, k)
       /\ q[k] = GlueNode(p, k, h)
       /\ {UsedMemory(q[k]), GlueCounted(p, k), ListMemory(p)} \subseteq Int
  <2>1. p[k].kind = NULL
    <3>1. k \in 1..k
      BY <1>1
    <3> QED BY <1>3, <1>6, <3>1
  <2>2. UsedMemory(p[k]) = 0
    BY <2>1 DEF UsedMemory, NULL, EMBSTR, RAW, SHARED
  <2> HIDE DEF q, p, k
  <2>3. /\ ListMemory(q) = ListMemory(p) + UsedMemory(q[k]) - UsedMemory(p[k]) - GlueCounted(p, k)
        /\ {UsedMemory(q[k]), UsedMemory(p[k]), GlueCounted(p, k), ListMemory(p)} \subseteq Int
    BY <1>6, <1>8, GlueMemory
  <2>4. q[k] = GlueNode(p, k, h)
    BY <1>8 DEF Glued
  <2> QED BY <2>2, <2>3, <2>4
<1>10. /\ z \in ClientRec /\ z.reply = q
       /\ z.reply_bytes = y.reply_bytes + UsedMemory(q[k]) - GlueCounted(p, k)
       /\ z.fd = y.fd /\ z.flags = y.flags /\ z.querybuf = y.querybuf /\ z.buf = y.buf
       /\ z.sentlen = y.sentlen /\ z.made = y.made
  <2> DEFINE b == y.reply_bytes + UsedMemory(q[k]) - GlueCounted(p, k)
  <2>1. z = [y EXCEPT !.reply = q, !.reply_bytes = b]
    <3>1. z = [y EXCEPT !.reply = q, !.reply_bytes = @ + UsedMemory(GlueNode(p, k, h)) - GlueCounted(p, k)]
      BY <1>2 DEF Filled
    <3>2. UsedMemory(GlueNode(p, k, h)) = UsedMemory(q[k])
      BY <1>14
    <3> HIDE DEF q, p, k
    <3> QED BY <3>1, <3>2
  <2>2. b \in Int
    <3>1. y.reply_bytes \in Int
      BY <1>5 DEF ClientRec
    <3> HIDE DEF q, p, k
    <3> QED BY <1>14, <3>1
  <2> HIDE DEF b, q
  <2>3. /\ z \in ClientRec /\ z.reply = q /\ z.reply_bytes = b
        /\ z.fd = y.fd /\ z.flags = y.flags /\ z.querybuf = y.querybuf /\ z.buf = y.buf
        /\ z.sentlen = y.sentlen /\ z.made = y.made
    BY <1>5, <1>9, <2>1, <2>2 DEF ClientRec
  <2> QED BY <2>3 DEF b
<1> HIDE DEF q
<1> DEFINE L == InList(x)
           S == Seg(d.made, y.made)
<1>11. L \in Seq(Nat) /\ S \in Seq(Nat) /\ InList(y) \in Seq(Nat) /\ x.buf \in Seq(Nat)
  <2>1. y.made \in Nat /\ d.made \in Nat /\ y.made <= y.made
    BY <1>3, <1>5 DEF ClientRec
  <2>2. S \in Seq(Nat)
    BY <1>5, <2>1, SegFacts
  <2>3. x.buf \in Seq(Nat)
    BY DEF ClientRec
  <2> QED BY <1>5, <2>2, <2>3, ListOf
<1>12. InList(y) = L \o S
  <2> DEFINE b == x.buf
             l == InList(y)
  <2>1. b \o l = (b \o L) \o S
    BY <1>3, <1>5 DEF All
  <2> HIDE DEF b, l, L, S
  <2>2. b \in Seq(Nat) /\ l \in Seq(Nat) /\ L \in Seq(Nat) /\ S \in Seq(Nat)
    BY <1>11 DEF b, l
  <2>3. (b \o L) \o S = b \o (L \o S) /\ L \o S \in Seq(Nat)
    <3>1. (b \o L) \o S = b \o (L \o S)
      BY <2>2, Associative
    <3>2. L \o S \in Seq(Nat)
      BY <2>2, Associative
    <3> QED BY <3>1, <3>2
  <2> DEFINE m == L \o S
  <2>4. b \o l = b \o m /\ m \in Seq(Nat)
    BY <2>1, <2>3
  <2> HIDE DEF m
  <2>5. l = m
    BY <2>2, <2>4, Cancel
  <2> QED BY <2>5 DEF l, m
<1>13. InList(z) = L \o (h \o S)
  <2> DEFINE t == Texts(y)
             w == Texts(z)
  <2>1. /\ t \in Seq(Seq(Nat)) /\ Len(t) = Len(p) /\ \A i \in 1..Len(p) : t[i] = p[i].bytes
        /\ InList(y) = FlattenSeq(t)
    BY <1>5, ListOf
  <2>2. /\ w \in Seq(Seq(Nat)) /\ Len(w) = Len(q) /\ \A i \in 1..Len(q) : w[i] = q[i].bytes
        /\ InList(z) = FlattenSeq(w)
    BY <1>10, ListOf
  <2> HIDE DEF t, w
  <2>3. Gluing(p, k, h, q, t, w)
    BY <1>2, <1>6, <1>7, <2>1, <2>2 DEF Gluing, q
  <2>4. PICK R \in Seq(Nat) : /\ FlattenSeq(t) = Flat(t, k - 1) \o R
                              /\ FlattenSeq(w) = Flat(t, k - 1) \o (h \o R)
    <3>1. GluedFlat(k, h, t, w)
      BY <2>3, GlueFlat
    <3> QED BY <3>1 DEF GluedFlat
  <2>5. Flat(t, k - 1) = L
    <3> DEFINE u == Texts(x)
    <3>1. /\ u \in Seq(Seq(Nat)) /\ Len(u) = n /\ \A i \in 1..n : u[i] = x.reply[i].bytes
          /\ InList(x) = FlattenSeq(u)
      BY ListOf
    <3> HIDE DEF u
    <3>2. FlattenSeq(u) = Flat(u, n)
      BY <3>1, FlatSteps
    <3>3. \A i \in 1..n : u[i] = t[i]
      <4>1. \A i \in 1..n : i \in 1..Len(p)
        BY <1>1, <1>6
      <4> QED BY <1>7, <2>1, <3>1, <4>1
    <3>4. Flat(u, n) = Flat(t, n)
      BY <3>3, FlatSame
    <3>5. k - 1 = n
      BY <1>1
    <3> QED BY <3>1, <3>2, <3>4, <3>5
  <2> HIDE DEF L, S
  <2>6. L \o R = L \o S /\ R \in Seq(Nat)
    BY <1>12, <2>1, <2>4, <2>5
  <2>7. R = S
    BY <1>11, <2>6, Cancel
  <2> QED BY <2>2, <2>4, <2>5, <2>7
<1>15. Bytes(z)
  <2>1. z.reply_bytes = ListMemory(z.reply)
    <3>1. y.reply_bytes = ListMemory(p)
      BY <1>5 DEF Bytes
    <3> HIDE DEF p, k
    <3> QED BY <1>10, <1>14, <3>1
  <2>2. x.sentlen \in Nat /\ (x.buf # <<>> => x.sentlen < Len(x.buf))
    BY DEF Bytes
  <2>3. x.buf = <<>> /\ x.sentlen # 0 => q # <<>> /\ x.sentlen < Len(q[1].bytes)
    <3> SUFFICES ASSUME x.buf = <<>>, x.sentlen # 0 PROVE q # <<>> /\ x.sentlen < Len(q[1].bytes)
      OBVIOUS
    <3>1. x.reply # <<>> /\ x.sentlen < Len(x.reply[1].bytes)
      BY DEF Bytes
    <3>2. x.reply \in Seq(Chunk)
      BY DEF ClientRec
    <3>3. 1 \in 1..n
      BY <3>1, <3>2
    <3> QED BY <1>9, <3>1, <3>3
  <2> QED BY <1>5, <1>10, <2>1, <2>2, <2>3 DEF Bytes
<1>16. All(z) = All(x) \o Seg(x.made, z.made)
  <2>1. h \o S = Seg(x.made, z.made)
    <3>0. x.made \in Nat
      BY DEF ClientRec
    <3>1. /\ x.made + H \in Nat /\ z.made \in Nat /\ x.made <= x.made + H /\ x.made + H <= z.made
      BY <1>1, <1>3, <1>5, <1>10, <3>0 DEF ClientRec
    <3> DEFINE b == x.made + H
    <3>2. b \in Nat /\ z.made \in Nat /\ x.made <= b /\ b <= z.made
      BY <3>1
    <3>3. h = Seg(x.made, b) /\ S = Seg(b, z.made)
      BY <1>3, <1>10 DEF h
    <3> HIDE DEF b, S
    <3>4. Seg(x.made, b) \o Seg(b, z.made) = Seg(x.made, z.made)
      BY <1>1, <3>2, SegFacts
    <3> QED BY <3>3, <3>4
  <2> DEFINE b == x.buf
             m == h \o S
  <2>2. b \in Seq(Nat) /\ L \in Seq(Nat) /\ m \in Seq(Nat)
    <3>1. h \in Seq(Nat) /\ S \in Seq(Nat)
      BY <1>2, <1>11
    <3> HIDE DEF S
    <3>2. h \o S \in Seq(Nat)
      BY <3>1, Associative
    <3> QED BY <1>11, <3>2
  <2>3. All(z) = b \o (L \o m) /\ All(x) = b \o L
    BY <1>5, <1>10, <1>13 DEF All
  <2> HIDE DEF b, L, m
  <2>4. (b \o L) \o m = b \o (L \o m)
    BY <2>2, Associative
  <2> QED BY <2>1, <2>3, <2>4 DEF m
<1>17. x.made <= z.made
  <2>1. x.made + H <= z.made /\ z.made \in Nat
    BY <1>3, <1>5, <1>10 DEF ClientRec
  <2> QED BY <1>1, <2>1
<1>18. Kept(x, z)
  <2>1. Len(q) >= n
    BY <1>1, <1>9
  <2> QED BY <1>5, <1>9, <1>10, <2>1 DEF Kept
<1>19. clientHasPendingReplies(z)
  BY <1>9, <1>10 DEF clientHasPendingReplies
<1> QED BY <1>5, <1>10, <1>15, <1>16, <1>17, <1>18, <1>19 DEF Grown

-----------------------------------------------------------------------------
(* What an operation on one client does to the server.                     *)

ServerFields == {"client", "clients", "clients_pending_write", "clients_to_close", "events"}

\* Nothing of another client changes.
Only(s, r, c) ==
  /\ r.clients = s.clients
  /\ \A d \in Client : d # c => r.client[d] = s.client[d]
  /\ r.client[c].fd = s.client[c].fd
  /\ \A f \in Fd : f # s.client[c].fd => r.events[f] = s.events[f]

\* r is s with the client y, the lists p and q and the events e.
Fields(s, r, c, y, p, q, e) ==
  /\ DOMAIN r = ServerFields
  /\ r.client = [s.client EXCEPT ![c] = y] /\ r.clients = s.clients
  /\ r.clients_pending_write = p /\ r.clients_to_close = q /\ r.events = e

\* A list that agrees with a flag of y, and for the others with another list
ListAgrees(l, old, c, y, flag) ==
  /\ OneList(l)
  /\ c \in ToSet(l) <=> flag \in y.flags
  /\ \A d \in Client : d # c => (d \in ToSet(l) <=> d \in ToSet(old))

EventsAgree(e, old, fd, c) ==
  /\ e \in [Fd -> FileEvent]
  /\ READABLE \in e[fd].mask /\ e[fd].clientData = {c}
  /\ \A f \in Fd : f # fd => e[f] = old[f]

LEMMA LiveFacts ==
  ASSUME NEW s, GoodServer(s), NEW c, c \in ToSet(s.clients)
  PROVE  /\ c \in Client /\ s.client[c] \in ClientRec /\ Bytes(s.client[c])
         /\ s.client[c].fd \in Fd /\ DOMAIN s = ServerFields /\ DOMAIN s.client = Client
         /\ EventsAgree(s.events, s.events, s.client[c].fd, c)
         /\ ListAgrees(s.clients_pending_write, s.clients_pending_write, c, s.client[c], PENDING_WRITE)
         /\ ListAgrees(s.clients_to_close, s.clients_to_close, c, s.client[c], CLOSE_ASAP)
<1>1. OneList(s.clients) /\ s.client \in [Client -> ClientRec] /\ s.events \in [Fd -> FileEvent]
  BY DEF GoodServer, ServerTypes
<1>2. c \in Client
  <2>1. s.clients \in Seq(Client)
    BY <1>1 DEF OneList
  <2> QED BY <2>1, ToSetMember
<1> QED BY <1>1, <1>2 DEF GoodServer, ServerTypes, ServerFields, EventsAgree, ListAgrees

LEMMA FieldsGood ==
  ASSUME NEW s, GoodServer(s), NEW c, c \in ToSet(s.clients), NEW r, NEW y \in ClientRec,
         NEW p, NEW q, NEW e, Fields(s, r, c, y, p, q, e), Bytes(y), y.fd = s.client[c].fd,
         ListAgrees(p, s.clients_pending_write, c, y, PENDING_WRITE),
         ListAgrees(q, s.clients_to_close, c, y, CLOSE_ASAP),
         EventsAgree(e, s.events, y.fd, c)
  PROVE  GoodServer(r) /\ Only(s, r, c) /\ r.client[c] = y
<1>1. /\ c \in Client /\ s.client[c].fd \in Fd /\ s.client \in [Client -> ClientRec]
      /\ s.events \in [Fd -> FileEvent]
  BY LiveFacts DEF GoodServer, ServerTypes
<1>2. /\ r.client \in [Client -> ClientRec] /\ r.client[c] = y
      /\ \A d \in Client : d # c => r.client[d] = s.client[d]
  BY <1>1 DEF Fields
<1>3. ServerTypes(r)
  <2>1. OneList(r.clients) /\ OneList(r.clients_pending_write) /\ OneList(r.clients_to_close)
    BY DEF Fields, ListAgrees, GoodServer, ServerTypes
  <2>2. r.events \in [Fd -> FileEvent]
    BY DEF Fields, EventsAgree
  <2> QED BY <1>2, <2>1, <2>2 DEF ServerTypes, Fields, ServerFields
<1>4. Only(s, r, c)
  BY <1>2 DEF Only, Fields, EventsAgree
<1>5. ASSUME NEW d \in Client
      PROVE  /\ Bytes(r.client[d])
             /\ d \in ToSet(r.clients_pending_write) <=> PENDING_WRITE \in r.client[d].flags
             /\ d \in ToSet(r.clients_to_close) <=> CLOSE_ASAP \in r.client[d].flags
             /\ d \notin ToSet(r.clients) => r.client[d] = NewClient(-1)
             /\ d \in ToSet(r.clients) =>
                  /\ r.client[d].fd \in Fd
                  /\ READABLE \in r.events[r.client[d].fd].mask
                  /\ r.events[r.client[d].fd].clientData = {d}
  <2>1. CASE d = c
    BY <1>1, <1>2, <2>1 DEF Fields, ListAgrees, EventsAgree
  <2>2. CASE d # c
    <3>1. r.client[d] = s.client[d]
      BY <1>2, <2>2
    <3>2. /\ Bytes(r.client[d])
          /\ d \in ToSet(r.clients_pending_write) <=> PENDING_WRITE \in r.client[d].flags
          /\ d \in ToSet(r.clients_to_close) <=> CLOSE_ASAP \in r.client[d].flags
          /\ d \notin ToSet(r.clients) => r.client[d] = NewClient(-1)
      BY <2>2, <3>1 DEF Fields, ListAgrees, GoodServer
    <3>3. ASSUME d \in ToSet(s.clients)
          PROVE  /\ s.client[d].fd \in Fd /\ READABLE \in s.events[s.client[d].fd].mask
                 /\ s.events[s.client[d].fd].clientData = {d}
      BY <3>3 DEF GoodServer
    <3>4. d \in ToSet(s.clients) => s.client[d].fd # s.client[c].fd
      <4>1. s.events[s.client[c].fd].clientData = {c}
        BY <1>1 DEF GoodServer
      <4> QED BY <2>2, <3>3, <4>1
    <3> QED BY <1>4, <3>1, <3>2, <3>3, <3>4 DEF Only
  <2> QED BY <2>1, <2>2
<1>6. ASSUME NEW f \in Fd, r.events[f].mask # {}
      PROVE  \E d \in Client : d \in ToSet(r.clients) /\ r.client[d].fd = f
  <2>1. CASE f = y.fd
    BY <1>1, <1>2, <2>1 DEF Fields
  <2>2. CASE f # y.fd
    <3>1. s.events[f].mask # {}
      BY <1>6, <2>2 DEF Fields, EventsAgree
    <3>2. PICK d \in Client : d \in ToSet(s.clients) /\ s.client[d].fd = f
      BY <3>1 DEF GoodServer
    <3>3. r.client[d].fd = f /\ d \in ToSet(r.clients)
      BY <1>4, <2>2, <3>2 DEF Only
    <3> QED BY <3>2, <3>3
  <2> QED BY <2>1, <2>2
<1> QED BY <1>2, <1>3, <1>4, <1>5, <1>6 DEF GoodServer

Replaces(s, r, c, y, p, q, e) ==
  /\ Fields(s, r, c, y, p, q, e)
  /\ ListAgrees(p, s.clients_pending_write, c, y, PENDING_WRITE)
  /\ ListAgrees(q, s.clients_to_close, c, y, CLOSE_ASAP)
  /\ EventsAgree(e, s.events, y.fd, c)
  /\ y \in ClientRec /\ Bytes(y) /\ y.fd = s.client[c].fd

LEMMA ReplacesGood ==
  ASSUME NEW s, GoodServer(s), NEW c, c \in ToSet(s.clients), NEW r, NEW y,
         NEW p, NEW q, NEW e, Replaces(s, r, c, y, p, q, e)
  PROVE  GoodServer(r) /\ Only(s, r, c) /\ r.client[c] = y
<1>1. /\ Fields(s, r, c, y, p, q, e)
      /\ ListAgrees(p, s.clients_pending_write, c, y, PENDING_WRITE)
      /\ ListAgrees(q, s.clients_to_close, c, y, CLOSE_ASAP)
      /\ EventsAgree(e, s.events, y.fd, c)
      /\ y \in ClientRec /\ Bytes(y) /\ y.fd = s.client[c].fd
  BY DEF Replaces
<1> QED BY <1>1, FieldsGood

LEMMA OnlyTrans ==
  ASSUME NEW s, NEW r, NEW q, NEW c, Only(s, r, c), Only(r, q, c)
  PROVE  Only(s, q, c)
BY DEF Only

\* What Scheduled says of another client stays.
LEMMA OthersScheduled ==
  ASSUME NEW s, GoodServer(s), NEW c, c \in ToSet(s.clients), NEW r, Only(s, r, c),
         NEW d, d \in ToSet(s.clients), d # c, Scheduled(s, d)
  PROVE  Scheduled(r, d)
<1>1. s.client[d].fd # s.client[c].fd
  BY LiveFacts DEF EventsAgree
<1>2. r.client[d] = s.client[d] /\ r.events[s.client[d].fd] = s.events[s.client[d].fd]
  BY <1>1, LiveFacts DEF Only
<1> QED BY <1>2 DEF Scheduled, Handler

\* Only the client's own structure
LEMMA WithGood ==
  ASSUME NEW s, GoodServer(s), NEW c, c \in ToSet(s.clients), NEW y \in ClientRec, Bytes(y),
         y.fd = s.client[c].fd, y.flags \ {CLOSE_AFTER_REPLY} = s.client[c].flags \ {CLOSE_AFTER_REPLY},
         NEW r, r = With(s, c, y)
  PROVE  /\ GoodServer(r) /\ Only(s, r, c) /\ r.client[c] = y /\ r.events = s.events
         /\ r.clients_pending_write = s.clients_pending_write
<1> DEFINE p == s.clients_pending_write
           q == s.clients_to_close
           e == s.events
<1>1. Fields(s, r, c, y, p, q, e)
  BY LiveFacts DEF With, Fields, ServerFields
<1>2. PENDING_WRITE \in y.flags <=> PENDING_WRITE \in s.client[c].flags
  BY DEF PENDING_WRITE, CLOSE_AFTER_REPLY
<1>3. CLOSE_ASAP \in y.flags <=> CLOSE_ASAP \in s.client[c].flags
  BY DEF CLOSE_ASAP, CLOSE_AFTER_REPLY
<1>4. /\ ListAgrees(p, p, c, y, PENDING_WRITE)
      /\ ListAgrees(q, q, c, y, CLOSE_ASAP)
      /\ EventsAgree(e, e, y.fd, c)
  BY <1>2, <1>3, LiveFacts DEF ListAgrees
<1>5. GoodServer(r) /\ Only(s, r, c) /\ r.client[c] = y
  <2> HIDE DEF p, q, e
  <2>1. p = s.clients_pending_write /\ q = s.clients_to_close /\ e = s.events
    BY DEF p, q, e
  <2> QED BY <1>1, <1>4, <2>1, FieldsGood
<1> QED BY <1>1, <1>5 DEF Fields

\* What a change of the flags, and nothing else, makes of a client
Reflagged(x, fl) == [x EXCEPT !.flags = fl]

LEMMA ReflaggedFacts ==
  ASSUME NEW x \in ClientRec, Bytes(x), NEW fl \in SUBSET Flags, NEW y, y = Reflagged(x, fl)
  PROVE  /\ y \in ClientRec /\ Bytes(y) /\ y.flags = fl /\ y.fd = x.fd /\ y.buf = x.buf
         /\ y.reply = x.reply /\ y.sentlen = x.sentlen /\ y.made = x.made
         /\ y.querybuf = x.querybuf /\ y.reply_bytes = x.reply_bytes
         /\ Unsent(y) = Unsent(x)
         /\ x.flags \subseteq fl /\ fl \subseteq x.flags \cup {PENDING_WRITE, CLOSE_ASAP} => Grown(x, y)
<1>1. /\ y \in ClientRec /\ y.flags = fl /\ y.fd = x.fd /\ y.buf = x.buf
      /\ y.reply = x.reply /\ y.sentlen = x.sentlen /\ y.made = x.made
      /\ y.querybuf = x.querybuf /\ y.reply_bytes = x.reply_bytes
  BY DEF Reflagged, ClientRec
<1>2. Bytes(y)
  BY <1>1 DEF Bytes, EndOf
<1>3. Unsent(y) = Unsent(x)
  BY <1>1 DEF Unsent, InList, EndOf
<1>4. ASSUME x.flags \subseteq fl, fl \subseteq x.flags \cup {PENDING_WRITE, CLOSE_ASAP}
      PROVE  Grown(x, y)
  BY <1>1, <1>4, GrownSelf
<1> QED BY <1>1, <1>2, <1>3, <1>4

\* The server after a step that adds to the output of c
Kin(s, r, c) == GoodServer(r) /\ Only(s, r, c) /\ r.events = s.events /\ Scheduled(r, c)
Adds(s, r, c) == Kin(s, r, c) /\ Grown(s.client[c], r.client[c])

LEMMA AddsTrans ==
  ASSUME NEW s, GoodServer(s), NEW c, c \in ToSet(s.clients), NEW r, NEW q,
         Adds(s, r, c), Adds(r, q, c)
  PROVE  Adds(s, q, c)
<1>1. Grown(s.client[c], q.client[c])
  BY LiveFacts, GrownTrans DEF Adds
<1>2. Only(s, q, c)
  BY OnlyTrans DEF Adds, Kin
<1> QED BY <1>1, <1>2 DEF Adds, Kin

LEMMA AddsSelf ==
  ASSUME NEW s, GoodServer(s), NEW c, c \in ToSet(s.clients), Scheduled(s, c)
  PROVE  Adds(s, s, c)
<1>1. Grown(s.client[c], s.client[c])
  BY LiveFacts, GrownSelf
<1> QED BY <1>1 DEF Adds, Kin, Only

LEMMA PrepareAdds ==
  ASSUME NEW s, GoodServer(s), NEW c, c \in ToSet(s.clients), Scheduled(s, c),
         NEW r, r = prepareClientToWrite(s, c)
  PROVE  /\ Adds(s, r, c) /\ r.client[c].made = s.client[c].made
         /\ clientHasPendingReplies(r.client[c]) \/ PENDING_WRITE \in r.client[c].flags
<1>1. CASE clientHasPendingReplies(s.client[c]) \/ HasFlag(s, c, PENDING_WRITE)
  <2>1. r = s
    BY <1>1 DEF prepareClientToWrite
  <2> QED BY <1>1, <2>1, AddsSelf DEF HasFlag
<1>2. CASE ~(clientHasPendingReplies(s.client[c]) \/ HasFlag(s, c, PENDING_WRITE))
  <2> DEFINE x == s.client[c]
             fl == x.flags \cup {PENDING_WRITE}
             y == Reflagged(x, fl)
             l == s.clients_pending_write
             p == <<c>> \o l
             q == s.clients_to_close
             e == s.events
  <2>1. r = SetFlag([s EXCEPT !.clients_pending_write = p], c, PENDING_WRITE)
    BY <1>2 DEF prepareClientToWrite
  <2>2. Fields(s, r, c, y, p, q, e)
    BY <2>1, LiveFacts DEF SetFlag, Fields, ServerFields, Reflagged
  <2>3. x \in ClientRec /\ Bytes(x) /\ fl \in SUBSET Flags /\ PENDING_WRITE \notin x.flags
    BY <1>2, LiveFacts DEF ClientRec, Flags, HasFlag
  <2>4. /\ y \in ClientRec /\ Bytes(y) /\ y.flags = fl /\ y.fd = x.fd /\ y.buf = x.buf
        /\ y.reply = x.reply /\ y.made = x.made /\ Grown(x, y)
    BY <2>3, ReflaggedFacts
  <2>5. ListAgrees(p, l, c, y, PENDING_WRITE)
    <3>1. OneList(l) /\ c \notin ToSet(l) /\ c \in Client
      BY <2>3, LiveFacts DEF ListAgrees
    <3> HIDE DEF l
    <3>2. p \in Seq(Client) /\ ToSet(p) = ToSet(l) \cup {c} /\ Distinct(p)
      BY <3>1, PrependFacts DEF OneList
    <3> HIDE DEF p, y
    <3> QED BY <2>4, <3>1, <3>2 DEF ListAgrees, OneList
  <2>6. CLOSE_ASAP \in fl <=> CLOSE_ASAP \in x.flags
    BY DEF CLOSE_ASAP, PENDING_WRITE
  <2>7. ListAgrees(q, q, c, y, CLOSE_ASAP) /\ EventsAgree(e, e, y.fd, c)
    BY <2>4, <2>6, LiveFacts DEF ListAgrees
  <2>8. GoodServer(r) /\ Only(s, r, c) /\ r.client[c] = y
    <3> HIDE DEF y
    <3>1. /\ ListAgrees(p, s.clients_pending_write, c, y, PENDING_WRITE)
          /\ ListAgrees(q, s.clients_to_close, c, y, CLOSE_ASAP)
          /\ EventsAgree(e, s.events, y.fd, c)
          /\ y \in ClientRec /\ Bytes(y) /\ y.fd = s.client[c].fd
      BY <2>4, <2>5, <2>7
    <3> HIDE DEF p, q, e
    <3> QED BY <2>2, <3>1, FieldsGood
  <2> HIDE DEF y
  <2>9. r.events = s.events
    BY <2>2 DEF Fields
  <2>10. Scheduled(r, c)
    BY <1>2, <2>4, <2>8, <2>9 DEF Scheduled, Handler, clientHasPendingReplies
  <2> QED BY <2>4, <2>8, <2>9, <2>10 DEF Adds, Kin
<1> QED BY <1>1, <1>2

LEMMA AsyncAdds ==
  ASSUME NEW s, GoodServer(s), NEW c, c \in ToSet(s.clients),
         Scheduled(s, c) \/ ~Handler(s, c), NEW r, r = freeClientAsync(s, c)
  PROVE  /\ GoodServer(r) /\ Only(s, r, c) /\ r.events = s.events
         /\ Scheduled(s, c) => Adds(s, r, c)
         /\ Grown(s.client[c], r.client[c]) /\ CLOSE_ASAP \in r.client[c].flags
         /\ r.client[c].made = s.client[c].made /\ Unsent(r.client[c]) = Unsent(s.client[c])
         /\ PENDING_WRITE \in r.client[c].flags => PENDING_WRITE \in s.client[c].flags
<1>1. CASE HasFlag(s, c, CLOSE_ASAP)
  <2>1. r = s
    BY <1>1 DEF freeClientAsync
  <2>2. Grown(s.client[c], s.client[c])
    BY LiveFacts, GrownSelf
  <2>3. Only(s, s, c)
    BY DEF Only
  <2> QED BY <1>1, <2>1, <2>2, <2>3, AddsSelf DEF HasFlag
<1>2. CASE ~HasFlag(s, c, CLOSE_ASAP)
  <2> DEFINE x == s.client[c]
             fl == x.flags \cup {CLOSE_ASAP}
             y == Reflagged(x, fl)
             l == s.clients_to_close
             p == s.clients_pending_write
             q == Append(l, c)
             e == s.events
  <2>1. r = SetFlag([s EXCEPT !.clients_to_close = q], c, CLOSE_ASAP)
    BY <1>2 DEF freeClientAsync
  <2>2. Fields(s, r, c, y, p, q, e)
    BY <2>1, LiveFacts DEF SetFlag, Fields, ServerFields, Reflagged
  <2>3. x \in ClientRec /\ Bytes(x) /\ fl \in SUBSET Flags /\ CLOSE_ASAP \notin x.flags
    BY <1>2, LiveFacts DEF ClientRec, Flags, HasFlag
  <2>4. /\ y \in ClientRec /\ Bytes(y) /\ y.flags = fl /\ y.fd = x.fd /\ y.buf = x.buf
        /\ y.reply = x.reply /\ y.made = x.made /\ Unsent(y) = Unsent(x) /\ Grown(x, y)
    BY <2>3, ReflaggedFacts
  <2>5. ListAgrees(q, l, c, y, CLOSE_ASAP)
    <3>1. OneList(l) /\ c \notin ToSet(l) /\ c \in Client
      BY <2>3, LiveFacts DEF ListAgrees
    <3> HIDE DEF l
    <3>2. q \in Seq(Client) /\ ToSet(q) = ToSet(l) \cup {c} /\ Distinct(q)
      BY <3>1, AppendFacts DEF OneList
    <3> HIDE DEF q, y
    <3> QED BY <2>4, <3>1, <3>2 DEF ListAgrees, OneList
  <2>6. PENDING_WRITE \in fl <=> PENDING_WRITE \in x.flags
    BY DEF CLOSE_ASAP, PENDING_WRITE
  <2>7. ListAgrees(p, p, c, y, PENDING_WRITE) /\ EventsAgree(e, e, y.fd, c)
    BY <2>4, <2>6, LiveFacts DEF ListAgrees
  <2>8. GoodServer(r) /\ Only(s, r, c) /\ r.client[c] = y
    <3> HIDE DEF y
    <3>1. /\ ListAgrees(p, s.clients_pending_write, c, y, PENDING_WRITE)
          /\ ListAgrees(q, s.clients_to_close, c, y, CLOSE_ASAP)
          /\ EventsAgree(e, s.events, y.fd, c)
          /\ y \in ClientRec /\ Bytes(y) /\ y.fd = s.client[c].fd
      BY <2>4, <2>5, <2>7
    <3> HIDE DEF p, q, e
    <3> QED BY <2>2, <3>1, FieldsGood
  <2> HIDE DEF y
  <2>9. r.events = s.events
    BY <2>2 DEF Fields
  <2>10. Scheduled(s, c) => Scheduled(r, c)
    BY <2>4, <2>6, <2>8, <2>9 DEF Scheduled, Handler, clientHasPendingReplies
  <2> QED BY <2>4, <2>6, <2>8, <2>9, <2>10 DEF Adds, Kin
<1> QED BY <1>1, <1>2

Piece == [len : Nat, kind : {EMBSTR, RAW, SHARED}, alloc : Nat]

\* Output is in y of a client that is in the list, or had output before.
LEMMA WithAdds ==
  ASSUME NEW s, GoodServer(s), NEW c, c \in ToSet(s.clients), Scheduled(s, c),
         clientHasPendingReplies(s.client[c]) \/ PENDING_WRITE \in s.client[c].flags,
         NEW y \in ClientRec, Bytes(y), y.fd = s.client[c].fd, y.flags = s.client[c].flags,
         clientHasPendingReplies(s.client[c]) => clientHasPendingReplies(y),
         NEW r, r = With(s, c, y)
  PROVE  Kin(s, r, c) /\ r.client[c] = y
<1>1. GoodServer(r) /\ Only(s, r, c) /\ r.client[c] = y /\ r.events = s.events
  BY WithGood
<1>2. Scheduled(r, c)
  BY <1>1 DEF Scheduled, Handler
<1> QED BY <1>1, <1>2 DEF Kin

LEMMA LimitAdds ==
  ASSUME NEW s, GoodServer(s), NEW c, c \in ToSet(s.clients), Scheduled(s, c),
         NEW r, r = asyncCloseClientOnOutputBufferLimitReached(s, c)
  PROVE  Adds(s, r, c)
<1>1. r = s \/ r = freeClientAsync(s, c)
  BY DEF asyncCloseClientOnOutputBufferLimitReached
<1> QED BY <1>1, AddsSelf, AsyncAdds

LEMMA AddReplyAdds ==
  ASSUME NEW s, GoodServer(s), NEW c, c \in ToSet(s.clients), Scheduled(s, c),
         CLOSE_AFTER_REPLY \notin s.client[c].flags, NEW piece \in Piece,
         NEW r, r = addReply(s, c, piece)
  PROVE  Adds(s, r, c)
<1> DEFINE a == prepareClientToWrite(s, c)
           x == a.client[c]
           y == IF FitsBuffer(x, piece.len)
                THEN [x EXCEPT !.buf = @ \o NewBytes(x, piece.len), !.made = @ + piece.len]
                ELSE ToList(x, NewBytes(x, piece.len), piece.kind, piece.alloc)
           b == With(a, c, y)
<1>1. /\ Adds(s, a, c)
      /\ clientHasPendingReplies(x) \/ PENDING_WRITE \in x.flags
  BY PrepareAdds
<1>2. ~HasFlag(a, c, CLOSE_AFTER_REPLY)
  <2>1. x.flags \cup {PENDING_WRITE, CLOSE_ASAP} = s.client[c].flags \cup {PENDING_WRITE, CLOSE_ASAP}
    BY <1>1 DEF Adds, Grown
  <2> HIDE DEF a
  <2> QED BY <2>1 DEF HasFlag, CLOSE_AFTER_REPLY, PENDING_WRITE, CLOSE_ASAP
<1>3. r = IF FitsBuffer(x, piece.len) THEN b
          ELSE asyncCloseClientOnOutputBufferLimitReached(b, c)
  BY <1>2 DEF addReply
<1> HIDE DEF a
<1>4. GoodServer(a) /\ c \in ToSet(a.clients) /\ Scheduled(a, c)
  BY <1>1 DEF Adds, Kin, Only
<1>5. x \in ClientRec /\ Bytes(x) /\ piece.len \in Nat /\ piece.kind \in Kinds /\ piece.alloc \in Nat
  BY <1>4, LiveFacts DEF Piece, Kinds
<1>6. Grown(x, y) /\ y.flags = x.flags
  <2> DEFINE k == piece.len
             w == piece.kind
             v == piece.alloc
  <2>1. k \in Nat /\ w \in Kinds /\ v \in Nat /\ y = Pieced(x, k, w, v)
    BY <1>5 DEF Pieced
  <2> HIDE DEF k, w, v, y, x
  <2> QED BY <1>5, <2>1, PieceGrows
<1> HIDE DEF y
<1>7. /\ y \in ClientRec /\ Bytes(y) /\ y.fd = x.fd
      /\ clientHasPendingReplies(x) => clientHasPendingReplies(y)
  BY <1>6 DEF Grown
<1>8. Kin(a, b, c) /\ b.client[c] = y
  BY <1>1, <1>4, <1>6, <1>7, WithAdds
<1>9. Adds(a, b, c)
  BY <1>6, <1>8 DEF Adds
<1> HIDE DEF b
<1>10. GoodServer(b) /\ c \in ToSet(b.clients) /\ Scheduled(b, c)
  BY <1>4, <1>8 DEF Kin, Only
<1>11. Adds(b, r, c)
  BY <1>3, <1>10, AddsSelf, LimitAdds
<1> QED BY <1>1, <1>4, <1>9, <1>11, AddsTrans

\* The pieces of a reply, one after the other
ReplyOp(p, r, piece) == addReply(r, p[2], piece)
ReplyGood(p, i, r) == Adds(p[1], r, p[2])
Replies == INSTANCE FoldFacts WITH Op <- ReplyOp, Good <- ReplyGood

LEMMA AddRepliesAdds ==
  ASSUME NEW s, GoodServer(s), NEW c, c \in ToSet(s.clients), Scheduled(s, c),
         CLOSE_AFTER_REPLY \notin s.client[c].flags, NEW pieces \in Seq(Piece),
         NEW r, r = addReplies(s, c, pieces)
  PROVE  Adds(s, r, c)
<1> DEFINE p == <<s, c>>
<1>1. p[1] = s /\ p[2] = c
  OBVIOUS
<1> HIDE DEF p
<1>2. r = Replies!Fold(p, s, pieces)
  BY <1>1 DEF addReplies, Replies!Fold, ReplyOp, FoldLeft, MapThenFoldSet, Max,
              Replies!FoldLeft, Replies!MapThenFoldSet, Replies!Max
<1>3. ReplyGood(p, 0, s)
  BY <1>1, AddsSelf DEF ReplyGood
<1>4. ASSUME NEW q, NEW i \in 1..Len(pieces), ReplyGood(p, i - 1, q)
      PROVE  ReplyGood(p, i, ReplyOp(p, q, pieces[i]))
  <2>1. Adds(s, q, c)
    BY <1>1, <1>4 DEF ReplyGood
  <2>2. GoodServer(q) /\ c \in ToSet(q.clients) /\ Scheduled(q, c)
    BY <2>1 DEF Adds, Kin, Only
  <2>3. CLOSE_AFTER_REPLY \notin q.client[c].flags
    <3>1. q.client[c].flags \cup {PENDING_WRITE, CLOSE_ASAP} = s.client[c].flags \cup {PENDING_WRITE, CLOSE_ASAP}
      BY <2>1 DEF Adds, Grown
    <3> QED BY <3>1 DEF CLOSE_AFTER_REPLY, PENDING_WRITE, CLOSE_ASAP
  <2>4. pieces[i] \in Piece
    OBVIOUS
  <2>5. Adds(q, addReply(q, c, pieces[i]), c)
    BY <2>2, <2>3, <2>4, AddReplyAdds
  <2>6. Adds(s, addReply(q, c, pieces[i]), c)
    BY <2>1, <2>5, AddsTrans
  <2> QED BY <1>1, <2>6 DEF ReplyGood, ReplyOp
<1>5. ReplyGood(p, Len(pieces), Replies!Fold(p, s, pieces))
  BY <1>3, <1>4, Replies!FoldKeeps
<1> QED BY <1>1, <1>2, <1>5 DEF ReplyGood

LEMMA MultiBulkAdds ==
  ASSUME NEW s, GoodServer(s), NEW c, c \in ToSet(s.clients), Scheduled(s, c),
         CLOSE_AFTER_REPLY \notin s.client[c].flags, NEW pieces \in Seq(Piece),
         NEW r, r = addMultiBulk(s, c, pieces)
  PROVE  Adds(s, r, c)
<1> DEFINE a == prepareClientToWrite(s, c)
           x == a.client[c]
           d == Deferred(x)
           b == With(a, c, d)
           g == addReplies(b, c, pieces)
           y == g.client[c]
           z == Filled(x, y, x.made)
           h == With(g, c, z)
<1>0. MultiBulkHeader \in Nat
  BY BufferAssumption
<1>1. /\ Adds(s, a, c) /\ x.made = s.client[c].made
      /\ clientHasPendingReplies(x) \/ PENDING_WRITE \in x.flags
  BY PrepareAdds
<1>2. GoodServer(a) /\ c \in ToSet(a.clients) /\ Scheduled(a, c)
  BY <1>1 DEF Adds, Kin, Only
<1>3. x \in ClientRec /\ Bytes(x)
  BY <1>2, LiveFacts
<1>4. /\ d \in ClientRec /\ Bytes(d) /\ d.fd = x.fd /\ d.flags = x.flags /\ d.reply # <<>>
      /\ Len(d.reply) = Len(x.reply) + 1
  <2> HIDE DEF x
  <2> QED BY <1>0, <1>3, DeferredFacts
<1>5. Kin(a, b, c) /\ b.client[c] = d
  <2>1. clientHasPendingReplies(d)
    BY <1>4 DEF clientHasPendingReplies
  <2> HIDE DEF a, d
  <2> QED BY <1>1, <1>2, <1>4, <2>1, WithAdds
<1>6. /\ GoodServer(b) /\ c \in ToSet(b.clients) /\ Scheduled(b, c)
      /\ CLOSE_AFTER_REPLY \notin b.client[c].flags
  <2>1. x.flags \cup {PENDING_WRITE, CLOSE_ASAP} = s.client[c].flags \cup {PENDING_WRITE, CLOSE_ASAP}
    BY <1>1 DEF Adds, Grown
  <2> HIDE DEF a, d, b
  <2>2. CLOSE_AFTER_REPLY \notin b.client[c].flags
    BY <1>4, <1>5, <2>1 DEF CLOSE_AFTER_REPLY, PENDING_WRITE, CLOSE_ASAP
  <2> QED BY <1>2, <1>5, <2>2 DEF Kin, Only
<1>7. r = asyncCloseClientOnOutputBufferLimitReached(h, c)
  <2>1. b = addDeferredMultiBulkLength(s, c)
    BY DEF addDeferredMultiBulkLength, Deferred
  <2>2. r = setDeferredMultiBulkLength(g, c, Len(b.client[c].reply), s.client[c].made)
    BY <2>1 DEF addMultiBulk
  <2> DEFINE n == Len(x.reply) + 1
             m == x.made
  <2>3. r = setDeferredMultiBulkLength(g, c, n, m)
    BY <1>1, <1>4, <1>5, <2>2
  <2> HIDE DEF g
  <2> QED BY <2>3 DEF setDeferredMultiBulkLength, Filled, Glue, Glues, GlueNode, GlueCounted, Header
<1> HIDE DEF b
<1>8. Adds(b, g, c)
  BY <1>6, AddRepliesAdds
<1> HIDE DEF g
<1>9. GoodServer(g) /\ c \in ToSet(g.clients) /\ Scheduled(g, c) /\ Grown(d, y)
  BY <1>5, <1>6, <1>8 DEF Adds, Kin, Only
<1>10. Grown(x, z) /\ z.flags = y.flags /\ clientHasPendingReplies(z)
  <2> HIDE DEF x, y
  <2>1. Grown(Deferred(x), y)
    BY <1>9
  <2> QED BY <1>0, <1>3, <2>1, HeaderGrows
<1>11. clientHasPendingReplies(y)
  BY <1>4, <1>9 DEF Grown, clientHasPendingReplies
<1>12. z \in ClientRec /\ Bytes(z) /\ z.fd = y.fd
  BY <1>4, <1>9, <1>10 DEF Grown
<1> HIDE DEF z
<1>13. Kin(g, h, c) /\ h.client[c] = z
  BY <1>9, <1>10, <1>11, <1>12, WithAdds
<1> HIDE DEF h
<1>14. Adds(a, h, c)
  <2>1. Only(a, h, c)
    <3>1. Only(a, b, c) /\ Only(b, g, c) /\ Only(g, h, c)
      BY <1>5, <1>8, <1>13 DEF Kin, Adds
    <3> QED BY <3>1, OnlyTrans
  <2>2. h.events = a.events
    BY <1>5, <1>8, <1>13 DEF Kin, Adds
  <2> QED BY <1>10, <1>13, <2>1, <2>2 DEF Adds, Kin
<1>15. Adds(h, r, c)
  <2>1. GoodServer(h) /\ c \in ToSet(h.clients) /\ Scheduled(h, c)
    BY <1>9, <1>13 DEF Kin, Only
  <2> QED BY <1>7, <2>1, LimitAdds
<1> HIDE DEF a
<1>16. Adds(a, r, c)
  BY <1>2, <1>14, <1>15, AddsTrans
<1> QED BY <1>1, <1>16, AddsTrans

-----------------------------------------------------------------------------
(* Handlers, writes, and the end of a client.                              *)

\* The write handler of a client is removed or installed.
LEMMA HandlerGood ==
  ASSUME NEW s, GoodServer(s), NEW c, c \in ToSet(s.clients), NEW r,
         \/ r = aeDeleteFileEvent(s, s.client[c].fd, WRITABLE)
         \/ r = aeCreateFileEvent(s, s.client[c].fd, WRITABLE, c)
  PROVE  /\ GoodServer(r) /\ Only(s, r, c) /\ r.client[c] = s.client[c]
         /\ r = aeDeleteFileEvent(s, s.client[c].fd, WRITABLE) => ~Handler(r, c)
         /\ r = aeCreateFileEvent(s, s.client[c].fd, WRITABLE, c) => Handler(r, c)
<1> DEFINE x == s.client[c]
           fd == x.fd
           p == s.clients_pending_write
           q == s.clients_to_close
           v == s.events[fd]
<1>1. /\ c \in Client /\ x \in ClientRec /\ Bytes(x) /\ fd \in Fd /\ DOMAIN s = ServerFields
      /\ s.client \in [Client -> ClientRec] /\ s.events \in [Fd -> FileEvent]
      /\ READABLE \in v.mask /\ v.clientData = {c} /\ v \in FileEvent
  BY LiveFacts DEF EventsAgree, GoodServer, ServerTypes
<1>2. ASSUME NEW u \in FileEvent, READABLE \in u.mask, u.clientData = {c},
             r = [s EXCEPT !.events = [s.events EXCEPT ![fd] = u]]
      PROVE  GoodServer(r) /\ Only(s, r, c) /\ r.client[c] = s.client[c] /\ r.events[fd] = u
  <2> DEFINE e == [s.events EXCEPT ![fd] = u]
  <2>1. Fields(s, r, c, x, p, q, e)
    BY <1>1, <1>2 DEF Fields, ServerFields
  <2>2. /\ ListAgrees(p, s.clients_pending_write, c, x, PENDING_WRITE)
        /\ ListAgrees(q, s.clients_to_close, c, x, CLOSE_ASAP)
    BY LiveFacts
  <2>3. EventsAgree(e, s.events, x.fd, c) /\ e[fd] = u
    BY <1>1, <1>2 DEF EventsAgree
  <2> HIDE DEF e
  <2>4. GoodServer(r) /\ Only(s, r, c) /\ r.client[c] = x
    <3> DEFINE y == x
    <3>1. y \in ClientRec /\ Bytes(y) /\ y.fd = s.client[c].fd
      BY <1>1
    <3> HIDE DEF p, q
    <3> QED BY <2>1, <2>2, <2>3, <3>1, FieldsGood DEF p, q
  <2> QED BY <2>1, <2>3, <2>4 DEF Fields
<1>3. CASE r = aeDeleteFileEvent(s, fd, WRITABLE)
  <2> DEFINE u == [v EXCEPT !.mask = @ \ {WRITABLE}]
  <2>1. r = [s EXCEPT !.events = [s.events EXCEPT ![fd] = u]]
    BY <1>1, <1>3 DEF aeDeleteFileEvent, ServerFields
  <2>2. u \in FileEvent /\ READABLE \in u.mask /\ u.clientData = {c} /\ WRITABLE \notin u.mask
    BY <1>1 DEF FileEvent, READABLE, WRITABLE
  <2> HIDE DEF u
  <2>3. GoodServer(r) /\ Only(s, r, c) /\ r.client[c] = s.client[c] /\ r.events[fd] = u
    BY <1>2, <2>1, <2>2
  <2>4. ~Handler(r, c)
    BY <2>2, <2>3 DEF Handler
  <2>5. r # aeCreateFileEvent(s, fd, WRITABLE, c)
    <3>1. aeCreateFileEvent(s, fd, WRITABLE, c).events[fd].mask = v.mask \cup {WRITABLE}
      BY <1>1 DEF aeCreateFileEvent, ServerFields
    <3> QED BY <2>2, <2>3, <3>1
  <2> QED BY <2>3, <2>4, <2>5
<1>4. CASE r = aeCreateFileEvent(s, fd, WRITABLE, c)
  <2> DEFINE u == [mask |-> v.mask \cup {WRITABLE}, clientData |-> {c}]
  <2>1. r = [s EXCEPT !.events = [s.events EXCEPT ![fd] = u]]
    BY <1>1, <1>4 DEF aeCreateFileEvent, ServerFields
  <2>2. u \in FileEvent /\ READABLE \in u.mask /\ u.clientData = {c} /\ WRITABLE \in u.mask
    BY <1>1 DEF FileEvent
  <2> HIDE DEF u
  <2>3. GoodServer(r) /\ Only(s, r, c) /\ r.client[c] = s.client[c] /\ r.events[fd] = u
    BY <1>2, <2>1, <2>2
  <2>4. Handler(r, c)
    BY <2>2, <2>3 DEF Handler
  <2>5. r # aeDeleteFileEvent(s, fd, WRITABLE)
    <3>1. aeDeleteFileEvent(s, fd, WRITABLE).events[fd].mask = v.mask \ {WRITABLE}
      BY <1>1 DEF aeDeleteFileEvent, ServerFields, FileEvent
    <3> QED BY <2>2, <2>3, <3>1
  <2> QED BY <2>3, <2>4, <2>5
<1> QED BY <1>3, <1>4

\* The first of the list of pending writes leaves it.
LEMMA UnflaggedGood ==
  ASSUME NEW s, GoodServer(s), NEW c, s.clients_pending_write # <<>>,
         c = Head(s.clients_pending_write), NEW r,
         r = ClearFlag([s EXCEPT !.clients_pending_write = Tail(@)], c, PENDING_WRITE)
  PROVE  /\ c \in ToSet(s.clients) /\ PENDING_WRITE \in s.client[c].flags
         /\ GoodServer(r) /\ Only(s, r, c) /\ r.events = s.events
         /\ r.client[c] = Reflagged(s.client[c], s.client[c].flags \ {PENDING_WRITE})
<1> DEFINE l == s.clients_pending_write
           p == Tail(l)
           q == s.clients_to_close
           e == s.events
           x == s.client[c]
           fl == x.flags \ {PENDING_WRITE}
           y == Reflagged(x, fl)
<1>1. l \in Seq(Client) /\ Distinct(l)
  BY DEF GoodServer, ServerTypes, OneList
<1> HIDE DEF l
<1>2. /\ p \in Seq(Client) /\ Distinct(p) /\ c \in ToSet(l) /\ ToSet(p) = ToSet(l) \ {c}
  BY <1>1, TailFacts DEF l
<1> HIDE DEF p
<1>3. c \in Client
  BY <1>1, <1>2, ToSetMember
<1>4. PENDING_WRITE \in x.flags /\ c \in ToSet(s.clients)
  <2>1. PENDING_WRITE \in x.flags
    BY <1>2, <1>3 DEF GoodServer, l
  <2>2. NewClient(-1).flags = {}
    BY DEF NewClient
  <2> QED BY <1>3, <2>1, <2>2 DEF GoodServer
<1>5. x \in ClientRec /\ Bytes(x) /\ fl \in SUBSET Flags
  BY <1>4, LiveFacts DEF ClientRec
<1>6. y \in ClientRec /\ Bytes(y) /\ y.flags = fl /\ y.fd = x.fd
  BY <1>5, ReflaggedFacts
<1>7. Fields(s, r, c, y, p, q, e)
  BY <1>4, LiveFacts DEF ClearFlag, Fields, ServerFields, Reflagged, p, l
<1>8. CLOSE_ASAP \in fl <=> CLOSE_ASAP \in x.flags
  BY DEF CLOSE_ASAP, PENDING_WRITE
<1> HIDE DEF y
<1>9. /\ ListAgrees(p, s.clients_pending_write, c, y, PENDING_WRITE)
      /\ ListAgrees(q, s.clients_to_close, c, y, CLOSE_ASAP)
      /\ EventsAgree(e, s.events, y.fd, c)
      /\ y \in ClientRec /\ Bytes(y) /\ y.fd = s.client[c].fd
  <2>1. ListAgrees(p, s.clients_pending_write, c, y, PENDING_WRITE)
    BY <1>2, <1>6 DEF ListAgrees, OneList, l
  <2>2. ListAgrees(q, q, c, y, CLOSE_ASAP) /\ EventsAgree(e, e, y.fd, c)
    BY <1>4, <1>6, <1>8, LiveFacts DEF ListAgrees
  <2> QED BY <1>6, <2>1, <2>2
<1> HIDE DEF q, e
<1>10. GoodServer(r) /\ Only(s, r, c) /\ r.client[c] = y
  <2>1. Replaces(s, r, c, y, p, q, e)
    BY <1>7, <1>9 DEF Replaces
  <2>2. c \in ToSet(s.clients)
    BY <1>4
  <2> QED BY <2>1, <2>2, ReplacesGood
<1> QED BY <1>4, <1>7, <1>10 DEF Fields, y, e

\* The lists after c is removed from those its flags say it is on
LeftBy(l, c, on) == IF on THEN RemoveFirst(l, c) ELSE l

LEMMA LeftByFacts ==
  ASSUME NEW l, OneList(l), NEW c \in Client, NEW on \in BOOLEAN, c \in ToSet(l) <=> on
  PROVE  OneList(LeftBy(l, c, on)) /\ ToSet(LeftBy(l, c, on)) = ToSet(l) \ {c}
<1>1. CASE on
  <2>1. l \in Seq(Client) /\ Distinct(l) /\ c \in ToSet(l)
    BY <1>1 DEF OneList
  <2>2. /\ RemoveFirst(l, c) \in Seq(Client) /\ Distinct(RemoveFirst(l, c))
        /\ ToSet(RemoveFirst(l, c)) = ToSet(l) \ {c}
    BY <2>1, RemoveFirstFacts
  <2> QED BY <1>1, <2>2 DEF LeftBy, OneList
<1>2. CASE ~on
  BY <1>2 DEF LeftBy
<1> QED BY <1>1, <1>2

\* c is gone, and nothing else changed.
Freed(s, r, c) ==
  /\ GoodServer(r)
  /\ ToSet(r.clients) = ToSet(s.clients) \ {c}
  /\ r.client[c] = NewClient(-1)
  /\ \A d \in Client : d # c => r.client[d] = s.client[d]
  /\ \A f \in Fd : f # s.client[c].fd => r.events[f] = s.events[f]
  /\ r.events[s.client[c].fd].mask = {}

LEMMA NewClientFacts ==
  ASSUME NEW fd \in Fd \cup {-1}
  PROVE  /\ NewClient(fd) \in ClientRec /\ Bytes(NewClient(fd)) /\ NewClient(fd).flags = {}
         /\ NewClient(fd).fd = fd /\ NewClient(fd).made = 0 /\ NewClient(fd).querybuf = <<>>
         /\ Unsent(NewClient(fd)) = <<>> /\ ~clientHasPendingReplies(NewClient(fd))
<1> DEFINE x == NewClient(fd)
<1>1. /\ x \in ClientRec /\ x.flags = {} /\ x.fd = fd /\ x.made = 0 /\ x.querybuf = <<>>
      /\ x.reply = <<>> /\ x.buf = <<>> /\ x.sentlen = 0 /\ x.reply_bytes = 0
  BY DEF NewClient, ClientRec
<1> HIDE DEF x
<1>2. ~clientHasPendingReplies(x)
  BY <1>1 DEF clientHasPendingReplies
<1>3. Bytes(x)
  BY <1>1, MemoryEmpty DEF Bytes
<1>4. Unsent(x) = <<>>
  BY <1>1, <1>2, <1>3, UnsentIs
<1> QED BY <1>1, <1>2, <1>3, <1>4 DEF x

\* An event that neither reads nor writes
Silent(v) == [v EXCEPT !.mask = (v.mask \ {READABLE}) \ {WRITABLE}]

LEMMA FreeFields ==
  ASSUME NEW s, GoodServer(s), NEW c, c \in ToSet(s.clients), NEW r, r = freeClient(s, c)
  PROVE  /\ DOMAIN r = ServerFields
         /\ r.client = [s.client EXCEPT ![c] = NewClient(-1)]
         /\ r.clients = RemoveFirst(s.clients, c)
         /\ r.clients_pending_write = LeftBy(s.clients_pending_write, c, PENDING_WRITE \in s.client[c].flags)
         /\ r.clients_to_close = LeftBy(s.clients_to_close, c, CLOSE_ASAP \in s.client[c].flags)
         /\ r.events = [s.events EXCEPT ![s.client[c].fd] = Silent(s.events[s.client[c].fd])]
<1> DEFINE fd == s.client[c].fd
           a == aeDeleteFileEvent(aeDeleteFileEvent(s, fd, READABLE), fd, WRITABLE)
           u == [a EXCEPT !.clients = RemoveFirst(@, c), !.client[c].fd = -1]
           k == unlinkClient(s, c)
           q == IF HasFlag(s, c, CLOSE_ASAP)
                THEN [k EXCEPT !.clients_to_close = RemoveFirst(@, c)] ELSE k
<1>1. /\ DOMAIN s = ServerFields /\ c \in Client /\ fd \in Fd
      /\ s.client \in [Client -> ClientRec] /\ s.events \in [Fd -> FileEvent]
  BY LiveFacts DEF GoodServer, ServerTypes
<1>2. /\ DOMAIN a = ServerFields /\ a.client = s.client /\ a.clients = s.clients
      /\ a.clients_pending_write = s.clients_pending_write
      /\ a.clients_to_close = s.clients_to_close
      /\ a.events = [s.events EXCEPT ![fd] = Silent(s.events[fd])]
  <2> DEFINE b == aeDeleteFileEvent(s, fd, READABLE)
             v == s.events[fd]
  <2>1. /\ DOMAIN b = ServerFields /\ b.client = s.client /\ b.clients = s.clients
        /\ b.clients_pending_write = s.clients_pending_write
        /\ b.clients_to_close = s.clients_to_close
        /\ b.events = [s.events EXCEPT ![fd] = [v EXCEPT !.mask = v.mask \ {READABLE}]]
    BY <1>1 DEF aeDeleteFileEvent, ServerFields
  <2>2. v \in FileEvent
    BY <1>1
  <2> DEFINE v1 == [v EXCEPT !.mask = v.mask \ {READABLE}]
             v2 == [v1 EXCEPT !.mask = v1.mask \ {WRITABLE}]
  <2>3. v2 = [v EXCEPT !.mask = (v.mask \ {READABLE}) \ {WRITABLE}]
    BY <2>2 DEF FileEvent
  <2> HIDE DEF b, v, v1, v2
  <2>4. b.events[fd] = v1
    BY <1>1, <2>1 DEF v1
  <2>5. /\ DOMAIN a = ServerFields /\ a.client = b.client /\ a.clients = b.clients
        /\ a.clients_pending_write = b.clients_pending_write
        /\ a.clients_to_close = b.clients_to_close
        /\ a.events = [b.events EXCEPT ![fd] = v2]
    BY <1>1, <2>1, <2>4 DEF aeDeleteFileEvent, ServerFields, b, v2
  <2>6. [b.events EXCEPT ![fd] = v2] = [s.events EXCEPT ![fd] = v2]
    BY <1>1, <2>1
  <2>7. a.events = [s.events EXCEPT ![fd] = v2]
    BY <2>5, <2>6
  <2>8. a.events = [s.events EXCEPT ![fd] = Silent(s.events[fd])]
    BY <2>3, <2>7 DEF v, Silent
  <2> HIDE DEF a
  <2> QED BY <2>1, <2>5, <2>8
<1> HIDE DEF a
<1>3. /\ DOMAIN u = ServerFields /\ u.clients = RemoveFirst(s.clients, c)
      /\ u.clients_pending_write = s.clients_pending_write
      /\ u.clients_to_close = s.clients_to_close /\ u.events = a.events
      /\ DOMAIN u.client = Client /\ \A d \in Client : d # c => u.client[d] = s.client[d]
  BY <1>1, <1>2 DEF ServerFields
<1>4. k = IF ~HasFlag(s, c, PENDING_WRITE) THEN u
          ELSE ClearFlag([u EXCEPT !.clients_pending_write = RemoveFirst(@, c)], c, PENDING_WRITE)
  BY DEF unlinkClient, a
<1>5. r = With(q, c, NewClient(-1))
  BY DEF freeClient
<1> HIDE DEF u, k
<1>6. /\ DOMAIN k = ServerFields /\ k.clients = u.clients
      /\ k.clients_pending_write = LeftBy(s.clients_pending_write, c, PENDING_WRITE \in s.client[c].flags)
      /\ k.clients_to_close = s.clients_to_close /\ k.events = a.events
      /\ DOMAIN k.client = Client /\ \A d \in Client : d # c => k.client[d] = s.client[d]
  <2>1. CASE ~HasFlag(s, c, PENDING_WRITE)
    BY <1>3, <1>4, <2>1 DEF HasFlag, LeftBy
  <2>2. CASE HasFlag(s, c, PENDING_WRITE)
    BY <1>1, <1>3, <1>4, <2>2 DEF HasFlag, LeftBy, ClearFlag, ServerFields
  <2> QED BY <2>1, <2>2
<1>7. /\ DOMAIN q = ServerFields /\ q.clients = k.clients
      /\ q.clients_pending_write = k.clients_pending_write
      /\ q.clients_to_close = LeftBy(s.clients_to_close, c, CLOSE_ASAP \in s.client[c].flags)
      /\ q.events = a.events /\ q.client = k.client
  <2>1. CASE ~HasFlag(s, c, CLOSE_ASAP)
    BY <1>6, <2>1 DEF HasFlag, LeftBy
  <2>2. CASE HasFlag(s, c, CLOSE_ASAP)
    BY <1>6, <2>2 DEF HasFlag, LeftBy, ServerFields
  <2> QED BY <2>1, <2>2
<1> HIDE DEF q
<1>8. /\ DOMAIN r = ServerFields /\ r.clients = q.clients
      /\ r.clients_pending_write = q.clients_pending_write
      /\ r.clients_to_close = q.clients_to_close /\ r.events = q.events
      /\ r.client = [q.client EXCEPT ![c] = NewClient(-1)]
  BY <1>5, <1>7 DEF With, ServerFields
<1>9. r.client = [s.client EXCEPT ![c] = NewClient(-1)]
  <2> DEFINE N == NewClient(-1)
  <2> HIDE DEF N
  <2> QED BY <1>1, <1>6, <1>7, <1>8 DEF N
<1> QED BY <1>2, <1>3, <1>6, <1>7, <1>8, <1>9

\* freeClient, for a client that is in the list of clients
LEMMA FreeGood ==
  ASSUME NEW s, GoodServer(s), NEW c, c \in ToSet(s.clients), NEW r, r = freeClient(s, c)
  PROVE  Freed(s, r, c)
<1> DEFINE x == s.client[c]
           fd == x.fd
           N == NewClient(-1)
           p == s.clients_pending_write
           q == s.clients_to_close
<1>1. /\ DOMAIN s = ServerFields /\ c \in Client /\ fd \in Fd /\ x \in ClientRec
      /\ s.client \in [Client -> ClientRec] /\ s.events \in [Fd -> FileEvent]
      /\ s.events[fd].clientData = {c}
      /\ OneList(s.clients) /\ OneList(p) /\ OneList(q)
      /\ c \in ToSet(p) <=> PENDING_WRITE \in x.flags
      /\ c \in ToSet(q) <=> CLOSE_ASAP \in x.flags
  BY LiveFacts DEF GoodServer, ServerTypes, EventsAgree
<1>2. N \in ClientRec /\ Bytes(N) /\ N.flags = {} /\ N.fd = -1
  BY NewClientFacts
<1> HIDE DEF N
<1>3. /\ DOMAIN r = ServerFields
      /\ r.client = [s.client EXCEPT ![c] = N]
      /\ r.clients = RemoveFirst(s.clients, c)
      /\ r.clients_pending_write = LeftBy(p, c, PENDING_WRITE \in x.flags)
      /\ r.clients_to_close = LeftBy(q, c, CLOSE_ASAP \in x.flags)
      /\ r.events = [s.events EXCEPT ![fd] = Silent(s.events[fd])]
  BY FreeFields DEF N
<1>4. /\ r.client \in [Client -> ClientRec] /\ r.client[c] = N
      /\ \A d \in Client : d # c => r.client[d] = s.client[d]
  BY <1>1, <1>2, <1>3
<1>5. OneList(r.clients) /\ ToSet(r.clients) = ToSet(s.clients) \ {c}
  <2>1. r.clients = LeftBy(s.clients, c, TRUE)
    BY <1>3 DEF LeftBy
  <2>2. c \in ToSet(s.clients) <=> TRUE
    OBVIOUS
  <2> DEFINE l == s.clients
             on == TRUE
  <2>3. OneList(l) /\ on \in BOOLEAN /\ (c \in ToSet(l) <=> on) /\ c \in Client
    BY <1>1, <2>2
  <2> HIDE DEF l, on
  <2>4. OneList(LeftBy(l, c, on)) /\ ToSet(LeftBy(l, c, on)) = ToSet(l) \ {c}
    BY <2>3, LeftByFacts
  <2> QED BY <2>1, <2>4 DEF l, on
<1>6. OneList(r.clients_pending_write) /\ ToSet(r.clients_pending_write) = ToSet(p) \ {c}
  <2> DEFINE on == PENDING_WRITE \in x.flags
  <2>1. OneList(p) /\ on \in BOOLEAN /\ (c \in ToSet(p) <=> on) /\ c \in Client
    BY <1>1
  <2>2. r.clients_pending_write = LeftBy(p, c, on)
    BY <1>3
  <2> HIDE DEF p, on
  <2> QED BY <2>1, <2>2, LeftByFacts
<1>7. OneList(r.clients_to_close) /\ ToSet(r.clients_to_close) = ToSet(q) \ {c}
  <2> DEFINE on == CLOSE_ASAP \in x.flags
  <2>1. OneList(q) /\ on \in BOOLEAN /\ (c \in ToSet(q) <=> on) /\ c \in Client
    BY <1>1
  <2>2. r.clients_to_close = LeftBy(q, c, on)
    BY <1>3
  <2> HIDE DEF q, on
  <2> QED BY <2>1, <2>2, LeftByFacts
<1>8. /\ r.events \in [Fd -> FileEvent] /\ r.events[fd].mask = {}
      /\ \A f \in Fd : f # fd => r.events[f] = s.events[f]
  <2> DEFINE v == s.events[fd]
             u == [v EXCEPT !.mask = (v.mask \ {READABLE}) \ {WRITABLE}]
  <2>1. r.events = [s.events EXCEPT ![fd] = u]
    BY <1>3 DEF Silent
  <2>2. v \in FileEvent
    BY <1>1
  <2> HIDE DEF v
  <2>3. u \in FileEvent /\ u.mask = {}
    BY <2>2 DEF FileEvent
  <2> HIDE DEF u
  <2> QED BY <1>1, <2>1, <2>3
<1>9. ServerTypes(r)
  BY <1>3, <1>4, <1>5, <1>6, <1>7, <1>8 DEF ServerTypes, ServerFields
<1>10. ASSUME NEW d \in Client
       PROVE  /\ Bytes(r.client[d])
              /\ d \in ToSet(r.clients_pending_write) <=> PENDING_WRITE \in r.client[d].flags
              /\ d \in ToSet(r.clients_to_close) <=> CLOSE_ASAP \in r.client[d].flags
              /\ d \notin ToSet(r.clients) => r.client[d] = N
              /\ d \in ToSet(r.clients) =>
                   /\ r.client[d].fd \in Fd
                   /\ READABLE \in r.events[r.client[d].fd].mask
                   /\ r.events[r.client[d].fd].clientData = {d}
  <2>1. CASE d = c
    BY <1>2, <1>4, <1>5, <1>6, <1>7, <2>1
  <2>2. CASE d # c
    <3>1. r.client[d] = s.client[d]
      BY <1>4, <2>2
    <3>2. /\ Bytes(s.client[d])
          /\ d \in ToSet(p) <=> PENDING_WRITE \in s.client[d].flags
          /\ d \in ToSet(q) <=> CLOSE_ASAP \in s.client[d].flags
          /\ d \notin ToSet(s.clients) => s.client[d] = N
          /\ d \in ToSet(s.clients) =>
               /\ s.client[d].fd \in Fd
               /\ READABLE \in s.events[s.client[d].fd].mask
               /\ s.events[s.client[d].fd].clientData = {d}
      BY DEF GoodServer, N
    <3>3. d \in ToSet(s.clients) => s.client[d].fd # fd
      BY <1>1, <2>2, <3>2
    <3>4. d \in ToSet(r.clients) <=> d \in ToSet(s.clients)
      BY <1>5, <2>2
    <3>5. d \in ToSet(s.clients) => r.events[s.client[d].fd] = s.events[s.client[d].fd]
      BY <1>8, <3>2, <3>3
    <3> QED BY <1>6, <1>7, <2>2, <3>1, <3>2, <3>4, <3>5
  <2> QED BY <2>1, <2>2
<1>11. ASSUME NEW f \in Fd, r.events[f].mask # {}
       PROVE  \E d \in Client : d \in ToSet(r.clients) /\ r.client[d].fd = f
  <2>1. f # fd
    BY <1>8, <1>11
  <2>2. s.events[f].mask # {}
    BY <1>8, <1>11, <2>1
  <2>3. PICK d \in Client : d \in ToSet(s.clients) /\ s.client[d].fd = f
    BY <2>2 DEF GoodServer
  <2>4. d # c
    BY <2>1, <2>3
  <2>5. d \in ToSet(r.clients) /\ r.client[d].fd = f
    BY <1>4, <1>5, <2>3, <2>4
  <2> QED BY <2>3, <2>5
<1>12. GoodServer(r)
  BY <1>9, <1>10, <1>11 DEF GoodServer, N
<1> QED BY <1>4, <1>5, <1>8, <1>12 DEF Freed, N

LEMMA OnlyFreed ==
  ASSUME NEW s, NEW q, NEW r, NEW c, Only(s, q, c), Freed(q, r, c)
  PROVE  Freed(s, r, c)
BY DEF Only, Freed

\* What writeToClient leaves when the socket took n bytes of c
Stays(s, w, c, n, h) ==
  LET y == AfterWrite(s.client[c], n) IN
  /\ GoodServer(w) /\ Only(s, w, c) /\ w.client[c] = y
  /\ clientHasPendingReplies(y) \/ ~h => w.events = s.events
  /\ ~clientHasPendingReplies(y) /\ h => ~Handler(w, c)
  /\ clientHasPendingReplies(y) \/ CLOSE_AFTER_REPLY \notin y.flags
Ends(s, w, c, n) ==
  /\ Freed(s, w, c) /\ CLOSE_AFTER_REPLY \in s.client[c].flags
  /\ ~clientHasPendingReplies(AfterWrite(s.client[c], n))

LEMMA WriteGood ==
  ASSUME NEW s, GoodServer(s), NEW c, c \in ToSet(s.clients), NEW n \in Nat,
         n <= Len(Unsent(s.client[c])), NEW h \in BOOLEAN, NEW w, w = writeToClient(s, c, n, h)
  PROVE  Stays(s, w, c, n, h) \/ Ends(s, w, c, n)
<1> DEFINE x == s.client[c]
           y == AfterWrite(x, n)
           r == With(s, c, y)
           q == IF h THEN aeDeleteFileEvent(r, y.fd, WRITABLE) ELSE r
<1>1. x \in ClientRec /\ Bytes(x)
  BY LiveFacts
<1>2. y \in ClientRec /\ Bytes(y) /\ y.fd = x.fd /\ y.flags = x.flags
  <2> HIDE DEF x
  <2>1. n <= Len(Unsent(x))
    BY DEF x
  <2> QED BY <1>1, <2>1, AfterWriteFacts
<1>3. w = IF clientHasPendingReplies(y) THEN r
          ELSE IF HasFlag(q, c, CLOSE_AFTER_REPLY) THEN freeClient(q, c) ELSE q
  BY DEF writeToClient
<1> HIDE DEF y
<1>4. GoodServer(r) /\ Only(s, r, c) /\ r.client[c] = y /\ r.events = s.events
  <2>1. y.fd = s.client[c].fd /\ y.flags \ {CLOSE_AFTER_REPLY} = s.client[c].flags \ {CLOSE_AFTER_REPLY}
    BY <1>2
  <2>2. y \in ClientRec /\ Bytes(y)
    BY <1>2
  <2> QED BY <2>1, <2>2, WithGood
<1> HIDE DEF r
<1>5. c \in ToSet(r.clients)
  BY <1>4 DEF Only
<1>6. /\ GoodServer(q) /\ Only(s, q, c) /\ q.client[c] = y
      /\ h => ~Handler(q, c)
      /\ ~h => q.events = s.events
  <2>1. CASE h
    <3>1. q = aeDeleteFileEvent(r, r.client[c].fd, WRITABLE)
      BY <1>4, <2>1
    <3> HIDE DEF q
    <3>2. GoodServer(q) /\ Only(r, q, c) /\ q.client[c] = r.client[c] /\ ~Handler(q, c)
      BY <1>4, <1>5, <3>1, HandlerGood
    <3>3. Only(s, q, c)
      BY <1>4, <3>2, OnlyTrans
    <3> QED BY <1>4, <2>1, <3>2, <3>3
  <2>2. CASE ~h
    BY <1>4, <2>2
  <2> QED BY <2>1, <2>2
<1> HIDE DEF q
<1>7. CASE clientHasPendingReplies(y)
  BY <1>3, <1>4, <1>7 DEF Stays, y
<1>8. CASE ~clientHasPendingReplies(y) /\ HasFlag(q, c, CLOSE_AFTER_REPLY)
  <2>1. w = freeClient(q, c) /\ c \in ToSet(q.clients)
    BY <1>3, <1>6, <1>8 DEF Only
  <2>2. Freed(q, w, c)
    BY <1>6, <2>1, FreeGood
  <2>3. Freed(s, w, c)
    BY <1>6, <2>2, OnlyFreed
  <2> QED BY <1>2, <1>6, <1>8, <2>3 DEF Ends, HasFlag, y
<1>9. CASE ~clientHasPendingReplies(y) /\ ~HasFlag(q, c, CLOSE_AFTER_REPLY)
  BY <1>3, <1>6, <1>9 DEF Stays, HasFlag, y
<1> QED BY <1>7, <1>8, <1>9

\* c is there, as it was made, and nothing else changed.
Made(s, r, c, f) ==
  /\ GoodServer(r)
  /\ ToSet(r.clients) = ToSet(s.clients) \cup {c}
  /\ r.client[c] = NewClient(f)
  /\ \A d \in Client : d # c => r.client[d] = s.client[d]
  /\ \A g \in Fd : g # f => r.events[g] = s.events[g]
  /\ r.events[f].mask = {READABLE}

\* createClient, with a descriptor that no client has
LEMMA CreateGood ==
  ASSUME NEW s, GoodServer(s), NEW c \in Client, c \notin ToSet(s.clients), NEW f \in Fd,
         \A d \in Client : s.client[d].fd # f, NEW r, r = createClient(s, c, f)
  PROVE  Made(s, r, c, f)
<1> DEFINE N == NewClient(f)
           l == s.clients
<1>1. /\ DOMAIN s = ServerFields /\ OneList(l)
      /\ OneList(s.clients_pending_write) /\ OneList(s.clients_to_close)
      /\ s.client \in [Client -> ClientRec] /\ s.events \in [Fd -> FileEvent]
  BY DEF GoodServer, ServerTypes, ServerFields
<1>2. N \in ClientRec /\ Bytes(N) /\ N.flags = {} /\ N.fd = f
  BY NewClientFacts
<1>3. s.events[f].mask = {}
  BY DEF GoodServer
<1> DEFINE u == [mask |-> {READABLE}, clientData |-> {c}]
<1>4. u \in FileEvent
  BY DEF FileEvent
<1>5. /\ DOMAIN r = ServerFields /\ r.client = [s.client EXCEPT ![c] = N]
      /\ r.clients = Append(l, c) /\ r.clients_pending_write = s.clients_pending_write
      /\ r.clients_to_close = s.clients_to_close
      /\ r.events = [s.events EXCEPT ![f] = u]
  <2>1. s.events[f].mask \cup {READABLE} = {READABLE}
    BY <1>3
  <2> HIDE DEF N
  <2> QED BY <1>1, <2>1 DEF createClient, aeCreateFileEvent, ServerFields, N
<1>6. u.mask = {READABLE} /\ u.clientData = {c}
  OBVIOUS
<1> HIDE DEF N, u
<1>7. /\ r.client \in [Client -> ClientRec] /\ r.client[c] = N
      /\ \A d \in Client : d # c => r.client[d] = s.client[d]
  BY <1>1, <1>2, <1>5
<1>8. /\ r.events \in [Fd -> FileEvent] /\ r.events[f] = u
      /\ \A g \in Fd : g # f => r.events[g] = s.events[g]
  BY <1>1, <1>4, <1>5
<1>9. OneList(r.clients) /\ ToSet(r.clients) = ToSet(l) \cup {c}
  <2>1. l \in Seq(Client) /\ Distinct(l) /\ c \notin ToSet(l)
    BY <1>1 DEF OneList
  <2> HIDE DEF l
  <2>2. /\ Append(l, c) \in Seq(Client) /\ ToSet(Append(l, c)) = ToSet(l) \cup {c}
        /\ Distinct(Append(l, c))
    BY <2>1, AppendFacts
  <2> QED BY <1>5, <2>2 DEF OneList
<1>10. ServerTypes(r)
  BY <1>1, <1>5, <1>7, <1>8, <1>9 DEF ServerTypes, ServerFields
<1>11. ASSUME NEW d \in Client
       PROVE  /\ Bytes(r.client[d])
              /\ d \in ToSet(r.clients_pending_write) <=> PENDING_WRITE \in r.client[d].flags
              /\ d \in ToSet(r.clients_to_close) <=> CLOSE_ASAP \in r.client[d].flags
              /\ d \notin ToSet(r.clients) => r.client[d] = NewClient(-1)
              /\ d \in ToSet(r.clients) =>
                   /\ r.client[d].fd \in Fd
                   /\ READABLE \in r.events[r.client[d].fd].mask
                   /\ r.events[r.client[d].fd].clientData = {d}
  <2>0. /\ Bytes(s.client[d])
        /\ d \in ToSet(s.clients_pending_write) <=> PENDING_WRITE \in s.client[d].flags
        /\ d \in ToSet(s.clients_to_close) <=> CLOSE_ASAP \in s.client[d].flags
        /\ d \notin ToSet(s.clients) => s.client[d] = NewClient(-1)
        /\ d \in ToSet(s.clients) =>
             /\ s.client[d].fd \in Fd
             /\ READABLE \in s.events[s.client[d].fd].mask
             /\ s.events[s.client[d].fd].clientData = {d}
    BY DEF GoodServer
  <2>1. CASE d = c
    <3>1. s.client[d].flags = {}
      <4>1. NewClient(-1).flags = {}
        BY DEF NewClient
      <4> QED BY <2>0, <2>1, <4>1
    <3>2. d \notin ToSet(r.clients_pending_write) /\ d \notin ToSet(r.clients_to_close)
      BY <1>5, <2>0, <3>1
    <3>3. d \in ToSet(r.clients) /\ r.client[d] = N
      BY <1>7, <1>9, <2>1
    <3>4. READABLE \in r.events[f].mask /\ r.events[f].clientData = {d}
      BY <1>6, <1>8, <2>1
    <3> QED BY <1>2, <3>2, <3>3, <3>4
  <2>2. CASE d # c
    <3>1. r.client[d] = s.client[d] /\ s.client[d].fd # f
      BY <1>7, <2>2
    <3>2. d \in ToSet(r.clients) <=> d \in ToSet(s.clients)
      BY <1>9, <2>2
    <3>3. d \in ToSet(s.clients) => r.events[s.client[d].fd] = s.events[s.client[d].fd]
      BY <1>8, <2>0, <3>1
    <3> QED BY <1>5, <2>0, <3>1, <3>2, <3>3
  <2> QED BY <2>1, <2>2
<1>12. ASSUME NEW g \in Fd, r.events[g].mask # {}
       PROVE  \E d \in Client : d \in ToSet(r.clients) /\ r.client[d].fd = g
  <2>1. CASE g = f
    BY <1>2, <1>7, <1>9, <2>1
  <2>2. CASE g # f
    <3>1. s.events[g].mask # {}
      BY <1>8, <1>12, <2>2
    <3>2. PICK d \in Client : d \in ToSet(s.clients) /\ s.client[d].fd = g
      BY <3>1 DEF GoodServer
    <3>3. d # c
      BY <3>2
    <3>4. d \in ToSet(r.clients) /\ r.client[d].fd = g
      BY <1>7, <1>9, <3>2, <3>3
    <3> QED BY <3>2, <3>4
  <2> QED BY <2>1, <2>2
<1>13. GoodServer(r)
  BY <1>10, <1>11, <1>12 DEF GoodServer
<1> QED BY <1>6, <1>7, <1>8, <1>9, <1>13 DEF Made, N, l

-----------------------------------------------------------------------------
(* A step touches one client and its descriptor.                           *)

Near(s, r, c, fd) ==
  /\ GoodServer(r)
  /\ \A d \in Client : d # c => /\ r.client[d] = s.client[d]
                                /\ d \in ToSet(r.clients) <=> d \in ToSet(s.clients)
                                /\ d \in ToSet(s.clients) => s.client[d].fd # fd
  /\ \A f \in Fd : f # fd => r.events[f] = s.events[f]

\* What ClosingIsFinal and AllSentBeforeClose say of one client
Final(c) ==
  HasFlag(server, c, CLOSE_AFTER_REPLY) =>
    \/ c \notin ToSet(server'.clients)
    \/ /\ HasFlag(server', c, CLOSE_AFTER_REPLY)
       /\ server'.client[c].made = server.client[c].made
       /\ Len(server'.client[c].querybuf) >= Len(server.client[c].querybuf)
SentAll(c) ==
  /\ HasFlag(server, c, CLOSE_AFTER_REPLY) /\ c \notin ToSet(server'.clients)
  /\ loop.phase # "read" /\ ~sock[c].hungup
  => Len(sock'[c].wire) = server.client[c].made

Outcome(c) == Connection(server', sock'[c], c) /\ Final(c) /\ SentAll(c)

Effect ==
  \E c \in Client : \E fd :
    /\ Near(server, server', c, fd) /\ Outcome(c)
    /\ sock' \in [Client -> SockRec] /\ \A d \in Client : d # c => sock'[d] = sock[d]

Results == GoodServer(server') /\ sock' \in [Client -> SockRec] /\ \A c \in Client : Outcome(c)

LEMMA FlaggedIsLive ==
  ASSUME NEW s, GoodServer(s), NEW c \in Client, NEW fl, HasFlag(s, c, fl)
  PROVE  c \in ToSet(s.clients)
<1>1. NewClient(-1).flags = {}
  BY DEF NewClient
<1> QED BY <1>1 DEF GoodServer, HasFlag

LEMMA NearConnection ==
  ASSUME NEW s, GoodServer(s), NEW r, NEW c, NEW fd, Near(s, r, c, fd), NEW d \in Client, d # c,
         NEW k, Connection(s, k, d)
  PROVE  Connection(r, k, d)
<1>1. /\ r.client[d] = s.client[d]
      /\ d \in ToSet(r.clients) <=> d \in ToSet(s.clients)
      /\ d \in ToSet(s.clients) => s.client[d].fd # fd
  BY DEF Near
<1>2. d \in ToSet(s.clients) => r.events[s.client[d].fd] = s.events[s.client[d].fd]
  <2>1. d \in ToSet(s.clients) => s.client[d].fd \in Fd
    BY DEF GoodServer
  <2> QED BY <1>1, <2>1 DEF Near
<1>3. d \in ToSet(s.clients) /\ Scheduled(s, d) => Scheduled(r, d)
  BY <1>1, <1>2 DEF Scheduled, Handler
<1> QED BY <1>1, <1>3 DEF Connection

LEMMA EffectResults ==
  ASSUME ServerInv, Effect
  PROVE  Results
<1>1. PICK c \in Client : \E fd :
        /\ Near(server, server', c, fd) /\ Outcome(c)
        /\ sock' \in [Client -> SockRec] /\ \A d \in Client : d # c => sock'[d] = sock[d]
  BY DEF Effect
<1>2. PICK fd : Near(server, server', c, fd)
  BY <1>1
<1>3. Outcome(c) /\ sock' \in [Client -> SockRec] /\ \A d \in Client : d # c => sock'[d] = sock[d]
  BY <1>1
<1>4. GoodServer(server) /\ \A d \in Client : Connection(server, sock[d], d)
  BY DEF ServerInv
<1>5. ASSUME NEW d \in Client, d # c PROVE Outcome(d)
  <2>1. sock'[d] = sock[d]
    BY <1>3, <1>5
  <2>2. Connection(server', sock[d], d)
    <3> DEFINE r == server'
               k == sock[d]
    <3>1. Near(server, r, c, fd) /\ Connection(server, k, d)
      BY <1>2, <1>4
    <3> HIDE DEF r, k
    <3>2. Connection(r, k, d)
      BY <1>4, <1>5, <3>1, NearConnection
    <3> QED BY <3>2 DEF r, k
  <2>3. /\ server'.client[d] = server.client[d]
        /\ d \in ToSet(server'.clients) <=> d \in ToSet(server.clients)
    BY <1>2, <1>5 DEF Near
  <2>4. HasFlag(server, d, CLOSE_AFTER_REPLY) => d \in ToSet(server.clients)
    BY <1>4, FlaggedIsLive
  <2>5. Final(d)
    <3>1. \A fl : HasFlag(server', d, fl) <=> HasFlag(server, d, fl)
      BY <2>3 DEF HasFlag
    <3>2. server.client[d].querybuf \in Seq(Request)
      <4>1. server.client[d] \in ClientRec
        BY <1>4 DEF GoodServer, ServerTypes
      <4> QED BY <4>1 DEF ClientRec
    <3>3. Len(server.client[d].querybuf) >= Len(server.client[d].querybuf)
      BY <3>2
    <3> QED BY <2>3, <3>1, <3>3 DEF Final
  <2>6. SentAll(d)
    BY <2>3, <2>4 DEF SentAll
  <2>7. Connection(server', sock'[d], d)
    BY <2>1, <2>2
  <2> QED BY <2>5, <2>6, <2>7 DEF Outcome
<1>6. \A d \in Client : Outcome(d)
  BY <1>3, <1>5
<1>7. GoodServer(server')
  BY <1>2 DEF Near
<1> QED BY <1>3, <1>6, <1>7 DEF Results

\* Nothing of the server changes, and only the socket of c.
LEMMA QuietEffect ==
  ASSUME ServerInv, NEW c \in Client, server' = server, sock' \in [Client -> SockRec],
         \A d \in Client : d # c => sock'[d] = sock[d],
         Connection(server, sock'[c], c)
  PROVE  Results
<1>1. GoodServer(server)
  BY DEF ServerInv
<1>2. Near(server, server', c, -1)
  <2>1. \A d \in Client : d \in ToSet(server.clients) => server.client[d].fd \in Fd
    BY <1>1 DEF GoodServer
  <2>2. -1 \notin Fd
    BY FdAssumption
  <2> QED BY <1>1, <2>1, <2>2 DEF Near
<1>3. Final(c) /\ SentAll(c)
  <2>1. HasFlag(server, c, CLOSE_AFTER_REPLY) => c \in ToSet(server.clients)
    BY <1>1, FlaggedIsLive
  <2>2. Len(server.client[c].querybuf) >= Len(server.client[c].querybuf)
    <3>1. server.client[c] \in ClientRec
      BY <1>1 DEF GoodServer, ServerTypes
    <3> QED BY <3>1 DEF ClientRec
  <2> QED BY <2>1, <2>2 DEF Final, SentAll, HasFlag
<1>4. Connection(server', sock'[c], c)
  OBVIOUS
<1>5. Effect
  BY <1>2, <1>3, <1>4 DEF Effect, Outcome
<1> QED BY <1>5, EffectResults

LEMMA LoopSame ==
  ASSUME LoopInv, loop' = loop, server'.events = server.events
  PROVE  LoopInv'
BY DEF LoopInv

LEMMA PeerStep ==
  ASSUME ServerInv, NEW c \in Client, Peer(c)
  PROVE  Results /\ LoopInv'
<1> DEFINE k == sock[c]
<1>1. sock \in [Client -> SockRec] /\ Connection(server, k, c) /\ LoopInv
  BY DEF ServerInv
<1>2. k \in SockRec
  BY <1>1
<1>3. server' = server /\ loop' = loop
  BY DEF Peer, Connect, Ask, PeerReads, HangUp
<1>4. LoopInv'
  BY <1>1, <1>3, LoopSame
<1>5. ASSUME NEW j \in SockRec, sock' = [sock EXCEPT ![c] = j], j.wire = k.wire,
             j.state = k.state \/ (k.state = "none" /\ j.state = "backlog")
      PROVE  Results
  <2>1. sock' \in [Client -> SockRec] /\ sock'[c] = j /\ \A d \in Client : d # c => sock'[d] = sock[d]
    BY <1>1, <1>5
  <2>2. Connection(server, j, c)
    BY <1>1, <1>5 DEF Connection
  <2> QED BY <1>3, <2>1, <2>2, QuietEffect
<1>6. CASE Connect(c)
  <2> DEFINE j == [k EXCEPT !.state = "backlog"]
  <2>1. sock' = [sock EXCEPT ![c] = j] /\ k.state = "none"
    BY <1>6 DEF Connect
  <2>2. j \in SockRec /\ j.wire = k.wire /\ j.state = "backlog"
    BY <1>2 DEF SockRec
  <2> HIDE DEF j, k
  <2> QED BY <1>4, <1>5, <2>1, <2>2
<1>7. ASSUME NEW r \in Request, Ask(c, r) PROVE Results
  <2> DEFINE b == Append(k.inbox, r)
             a == k.asked + 1
             j == [k EXCEPT !.inbox = b, !.asked = a]
  <2>1. sock' = [sock EXCEPT ![c] = j]
    BY <1>1, <1>2, <1>7 DEF Ask, SockRec
  <2>2. b \in Seq(Request) /\ a \in Nat
    BY <1>2 DEF SockRec
  <2> HIDE DEF a, b
  <2>3. j \in SockRec /\ j.wire = k.wire /\ j.state = k.state
    BY <1>2, <2>2 DEF SockRec
  <2> HIDE DEF j, k
  <2> QED BY <1>5, <2>1, <2>3
<1>8. CASE PeerReads(c)
  <2> DEFINE j == [k EXCEPT !.room = SendBuffer]
  <2>1. sock' = [sock EXCEPT ![c] = j]
    BY <1>8 DEF PeerReads
  <2>2. j \in SockRec /\ j.wire = k.wire /\ j.state = k.state
    BY <1>2, LimitAssumption DEF SockRec
  <2> HIDE DEF j, k
  <2> QED BY <1>4, <1>5, <2>1, <2>2
<1>9. CASE HangUp(c)
  <2> DEFINE j == [k EXCEPT !.hungup = TRUE]
  <2>1. sock' = [sock EXCEPT ![c] = j]
    BY <1>9 DEF HangUp
  <2>2. j \in SockRec /\ j.wire = k.wire /\ j.state = k.state
    BY <1>2 DEF SockRec
  <2> HIDE DEF j, k
  <2> QED BY <1>4, <1>5, <2>1, <2>2
<1> QED BY <1>4, <1>6, <1>7, <1>8, <1>9 DEF Peer

-----------------------------------------------------------------------------
(* What was sent and what is buffered.                                     *)

Carries(w, a, m) == w \o a = Seg(0, m)

LEMMA StreamGrows ==
  ASSUME NEW w \in Seq(Nat), NEW a \in Seq(Nat), NEW b, NEW m \in Nat, NEW n \in Nat, m <= n,
         Carries(w, a, m), b = a \o Seg(m, n)
  PROVE  Carries(w, b, n)
<1> DEFINE g == Seg(m, n)
<1>1. g \in Seq(Nat) /\ Seg(0, m) \o g = Seg(0, n)
  <2>1. 0 \in Nat /\ 0 <= m /\ m <= n /\ n <= n
    OBVIOUS
  <2>2. g \in Seq(Nat)
    BY <2>1, SegFacts
  <2> DEFINE z == 0
  <2>3. z \in Nat /\ z <= m
    BY <2>1
  <2> HIDE DEF z
  <2>4. Seg(z, m) \o Seg(m, n) = Seg(z, n)
    BY <2>1, <2>3, SegFacts
  <2> QED BY <2>2, <2>4 DEF z
<1> HIDE DEF g
<1>2. b = a \o g
  BY DEF g
<1>3. (w \o a) \o g = w \o (a \o g)
  BY <1>1, Associative
<1>4. w \o a = Seg(0, m)
  BY DEF Carries
<1> QED BY <1>1, <1>2, <1>3, <1>4 DEF Carries

\* p goes out, b stays
Sending(w, p, b, m) ==
  w \in Seq(Nat) /\ p \in Seq(Nat) /\ b \in Seq(Nat) /\ m \in Nat /\ w \o (p \o b) = Seg(0, m)
Sent(w, p, b, m) ==
  /\ w \o p \in Seq(Nat) /\ (w \o p) \o b = Seg(0, m)
  /\ b = <<>> => Len(w \o p) = m

LEMMA StreamSent ==
  ASSUME NEW w, NEW p, NEW b, NEW m, Sending(w, p, b, m)
  PROVE  Sent(w, p, b, m)
<1>0. w \in Seq(Nat) /\ p \in Seq(Nat) /\ b \in Seq(Nat) /\ m \in Nat /\ w \o (p \o b) = Seg(0, m)
  BY DEF Sending
<1>1. w \o p \in Seq(Nat) /\ (w \o p) \o b = Seg(0, m)
  BY <1>0, Associative
<1>2. ASSUME b = <<>> PROVE Len(w \o p) = m
  <2> DEFINE v == w \o p
  <2>1. v \in Seq(Nat) /\ v \o <<>> = Seg(0, m)
    BY <1>1, <1>2
  <2> HIDE DEF v
  <2>2. v \o <<>> = v
    BY <2>1, ConcatEmptySeq
  <2>3. Len(Seg(0, m)) = m
    <3>1. 0 \in Nat /\ 0 <= m /\ m <= m /\ m \in Nat
      BY <1>0
    <3>2. Len(Seg(0, m)) = m - 0
      BY <3>1, SegFacts
    <3> QED BY <3>1, <3>2
  <2> QED BY <2>1, <2>2, <2>3 DEF v
<1> QED BY <1>1, <1>2 DEF Sent

\* Output was added to x.
More(x, y) ==
  /\ y \in ClientRec /\ Bytes(y) /\ y.querybuf = x.querybuf /\ x.made <= y.made
  /\ Unsent(y) = Unsent(x) \o Seg(x.made, y.made)

LEMMA GrownMore ==
  ASSUME NEW x \in ClientRec, Bytes(x), NEW y, Grown(x, y)
  PROVE  More(x, y)
<1> DEFINE m == Seg(x.made, y.made)
<1>1. /\ y \in ClientRec /\ Bytes(y) /\ y.sentlen = x.sentlen /\ All(y) = All(x) \o m
      /\ y.querybuf = x.querybuf /\ x.made <= y.made
  BY DEF Grown
<1>2. m \in Seq(Nat)
  <2>1. x.made \in Nat /\ y.made \in Nat /\ y.made <= y.made
    BY <1>1 DEF ClientRec
  <2> QED BY <1>1, <2>1, SegFacts
<1> HIDE DEF m
<1>3. Unsent(y) = Unsent(x) \o m
  BY <1>1, <1>2, UnsentMore
<1> QED BY <1>1, <1>3 DEF More, m

LEMMA MoreStream ==
  ASSUME NEW x \in ClientRec, Bytes(x), NEW y, More(x, y), NEW w \in Seq(Nat),
         w \o Unsent(x) = Seg(0, x.made)
  PROVE  w \o Unsent(y) = Seg(0, y.made)
<1> DEFINE a == Unsent(x)
           b == Unsent(y)
           m == x.made
           n == y.made
<1>1. a \in Seq(Nat) /\ m \in Nat /\ n \in Nat /\ m <= n /\ b = a \o Seg(m, n) /\ Carries(w, a, m)
  BY UnsentIs DEF More, ClientRec, Carries
<1> HIDE DEF a, b, m, n
<1>2. Carries(w, b, n)
  BY <1>1, StreamGrows
<1> QED BY <1>2 DEF b, n, Carries

-----------------------------------------------------------------------------
(* The steps of the server.                                                *)

\* No other client has the descriptor of a live one.
LEMMA OwnDescriptor ==
  ASSUME NEW s, GoodServer(s), NEW c, c \in ToSet(s.clients), NEW d, d \in ToSet(s.clients), d # c
  PROVE  s.client[d].fd # s.client[c].fd
BY LiveFacts DEF EventsAgree

LEMMA OnlyNear ==
  ASSUME NEW s, GoodServer(s), NEW c, c \in ToSet(s.clients), NEW r, GoodServer(r), Only(s, r, c)
  PROVE  Near(s, r, c, s.client[c].fd)
BY OwnDescriptor DEF Near, Only

LEMMA FreedNear ==
  ASSUME NEW s, GoodServer(s), NEW c, c \in ToSet(s.clients), NEW r, Freed(s, r, c)
  PROVE  Near(s, r, c, s.client[c].fd)
BY OwnDescriptor DEF Near, Freed

\* c is freed, and its socket closed, because the peer is gone or sent too much.
LEMMA FreeStep ==
  ASSUME ServerInv, NEW c, c \in ToSet(server.clients), Freed(server, server', c),
         sock' = Closed(c), sock[c].hungup \/ loop.phase = "read"
  PROVE  Results
<1> DEFINE k == sock[c]
           j == [k EXCEPT !.state = "closed", !.inbox = <<>>, !.room = SendBuffer]
<1>1. /\ GoodServer(server) /\ c \in Client /\ sock \in [Client -> SockRec] /\ k \in SockRec
      /\ sock' = [sock EXCEPT ![c] = j]
  BY LiveFacts DEF ServerInv, Closed
<1>2. j \in SockRec /\ j.state = "closed"
  <2>1. SendBuffer \in Nat /\ k \in SockRec /\ <<>> \in Seq(Request)
    BY <1>1, LimitAssumption
  <2> HIDE DEF k
  <2> QED BY <2>1 DEF SockRec
<1> HIDE DEF j
<1>3. sock' \in [Client -> SockRec] /\ sock'[c] = j /\ \A d \in Client : d # c => sock'[d] = sock[d]
  BY <1>1, <1>2
<1>4. c \notin ToSet(server'.clients)
  BY DEF Freed
<1>5. Near(server, server', c, server.client[c].fd)
  BY <1>1, FreedNear
<1>6. Outcome(c)
  BY <1>2, <1>3, <1>4 DEF Outcome, Connection, Final, SentAll
<1>7. Effect
  BY <1>1, <1>3, <1>5, <1>6 DEF Effect
<1> QED BY <1>7, EffectResults

\* The client an event is handled for
LEMMA HandledLive ==
  ASSUME ServerInv, loop.phase \in {"read", "input"} \/ (loop.phase = "write" /\ WriteWanted)
  PROVE  /\ Handled \in ToSet(server.clients) /\ Handled \in Client
         /\ WriteWanted => Handler(server, Handled)
<1>1. GoodServer(server) /\ LoopInv
  BY DEF ServerInv
<1>2. PICK e \in loop.event : loop.event = {e} /\ e.fd \in Fd
  BY <1>1 DEF LoopInv
<1>3. Fired = e
  BY <1>2 DEF Fired
<1>4. server.events[e.fd].mask # {}
  <2>1. CASE loop.phase \in {"read", "input"}
    BY <1>1, <1>2, <2>1 DEF LoopInv
  <2>2. CASE WriteWanted
    BY <1>3, <2>2 DEF WriteWanted
  <2> QED BY <2>1, <2>2
<1>5. PICK c \in Client : c \in ToSet(server.clients) /\ server.client[c].fd = e.fd
  BY <1>1, <1>2, <1>4 DEF GoodServer
<1>6. server.events[e.fd].clientData = {c}
  BY <1>1, <1>5 DEF GoodServer
<1>7. Handled = c
  BY <1>3, <1>6 DEF Handled
<1> QED BY <1>3, <1>5, <1>7 DEF WriteWanted, Handler

LEMMA AfterStream ==
  ASSUME NEW x \in ClientRec, Bytes(x), NEW n \in Nat, n <= Len(Unsent(x)), NEW y, y = AfterWrite(x, n),
         NEW w \in Seq(Nat), w \o Unsent(x) = Seg(0, x.made)
  PROVE  /\ w \o SubSeq(Unsent(x), 1, n) \in Seq(Nat)
         /\ (w \o SubSeq(Unsent(x), 1, n)) \o Unsent(y) = Seg(0, y.made)
         /\ ~clientHasPendingReplies(y) => Len(w \o SubSeq(Unsent(x), 1, n)) = y.made
<1> DEFINE u == Unsent(x)
           p == SubSeq(u, 1, n)
           b == Unsent(y)
           m == x.made
<1>1. /\ y \in ClientRec /\ Bytes(y) /\ y.made = x.made /\ u = p \o b /\ p \in Seq(Nat)
  BY AfterWriteFacts
<1>2. b \in Seq(Nat) /\ (~clientHasPendingReplies(y) => b = <<>>) /\ m \in Nat
  BY <1>1, UnsentIs DEF ClientRec
<1>3. Sending(w, p, b, m)
  BY <1>1, <1>2 DEF Sending
<1> HIDE DEF u, p, b, m
<1>4. /\ w \o p \in Seq(Nat) /\ (w \o p) \o b = Seg(0, m)
      /\ b = <<>> => Len(w \o p) = m
  <2>1. Sent(w, p, b, m)
    BY <1>3, StreamSent
  <2> QED BY <2>1 DEF Sent
<1>5. y.made = m
  BY <1>1 DEF m
<1> HIDE DEF b
<1>6. ~clientHasPendingReplies(y) => Len(w \o p) = m
  BY <1>2, <1>4
<1>7. (w \o p) \o b = Seg(0, y.made)
  BY <1>4, <1>5
<1> QED BY <1>4, <1>5, <1>6, <1>7 DEF p, u, b

\* The socket after Transmit
LEMMA TransmitFacts ==
  ASSUME ServerInv, NEW c, c \in ToSet(server.clients), NEW n \in Nat, Takes(c, n),
         NEW r, Transmit(r, c, n),
         sock[c].wire \o SubSeq(Unsent(server.client[c]), 1, n) \in Seq(Nat)
  PROVE  /\ sock' \in [Client -> SockRec] /\ \A d \in Client : d # c => sock'[d] = sock[d]
         /\ sock'[c].wire = sock[c].wire \o SubSeq(Unsent(server.client[c]), 1, n)
         /\ sock'[c].state = IF c \in ToSet(r.clients) THEN "open" ELSE "closed"
<1> DEFINE k == sock[c]
           w == k.wire \o SubSeq(Unsent(server.client[c]), 1, n)
           m == k.room - n
           j == [k EXCEPT !.wire = w, !.room = m]
           i == [j EXCEPT !.state = "closed", !.inbox = <<>>, !.room = SendBuffer]
           t == [sock EXCEPT ![c].wire = @ \o SubSeq(Unsent(server.client[c]), 1, n),
                             ![c].room = @ - n]
<1>1. /\ c \in Client /\ sock \in [Client -> SockRec] /\ k \in SockRec /\ k.state = "open"
  BY LiveFacts DEF ServerInv, Connection
<1>2. t = [sock EXCEPT ![c] = j]
  <2>1. DOMAIN sock = Client /\ DOMAIN k = {"state", "inbox", "asked", "room", "wire", "hungup"}
    BY <1>1 DEF SockRec
  <2> HIDE DEF w
  <2> QED BY <1>1, <2>1 DEF w
<1>3. m \in Nat /\ w \in Seq(Nat)
  <2>1. n <= k.room /\ k.room \in Nat
    BY <1>1 DEF Takes, SockRec
  <2> QED BY <2>1
<1>4. sock' = IF c \in ToSet(r.clients) THEN t ELSE [t EXCEPT ![c] = [@ EXCEPT !.state = "closed", !.inbox = <<>>,
                                              !.room = SendBuffer]]
  BY DEF Transmit
<1> HIDE DEF w, m, t
<1>5. j \in SockRec /\ j.wire = w /\ j.state = "open"
  BY <1>1, <1>3 DEF SockRec
<1> HIDE DEF j
<1>6. i \in SockRec /\ i.wire = w /\ i.state = "closed"
  <2>1. SendBuffer \in Nat /\ <<>> \in Seq(Request)
    BY LimitAssumption
  <2> QED BY <1>5, <2>1 DEF SockRec
<1>7. sock' = IF c \in ToSet(r.clients) THEN [sock EXCEPT ![c] = j] ELSE [sock EXCEPT ![c] = i]
  <2>1. t[c] = j
    BY <1>1, <1>2
  <2>2. [t EXCEPT ![c] = [@ EXCEPT !.state = "closed", !.inbox = <<>>, !.room = SendBuffer]]
          = [t EXCEPT ![c] = i]
    BY <2>1
  <2> HIDE DEF i
  <2>3. [t EXCEPT ![c] = i] = [sock EXCEPT ![c] = i]
    BY <1>1, <1>2
  <2> QED BY <1>2, <1>4, <2>2, <2>3
<1> HIDE DEF i, k
<1> QED BY <1>1, <1>5, <1>6, <1>7 DEF w, k

\* The same output, under other flags
SameOutput(x, y) ==
  /\ y \in ClientRec /\ Bytes(y) /\ Unsent(y) = Unsent(x) /\ y.made = x.made /\ y.querybuf = x.querybuf

Wired(c, y, r) ==
  /\ sock' \in [Client -> SockRec] /\ \A d \in Client : d # c => sock'[d] = sock[d]
  /\ sock'[c].wire \o Unsent(y) = Seg(0, y.made)
  /\ ~clientHasPendingReplies(y) => Len(sock'[c].wire) = server.client[c].made
  /\ sock'[c].state = IF c \in ToSet(r.clients) THEN "open" ELSE "closed"
  /\ y \in ClientRec /\ Bytes(y) /\ y.made = server.client[c].made
  /\ y.querybuf = server.client[c].querybuf

LEMMA WireFacts ==
  ASSUME ServerInv, NEW c, c \in ToSet(server.clients), NEW n \in Nat, Takes(c, n),
         NEW x, SameOutput(server.client[c], x), NEW y, y = AfterWrite(x, n),
         NEW r, Transmit(r, c, n)
  PROVE  Wired(c, y, r) /\ y.flags = x.flags
<1> DEFINE w == sock[c].wire
           u == Unsent(server.client[c])
<1>1. /\ x \in ClientRec /\ Bytes(x) /\ Unsent(x) = u /\ x.made = server.client[c].made
      /\ x.querybuf = server.client[c].querybuf
  BY DEF SameOutput
<1>2. /\ n <= Len(Unsent(x)) /\ w \o Unsent(x) = Seg(0, x.made) /\ w \in Seq(Nat) /\ c \in Client
  <2>1. c \in Client /\ Connection(server, sock[c], c) /\ sock[c] \in SockRec
    BY LiveFacts DEF ServerInv
  <2> QED BY <1>1, <2>1 DEF Takes, Connection, SockRec
<1>3. /\ y \in ClientRec /\ Bytes(y) /\ y.made = x.made /\ y.querybuf = x.querybuf /\ y.flags = x.flags
  BY <1>1, <1>2, AfterWriteFacts
<1> HIDE DEF w
<1>4. /\ w \o SubSeq(Unsent(x), 1, n) \in Seq(Nat)
      /\ (w \o SubSeq(Unsent(x), 1, n)) \o Unsent(y) = Seg(0, y.made)
      /\ ~clientHasPendingReplies(y) => Len(w \o SubSeq(Unsent(x), 1, n)) = y.made
  BY <1>1, <1>2, AfterStream
<1>5. sock[c].wire \o SubSeq(Unsent(server.client[c]), 1, n) \in Seq(Nat)
  BY <1>1, <1>4 DEF w
<1>6. /\ sock' \in [Client -> SockRec] /\ \A d \in Client : d # c => sock'[d] = sock[d]
      /\ sock'[c].wire = w \o SubSeq(Unsent(x), 1, n)
      /\ sock'[c].state = IF c \in ToSet(r.clients) THEN "open" ELSE "closed"
  BY <1>1, <1>5, TransmitFacts DEF w
<1> QED BY <1>1, <1>3, <1>4, <1>6 DEF Wired

\* A client that stays, with the rest of its output
LEMMA StayStep ==
  ASSUME ServerInv, NEW c, c \in ToSet(server.clients), NEW n \in Nat, Takes(c, n),
         NEW x, SameOutput(server.client[c], x), NEW y, y = AfterWrite(x, n),
         NEW w, Transmit(w, c, n), c \in ToSet(w.clients),
         NEW z, SameOutput(y, z), server'.client[c] = z,
         server.client[c].flags \subseteq x.flags \cup {PENDING_WRITE}, y.flags \subseteq z.flags,
         GoodServer(server'), Only(server, server', c), Scheduled(server', c)
  PROVE  Results
<1> DEFINE x0 == server.client[c]
<1>1. /\ sock' \in [Client -> SockRec] /\ \A d \in Client : d # c => sock'[d] = sock[d]
      /\ sock'[c].wire \o Unsent(y) = Seg(0, y.made) /\ sock'[c].state = "open"
      /\ y \in ClientRec /\ Bytes(y) /\ y.made = x0.made /\ y.querybuf = x0.querybuf /\ y.flags = x.flags
  <2>1. Wired(c, y, w) /\ y.flags = x.flags
    BY WireFacts
  <2> QED BY <2>1 DEF Wired
<1>2. Unsent(z) = Unsent(y) /\ z.made = x0.made /\ z.querybuf = x0.querybuf
  BY <1>1 DEF SameOutput
<1>3. c \in Client /\ GoodServer(server) /\ x0 \in ClientRec
  BY LiveFacts DEF ServerInv
<1>4. Near(server, server', c, server.client[c].fd)
  BY <1>3, OnlyNear
<1>5. Connection(server', sock'[c], c)
  BY <1>1, <1>2 DEF Connection
<1>6. Final(c)
  <2>1. HasFlag(server, c, CLOSE_AFTER_REPLY) => HasFlag(server', c, CLOSE_AFTER_REPLY)
    <3>1. PENDING_WRITE # CLOSE_AFTER_REPLY
      BY DEF PENDING_WRITE, CLOSE_AFTER_REPLY
    <3> QED BY <1>1, <3>1 DEF HasFlag
  <2>2. Len(x0.querybuf) >= Len(x0.querybuf)
    BY <1>3 DEF ClientRec
  <2> QED BY <1>2, <2>1, <2>2 DEF Final
<1>7. SentAll(c)
  <2>1. c \in ToSet(server'.clients)
    BY DEF Only
  <2> QED BY <2>1 DEF SentAll
<1>8. Effect
  BY <1>1, <1>3, <1>4, <1>5, <1>6, <1>7 DEF Effect, Outcome
<1> QED BY <1>8, EffectResults

\* A client that is closed because all was sent
LEMMA EndStep ==
  ASSUME ServerInv, NEW c, c \in ToSet(server.clients), NEW n \in Nat, Takes(c, n),
         NEW x, SameOutput(server.client[c], x), ~clientHasPendingReplies(AfterWrite(x, n)),
         Transmit(server', c, n), Freed(server, server', c)
  PROVE  Results
<1> DEFINE y == AfterWrite(x, n)
           r == server'
<1>1. c \notin ToSet(r.clients) /\ Transmit(r, c, n)
  BY DEF Freed
<1> HIDE DEF y, r
<1>2. /\ sock' \in [Client -> SockRec] /\ \A d \in Client : d # c => sock'[d] = sock[d]
      /\ ~clientHasPendingReplies(y) => Len(sock'[c].wire) = server.client[c].made
      /\ sock'[c].state = IF c \in ToSet(r.clients) THEN "open" ELSE "closed"
  <2>1. y = AfterWrite(x, n)
    BY DEF y
  <2>2. Wired(c, y, r)
    BY <1>1, <2>1, WireFacts
  <2> QED BY <2>2 DEF Wired
<1>3. c \in Client /\ GoodServer(server)
  BY LiveFacts DEF ServerInv
<1>4. Near(server, server', c, server.client[c].fd)
  BY <1>3, FreedNear
<1>5. Outcome(c)
  <2>1. Len(sock'[c].wire) = server.client[c].made
    BY <1>2 DEF y
  <2>2. sock'[c].state = "closed" /\ c \notin ToSet(server'.clients)
    BY <1>1, <1>2 DEF r
  <2> QED BY <2>1, <2>2 DEF Outcome, Connection, Final, SentAll
<1>6. Effect
  BY <1>2, <1>3, <1>4, <1>5 DEF Effect
<1> QED BY <1>6, EffectResults

LEMMA SameSelf ==
  ASSUME NEW x \in ClientRec, Bytes(x)
  PROVE  SameOutput(x, x)
BY DEF SameOutput

LEMMA SendReplyStep ==
  ASSUME ServerInv, NEW n \in Nat, SendReply(n)
  PROVE  Results
<1> DEFINE c == Handled
           x == server.client[c]
           y == AfterWrite(x, n)
<1>1. /\ loop.phase = "write" /\ WriteWanted /\ Takes(c, n)
      /\ server' = writeToClient(server, c, n, TRUE) /\ Transmit(server', c, n)
  BY DEF SendReply
<1>2. c \in ToSet(server.clients) /\ c \in Client /\ Handler(server, c)
  BY <1>1, HandledLive
<1> HIDE DEF c
<1>3. GoodServer(server) /\ x \in ClientRec /\ Bytes(x) /\ Scheduled(server, c)
  BY <1>2, LiveFacts DEF ServerInv, Connection
<1>4. SameOutput(x, x) /\ n <= Len(Unsent(x))
  BY <1>1, <1>3, SameSelf DEF Takes
<1>5. Stays(server, server', c, n, TRUE) \/ Ends(server, server', c, n)
  <2> DEFINE r == server'
             h == TRUE
  <2>1. r = writeToClient(server, c, n, h) /\ h \in BOOLEAN
    BY <1>1
  <2> HIDE DEF r, h
  <2>2. Stays(server, r, c, n, h) \/ Ends(server, r, c, n)
    BY <1>2, <1>3, <1>4, <2>1, WriteGood
  <2> QED BY <2>2 DEF r, h
<1>6. CASE Ends(server, server', c, n)
  <2>1. Freed(server, server', c) /\ ~clientHasPendingReplies(AfterWrite(x, n))
    BY <1>6 DEF Ends
  <2> QED BY <1>1, <1>2, <1>4, <2>1, EndStep
<1>7. CASE Stays(server, server', c, n, TRUE)
  <2>1. /\ GoodServer(server') /\ Only(server, server', c) /\ server'.client[c] = y
        /\ clientHasPendingReplies(y) => server'.events = server.events
        /\ ~clientHasPendingReplies(y) => ~Handler(server', c)
    BY <1>7 DEF Stays
  <2>2. y \in ClientRec /\ Bytes(y) /\ y.flags = x.flags /\ y.fd = x.fd
    BY <1>3, <1>4, AfterWriteFacts
  <2> HIDE DEF y
  <2>3. Scheduled(server', c)
    <3>1. PENDING_WRITE \notin y.flags
      BY <1>2, <1>3, <2>2 DEF Scheduled
    <3>2. clientHasPendingReplies(y) => Handler(server', c)
      BY <1>2, <2>1, <2>2 DEF Handler
    <3> QED BY <2>1, <3>1, <3>2 DEF Scheduled
  <2>4. SameOutput(y, y) /\ y = AfterWrite(x, n)
    BY <2>2, SameSelf DEF y
  <2>5. c \in ToSet(server'.clients)
    BY <1>2, <2>1 DEF Only
  <2>6. server.client[c].flags \subseteq x.flags \cup {PENDING_WRITE} /\ y.flags \subseteq y.flags
    OBVIOUS
  <2> DEFINE w == server'
  <2>7. Transmit(w, c, n) /\ c \in ToSet(w.clients)
    BY <1>1, <2>5
  <2> HIDE DEF w
  <2> QED BY <1>1, <1>2, <1>4, <2>1, <2>3, <2>4, <2>6, <2>7, StayStep
<1> QED BY <1>5, <1>6, <1>7

LEMMA PendingWriteStep ==
  ASSUME ServerInv, NEW c \in Client, NEW n \in Nat, HandlePendingWrite(c, n)
  PROVE  Results
<1> DEFINE s == Unflagged(c)
           w == writeToClient(s, c, n, FALSE)
           x0 == server.client[c]
           x == s.client[c]
           y == AfterWrite(x, n)
<1>1. /\ server.clients_pending_write # <<>> /\ c = Head(server.clients_pending_write)
      /\ Takes(c, n) /\ Transmit(w, c, n)
      /\ \/ ~StillPending(w, c) /\ server' = w
         \/ StillPending(w, c) /\ server' = aeCreateFileEvent(w, w.client[c].fd, WRITABLE, c)
         \/ StillPending(w, c) /\ server' = freeClientAsync(w, c)
  BY DEF HandlePendingWrite
<1>2. GoodServer(server)
  BY DEF ServerInv
<1>3. /\ c \in ToSet(server.clients) /\ PENDING_WRITE \in x0.flags
      /\ GoodServer(s) /\ Only(server, s, c) /\ s.events = server.events
      /\ x = Reflagged(x0, x0.flags \ {PENDING_WRITE})
  BY <1>1, <1>2, UnflaggedGood DEF Unflagged
<1>4. x0 \in ClientRec /\ Bytes(x0) /\ Scheduled(server, c)
  BY <1>2, <1>3, LiveFacts DEF ServerInv, Connection
<1> HIDE DEF s, x0, x
<1>5. /\ x \in ClientRec /\ Bytes(x) /\ x.flags = x0.flags \ {PENDING_WRITE} /\ x.fd = x0.fd
      /\ Unsent(x) = Unsent(x0) /\ x.made = x0.made /\ x.querybuf = x0.querybuf
  <2> DEFINE fl == x0.flags \ {PENDING_WRITE}
  <2>1. fl \in SUBSET Flags
    BY <1>4 DEF ClientRec
  <2>2. x = Reflagged(x0, fl)
    BY <1>3
  <2> HIDE DEF fl
  <2>3. /\ x \in ClientRec /\ Bytes(x) /\ x.flags = fl /\ x.fd = x0.fd
        /\ Unsent(x) = Unsent(x0) /\ x.made = x0.made /\ x.querybuf = x0.querybuf
    BY <1>4, <2>1, <2>2, ReflaggedFacts
  <2> QED BY <2>3 DEF fl
<1>6. /\ SameOutput(server.client[c], x) /\ n <= Len(Unsent(x))
      /\ server.client[c].flags \subseteq x.flags \cup {PENDING_WRITE}
  BY <1>1, <1>5 DEF SameOutput, Takes, x0
<1>7. ~Handler(s, c) /\ c \in ToSet(s.clients) /\ x = s.client[c]
  BY <1>3, <1>4, <1>5 DEF Scheduled, Handler, Only, x, x0
<1>8. Stays(s, w, c, n, FALSE) \/ Ends(s, w, c, n)
  <2> DEFINE h == FALSE
             v == writeToClient(s, c, n, h)
  <2>1. h \in BOOLEAN /\ v = w /\ n <= Len(Unsent(s.client[c]))
    BY <1>6, <1>7
  <2> HIDE DEF h
  <2>2. Stays(s, v, c, n, h) \/ Ends(s, v, c, n)
    BY <1>3, <1>7, <2>1, WriteGood
  <2> QED BY <2>2 DEF h
<1> HIDE DEF w
<1>9. CASE Ends(s, w, c, n)
  <2>1. Freed(s, w, c) /\ ~clientHasPendingReplies(AfterWrite(x, n))
    BY <1>7, <1>9 DEF Ends
  <2>2. Freed(server, w, c)
    BY <1>3, <2>1, OnlyFreed
  <2>3. server' = w
    BY <1>1, <2>2 DEF StillPending, Freed
  <2>4. Transmit(server', c, n) /\ Freed(server, server', c)
    BY <1>1, <2>2, <2>3
  <2> QED BY <1>1, <1>3, <1>6, <2>1, <2>4, EndStep
<1>10. CASE Stays(s, w, c, n, FALSE)
  <2>1. /\ GoodServer(w) /\ Only(s, w, c) /\ w.client[c] = y /\ w.events = s.events
    BY <1>7, <1>10 DEF Stays
  <2>2. y \in ClientRec /\ Bytes(y) /\ y.flags = x.flags /\ y.fd = x.fd
    BY <1>5, <1>6, AfterWriteFacts
  <2> HIDE DEF y
  <2>3. c \in ToSet(w.clients) /\ Only(server, w, c) /\ ~Handler(w, c)
    BY <1>3, <1>7, <2>1, <2>2, OnlyTrans DEF Only, Handler
  <2>4. PENDING_WRITE \notin y.flags /\ y = AfterWrite(x, n)
    BY <1>5, <2>2 DEF y
  <2>5. ASSUME NEW z, SameOutput(y, z), server'.client[c] = z, y.flags \subseteq z.flags,
               GoodServer(server'), Only(server, server', c), Scheduled(server', c)
        PROVE  Results
    BY <1>1, <1>3, <1>6, <2>3, <2>4, <2>5, StayStep
  <2>6. SameOutput(y, y) /\ y.flags \subseteq y.flags
    BY <2>2, SameSelf
  <2>7. CASE ~StillPending(w, c) /\ server' = w
    <3>1. ~clientHasPendingReplies(y)
      BY <2>1, <2>3, <2>7 DEF StillPending
    <3>2. Scheduled(server', c)
      BY <2>1, <2>3, <2>4, <2>7, <3>1 DEF Scheduled
    <3>3. server'.client[c] = y /\ GoodServer(server') /\ Only(server, server', c)
      BY <2>1, <2>3, <2>7
    <3> QED BY <2>5, <2>6, <3>2, <3>3
  <2>8. CASE StillPending(w, c) /\ server' = aeCreateFileEvent(w, w.client[c].fd, WRITABLE, c)
    <3>1. clientHasPendingReplies(y)
      BY <2>1, <2>8 DEF StillPending
    <3>2. GoodServer(server') /\ Only(w, server', c) /\ server'.client[c] = y /\ Handler(server', c)
      <4> DEFINE r == server'
      <4>1. r = aeCreateFileEvent(w, w.client[c].fd, WRITABLE, c)
        BY <2>8
      <4> HIDE DEF r
      <4>2. GoodServer(r) /\ Only(w, r, c) /\ r.client[c] = w.client[c] /\ Handler(r, c)
        BY <2>1, <2>3, <4>1, HandlerGood
      <4> QED BY <2>1, <4>2 DEF r
    <3>3. Scheduled(server', c)
      BY <2>4, <3>1, <3>2 DEF Scheduled
    <3>4. Only(server, server', c)
      <4> DEFINE r == server'
      <4>1. Only(w, r, c)
        BY <3>2
      <4> HIDE DEF r
      <4>2. Only(server, r, c)
        BY <2>3, <4>1, OnlyTrans
      <4> QED BY <4>2 DEF r
    <3> QED BY <2>5, <2>6, <3>2, <3>3, <3>4
  <2>9. CASE StillPending(w, c) /\ server' = freeClientAsync(w, c)
    <3> DEFINE r == server'
               z == r.client[c]
    <3>1. r = freeClientAsync(w, c)
      BY <2>9
    <3>2. clientHasPendingReplies(y)
      BY <2>1, <2>9 DEF StillPending
    <3> HIDE DEF r
    <3>3. /\ GoodServer(r) /\ Only(w, r, c) /\ r.events = w.events
          /\ Grown(y, z) /\ CLOSE_ASAP \in z.flags
          /\ z.made = y.made /\ Unsent(z) = Unsent(y)
          /\ PENDING_WRITE \in z.flags => PENDING_WRITE \in y.flags
      BY <2>1, <2>3, <3>1, AsyncAdds
    <3>4. Scheduled(r, c)
      <4>1. ~Handler(r, c)
        BY <2>3, <3>3 DEF Handler, Only
      <4> QED BY <2>4, <3>3, <4>1 DEF Scheduled
    <3>5. Only(server, r, c)
      BY <2>3, <3>3, OnlyTrans
    <3>6. SameOutput(y, z) /\ y.flags \subseteq z.flags
      BY <3>3 DEF Grown, SameOutput
    <3> HIDE DEF z
    <3>7. z = server'.client[c] /\ GoodServer(server') /\ Only(server, server', c) /\ Scheduled(server', c)
      BY <3>3, <3>4, <3>5 DEF z, r
    <3> QED BY <2>5, <3>6, <3>7
  <2> QED BY <1>1, <2>7, <2>8, <2>9
<1> QED BY <1>8, <1>9, <1>10

LEMMA PendingWriteErrorStep ==
  ASSUME ServerInv, NEW c \in Client, HandlePendingWriteError(c)
  PROVE  Results
<1> DEFINE s == Unflagged(c)
           r == server'
<1>1. /\ server.clients_pending_write # <<>> /\ c = Head(server.clients_pending_write)
      /\ sock[c].hungup /\ r = freeClient(s, c) /\ sock' = Closed(c)
  BY DEF HandlePendingWriteError
<1>2. GoodServer(server)
  BY DEF ServerInv
<1>3. c \in ToSet(server.clients) /\ GoodServer(s) /\ Only(server, s, c)
  BY <1>1, <1>2, UnflaggedGood DEF Unflagged
<1> HIDE DEF s, r
<1>4. c \in ToSet(s.clients)
  BY <1>3 DEF Only
<1>5. Freed(s, r, c)
  BY <1>1, <1>3, <1>4, FreeGood
<1>6. Freed(server, r, c)
  BY <1>3, <1>5, OnlyFreed
<1>7. Freed(server, server', c)
  BY <1>6 DEF r
<1> QED BY <1>1, <1>3, <1>7, FreeStep

\* The handler's client is freed.
LEMMA DropStep ==
  ASSUME ServerInv, NEW c, c \in ToSet(server.clients), server' = freeClient(server, c),
         sock' = Closed(c), sock[c].hungup \/ loop.phase = "read"
  PROVE  Results
<1> DEFINE r == server'
<1>1. GoodServer(server) /\ r = freeClient(server, c)
  BY DEF ServerInv
<1> HIDE DEF r
<1>2. Freed(server, r, c)
  BY <1>1, FreeGood
<1>3. Freed(server, server', c)
  BY <1>2 DEF r
<1> QED BY <1>3, FreeStep

\* c has more output, or none, and its input is q.
LEMMA InputStep ==
  ASSUME ServerInv, NEW c, c \in ToSet(server.clients), NEW w, GoodServer(w), Only(server, w, c),
         w.events = server.events, Scheduled(w, c), More(server.client[c], w.client[c]),
         NEW q \in Seq(Request), server' = With(w, c, [w.client[c] EXCEPT !.querybuf = q]),
         HasFlag(server, c, CLOSE_AFTER_REPLY) =>
           w = server /\ Len(q) >= Len(server.client[c].querybuf),
         sock' \in [Client -> SockRec], \A d \in Client : d # c => sock'[d] = sock[d],
         sock'[c].wire = sock[c].wire, sock'[c].state = sock[c].state
  PROVE  Results /\ server'.events = server.events
<1> DEFINE x == server.client[c]
           y == w.client[c]
           z == [y EXCEPT !.querybuf = q]
           r == server'
<1>1. GoodServer(server) /\ c \in Client /\ x \in ClientRec /\ Bytes(x) /\ Connection(server, sock[c], c)
  BY LiveFacts DEF ServerInv
<1>2. c \in ToSet(w.clients) /\ y \in ClientRec /\ Bytes(y)
  BY LiveFacts DEF Only
<1>3. /\ z \in ClientRec /\ z.fd = y.fd /\ z.flags = y.flags /\ z.querybuf = q /\ z.made = y.made
      /\ z.buf = y.buf /\ z.reply = y.reply /\ z.sentlen = y.sentlen /\ z.reply_bytes = y.reply_bytes
  <2> HIDE DEF y
  <2> QED BY <1>2 DEF ClientRec
<1> HIDE DEF z
<1>4. Bytes(z) /\ Unsent(z) = Unsent(y) /\ (clientHasPendingReplies(z) <=> clientHasPendingReplies(y))
  BY <1>2, <1>3 DEF Bytes, EndOf, Unsent, InList, clientHasPendingReplies
<1>5. r = With(w, c, z)
  BY DEF z
<1> HIDE DEF r
<1>6. GoodServer(r) /\ Only(w, r, c) /\ r.client[c] = z /\ r.events = w.events
  <2>1. z.flags \ {CLOSE_AFTER_REPLY} = w.client[c].flags \ {CLOSE_AFTER_REPLY}
    BY <1>3
  <2> QED BY <1>2, <1>3, <1>4, <1>5, <2>1, WithGood
<1>7. Only(server, r, c)
  BY <1>6, OnlyTrans
<1>8. Scheduled(r, c)
  BY <1>3, <1>4, <1>6 DEF Scheduled, Handler
<1>9. sock[c].wire \o Unsent(y) = Seg(0, y.made)
  <2> DEFINE k == sock[c].wire
  <2>1. k \in Seq(Nat) /\ k \o Unsent(x) = Seg(0, x.made)
    <3>1. sock[c] \in SockRec
      BY <1>1 DEF ServerInv
    <3> QED BY <1>1, <3>1 DEF Connection, SockRec
  <2> HIDE DEF k, x, y
  <2>2. More(x, y)
    BY DEF x, y
  <2>3. k \o Unsent(y) = Seg(0, y.made)
    BY <1>1, <2>1, <2>2, MoreStream
  <2> QED BY <2>3 DEF k
<1>10. Connection(server', sock'[c], c)
  <2>1. sock'[c].wire \o Unsent(z) = Seg(0, z.made)
    BY <1>3, <1>4, <1>9
  <2>2. Connection(r, sock'[c], c)
    BY <1>1, <1>6, <1>8, <2>1 DEF Connection
  <2> QED BY <2>2 DEF r
<1>11. Near(server, server', c, x.fd)
  <2>1. Near(server, r, c, x.fd)
    BY <1>1, <1>6, <1>7, OnlyNear
  <2> QED BY <2>1 DEF r
<1>12. Final(c) /\ SentAll(c)
  <2>1. c \in ToSet(server'.clients) /\ server'.client[c] = z
    BY <1>6, <1>7 DEF Only, r
  <2>2. HasFlag(server, c, CLOSE_AFTER_REPLY) => /\ HasFlag(server', c, CLOSE_AFTER_REPLY)
                                                  /\ server'.client[c].made = x.made
                                                  /\ Len(server'.client[c].querybuf) >= Len(x.querybuf)
    BY <1>3, <2>1 DEF HasFlag
  <2> QED BY <2>1, <2>2 DEF Final, SentAll
<1>13. Effect
  BY <1>1, <1>10, <1>11, <1>12 DEF Effect, Outcome
<1>14. server'.events = server.events
  BY <1>6 DEF r
<1> QED BY <1>13, <1>14, EffectResults

LEMMA MoreSelf ==
  ASSUME NEW x \in ClientRec, Bytes(x)
  PROVE  More(x, x)
<1>1. Grown(x, x)
  BY GrownSelf
<1> QED BY <1>1, GrownMore

LEMMA ReadStep ==
  ASSUME ServerInv, NEW k \in Nat, Read(k)
  PROVE  Results /\ LoopInv'
<1> DEFINE c == Handled
           x == server.client[c]
           b == sock[c]
           q == x.querybuf \o SubSeq(b.inbox, 1, k)
<1>1. /\ loop.phase = "read" /\ k <= Len(b.inbox)
      /\ \/ /\ server' = freeClient(server, c) /\ sock' = Closed(c) /\ Goto("write")
         \/ /\ server' = [server EXCEPT !.client[c].querybuf = q]
            /\ sock' = [sock EXCEPT ![c].inbox = SubSeq(@, k + 1, Len(@))]
            /\ Goto(IF k = 0 THEN "write" ELSE "input")
  BY DEF Read
<1>2. c \in ToSet(server.clients) /\ c \in Client
  BY <1>1, HandledLive
<1> HIDE DEF c
<1>3. /\ GoodServer(server) /\ x \in ClientRec /\ Bytes(x) /\ Scheduled(server, c) /\ LoopInv
      /\ sock \in [Client -> SockRec] /\ b \in SockRec /\ DOMAIN server = ServerFields
      /\ server.client \in [Client -> ClientRec]
  BY <1>2, LiveFacts DEF ServerInv, Connection, GoodServer, ServerTypes
<1>4. CASE server' = freeClient(server, c) /\ sock' = Closed(c) /\ Goto("write")
  <2>1. Results
    BY <1>1, <1>2, <1>4, DropStep
  <2>2. LoopInv'
    BY <1>1, <1>3, <1>4 DEF LoopInv, Goto
  <2> QED BY <2>1, <2>2
<1>5. CASE /\ server' = [server EXCEPT !.client[c].querybuf = q]
           /\ sock' = [sock EXCEPT ![c].inbox = SubSeq(@, k + 1, Len(@))]
           /\ Goto(IF k = 0 THEN "write" ELSE "input")
  <2> DEFINE i == SubSeq(b.inbox, k + 1, Len(b.inbox))
             a == SubSeq(b.inbox, 1, k)
             j == [b EXCEPT !.inbox = i]
  <2>1. i \in Seq(Request) /\ a \in Seq(Request) /\ x.querybuf \in Seq(Request)
    <3>1. b.inbox \in Seq(Request) /\ x.querybuf \in Seq(Request)
      BY <1>3 DEF SockRec, ClientRec
    <3> HIDE DEF b
    <3> QED BY <1>1, <3>1
  <2>2. q \in Seq(Request) /\ Len(q) >= Len(x.querybuf)
    <3> DEFINE u == x.querybuf
    <3>1. u \in Seq(Request) /\ q = u \o a
      BY <2>1
    <3> HIDE DEF a, u, q
    <3>2. q \in Seq(Request) /\ Len(q) >= Len(u)
      BY <2>1, <3>1
    <3> QED BY <3>2 DEF u
  <2>3. sock' = [sock EXCEPT ![c] = j]
    BY <1>2, <1>3, <1>5
  <2> HIDE DEF i, q
  <2>4. j \in SockRec /\ j.wire = b.wire /\ j.state = b.state
    BY <1>3, <2>1 DEF SockRec
  <2> HIDE DEF j
  <2>5. /\ sock' \in [Client -> SockRec] /\ \A d \in Client : d # c => sock'[d] = sock[d]
        /\ sock'[c].wire = sock[c].wire /\ sock'[c].state = sock[c].state
    BY <1>2, <1>3, <2>3, <2>4
  <2>6. server' = With(server, c, [x EXCEPT !.querybuf = q])
    BY <1>2, <1>3, <1>5 DEF With, ServerFields
  <2>7. Only(server, server, c) /\ More(server.client[c], server.client[c])
    BY <1>3, MoreSelf DEF Only
  <2>8. Results /\ server'.events = server.events
    <3> DEFINE w == server
    <3>1. /\ GoodServer(w) /\ Only(server, w, c) /\ w.events = server.events /\ Scheduled(w, c)
          /\ More(server.client[c], w.client[c]) /\ w = server
          /\ server' = With(w, c, [w.client[c] EXCEPT !.querybuf = q])
      BY <1>3, <2>6, <2>7
    <3> HIDE DEF w
    <3> QED BY <1>2, <2>2, <2>5, <3>1, InputStep
  <2>9. LoopInv'
    BY <1>1, <1>3, <1>5, <2>8 DEF LoopInv, Goto
  <2> QED BY <2>8, <2>9
<1> QED BY <1>1, <1>4, <1>5

\* One request
LEMMA ExecuteMore ==
  ASSUME GoodServer(server), NEW c, c \in ToSet(server.clients), Scheduled(server, c),
         CLOSE_AFTER_REPLY \notin server.client[c].flags, NEW r \in Request, NEW w, w = Execute(c, r)
  PROVE  /\ GoodServer(w) /\ Only(server, w, c) /\ w.events = server.events /\ Scheduled(w, c)
         /\ More(server.client[c], w.client[c])
<1> DEFINE x == server.client[c]
<1>1. x \in ClientRec /\ Bytes(x)
  BY LiveFacts
<1>2. ASSUME NEW v, Adds(server, v, c)
      PROVE  /\ GoodServer(v) /\ Only(server, v, c) /\ v.events = server.events /\ Scheduled(v, c)
             /\ More(x, v.client[c])
  <2>1. More(x, v.client[c])
    BY <1>1, <1>2, GrownMore DEF Adds
  <2> QED BY <1>2, <2>1 DEF Adds, Kin
<1>3. r.kind \in {"command", "multibulk", "quit", "bad", "empty"} /\ r.reply \in Seq(Piece)
  BY RequestAssumption DEF Piece
<1>4. Adds(server, addReplies(server, c, r.reply), c)
  <2> DEFINE p == r.reply
  <2>1. p \in Seq(Piece)
    BY <1>3
  <2> HIDE DEF p
  <2>2. Adds(server, addReplies(server, c, p), c)
    BY <2>1, AddRepliesAdds
  <2> QED BY <2>2 DEF p
<1>5. Adds(server, addMultiBulk(server, c, r.reply), c)
  <2> DEFINE p == r.reply
  <2>1. p \in Seq(Piece)
    BY <1>3
  <2> HIDE DEF p
  <2>2. Adds(server, addMultiBulk(server, c, p), c)
    BY <2>1, MultiBulkAdds
  <2> QED BY <2>2 DEF p
<1>6. CASE r.kind = "command"
  BY <1>2, <1>4, <1>6 DEF Execute
<1>7. CASE r.kind = "multibulk"
  BY <1>2, <1>5, <1>7 DEF Execute
<1>8. CASE r.kind = "empty"
  <2>1. w = server
    BY <1>8 DEF Execute
  <2> QED BY <1>1, <2>1, MoreSelf DEF Only
<1>9. CASE r.kind \in {"quit", "bad"}
  <2> DEFINE v == addReplies(server, c, r.reply)
             y == v.client[c]
             fl == y.flags \cup {CLOSE_AFTER_REPLY}
             z == Reflagged(y, fl)
  <2>1. w = SetFlag(v, c, CLOSE_AFTER_REPLY)
    BY <1>9 DEF Execute
  <2>2. /\ GoodServer(v) /\ Only(server, v, c) /\ v.events = server.events /\ Scheduled(v, c)
        /\ More(x, y)
    BY <1>2, <1>4
  <2> HIDE DEF v
  <2>3. c \in ToSet(v.clients) /\ c \in Client /\ y \in ClientRec /\ Bytes(y) /\ DOMAIN v = ServerFields
    BY <2>2, LiveFacts DEF Only
  <2>4. w = With(v, c, z)
    BY <2>1, <2>3 DEF SetFlag, With, Reflagged, ServerFields
  <2>5. fl \in SUBSET Flags
    BY <2>3 DEF ClientRec, Flags
  <2> HIDE DEF y, fl, z
  <2>6. /\ z \in ClientRec /\ Bytes(z) /\ z.flags = fl /\ z.fd = y.fd /\ z.buf = y.buf
        /\ z.reply = y.reply /\ z.made = y.made /\ z.querybuf = y.querybuf /\ Unsent(z) = Unsent(y)
    BY <2>3, <2>5, ReflaggedFacts DEF z
  <2>7. /\ PENDING_WRITE \in z.flags <=> PENDING_WRITE \in y.flags
        /\ CLOSE_ASAP \in z.flags <=> CLOSE_ASAP \in y.flags
        /\ z.flags \ {CLOSE_AFTER_REPLY} = y.flags \ {CLOSE_AFTER_REPLY}
    BY <2>6 DEF fl, PENDING_WRITE, CLOSE_ASAP, CLOSE_AFTER_REPLY
  <2>8. GoodServer(w) /\ Only(v, w, c) /\ w.client[c] = z /\ w.events = v.events
    BY <2>2, <2>3, <2>4, <2>6, <2>7, WithGood DEF y
  <2>9. Only(server, w, c)
    BY <2>2, <2>8, OnlyTrans
  <2>10. Scheduled(w, c)
    <3>1. clientHasPendingReplies(z) <=> clientHasPendingReplies(y)
      BY <2>6 DEF clientHasPendingReplies
    <3>2. Handler(w, c) <=> Handler(v, c)
      BY <2>6, <2>8 DEF Handler, y
    <3> QED BY <2>2, <2>7, <2>8, <3>1, <3>2 DEF Scheduled, y
  <2>11. More(x, z)
    BY <2>2, <2>6 DEF More
  <2> QED BY <2>2, <2>8, <2>9, <2>10, <2>11
<1> QED BY <1>3, <1>6, <1>7, <1>8, <1>9

LEMMA ProcessInputStep ==
  ASSUME ServerInv, ProcessInput
  PROVE  Results /\ LoopInv'
<1> DEFINE c == Handled
           x == server.client[c]
           r == Head(x.querybuf)
           w == Execute(c, r)
           q0 == w.client[c].querybuf
           q == IF r.kind = "bad" THEN q0 ELSE Tail(q0)
<1>1. /\ loop.phase = "input" /\ HasWork(x) /\ loop' = loop /\ sock' = sock
      /\ server' = [w EXCEPT !.client[c].querybuf = IF r.kind = "bad" THEN @ ELSE Tail(@)]
  BY DEF ProcessInput
<1>2. c \in ToSet(server.clients) /\ c \in Client
  BY <1>1, HandledLive
<1> HIDE DEF c
<1>3. /\ GoodServer(server) /\ x \in ClientRec /\ Bytes(x) /\ Scheduled(server, c) /\ LoopInv
      /\ sock \in [Client -> SockRec]
  BY <1>2, LiveFacts DEF ServerInv, Connection
<1>4. /\ x.querybuf \in Seq(Request) /\ x.querybuf # <<>> /\ r \in Request
      /\ CLOSE_AFTER_REPLY \notin x.flags
  BY <1>1, <1>3 DEF HasWork, ClientRec
<1> HIDE DEF r
<1>5. /\ GoodServer(w) /\ Only(server, w, c) /\ w.events = server.events /\ Scheduled(w, c)
      /\ More(x, w.client[c])
  BY <1>2, <1>3, <1>4, ExecuteMore
<1> HIDE DEF w
<1>6. q0 = x.querybuf
  BY <1>5 DEF More
<1>7. q \in Seq(Request)
  <2> DEFINE u == x.querybuf
  <2>1. u \in Seq(Request) /\ u # <<>> /\ q = IF r.kind = "bad" THEN u ELSE Tail(u)
    BY <1>4, <1>6
  <2> HIDE DEF u, q
  <2> QED BY <2>1
<1>8. server' = With(w, c, [w.client[c] EXCEPT !.querybuf = q])
  <2>1. c \in ToSet(w.clients)
    BY <1>2, <1>5 DEF Only
  <2>2. DOMAIN w = ServerFields /\ w.client \in [Client -> ClientRec] /\ w.client[c] \in ClientRec
    BY <1>2, <1>5 DEF GoodServer, ServerTypes, ServerFields
  <2> QED BY <1>1, <1>2, <2>2 DEF With, ServerFields, ClientRec
<1> HIDE DEF q
<1>9. ~HasFlag(server, c, CLOSE_AFTER_REPLY)
  BY <1>4 DEF HasFlag
<1>10. Results /\ server'.events = server.events
  <2>1. /\ sock' \in [Client -> SockRec] /\ \A d \in Client : d # c => sock'[d] = sock[d]
        /\ sock'[c].wire = sock[c].wire /\ sock'[c].state = sock[c].state
    BY <1>1, <1>3
  <2> QED BY <1>2, <1>5, <1>7, <1>8, <1>9, <2>1, InputStep
<1> QED BY <1>1, <1>3, <1>10, LoopSame

LEMMA AcceptStep ==
  ASSUME ServerInv, NEW c \in Client, NEW f \in Fd, Accept(c, f)
  PROVE  Results
<1> DEFINE r == createClient(server, c, f)
           k == sock[c]
           N == NewClient(f)
<1>1. /\ k.state = "backlog" /\ \A d \in Client : server.client[d].fd # f
      /\ \/ server' = freeClient(r, c) /\ sock' = Closed(c)
         \/ server' = r /\ sock' = [sock EXCEPT ![c].state = "open"]
  BY DEF Accept, Backlog, FreeFds
<1>2. /\ GoodServer(server) /\ c \notin ToSet(server.clients)
      /\ sock \in [Client -> SockRec] /\ k \in SockRec /\ k.wire = <<>>
  BY <1>1 DEF ServerInv, Connection
<1>3. Made(server, r, c, f)
  BY <1>1, <1>2, CreateGood
<1>4. Final(c) /\ SentAll(c)
  <2>1. ~HasFlag(server, c, CLOSE_AFTER_REPLY)
    BY <1>2, FlaggedIsLive
  <2> QED BY <2>1 DEF Final, SentAll
<1> HIDE DEF r
<1>5. GoodServer(r) /\ c \in ToSet(r.clients) /\ r.client[c] = N /\ r.events[f].mask = {READABLE}
  BY <1>3 DEF Made
<1>6. /\ N \in ClientRec /\ N.flags = {} /\ N.fd = f /\ N.made = 0
      /\ Unsent(N) = <<>> /\ ~clientHasPendingReplies(N)
  BY NewClientFacts
<1> HIDE DEF N
<1>7. CASE server' = freeClient(r, c) /\ sock' = Closed(c)
  <2> DEFINE j == [k EXCEPT !.state = "closed", !.inbox = <<>>, !.room = SendBuffer]
             q == server'
  <2>1. q = freeClient(r, c) /\ sock' = [sock EXCEPT ![c] = j]
    BY <1>7 DEF Closed
  <2>2. j \in SockRec /\ j.state = "closed"
    <3>1. SendBuffer \in Nat /\ <<>> \in Seq(Request)
      BY LimitAssumption
    <3> HIDE DEF k
    <3> QED BY <1>2, <3>1 DEF SockRec
  <2> HIDE DEF j, q
  <2>3. Freed(r, q, c)
    BY <1>5, <2>1, FreeGood
  <2>4. Near(server, q, c, f)
    BY <1>1, <1>3, <1>5, <1>6, <2>3 DEF Near, Freed, Made
  <2>5. sock' \in [Client -> SockRec] /\ sock'[c] = j /\ \A d \in Client : d # c => sock'[d] = sock[d]
    BY <1>2, <2>1, <2>2
  <2>6. Connection(server', sock'[c], c)
    <3>1. c \notin ToSet(server'.clients)
      BY <2>3 DEF Freed, q
    <3> QED BY <2>2, <2>5, <3>1 DEF Connection
  <2>7. Effect
    BY <1>4, <2>4, <2>5, <2>6 DEF Effect, Outcome, q
  <2> QED BY <2>7, EffectResults
<1>8. CASE server' = r /\ sock' = [sock EXCEPT ![c].state = "open"]
  <2> DEFINE j == [k EXCEPT !.state = "open"]
  <2>1. sock' = [sock EXCEPT ![c] = j]
    BY <1>8
  <2>2. j \in SockRec /\ j.state = "open" /\ j.wire = <<>>
    <3> HIDE DEF k
    <3> QED BY <1>2 DEF SockRec
  <2> HIDE DEF j
  <2>3. Near(server, r, c, f)
    BY <1>1, <1>3 DEF Near, Made
  <2>4. sock' \in [Client -> SockRec] /\ sock'[c] = j /\ \A d \in Client : d # c => sock'[d] = sock[d]
    BY <1>2, <2>1, <2>2
  <2>5. Scheduled(r, c)
    <3>1. ~Handler(r, c)
      BY <1>5, <1>6 DEF Handler, READABLE, WRITABLE
    <3> QED BY <1>5, <1>6, <3>1 DEF Scheduled
  <2>6. <<>> \o Unsent(N) = Seg(0, N.made)
    <3>1. 0 \in Nat /\ 0 <= 0
      OBVIOUS
    <3> DEFINE z == 0
    <3>2. z \in Nat /\ z <= z
      BY <3>1
    <3> HIDE DEF z
    <3>3. Seg(z, z) = <<>>
      BY <3>2, SegFacts
    <3> QED BY <1>6, <3>3 DEF z
  <2>7. Connection(server', sock'[c], c)
    BY <1>5, <1>8, <2>2, <2>4, <2>5, <2>6 DEF Connection
  <2>8. Effect
    BY <1>4, <1>8, <2>3, <2>4, <2>7 DEF Effect, Outcome
  <2> QED BY <2>8, EffectResults
<1> QED BY <1>1, <1>7, <1>8

LEMMA RefuseStep ==
  ASSUME ServerInv, NEW c \in Client, NEW f \in Fd, RefuseDescriptor(c, f)
  PROVE  Results
<1> DEFINE k == sock[c]
           j == [k EXCEPT !.state = "closed", !.inbox = <<>>, !.room = SendBuffer]
<1>1. k.state = "backlog" /\ server' = server /\ sock' = [sock EXCEPT ![c] = j]
  BY DEF RefuseDescriptor, Backlog, Closed
<1>2. sock \in [Client -> SockRec] /\ k \in SockRec /\ Connection(server, k, c)
  BY DEF ServerInv
<1>3. j \in SockRec /\ j.state = "closed"
  <2>1. SendBuffer \in Nat /\ <<>> \in Seq(Request)
    BY LimitAssumption
  <2> HIDE DEF k
  <2> QED BY <1>2, <2>1 DEF SockRec
<1> HIDE DEF j
<1>4. sock' \in [Client -> SockRec] /\ sock'[c] = j /\ \A d \in Client : d # c => sock'[d] = sock[d]
  BY <1>1, <1>2, <1>3
<1>5. Connection(server, sock'[c], c)
  BY <1>1, <1>2, <1>3, <1>4 DEF Connection
<1> QED BY <1>1, <1>4, <1>5, QuietEffect

LEMMA SameResults ==
  ASSUME ServerInv, server' = server, sock' = sock
  PROVE  Results
<1>1. /\ GoodServer(server) /\ sock \in [Client -> SockRec]
      /\ \A c \in Client : Connection(server, sock[c], c)
  BY DEF ServerInv
<1>2. ASSUME NEW c \in Client PROVE Outcome(c)
  <2>1. Connection(server, sock'[c], c) /\ \A d \in Client : d # c => sock'[d] = sock[d]
    BY <1>1
  <2>2. sock' \in [Client -> SockRec]
    BY <1>1
  <2>3. Results
    BY <2>1, <2>2, QuietEffect
  <2> QED BY <2>3 DEF Results
<1>3. GoodServer(server') /\ sock' \in [Client -> SockRec]
  BY <1>1
<1> QED BY <1>2, <1>3 DEF Results

\* The steps that only move the event loop
LEMMA LoopStep ==
  ASSUME ServerInv,
         Poll \/ (\E e \in loop.fired : Dispatch(e)) \/ EndOfEvents \/ AcceptDone \/ InputDone
         \/ WriteNotWanted
  PROVE  Results /\ LoopInv'
<1>1. server' = server /\ sock' = sock
  BY DEF Poll, Dispatch, EndOfEvents, AcceptDone, InputDone, WriteNotWanted
<1>2. Results
  BY <1>1, SameResults
<1>3. LoopInv
  BY DEF ServerInv
<1>4. CASE Poll
  <2>1. \A e \in FiredEvents : e.fd \in Fd \cup {LISTEN}
    BY DEF FiredEvents
  <2>2. loop' = [phase |-> "dispatch", event |-> {}, fired |-> {e \in FiredEvents : e.mask # {}}]
    BY <1>4 DEF Poll
  <2> QED BY <1>2, <2>1, <2>2 DEF LoopInv
<1>5. ASSUME NEW e \in loop.fired, Dispatch(e) PROVE LoopInv'
  <2>1. /\ loop' = [phase |-> IF e.fd = LISTEN THEN "accept"
                              ELSE IF READABLE \in e.mask \cap server.events[e.fd].mask
                                   THEN "read" ELSE "write",
                    fired |-> loop.fired \ {e}, event |-> {e}]
    BY <1>5 DEF Dispatch
  <2>2. e.fd \in Fd \cup {LISTEN}
    BY <1>3 DEF LoopInv
  <2> QED BY <1>1, <1>3, <2>1, <2>2 DEF LoopInv
<1>6. CASE EndOfEvents
  BY <1>1, <1>2, <1>3, <1>6 DEF EndOfEvents, LoopInv
<1>7. CASE AcceptDone
  BY <1>1, <1>2, <1>3, <1>7 DEF AcceptDone, NextEvent, LoopInv
<1>8. CASE InputDone
  BY <1>1, <1>2, <1>3, <1>8 DEF InputDone, Goto, LoopInv
<1>9. CASE WriteNotWanted
  BY <1>1, <1>2, <1>3, <1>9 DEF WriteNotWanted, NextEvent, LoopInv
<1> QED BY <1>2, <1>4, <1>5, <1>6, <1>7, <1>8, <1>9

LEMMA ServerSteps ==
  ASSUME ServerInv, ServerStep
  PROVE  Results /\ LoopInv'
<1>0. LoopInv /\ \A n \in Writes : n \in Nat
  BY LimitAssumption DEF ServerInv, Writes
<1>1. ASSUME loop' = loop, loop.phase \notin {"read", "input"} PROVE LoopInv'
  BY <1>0, <1>1 DEF LoopInv
<1>2. ASSUME NextEvent PROVE LoopInv'
  BY <1>0, <1>2 DEF LoopInv, NextEvent
<1>3. ASSUME NEW c \in Client, HandlePendingWriteError(c) PROVE Results /\ LoopInv'
  <2>1. loop' = loop /\ loop.phase \notin {"read", "input"}
    BY <1>3 DEF HandlePendingWriteError
  <2> QED BY <1>1, <1>3, <2>1, PendingWriteErrorStep
<1>4. ASSUME NEW c \in Client, NEW n \in Writes, HandlePendingWrite(c, n) PROVE Results /\ LoopInv'
  <2>1. loop' = loop /\ loop.phase \notin {"read", "input"}
    BY <1>4 DEF HandlePendingWrite
  <2> QED BY <1>0, <1>1, <1>4, <2>1, PendingWriteStep
<1>5. ASSUME NEW c \in Client, NEW f \in Fd, RefuseDescriptor(c, f) PROVE Results /\ LoopInv'
  <2>1. loop' = loop /\ loop.phase \notin {"read", "input"}
    BY <1>5 DEF RefuseDescriptor
  <2> QED BY <1>1, <1>5, <2>1, RefuseStep
<1>6. ASSUME NEW c \in Client, NEW f \in Fd, Accept(c, f) PROVE Results /\ LoopInv'
  <2>1. loop' = loop /\ loop.phase \notin {"read", "input"}
    BY <1>6 DEF Accept
  <2> QED BY <1>1, <1>6, <2>1, AcceptStep
<1>7. CASE ReadEnds
  <2> DEFINE c == Handled
  <2>1. /\ loop.phase = "read" /\ server' = freeClient(server, c) /\ sock' = Closed(c)
        /\ Goto("write")
    BY <1>7 DEF ReadEnds
  <2>2. c \in ToSet(server.clients)
    BY <2>1, HandledLive
  <2> HIDE DEF c
  <2>3. Results
    BY <2>1, <2>2, DropStep
  <2>4. LoopInv'
    BY <1>0, <2>1 DEF LoopInv, Goto
  <2> QED BY <2>3, <2>4
<1>8. ASSUME NEW k \in 0..MaxRequests, Read(k) PROVE Results /\ LoopInv'
  <2>1. k \in Nat
    BY LimitAssumption
  <2> QED BY <1>8, <2>1, ReadStep
<1>9. CASE SendReplyError
  <2> DEFINE c == Handled
  <2>1. /\ loop.phase = "write" /\ WriteWanted /\ sock[c].hungup
        /\ server' = freeClient(server, c) /\ sock' = Closed(c) /\ NextEvent
    BY <1>9 DEF SendReplyError
  <2>2. c \in ToSet(server.clients)
    BY <2>1, HandledLive
  <2> HIDE DEF c
  <2>3. Results
    BY <2>1, <2>2, DropStep
  <2> QED BY <1>2, <2>1, <2>3
<1>10. ASSUME NEW n \in Writes, SendReply(n) PROVE Results /\ LoopInv'
  <2>1. NextEvent
    BY <1>10 DEF SendReply
  <2> QED BY <1>0, <1>2, <1>10, <2>1, SendReplyStep
<1>11. CASE BeforeSleep
  BY <1>3, <1>4, <1>11 DEF BeforeSleep
<1>12. CASE Accepting
  BY <1>5, <1>6, <1>12, LoopStep DEF Accepting
<1>13. CASE Reading
  BY <1>7, <1>8, <1>13, LoopStep, ProcessInputStep DEF Reading
<1>14. CASE Writing
  BY <1>9, <1>10, <1>14, LoopStep DEF Writing
<1> QED BY <1>11, <1>12, <1>13, <1>14, LoopStep DEF ServerStep

LEMMA ServerInvInit ==
  ASSUME Init
  PROVE  ServerInv
<1> DEFINE N == NewClient(-1)
<1>1. N \in ClientRec /\ Bytes(N) /\ N.flags = {}
  BY NewClientFacts
<1> HIDE DEF N
<1>2. /\ DOMAIN server = ServerFields /\ server.client = [c \in Client |-> N]
      /\ server.clients = <<>> /\ server.clients_pending_write = <<>>
      /\ server.clients_to_close = <<>> /\ server.events = [f \in Fd |-> NoEvent]
  BY DEF Init, NewServer, ServerFields, N
<1>3. OneList(<<>>) /\ ToSet(<<>>) = {}
  BY DEF OneList, Distinct, ToSet
<1>4. NoEvent \in FileEvent /\ NoEvent.mask = {}
  BY DEF NoEvent, FileEvent
<1>5. GoodServer(server)
  <2>1. ServerTypes(server)
    BY <1>1, <1>2, <1>3, <1>4 DEF ServerTypes, ServerFields
  <2>2. \A c \in Client : server.client[c] = N /\ c \notin ToSet(server.clients)
                          /\ c \notin ToSet(server.clients_pending_write)
                          /\ c \notin ToSet(server.clients_to_close)
    BY <1>2, <1>3
  <2>3. \A f \in Fd : server.events[f].mask = {}
    BY <1>2, <1>4
  <2> QED BY <1>1, <2>1, <2>2, <2>3 DEF GoodServer, N
<1>6. sock \in [Client -> SockRec] /\ \A c \in Client : sock[c].wire = <<>>
  <2>1. SendBuffer \in Nat
    BY LimitAssumption
  <2> QED BY <2>1 DEF Init, SockRec
<1>7. \A c \in Client : Connection(server, sock[c], c)
  BY <1>2, <1>3, <1>6 DEF Connection
<1>8. LoopInv
  BY DEF Init, LoopInv
<1> QED BY <1>5, <1>6, <1>7, <1>8 DEF ServerInv

LEMMA NetworkingStep ==
  ASSUME ServerInv, [Next]_vars
  PROVE  Results /\ LoopInv'
<1>1. CASE UNCHANGED vars
  <2>1. server' = server /\ sock' = sock /\ loop' = loop
    BY <1>1 DEF vars
  <2> QED BY <2>1, SameResults, LoopSame DEF ServerInv
<1>2. CASE Next
  BY <1>2, PeerStep, ServerSteps DEF Next
<1> QED BY <1>1, <1>2

LEMMA ServerInvStep ==
  ASSUME ServerInv, [Next]_vars
  PROVE  ServerInv'
<1>1. Results /\ LoopInv'
  BY NetworkingStep
<1>2. GoodServer(server)' /\ (sock \in [Client -> SockRec])' /\ \A c \in Client : Connection(server, sock[c], c)'
  BY <1>1 DEF Results, Outcome
<1> QED BY <1>1, <1>2 DEF ServerInv

\* The inductive invariant holds of every reachable state.
THEOREM ServerInvariant == Spec => []ServerInv
<1>1. Init => ServerInv
  BY ServerInvInit
<1>2. ServerInv /\ [Next]_vars => ServerInv'
  BY ServerInvStep
<1> QED BY <1>1, <1>2, PTL DEF Spec

-----------------------------------------------------------------------------
(* What the invariant says.                                                *)

\* A list and the flag that says a client is on it agree in every reachable
\* state, whatever was freed, closed or written in between (unlinkClient,
\* freeClient, freeClientAsync, handleClientsWithPendingWrites).
THEOREM ListsFollowFlags == Spec => []ListsMatchFlags
<1>1. ASSUME ServerInv PROVE ListsMatchFlags
  <2>1. GoodServer(server)
    BY <1>1 DEF ServerInv
  <2>2. ASSUME NEW l, OneList(l) PROVE NoDuplicates(l)
    <3>1. l \in Seq(Client) /\ Distinct(l)
      BY <2>2 DEF OneList
    <3> QED BY <3>1, DistinctLength DEF NoDuplicates
  <2>3. /\ NoDuplicates(server.clients) /\ NoDuplicates(server.clients_pending_write)
        /\ NoDuplicates(server.clients_to_close)
    BY <2>1, <2>2 DEF GoodServer, ServerTypes
  <2>4. ASSUME NEW c \in Client
        PROVE  /\ c \in ToSet(server.clients_pending_write) <=> HasFlag(server, c, PENDING_WRITE)
               /\ c \in ToSet(server.clients_to_close) <=> HasFlag(server, c, CLOSE_ASAP)
               /\ server.client[c].flags # {} => Live(c)
    <3>1. NewClient(-1).flags = {}
      BY DEF NewClient
    <3> QED BY <2>1, <3>1 DEF GoodServer, HasFlag, Live
  <2> QED BY <2>3, <2>4 DEF ListsMatchFlags
<1> QED BY <1>1, ServerInvariant, PTL

\* The event table leads to the live owner of a descriptor and to nobody else,
\* though descriptors are closed and reused (createClient, unlinkClient).
THEOREM EventsAreOwned == Spec => []EventsReachTheirClient
<1>1. ASSUME ServerInv PROVE EventsReachTheirClient
  <2>1. GoodServer(server)
    BY <1>1 DEF ServerInv
  <2>2. ASSUME NEW f \in Fd, server.events[f].mask # {}, NEW c \in server.events[f].clientData
        PROVE  Live(c) /\ server.client[c].fd = f
    <3>1. PICK d \in Client : d \in ToSet(server.clients) /\ server.client[d].fd = f
      BY <2>1, <2>2 DEF GoodServer
    <3>2. server.events[f].clientData = {d}
      BY <2>1, <3>1 DEF GoodServer
    <3> QED BY <2>2, <3>1, <3>2 DEF Live
  <2>3. ASSUME NEW c \in Client, Live(c) PROVE READABLE \in server.events[server.client[c].fd].mask
    BY <2>1, <2>3 DEF GoodServer, Live
  <2> QED BY <2>2, <2>3 DEF EventsReachTheirClient
<1> QED BY <1>1, ServerInvariant, PTL

\* When the loop is about to poll, a client with output has a write handler or
\* waits to be closed, and one without has none (prepareClientToWrite,
\* writeToClient, handleClientsWithPendingWrites).
THEOREM NoOutputForgotten == Spec => []OutputScheduled
<1>1. ASSUME ServerInv PROVE OutputScheduled
  <2>1. SUFFICES ASSUME server.clients_pending_write = <<>>, NEW c \in Client, Live(c)
                 PROVE  LET handler == WRITABLE \in server.events[server.client[c].fd].mask
                            pending == clientHasPendingReplies(server.client[c])
                        IN  /\ pending => handler \/ HasFlag(server, c, CLOSE_ASAP)
                            /\ handler => pending
    BY DEF OutputScheduled
  <2>2. GoodServer(server) /\ Scheduled(server, c)
    BY <1>1, <2>1 DEF ServerInv, Connection, Live
  <2>3. PENDING_WRITE \notin server.client[c].flags
    <3>1. ToSet(<<>>) = {}
      BY DEF ToSet
    <3> QED BY <2>1, <2>2, <3>1 DEF GoodServer
  <2> QED BY <2>2, <2>3 DEF Scheduled, Handler, HasFlag
<1> QED BY <1>1, ServerInvariant, PTL

\* reply_bytes is the memory the strings of the reply list take, for any padding
\* of blocks and any spare room of strings, after any mixture of appends, joins,
\* copies, deferred lengths and partial writes (_addReply*ToList,
\* setDeferredMultiBulkLength, writeToClient).
THEOREM ReplyBytesAreExact == Spec => []ReplyBytesExact
<1>1. ServerInv => ReplyBytesExact
  BY DEF ServerInv, GoodServer, Bytes, ReplyBytesExact
<1> QED BY <1>1, ServerInvariant, PTL

\* What a peer was sent, followed by what is buffered for it, is the output its
\* commands asked for, byte for byte and in order, for buffers, chunks and
\* writes of any size.
THEOREM StreamIsIntact == Spec => []StreamIntact
<1>1. ASSUME ServerInv PROVE StreamIntact
  <2>1. SUFFICES ASSUME NEW c \in Client, Live(c)
                 PROVE  sock[c].wire \o Unsent(server.client[c])
                          = [i \in 1..server.client[c].made |-> i]
    BY DEF StreamIntact
  <2> DEFINE m == server.client[c].made
  <2>2. sock[c].wire \o Unsent(server.client[c]) = Seg(0, m)
    BY <1>1, <2>1 DEF ServerInv, Connection, Live
  <2>3. m \in Nat
    <3>1. server.client[c] \in ClientRec
      BY <1>1 DEF ServerInv, GoodServer, ServerTypes
    <3> QED BY <3>1 DEF ClientRec
  <2> HIDE DEF m
  <2>4. Seg(0, m) = [i \in 1..m |-> i]
    BY <2>3 DEF Seg
  <2> QED BY <2>2, <2>4 DEF m
<1> QED BY <1>1, ServerInvariant, PTL

\* Once a client is to be closed after its reply, nothing is added to its output
\* and none of its input is executed (addReply, processInputBuffer).
THEOREM ClosingStaysFinal == Spec => ClosingIsFinal
<1>1. ASSUME ServerInv, [Next]_vars
      PROVE  [\A c \in Client :
                HasFlag(server, c, CLOSE_AFTER_REPLY) =>
                  \/ c \notin ToSet(server'.clients)
                  \/ /\ HasFlag(server', c, CLOSE_AFTER_REPLY)
                     /\ server'.client[c].made = server.client[c].made
                     /\ Len(server'.client[c].querybuf) >= Len(server.client[c].querybuf)]_vars
  <2>1. \A c \in Client : Final(c)
    BY <1>1, NetworkingStep DEF Results, Outcome
  <2> QED BY <2>1 DEF Final
<1> QED BY <1>1, ServerInvariant, PTL DEF Spec, ClosingIsFinal

\* A connection that ends by QUIT or a protocol error is closed by the write path
\* only when its peer, if it is still there, was sent the last byte
\* (writeToClient, freeClient).
THEOREM AllIsSentBeforeClose == Spec => AllSentBeforeClose
<1>1. ASSUME ServerInv, [Next]_vars
      PROVE  [\A c \in Client :
                /\ HasFlag(server, c, CLOSE_AFTER_REPLY) /\ c \notin ToSet(server'.clients)
                /\ loop.phase # "read" /\ ~sock[c].hungup
                => Len(sock'[c].wire) = server.client[c].made]_vars
  <2>1. \A c \in Client : SentAll(c)
    BY <1>1, NetworkingStep DEF Results, Outcome
  <2> QED BY <2>1 DEF SentAll
<1> QED BY <1>1, ServerInvariant, PTL DEF Spec, AllSentBeforeClose
=============================================================================
