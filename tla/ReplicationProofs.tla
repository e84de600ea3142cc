-------------------------- MODULE ReplicationProofs --------------------------
(***************************************************************************)
(* What the handlers of replication.c do to the servers and to their       *)
(* connections keeps both ends of every link in order, for any number of   *)
(* servers and connections, whoever is told to follow whom, and for        *)
(* backlogs and transfers of any size.                                     *)
(***************************************************************************)
EXTENDS Replication, ListFacts

\* Nothing on a quiet connection makes the replica take up a cached stream.
Quiet(k) ==
  /\ Reply("continue") \notin ToSet(k.toR)
  /\ \A i \in DOMAIN k.toM : k.toM[i].t = "psync" => k.toM[i].runid = NULL

ConnRec ==
  [r : Node \cup {NULL}, m : Node \cup {NULL}, toM : Seq(Request), toR : Seq(Item),
   ropen : BOOLEAN, mopen : BOOLEAN, up : BOOLEAN]

\* A connection is between two servers until both have closed it.
GoodConn(k) ==
  /\ k \in ConnRec
  /\ k.ropen \/ k.mopen => k.r \in Node /\ k.m \in Node
  /\ ~k.ropen /\ ~k.mopen => k = NoConn
GoodNet(net) == DOMAIN net = Conn /\ \A c \in Conn : GoodConn(net[c])

\* The p-th byte of the backlog, from the newest one on
Newest(b, p) == b.buf[(b.idx + (b.size - p)) % b.size]

GoodBacklog(b) ==
  /\ DOMAIN b = {"buf", "size", "histlen", "idx", "off", "offset"}
  /\ b.size \in Sizes /\ b.buf \in Ring(b.size) \cup {NULL}
  /\ b.histlen \in Int /\ b.idx \in Int /\ b.off \in Int /\ b.offset \in Int
  /\ b.buf # NULL =>
       /\ b.idx \in 0..(b.size - 1) /\ b.histlen \in 0..b.size
       /\ b.off + b.histlen = b.offset + 1
       /\ \A p \in 1..b.histlen : Newest(b, p) # NULL

LinkStates ==
  {"NONE", "CONNECT", "CONNECTING", "RECEIVE_PONG", "RECEIVE_AUTH", "RECEIVE_PORT", "RECEIVE_IP",
   "RECEIVE_CAPA", "RECEIVE_PSYNC", "TRANSFER", "CONNECTED"}

GoodServer(s) ==
  /\ DOMAIN s = {"runid", "diskless", "data", "b", "slaveseldb", "slaves", "cli", "child",
                 "masterhost", "repl_state", "transfer_s", "master_runid", "initial_offset",
                 "transfer_size", "usemark", "file", "master", "cached_master"}
  /\ s.runid \in RunId /\ s.diskless \in BOOLEAN /\ s.data \in Dataset /\ GoodBacklog(s.b)
  /\ s.slaveseldb \in Int /\ s.slaves \in Seq(Conn) /\ s.cli \in [Conn -> ReplicaClient \cup {NULL}]
  /\ s.child \in Save \cup {NULL} /\ s.masterhost \in Node \cup {NULL} /\ s.repl_state \in LinkStates
  /\ s.transfer_s \in Conn \cup {NULL} /\ s.master_runid \in RunId \cup {NULL}
  /\ s.initial_offset \in Int /\ s.transfer_size \in Int /\ s.usemark \in BOOLEAN
  /\ s.file \in Seq(Item) /\ s.master \in MasterClient \cup {NULL}
  /\ s.cached_master \in MasterClient \cup {NULL}

\* The list of slaves is that of the clients flagged so, and a client has an
\* open connection.
Flagged(s) == {c \in Conn : s.cli[c] # NULL /\ s.cli[c].slave}
GoodSlaves(n, s, net) ==
  /\ Distinct(s.slaves) /\ ToSet(s.slaves) = Flagged(s)
  /\ \A c \in Conn : s.cli[c] # NULL => net[c].m = n /\ net[c].mopen

WithBacklog(s) == s.slaves # <<>> => s.b.buf # NULL

\* The attempt has not asked for a stream it has cached.
Early(s) ==
  \/ s.repl_state \in {"CONNECTING", "RECEIVE_PONG", "RECEIVE_AUTH", "RECEIVE_PORT", "RECEIVE_IP",
                       "RECEIVE_CAPA"}
  \/ s.repl_state = "RECEIVE_PSYNC" /\ s.cached_master = NULL

GoodLink(n, s, net) ==
  /\ \A c \in Conn : net[c].r = n /\ net[c].ropen <=> HasLink(s) /\ c = LinkOf(s)
  /\ HasLink(s) => LinkOf(s) \in Conn
  /\ s.master # NULL <=> s.repl_state = "CONNECTED"
  /\ s.master # NULL \/ s.repl_state = "TRANSFER" => s.cached_master = NULL
  /\ s.masterhost = NULL <=> s.repl_state = "NONE"
  /\ Early(s) => Quiet(net[LinkOf(s)])

GoodWorld(n, x) ==
  /\ DOMAIN x = {"s", "net", "bad", "fork"}
  /\ GoodServer(x.s) /\ GoodNet(x.net)
  /\ GoodSlaves(n, x.s, x.net) /\ GoodLink(n, x.s, x.net)

\* What n may not do to a connection others have
ApartAt(n, k, l) ==
  \A o \in Node \ {n} :
    /\ l.r = o /\ l.ropen <=> k.r = o /\ k.ropen
    /\ k.m = o /\ k.mopen => l.m = o /\ l.mopen
    /\ k.r = o /\ k.ropen /\ Quiet(k) => Quiet(l)
Apart(n, net, after) == \A c \in Conn : ApartAt(n, net[c], after[c])

LinkInv ==
  /\ DOMAIN server = Node
  /\ \A n \in Node : GoodWorld(n, World(n, {})) /\ WithBacklog(server[n])
  /\ DOMAIN count = Counters /\ \A k \in Counters : count[k] \in Nat

-----------------------------------------------------------------------------
(* Positions in a ring.                                                    *)

LEMMA ModFacts ==
  ASSUME NEW s \in Nat \ {0}, NEW a \in Int
  PROVE  /\ a % s \in 0..(s - 1)
         /\ \E q \in Int : a = q * s + (a % s)
<1>1. a % s \in 0..(s - 1)
  OBVIOUS
<1>2. a = (a \div s) * s + (a % s) /\ a \div s \in Int
  OBVIOUS
<1> QED BY <1>1, <1>2

\* A number has one remainder.
LEMMA ModUnique ==
  ASSUME NEW s \in Nat \ {0}, NEW q \in Int, NEW p \in Int,
         NEW i \in 0..(s - 1), NEW j \in 0..(s - 1), q * s + i = p * s + j
  PROVE  i = j
<1>1. CASE p < q
  <2>1. (q - p) * s >= s
    BY <1>1
  <2>2. (q - p) * s = j - i
    OBVIOUS
  <2> QED BY <2>1, <2>2
<1>2. CASE q < p
  <2>1. (p - q) * s >= s
    BY <1>2
  <2>2. (p - q) * s = i - j
    OBVIOUS
  <2> QED BY <2>1, <2>2
<1> QED BY <1>1, <1>2

LEMMA ModIs ==
  ASSUME NEW s \in Nat \ {0}, NEW a \in Int, NEW q \in Int, NEW i \in 0..(s - 1), a = q * s + i
  PROVE  a % s = i
<1>1. PICK p \in Int : a = p * s + (a % s)
  BY ModFacts
<1>2. a % s \in 0..(s - 1)
  BY ModFacts
<1> QED BY <1>1, <1>2, ModUnique

LEMMA ModAdd ==
  ASSUME NEW s \in Nat \ {0}, NEW a \in Int, NEW c \in Int
  PROVE  ((a % s) + c) % s = (a + c) % s
<1> DEFINE i == a % s
           d == i + c
           j == d % s
<1>1. PICK q \in Int : a = q * s + i
  BY ModFacts
<1>2. i \in Int
  BY ModFacts
<1>3. d \in Int
  BY <1>2
<1> HIDE DEF d
<1>4. j \in 0..(s - 1)
  BY <1>3, ModFacts
<1>5. PICK p \in Int : d = p * s + j
  BY <1>3, ModFacts
<1> HIDE DEF i, j
<1>6. a + c = (p + q) * s + j /\ p + q \in Int /\ a + c \in Int
  BY <1>1, <1>2, <1>4, <1>5 DEF d
<1>7. (a + c) % s = j
  BY <1>4, <1>6, ModIs
<1> QED BY <1>7 DEF i, j, d

\* Numbers with the same remainder are the same, or a turn apart.
LEMMA ModApart ==
  ASSUME NEW s \in Nat \ {0}, NEW a \in Int, NEW c \in Int, a % s = c % s, a - c < s, c - a < s
  PROVE  a = c
<1>1. PICK q \in Int : a = q * s + (a % s)
  BY ModFacts
<1>2. PICK p \in Int : c = p * s + (c % s)
  BY ModFacts
<1> DEFINE i == a % s
<1>3. i \in Int
  BY ModFacts
<1>4. a = q * s + i /\ c = p * s + i
  BY <1>1, <1>2
<1> HIDE DEF i
<1>5. CASE p < q
  <2>1. (q - p) * s >= s
    BY <1>5
  <2>2. (q - p) * s = a - c
    BY <1>3, <1>4
  <2> QED BY <2>1, <2>2
<1>6. CASE q < p
  <2>1. (p - q) * s >= s
    BY <1>6
  <2>2. (p - q) * s = c - a
    BY <1>3, <1>4
  <2> QED BY <2>1, <2>2
<1> QED BY <1>3, <1>4, <1>5, <1>6

LEMMA ModTurn ==
  ASSUME NEW s \in Nat \ {0}, NEW a \in Int
  PROVE  (a + s) % s = a % s
<1>1. PICK q \in Int : a = q * s + (a % s)
  BY ModFacts
<1> DEFINE i == a % s
<1>2. i \in 0..(s - 1)
  BY ModFacts
<1>3. a = q * s + i
  BY <1>1
<1> HIDE DEF i
<1>4. a + s = (q + 1) * s + i /\ q + 1 \in Int /\ a + s \in Int
  BY <1>2, <1>3
<1>5. (a + s) % s = i
  BY <1>2, <1>4, ModIs
<1> QED BY <1>5 DEF i

LEMMA SizeFacts ==
  ASSUME NEW size \in Sizes
  PROVE  size \in Nat \ {0}
<1>1. \A n \in Int : Max({n, CONFIG_REPL_BACKLOG_MIN_SIZE}) \in Nat \ {0}
  BY MaxOfTwo, BacklogAssumption
<1> QED BY <1>1, ReplicationAssumption DEF Sizes

-----------------------------------------------------------------------------
(* The backlog.                                                            *)

\* A byte that is fed is the newest one; those fed before are that much older.
Shifted(b, e, t) ==
  \A p \in 1..e.histlen :
    Newest(e, p) = IF p <= Len(t) THEN t[Len(t) + 1 - p] ELSE Newest(b, p - Len(t))

LEMMA WrittenCells ==
  ASSUME NEW b, GoodBacklog(b), b.buf # NULL, NEW t \in Seq(Byte), NEW p \in 1..b.size
  PROVE  Written(b, t)[(b.idx + Len(t) + (b.size - p)) % b.size] =
           IF p <= Len(t) THEN t[Len(t) + 1 - p] ELSE Newest(b, p - Len(t))
<1> DEFINE s == b.size
           L == Len(t)
           i == (b.idx + L + (s - p)) % s
           here == {k \in DOMAIN t : (b.idx + k - 1) % s = i}
           a == b.idx + L - p
<1>1. /\ s \in Nat \ {0} /\ b.idx \in 0..(s - 1) /\ L \in Nat /\ DOMAIN t = 1..L
      /\ DOMAIN b.buf = 0..(s - 1) /\ p \in 1..s
  BY SizeFacts DEF GoodBacklog, Ring
<1> HIDE DEF s, L
<1>2. a \in Int /\ a + s = b.idx + L + (s - p) /\ a + s \in Int
  BY <1>1
<1>3. i = a % s
  <2> HIDE DEF a
  <2> QED BY <1>1, <1>2, ModTurn
<1>4. i \in DOMAIN b.buf
  <2> HIDE DEF a
  <2> QED BY <1>1, <1>2, ModFacts
<1> HIDE DEF i
<1>5. Written(b, t)[i] = IF here = {} THEN b.buf[i] ELSE t[Max(here)]
  BY <1>4 DEF Written, s
<1>6. ASSUME NEW k \in here
      PROVE  k \in 1..L /\ k <= L + 1 - p
  <2> DEFINE c == b.idx + k - 1
  <2>1. k \in 1..L /\ c % s = i
    BY <1>1
  <2>2. b.idx \in Int /\ L \in Int /\ k \in Int /\ p \in Int
    BY <1>1, <2>1
  <2>4. c \in Int /\ c = a + (k - (L + 1 - p))
    <3> HIDE DEF here
    <3> QED BY <2>2
  <2>3. CASE k > L + 1 - p
    <3>1. c - a < s /\ a - c < s /\ c # a
      <4> HIDE DEF here, a, c
      <4> QED BY <1>1, <1>2, <2>1, <2>2, <2>3, <2>4
    <3> HIDE DEF a, c
    <3> QED BY <1>1, <1>2, <1>3, <2>1, <2>4, <3>1, ModApart
  <2> QED BY <1>1, <2>1, <2>3
<1>7. CASE p <= L
  <2> DEFINE z == L + 1 - p
  <2>1. z \in 1..L /\ b.idx + z - 1 = a
    BY <1>1, <1>7
  <2>2. z \in here
    BY <1>1, <1>3, <2>1
  <2>3. here \in SUBSET (1..L) /\ here # {}
    BY <1>1, <2>2
  <2>4. Max(here) \in here /\ z <= Max(here)
    <3> HIDE DEF here, z
    <3> QED BY <1>1, <2>2, <2>3, MaxOfRange
  <2>5. Max(here) = z
    <3> DEFINE k == Max(here)
    <3>1. k \in here /\ z <= k
      BY <2>4
    <3> HIDE DEF k, here
    <3>2. k \in 1..L /\ k <= L + 1 - p
      BY <1>6, <3>1
    <3>3. k = z
      BY <1>1, <2>1, <3>1, <3>2
    <3> QED BY <3>3 DEF k
  <2> HIDE DEF here
  <2> QED BY <1>5, <1>7, <2>3, <2>5 DEF i, s, L
<1>8. CASE ~(p <= L)
  <2>1. here = {}
    <3> SUFFICES ASSUME NEW k \in here PROVE FALSE
      OBVIOUS
    <3>1. k \in 1..L /\ k <= L + 1 - p
      <4> HIDE DEF here
      <4> QED BY <1>6
    <3> QED BY <1>1, <1>8, <3>1
  <2>2. b.idx + (s - (p - L)) = b.idx + L + (s - p)
    BY <1>1
  <2>3. Newest(b, p - L) = b.buf[i]
    BY <2>2 DEF Newest, i, s
  <2> HIDE DEF here
  <2> QED BY <1>5, <1>8, <2>1, <2>3 DEF i, s, L
<1> QED BY <1>7, <1>8

LEMMA FeedFacts ==
  ASSUME NEW b, GoodBacklog(b), b.buf # NULL, NEW t \in Seq(Byte), NEW e, e = feedReplicationBacklog(b, t)
  PROVE  /\ GoodBacklog(e) /\ e.buf # NULL /\ e.offset = b.offset + Len(t) /\ Shifted(b, e, t)
         /\ e.histlen <= b.histlen + Len(t) /\ e.size = b.size
<1> DEFINE s == b.size
           L == Len(t)
           h == Min({b.histlen + L, s})
<1>1. /\ s \in Nat \ {0} /\ b.idx \in 0..(s - 1) /\ L \in Nat /\ DOMAIN t = 1..L
      /\ b.buf \in Ring(s) /\ b.histlen \in 0..s /\ b.offset \in Int /\ s \in Sizes
  BY SizeFacts DEF GoodBacklog
<1>2. /\ DOMAIN e = {"buf", "size", "histlen", "idx", "off", "offset"}
      /\ e.buf = Written(b, t) /\ e.size = s /\ e.idx = (b.idx + L) % s /\ e.histlen = h
      /\ e.offset = b.offset + L /\ e.off = e.offset - h + 1
  BY DEF GoodBacklog, feedReplicationBacklog
<1>3. h \in 0..s /\ h <= b.histlen + L
  <2>1. b.histlen + L \in Int /\ s \in Int
    BY <1>1
  <2>2. h = IF b.histlen + L <= s THEN b.histlen + L ELSE s
    BY <2>1, MaxOfTwo
  <2> QED BY <1>1, <2>2
<1> HIDE DEF h, L, s
<1>4. e.buf \in Ring(s)
  <2>1. ASSUME NEW i \in 0..(s - 1), NEW H \in SUBSET (1..L), H # {}
        PROVE  t[Max(H)] \in Byte
    <3>1. Max(H) \in 1..L
      BY <1>1, <2>1, MaxOfRange
    <3> QED BY <1>1, <3>1
  <2>2. ASSUME NEW i \in DOMAIN b.buf PROVE Written(b, t)[i] \in Byte \cup {NULL}
    <3> DEFINE H == {k \in DOMAIN t : (b.idx + k - 1) % s = i}
    <3>1. Written(b, t)[i] = IF H = {} THEN b.buf[i] ELSE t[Max(H)]
      BY DEF Written, s
    <3>2. H \in SUBSET (1..L) /\ i \in 0..(s - 1) /\ b.buf[i] \in Byte \cup {NULL}
      BY <1>1 DEF Ring
    <3> HIDE DEF H
    <3> QED BY <2>1, <3>1, <3>2
  <2>3. Written(b, t) = [i \in DOMAIN b.buf |-> Written(b, t)[i]] /\ DOMAIN b.buf = 0..(s - 1)
    BY <1>1 DEF Ring, Written
  <2> QED BY <1>2, <2>2, <2>3 DEF Ring
<1>5. e.buf # NULL
  BY <1>1, <1>4, ReplicationAssumption
<1>6. Shifted(b, e, t)
  <2> SUFFICES ASSUME NEW p \in 1..h
               PROVE  Newest(e, p) = IF p <= L THEN t[L + 1 - p] ELSE Newest(b, p - L)
    BY <1>2 DEF Shifted, L
  <2>1. p \in 1..s /\ s - p \in Int /\ b.idx + L \in Int
    BY <1>1, <1>3
  <2>2. (((b.idx + L) % s) + (s - p)) % s = (b.idx + L + (s - p)) % s
    <3> DEFINE a == b.idx + L
               c == s - p
    <3> HIDE DEF a, c
    <3>1. ((a % s) + c) % s = (a + c) % s
      BY <1>1, <2>1, ModAdd DEF a, c
    <3> QED BY <3>1 DEF a, c
  <2>3. Newest(e, p) = Written(b, t)[(b.idx + L + (s - p)) % s]
    BY <1>2, <2>2 DEF Newest
  <2>4. p \in 1..b.size
    BY <2>1 DEF s
  <2> QED BY <2>3, <2>4, WrittenCells DEF s, L
<1>7. ASSUME NEW p \in 1..e.histlen PROVE Newest(e, p) # NULL
  <2>1. Newest(e, p) = IF p <= L THEN t[L + 1 - p] ELSE Newest(b, p - L)
    BY <1>6, <1>7 DEF Shifted, L
  <2>2. CASE p <= L
    <3>1. L + 1 - p \in 1..L
      BY <1>1, <1>2, <1>3, <2>2
    <3>2. t[L + 1 - p] \in Byte
      BY <1>1, <3>1
    <3> QED BY <2>1, <2>2, <3>2, ReplicationAssumption
  <2>3. CASE ~(p <= L)
    <3>1. p - L \in 1..b.histlen
      BY <1>1, <1>2, <1>3, <2>3
    <3> QED BY <2>1, <2>3, <3>1 DEF GoodBacklog
  <2> QED BY <2>2, <2>3
<1>8. e.idx \in 0..(s - 1)
  <2> DEFINE a == b.idx + L
  <2>1. a \in Int
    BY <1>1
  <2> HIDE DEF a
  <2>2. a % s \in 0..(s - 1)
    BY <1>1, <2>1, ModFacts
  <2> QED BY <1>2, <2>2 DEF a
<1>9. GoodBacklog(e)
  <2>0. e.offset \in Int /\ h \in Int
    BY <1>1, <1>2, <1>3
  <2>1. /\ e.histlen \in 0..s /\ e.off \in Int /\ e.offset \in Int
        /\ e.off + e.histlen = e.offset + 1
    BY <1>2, <1>3, <2>0
  <2>2. e.idx \in Int /\ e.histlen \in Int
    BY <1>1, <1>8, <2>1
  <2> QED BY <1>1, <1>2, <1>4, <1>7, <1>8, <2>1, <2>2 DEF GoodBacklog
<1> QED BY <1>2, <1>3, <1>5, <1>6, <1>9 DEF L, s

\* What is sent for an offset that is held, from the oldest byte to the newest
LEMMA BacklogFromIs ==
  ASSUME NEW b, GoodBacklog(b), NEW o \in Int, Held(b, o)
  PROVE  /\ b.offset + 1 - o \in 0..b.histlen
         /\ BacklogFrom(b, o) = [k \in 1..(b.offset + 1 - o) |-> Newest(b, b.offset + 2 - o - k)]
         /\ BacklogFrom(b, o) \in Seq(Byte)
<1> DEFINE s == b.size
           h == b.histlen
           x == b.idx
           skip == o - b.off
           first == (x + (s - h)) % s
           j == (first + skip) % s
           L == b.offset + 1 - o
<1>1. /\ s \in Nat \ {0} /\ x \in 0..(s - 1) /\ h \in 0..s /\ b.offset \in Int /\ b.off \in Int
      /\ b.off + h = b.offset + 1 /\ b.buf \in Ring(s) /\ \A p \in 1..h : Newest(b, p) # NULL
  BY SizeFacts DEF GoodBacklog, Held
<1>2. o >= b.off /\ o <= b.off + h
  BY DEF Held
<1>3. BacklogFrom(b, o) = IF h = 0 THEN <<>> ELSE [k \in 1..(h - skip) |-> b.buf[(j + k - 1) % s]]
  BY DEF BacklogFrom
<1> HIDE DEF s, h, x
<1>4. L \in 0..h /\ h - skip = L /\ skip \in Int
  BY <1>1, <1>2
<1>5. ASSUME NEW k \in 1..L PROVE b.buf[(j + k - 1) % s] = Newest(b, b.offset + 2 - o - k)
  <2>1. /\ x + (s - h) \in Int /\ skip + (k - 1) \in Int
    BY <1>1, <1>4
  <2>2. first \in Int
    BY <1>1, <2>1, ModFacts
  <2>3. j \in Int
    <3> HIDE DEF first, skip
    <3>1. first + skip \in Int
      BY <1>4, <2>2
    <3> QED BY <1>1, <3>1, ModFacts
  <2>4. (j + k - 1) % s = (first + skip + (k - 1)) % s
    <3> DEFINE a == first + skip
               c == k - 1
    <3>1. a \in Int /\ c \in Int
      BY <1>4, <2>2
    <3> HIDE DEF a, c
    <3>2. ((a % s) + c) % s = (a + c) % s
      BY <1>1, <3>1, ModAdd
    <3>3. j + k - 1 = j + c
      BY <2>3 DEF c
    <3> QED BY <3>2, <3>3 DEF a, c
  <2>5. (first + skip + (k - 1)) % s = (x + (s - h) + (skip + (k - 1))) % s
    <3> DEFINE a == x + (s - h)
               c == skip + (k - 1)
    <3>1. ((a % s) + c) % s = (a + c) % s
      <4> HIDE DEF a, c
      <4>1. a \in Int /\ c \in Int
        BY <2>1 DEF a, c
      <4> QED BY <1>1, <4>1, ModAdd
    <3>2. first + skip + (k - 1) = first + c
      <4> HIDE DEF first, skip
      <4> QED BY <1>4, <2>2
    <3>3. first = a % s
      OBVIOUS
    <3> HIDE DEF c, a, first
    <3>4. (first + skip + (k - 1)) % s = (a + c) % s
      BY <3>1, <3>2, <3>3
    <3> QED BY <3>4 DEF a, c
  <2>6. x + (s - h) + (skip + (k - 1)) = x + (s - (b.offset + 2 - o - k))
    BY <1>1, <1>4
  <2> QED BY <2>4, <2>5, <2>6 DEF Newest, s, x
<1>6. ASSUME NEW k \in 1..L PROVE Newest(b, b.offset + 2 - o - k) \in Byte
  <2> DEFINE p == b.offset + 2 - o - k
  <2>1. p \in 1..h
    BY <1>1, <1>4
  <2> HIDE DEF p
  <2>2. x + (s - p) \in Int
    BY <1>1, <2>1
  <2>3. (x + (s - p)) % s \in 0..(s - 1)
    BY <1>1, <2>2, ModFacts
  <2>4. Newest(b, p) \in Byte \cup {NULL}
    BY <1>1, <2>3 DEF Newest, Ring, s, x
  <2>5. Newest(b, p) # NULL
    BY <1>1, <2>1
  <2>6. Newest(b, p) \in Byte
    BY <2>4, <2>5
  <2> QED BY <2>6 DEF p
<1> DEFINE R == [k \in 1..L |-> Newest(b, b.offset + 2 - o - k)]
<1> HIDE DEF skip, j, L
<1>7. BacklogFrom(b, o) = R
  <2>1. CASE h = 0
    <3>1. 1..L = {}
      BY <1>4, <2>1
    <3> QED BY <1>3, <2>1, <3>1
  <2>2. CASE h # 0
    BY <1>3, <1>4, <1>5, <2>2
  <2> QED BY <2>1, <2>2
<1>8. R \in Seq(Byte)
  BY <1>4, <1>6, <1>1
<1> QED BY <1>4, <1>7, <1>8 DEF L, h

LEMMA CreateFacts ==
  ASSUME NEW b, GoodBacklog(b), NEW e, e = createReplicationBacklog(b)
  PROVE  /\ GoodBacklog(e) /\ e.buf # NULL /\ e.size = b.size /\ e.histlen = 0
         /\ e.offset = b.offset + 1 /\ e.off = b.offset + 2
<1>1. /\ DOMAIN e = {"buf", "size", "histlen", "idx", "off", "offset"} /\ e.size = b.size
      /\ e.buf = EmptyRing(b.size) /\ e.histlen = 0 /\ e.idx = 0 /\ e.offset = b.offset + 1
      /\ e.off = b.offset + 2 /\ b.offset \in Int /\ b.size \in Sizes
  BY DEF GoodBacklog, createReplicationBacklog
<1>2. b.size \in Nat \ {0}
  BY <1>1, SizeFacts
<1>3. e.buf \in Ring(e.size)
  BY <1>1 DEF EmptyRing, Ring
<1>4. e.buf # NULL
  BY <1>1, <1>3, ReplicationAssumption
<1> QED BY <1>1, <1>2, <1>3, <1>4 DEF GoodBacklog

LEMMA ResizeFacts ==
  ASSUME NEW b, GoodBacklog(b), NEW n \in NewSizes, NEW e, e = resizeReplicationBacklog(b, n)
  PROVE  /\ GoodBacklog(e) /\ (e.buf = NULL <=> b.buf = NULL)
         /\ e.offset = b.offset
         /\ e = b \/ b.buf = NULL \/ (e.histlen = 0 /\ e.off = b.offset + 1)
<1> DEFINE size == Max({n, CONFIG_REPL_BACKLOG_MIN_SIZE})
<1>1. size \in Sizes /\ b.offset \in Int
  BY DEF Sizes, GoodBacklog
<1>2. size \in Nat \ {0}
  BY <1>1, SizeFacts
<1>3. EmptyRing(size) \in Ring(size) /\ EmptyRing(size) # NULL
  <2>1. EmptyRing(size) \in Ring(size)
    BY DEF EmptyRing, Ring
  <2> QED BY <1>1, <2>1, ReplicationAssumption
<1>4. e = IF size = b.size THEN b
          ELSE IF b.buf = NULL THEN [b EXCEPT !.size = size]
          ELSE [b EXCEPT !.size = size, !.buf = EmptyRing(size), !.histlen = 0,
                         !.idx = 0, !.off = b.offset + 1]
  BY DEF resizeReplicationBacklog
<1> HIDE DEF size
<1>5. CASE size # b.size /\ b.buf # NULL
  <2>1. /\ DOMAIN e = {"buf", "size", "histlen", "idx", "off", "offset"} /\ e.size = size
        /\ e.buf = EmptyRing(size) /\ e.histlen = 0 /\ e.idx = 0 /\ e.offset = b.offset
        /\ e.off = b.offset + 1
    BY <1>4, <1>5 DEF GoodBacklog
  <2>2. GoodBacklog(e)
    BY <1>1, <1>2, <1>3, <2>1 DEF GoodBacklog
  <2> QED BY <1>3, <1>5, <2>1, <2>2
<1>6. CASE size # b.size /\ b.buf = NULL
  BY <1>1, <1>4, <1>6 DEF GoodBacklog
<1>7. CASE size = b.size
  BY <1>4, <1>7
<1> QED BY <1>5, <1>6, <1>7

\* The byte of the stream at an offset
At(b, o) == Newest(b, b.offset + 1 - o)

\* e is what b became: it is gone, or it is still there and has, at every offset
\* it still reaches back to, the byte b had there
Later(b, e) ==
  \/ e.buf = NULL
  \/ /\ GoodBacklog(b) /\ GoodBacklog(e) /\ b.buf # NULL
     /\ e.offset >= b.offset /\ e.off >= b.off
     /\ \A o \in Int : e.off <= o /\ o <= b.offset => At(e, o) = At(b, o)

\* A backlog made where there was none, by the first SYNC or PSYNC
Made(b, e) == b.buf = NULL /\ GoodBacklog(b) /\ e = createReplicationBacklog(b)

LEMMA LaterSelf ==
  ASSUME NEW b, GoodBacklog(b)
  PROVE  Later(b, b)
<1>1. b.offset \in Int /\ b.off \in Int
  BY DEF GoodBacklog
<1> QED BY <1>1 DEF Later

LEMMA LaterTrans ==
  ASSUME NEW b, NEW m, NEW e, Later(b, m), Later(m, e)
  PROVE  Later(b, e)
<1>1. CASE e.buf = NULL
  BY <1>1 DEF Later
<1>2. CASE e.buf # NULL
  <2>1. /\ GoodBacklog(m) /\ GoodBacklog(e) /\ m.buf # NULL /\ e.offset >= m.offset /\ e.off >= m.off
        /\ \A o \in Int : e.off <= o /\ o <= m.offset => At(e, o) = At(m, o)
    BY <1>2 DEF Later
  <2>2. /\ GoodBacklog(b) /\ b.buf # NULL /\ m.offset >= b.offset /\ m.off >= b.off
        /\ \A o \in Int : m.off <= o /\ o <= b.offset => At(m, o) = At(b, o)
    BY <2>1 DEF Later
  <2>3. /\ b.offset \in Int /\ b.off \in Int /\ m.offset \in Int /\ m.off \in Int
        /\ e.offset \in Int /\ e.off \in Int
    BY <2>1, <2>2 DEF GoodBacklog
  <2>4. e.offset >= b.offset /\ e.off >= b.off
    BY <2>1, <2>2, <2>3
  <2>5. ASSUME NEW o \in Int, e.off <= o, o <= b.offset PROVE At(e, o) = At(b, o)
    <3>1. m.off <= o /\ o <= m.offset
      BY <2>1, <2>2, <2>3, <2>5
    <3> QED BY <2>1, <2>2, <2>5, <3>1
  <2> QED BY <2>1, <2>2, <2>4, <2>5 DEF Later
<1> QED BY <1>1, <1>2

LEMMA LaterFeed ==
  ASSUME NEW b, GoodBacklog(b), b.buf # NULL, NEW t \in Seq(Byte), NEW e, e = feedReplicationBacklog(b, t)
  PROVE  Later(b, e)
<1> DEFINE L == Len(t)
           bo == b.offset
           bf == b.off
           bh == b.histlen
           eo == e.offset
           ef == e.off
           eh == e.histlen
<1>1. /\ GoodBacklog(e) /\ e.buf # NULL /\ eo = bo + L /\ Shifted(b, e, t) /\ eh <= bh + L /\ L \in Nat
  BY FeedFacts
<1>2. /\ bo \in Int /\ bf \in Int /\ bh \in Int /\ bf + bh = bo + 1
      /\ eo \in Int /\ ef \in Int /\ eh \in Int /\ ef + eh = eo + 1
  BY <1>1 DEF GoodBacklog
<1> HIDE DEF L, bo, bf, bh, eo, ef, eh
<1>3. eo >= bo /\ ef >= bf
  BY <1>1, <1>2
<1>4. ASSUME NEW o \in Int, ef <= o, o <= bo PROVE At(e, o) = At(b, o)
  <2> DEFINE p == eo + 1 - o
  <2>1. p \in 1..eh /\ ~(p <= L) /\ p - L = bo + 1 - o
    BY <1>1, <1>2, <1>4
  <2> HIDE DEF p
  <2>2. Newest(e, p) = Newest(b, p - L)
    BY <1>1, <2>1 DEF Shifted, L, eh
  <2> QED BY <2>1, <2>2 DEF At, p, eo, bo
<1> QED BY <1>1, <1>3, <1>4 DEF Later, bo, bf, eo, ef

LEMMA LaterResize ==
  ASSUME NEW b, GoodBacklog(b), NEW n \in NewSizes, NEW e, e = resizeReplicationBacklog(b, n)
  PROVE  Later(b, e)
<1>1. /\ GoodBacklog(e) /\ (e.buf = NULL <=> b.buf = NULL) /\ e.offset = b.offset
      /\ e = b \/ b.buf = NULL \/ (e.histlen = 0 /\ e.off = b.offset + 1)
  BY ResizeFacts
<1>2. CASE e = b
  BY <1>2, LaterSelf
<1>3. CASE b.buf = NULL
  BY <1>1, <1>3 DEF Later
<1>4. CASE e.buf # NULL /\ e.histlen = 0 /\ e.off = b.offset + 1
  <2>1. /\ b.offset \in Int /\ b.off \in Int /\ b.histlen \in Nat /\ b.off + b.histlen = b.offset + 1
    BY <1>1, <1>4, SizeFacts DEF GoodBacklog
  <2>2. e.offset >= b.offset /\ e.off >= b.off
    BY <1>1, <1>4, <2>1
  <2>3. \A o \in Int : ~(e.off <= o /\ o <= b.offset)
    BY <1>4, <2>1
  <2> QED BY <1>1, <1>4, <2>2, <2>3 DEF Later
<1> QED BY <1>1, <1>2, <1>3, <1>4

\* What a step may do to a backlog leaves every offset its answer, or no answer
LEMMA StillAnswers ==
  ASSUME NEW b, NEW e, Later(b, e) \/ Made(b, e), NEW o \in e.off..(b.offset + 1), Held(e, o)
  PROVE  Held(b, o) /\ IsPrefix(BacklogFrom(b, o), BacklogFrom(e, o))
<1>1. e.buf # NULL
  BY DEF Held
<1>2. ~Made(b, e)
  <2> SUFFICES ASSUME Made(b, e) PROVE FALSE
    OBVIOUS
  <2>1. e.off = b.offset + 2 /\ b.offset \in Int
    BY CreateFacts DEF Made, GoodBacklog
  <2> QED BY <2>1
<1>3. /\ GoodBacklog(b) /\ GoodBacklog(e) /\ b.buf # NULL /\ e.offset >= b.offset /\ e.off >= b.off
      /\ \A q \in Int : e.off <= q /\ q <= b.offset => At(e, q) = At(b, q)
  BY <1>1, <1>2 DEF Later
<1>4. /\ b.offset \in Int /\ b.off \in Int /\ b.histlen \in Int /\ b.off + b.histlen = b.offset + 1
      /\ e.offset \in Int /\ e.off \in Int /\ o \in Int /\ e.off <= o /\ o <= b.offset + 1
  BY <1>3 DEF GoodBacklog
<1>5. Held(b, o)
  BY <1>3, <1>4 DEF Held
<1> DEFINE s == BacklogFrom(b, o)
           t == BacklogFrom(e, o)
           L == b.offset + 1 - o
           M == e.offset + 1 - o
<1>6. /\ L \in Nat /\ M \in Nat /\ L <= M
      /\ s = [k \in 1..L |-> Newest(b, b.offset + 2 - o - k)] /\ s \in Seq(Byte)
      /\ t = [k \in 1..M |-> Newest(e, e.offset + 2 - o - k)] /\ t \in Seq(Byte)
  BY <1>3, <1>4, <1>5, BacklogFromIs
<1> HIDE DEF s, t
<1>7. ASSUME NEW k \in 1..L PROVE s[k] = t[k]
  <2> DEFINE q == o + k - 1
  <2>0. k \in 1..M /\ k \in Int
    <3> HIDE DEF L, M
    <3> QED BY <1>6
  <2>1. q \in Int /\ e.off <= q /\ q <= b.offset /\ k \in 1..M
    BY <1>4, <2>0
  <2>2. b.offset + 2 - o - k = b.offset + 1 - q /\ e.offset + 2 - o - k = e.offset + 1 - q
    BY <1>4
  <2> HIDE DEF q, L, M
  <2>3. Newest(e, e.offset + 1 - q) = Newest(b, b.offset + 1 - q)
    BY <1>3, <2>1 DEF At
  <2> QED BY <1>6, <1>7, <2>1, <2>2, <2>3
<1> HIDE DEF s, t, L, M
<1>8. Len(s) = L /\ Len(t) = M
  BY <1>6
<1>9. IsPrefix(s, t)
  <2>1. SubSeq(s, 1, L) = [k \in 1..L |-> s[k]] /\ SubSeq(t, 1, L) = [k \in 1..L |-> t[k]]
    BY <1>6, <1>8
  <2>2. SubSeq(s, 1, L) = SubSeq(t, 1, L)
    BY <1>7, <2>1
  <2> QED BY <1>6, <1>8, <2>2 DEF IsPrefix
<1> QED BY <1>5, <1>9 DEF s, t

-----------------------------------------------------------------------------
(* Messages.                                                               *)

LEMMA BytesType ==
  ASSUME NEW cmd \in Command
  PROVE  /\ Bytes(cmd) \in Seq(Byte) /\ Len(Bytes(cmd)) = CmdLen[cmd[1]]
         /\ CmdLen[cmd[1]] \in Nat \ {0}
<1>1. CmdLen[cmd[1]] \in Nat \ {0}
  BY LengthAssumption DEF Command
<1>2. \A k \in 1..CmdLen[cmd[1]] : [t |-> "byte", cmd |-> cmd, k |-> k] \in Byte
  BY <1>1 DEF Byte
<1> QED BY <1>1, <1>2 DEF Bytes

LEMMA ItemFacts ==
  /\ Byte \subseteq Payload /\ Payload \subseteq Item /\ Answer \subseteq Item
  /\ Reply("continue") \notin Payload
BY DEF Item, Payload, Answer, Byte, Reply

LEMMA RdbType ==
  ASSUME NEW d \in Dataset
  PROVE  RdbPieces(d) \in Seq(Payload) /\ RdbFile(d) \in Seq(Payload)
<1>1. \A k \in 1..RdbLen : [t |-> "rdb", data |-> d, k |-> k] \in Payload
  BY LengthAssumption DEF Payload
<1>2. RdbPieces(d) \in Seq(Payload)
  BY <1>1, LengthAssumption DEF RdbPieces
<1>3. [t |-> "bulklen", n |-> RdbLen] \in Payload
  BY LengthAssumption DEF Payload
<1> QED BY <1>2, <1>3 DEF RdbFile

-----------------------------------------------------------------------------
(* What a server does as a master: it writes to connections and closes     *)
(* its end of some.                                                        *)

MasterSideAt(n, k, l) ==
  /\ \A o \in Node : l.r = o /\ l.ropen <=> k.r = o /\ k.ropen
  /\ \A o \in Node \ {n} : k.m = o /\ k.mopen => l.m = o /\ l.mopen
  /\ Quiet(k) => Quiet(l)
MasterSide(n, net, after) == \A c \in Conn : MasterSideAt(n, net[c], after[c])

LinkSame(s, t) ==
  /\ t.repl_state = s.repl_state /\ t.master = s.master /\ t.cached_master = s.cached_master
  /\ t.transfer_s = s.transfer_s /\ t.masterhost = s.masterhost

\* The fields a server does not use as a master
Outside(s, t) ==
  /\ DOMAIN t = DOMAIN s /\ t.runid = s.runid /\ t.diskless = s.diskless /\ t.data = s.data
  /\ t.masterhost = s.masterhost /\ t.repl_state = s.repl_state /\ t.transfer_s = s.transfer_s
  /\ t.master_runid = s.master_runid /\ t.initial_offset = s.initial_offset
  /\ t.transfer_size = s.transfer_size /\ t.usemark = s.usemark /\ t.file = s.file
  /\ t.master = s.master /\ t.cached_master = s.cached_master

LEMMA OutsideGood ==
  ASSUME NEW s, GoodServer(s), NEW t, Outside(s, t), GoodBacklog(t.b), t.slaveseldb \in Int,
         t.slaves \in Seq(Conn), t.cli \in [Conn -> ReplicaClient \cup {NULL}],
         t.child \in Save \cup {NULL}
  PROVE  GoodServer(t) /\ LinkSame(s, t)
<1>1. LinkSame(s, t)
  BY DEF Outside, LinkSame
<1> QED BY <1>1 DEF GoodServer, Outside

Shape(x) == DOMAIN x = {"s", "net", "bad", "fork"}

Serves(n, x, y) ==
  /\ Shape(y) /\ GoodServer(y.s) /\ GoodNet(y.net) /\ GoodSlaves(n, y.s, y.net)
  /\ MasterSide(n, x.net, y.net) /\ Outside(x.s, y.s)

LEMMA SideTrans ==
  ASSUME NEW n \in Node, NEW a, NEW b, NEW c, MasterSide(n, a, b), MasterSide(n, b, c)
  PROVE  MasterSide(n, a, c)
<1> SUFFICES ASSUME NEW k \in Conn PROVE MasterSideAt(n, a[k], c[k])
  BY DEF MasterSide
<1>1. MasterSideAt(n, a[k], b[k]) /\ MasterSideAt(n, b[k], c[k])
  BY DEF MasterSide
<1> HIDE DEF Quiet
<1> QED BY <1>1 DEF MasterSideAt

LEMMA ServesTrans ==
  ASSUME NEW n \in Node, NEW x, NEW y, NEW z, Serves(n, x, y), Serves(n, y, z)
  PROVE  Serves(n, x, z)
<1>1. MasterSide(n, x.net, z.net)
  BY SideTrans DEF Serves
<1>2. Outside(x.s, z.s)
  BY DEF Serves, Outside
<1> QED BY <1>1, <1>2 DEF Serves

\* The side of a server where it is the master
Half(n, x) == Shape(x) /\ GoodServer(x.s) /\ GoodNet(x.net) /\ GoodSlaves(n, x.s, x.net)

LEMMA HalfSelf ==
  ASSUME NEW n \in Node, NEW x, Half(n, x)
  PROVE  Serves(n, x, x)
<1>1. MasterSide(n, x.net, x.net)
  BY DEF MasterSide, MasterSideAt
<1>2. Outside(x.s, x.s)
  BY DEF Outside
<1> QED BY <1>1, <1>2 DEF Serves, Half

LEMMA ServesSelf ==
  ASSUME NEW n \in Node, NEW x, GoodWorld(n, x)
  PROVE  Serves(n, x, x)
<1>1. MasterSide(n, x.net, x.net)
  BY DEF MasterSide, MasterSideAt
<1>2. Outside(x.s, x.s)
  BY DEF Outside
<1> QED BY <1>1, <1>2 DEF Serves, GoodWorld, Shape

LEMMA ServesGood ==
  ASSUME NEW n \in Node, NEW x, NEW y, GoodWorld(n, x), Serves(n, x, y)
  PROVE  GoodWorld(n, y) /\ Apart(n, x.net, y.net)
<1>1. GoodLink(n, y.s, y.net)
  <2>1. /\ HasLink(y.s) = HasLink(x.s) /\ LinkOf(y.s) = LinkOf(x.s)
        /\ Early(y.s) = Early(x.s)
    BY DEF Serves, Outside, HasLink, LinkOf, Early
  <2>2. GoodLink(n, x.s, x.net) /\ LinkSame(x.s, y.s)
    BY DEF GoodWorld, Serves, Outside, LinkSame
  <2>3. \A c \in Conn : /\ y.net[c].r = n /\ y.net[c].ropen <=> x.net[c].r = n /\ x.net[c].ropen
                        /\ Quiet(x.net[c]) => Quiet(y.net[c])
    BY DEF Serves, MasterSide, MasterSideAt
  <2>4. Early(x.s) => HasLink(x.s)
    BY DEF Early, HasLink
  <2> QED BY <2>1, <2>2, <2>3, <2>4 DEF GoodLink, LinkSame
<1>2. Apart(n, x.net, y.net)
  BY DEF Serves, MasterSide, MasterSideAt, Apart, ApartAt
<1> QED BY <1>1, <1>2 DEF Serves, GoodWorld, Shape

LEMMA RemoveFirstAny ==
  ASSUME NEW S, NEW l \in Seq(S), Distinct(l), NEW e
  PROVE  /\ RemoveFirst(l, e) \in Seq(S) /\ Distinct(RemoveFirst(l, e))
         /\ ToSet(RemoveFirst(l, e)) = ToSet(l) \ {e}
<1>1. CASE e \in ToSet(l)
  BY <1>1, RemoveFirstFacts
<1>2. CASE e \notin ToSet(l)
  <2>1. \A i \in 1..Len(l) : l[i] # e
    BY <1>2 DEF ToSet
  <2>2. RemoveFirst(l, e) = l
    BY <2>1 DEF RemoveFirst
  <2> QED BY <1>2, <2>2
<1> QED BY <1>1, <1>2

LEMMA ConnUpdated ==
  ASSUME NEW k \in ConnRec
  PROVE  /\ \A q \in Seq(Request) : [k EXCEPT !.toM = q] \in ConnRec
         /\ \A q \in Seq(Item) : [k EXCEPT !.toR = q] \in ConnRec
         /\ [k EXCEPT !.mopen = FALSE] \in ConnRec
         /\ [k EXCEPT !.ropen = FALSE] \in ConnRec
         /\ [k EXCEPT !.up = FALSE] \in ConnRec
<1>1. \A q \in Seq(Request) : [k EXCEPT !.toM = q] \in ConnRec
  BY DEF ConnRec
<1>2. \A q \in Seq(Item) : [k EXCEPT !.toR = q] \in ConnRec
  BY DEF ConnRec
<1>3. [k EXCEPT !.mopen = FALSE] \in ConnRec
  BY DEF ConnRec
<1>4. [k EXCEPT !.ropen = FALSE] \in ConnRec
  BY DEF ConnRec
<1>5. [k EXCEPT !.up = FALSE] \in ConnRec
  BY DEF ConnRec
<1> QED BY <1>1, <1>2, <1>3, <1>4, <1>5

LEMMA ConnClosed ==
  ASSUME NEW k \in ConnRec
  PROVE  /\ [k EXCEPT !.mopen = FALSE, !.toM = <<>>] \in ConnRec
         /\ [k EXCEPT !.ropen = FALSE, !.toR = <<>>] \in ConnRec
<1>1. <<>> \in Seq(Request) /\ <<>> \in Seq(Item)
  OBVIOUS
<1> DEFINE m == [k EXCEPT !.mopen = FALSE]
           r == [k EXCEPT !.ropen = FALSE]
<1>2. m \in ConnRec /\ r \in ConnRec
  BY ConnUpdated
<1>3. /\ [k EXCEPT !.mopen = FALSE, !.toM = <<>>] = [m EXCEPT !.toM = <<>>]
      /\ [k EXCEPT !.ropen = FALSE, !.toR = <<>>] = [r EXCEPT !.toR = <<>>]
  OBVIOUS
<1> HIDE DEF m, r
<1>4. [m EXCEPT !.toM = <<>>] \in ConnRec /\ [r EXCEPT !.toR = <<>>] \in ConnRec
  BY <1>1, <1>2, ConnUpdated
<1> QED BY <1>3, <1>4

LEMMA CloseMFacts ==
  ASSUME NEW n \in Node, NEW net, GoodNet(net), NEW c \in Conn, net[c].m = n, net[c].mopen
  PROVE  /\ GoodNet(CloseM(net, c)) /\ MasterSide(n, net, CloseM(net, c))
         /\ \A d \in Conn \ {c} : CloseM(net, c)[d] = net[d]
<1> DEFINE k == net[c]
           l == CloseM(net, c)[c]
<1>1. DOMAIN net = Conn /\ GoodConn(k)
  BY DEF GoodNet
<1>2. /\ DOMAIN CloseM(net, c) = Conn /\ \A d \in Conn \ {c} : CloseM(net, c)[d] = net[d]
      /\ l = IF k.ropen THEN [k EXCEPT !.mopen = FALSE, !.toM = <<>>] ELSE NoConn
  BY <1>1 DEF CloseM
<1> HIDE DEF l, k
<1>0. k \in ConnRec /\ NoConn \in ConnRec /\ k.ropen \in BOOLEAN
  BY <1>1 DEF GoodConn, ConnRec, NoConn
<1>3. /\ l.r = IF k.ropen THEN k.r ELSE NULL
      /\ l.m = IF k.ropen THEN k.m ELSE NULL
      /\ l.ropen = k.ropen /\ l.mopen = FALSE /\ l.toM = <<>>
      /\ l.toR = IF k.ropen THEN k.toR ELSE <<>>
      /\ l \in ConnRec
  <2>1. CASE k.ropen
    <3>1. l = [k EXCEPT !.mopen = FALSE, !.toM = <<>>]
      BY <1>2, <2>1
    <3>2. l.r = k.r /\ l.m = k.m /\ l.toM = <<>> /\ l.toR = k.toR /\ l.ropen = k.ropen
      BY <1>0, <3>1 DEF ConnRec
    <3>3. l.mopen = FALSE
      BY <1>0, <3>1 DEF ConnRec
    <3>4. l \in ConnRec
      BY <1>0, <3>1, ConnClosed
    <3> QED BY <2>1, <3>2, <3>3, <3>4
  <2>2. CASE ~k.ropen
    <3>1. l = NoConn /\ k.ropen = FALSE
      BY <1>0, <1>2, <2>2
    <3> QED BY <1>0, <2>2, <3>1 DEF NoConn
  <2> QED BY <2>1, <2>2
<1>4. GoodConn(l)
  BY <1>1, <1>2, <1>3 DEF GoodConn
<1>5. MasterSideAt(n, k, l)
  <2>1. Quiet(k) => Quiet(l)
    BY <1>3 DEF Quiet, ToSet
  <2>2. k.m = n
    BY DEF k
  <2> QED BY <1>1, <1>3, <2>1, <2>2 DEF MasterSideAt, GoodConn
<1>6. \A d \in Conn : MasterSideAt(n, net[d], net[d])
  BY DEF MasterSideAt
<1> QED BY <1>2, <1>4, <1>5, <1>6 DEF MasterSide, GoodNet, k, l

LEMMA FreeHalf ==
  ASSUME NEW n \in Node, NEW x, Half(n, x), NEW c \in Conn, x.net[c].m = n, x.net[c].mopen,
         NEW y, y = freeSlave(x, c)
  PROVE  /\ Serves(n, x, y) /\ y.s.b = x.s.b /\ y.fork = x.fork
         /\ ToSet(y.s.slaves) = ToSet(x.s.slaves) \ {c}
         /\ \A d \in Conn \ {c} : y.s.cli[d] = x.s.cli[d] /\ y.net[d] = x.net[d]
<1>1. Shape(x) /\ GoodServer(x.s) /\ GoodNet(x.net) /\ GoodSlaves(n, x.s, x.net)
  BY DEF Half
<1>2. /\ Shape(y) /\ y.net = CloseM(x.net, c) /\ y.fork = x.fork
      /\ y.s = [x.s EXCEPT !.cli[c] = NULL, !.slaves = RemoveFirst(@, c)]
  BY <1>1 DEF freeSlave, Shape
<1>3. /\ RemoveFirst(x.s.slaves, c) \in Seq(Conn) /\ Distinct(RemoveFirst(x.s.slaves, c))
      /\ ToSet(RemoveFirst(x.s.slaves, c)) = ToSet(x.s.slaves) \ {c}
  BY <1>1, RemoveFirstAny DEF GoodServer, GoodSlaves
<1>4. y.s.slaves = RemoveFirst(x.s.slaves, c) /\ y.s.cli = [x.s.cli EXCEPT ![c] = NULL]
  BY <1>1, <1>2 DEF GoodServer
<1>5. GoodServer(y.s)
  BY <1>1, <1>2, <1>3, <1>4 DEF GoodServer
<1>6. Outside(x.s, y.s) /\ y.s.b = x.s.b
  BY <1>1, <1>2 DEF GoodServer, Outside
<1>7. GoodNet(y.net) /\ MasterSide(n, x.net, y.net) /\ \A d \in Conn \ {c} : y.net[d] = x.net[d]
  BY <1>1, <1>2, CloseMFacts
<1>8. y.s.cli[c] = NULL /\ \A d \in Conn \ {c} : y.s.cli[d] = x.s.cli[d]
  BY <1>1, <1>4 DEF GoodServer
<1>9. GoodSlaves(n, y.s, y.net)
  <2>1. Flagged(y.s) = Flagged(x.s) \ {c}
    BY <1>8 DEF Flagged
  <2>2. ToSet(x.s.slaves) = Flagged(x.s) /\ \A d \in Conn : x.s.cli[d] # NULL => x.net[d].m = n /\ x.net[d].mopen
    BY <1>1 DEF GoodSlaves
  <2> QED BY <1>3, <1>4, <1>7, <1>8, <2>1, <2>2 DEF GoodSlaves
<1> QED BY <1>2, <1>3, <1>4, <1>5, <1>6, <1>7, <1>8, <1>9 DEF Serves

LEMMA FreeFacts ==
  ASSUME NEW n \in Node, NEW x, GoodWorld(n, x), NEW c \in Conn, x.net[c].m = n, x.net[c].mopen,
         NEW y, y = freeSlave(x, c)
  PROVE  /\ Serves(n, x, y) /\ y.s.b = x.s.b /\ y.fork = x.fork
         /\ ToSet(y.s.slaves) = ToSet(x.s.slaves) \ {c}
<1>1. Half(n, x)
  BY DEF GoodWorld, Half, Shape
<1> QED BY <1>1, FreeHalf

SameEnds(net, after) ==
  \A c \in Conn : /\ after[c].r = net[c].r /\ after[c].ropen = net[c].ropen
                  /\ after[c].m = net[c].m /\ after[c].mopen = net[c].mopen

\* Something other than +CONTINUE is written to a replica.
LEMMA SendFacts ==
  ASSUME NEW n \in Node, NEW net, GoodNet(net), NEW c \in Conn, NEW q \in Seq(Item),
         Reply("continue") \notin ToSet(q), NEW after, after = SendToR(net, c, q)
  PROVE  /\ GoodNet(after) /\ MasterSide(n, net, after) /\ SameEnds(net, after)
         /\ \A d \in Conn \ {c} : after[d] = net[d]
<1> DEFINE k == net[c]
           l == [k EXCEPT !.toR = @ \o q]
<1>1. DOMAIN net = Conn /\ \A d \in Conn : GoodConn(net[d])
  BY DEF GoodNet
<1>2. k \in ConnRec /\ k.toR \in Seq(Item)
  BY <1>1 DEF GoodConn, ConnRec
<1>3. k.toR \o q \in Seq(Item) /\ ToSet(k.toR \o q) = ToSet(k.toR) \cup ToSet(q)
  BY <1>2, ConcatFacts
<1>4. MasterSide(n, net, net) /\ SameEnds(net, net)
  BY DEF MasterSide, MasterSideAt, SameEnds
<1>5. CASE ~LostToM(net, c)
  <2>1. after = [net EXCEPT ![c] = l]
    BY <1>5 DEF SendToR
  <2>2. l \in ConnRec
    <3>1. l = [k EXCEPT !.toR = k.toR \o q]
      OBVIOUS
    <3> HIDE DEF k
    <3> QED BY <1>2, <1>3, <3>1, ConnUpdated
  <2>3. /\ l.r = k.r /\ l.m = k.m /\ l.ropen = k.ropen /\ l.mopen = k.mopen /\ l.toM = k.toM
        /\ l.toR = k.toR \o q
    <3> HIDE DEF k
    <3> QED BY <1>2 DEF ConnRec
  <2>4. k.ropen
    BY <1>5 DEF LostToM
  <2> HIDE DEF l, k
  <2>5. GoodConn(l)
    BY <1>1, <2>2, <2>3, <2>4 DEF GoodConn, k
  <2>6. Quiet(k) => Quiet(l)
    BY <1>3, <2>3 DEF Quiet
  <2>7. MasterSideAt(n, k, l)
    BY <2>3, <2>6 DEF MasterSideAt
  <2>8. /\ DOMAIN after = Conn /\ after[c] = l /\ \A d \in Conn \ {c} : after[d] = net[d]
    BY <1>1, <2>1
  <2>9. GoodNet(after)
    BY <1>1, <2>5, <2>8 DEF GoodNet
  <2>10. MasterSide(n, net, after)
    BY <1>4, <2>7, <2>8 DEF MasterSide, k
  <2>11. SameEnds(net, after)
    BY <2>3, <2>8 DEF SameEnds, k
  <2> QED BY <2>8, <2>9, <2>10, <2>11
<1>6. CASE LostToM(net, c)
  <2>1. after = net
    BY <1>6 DEF SendToR
  <2> QED BY <1>1, <1>4, <2>1
<1> QED BY <1>5, <1>6

\* The clients that are slaves and those that are not stay what they are.
SameClients(s, t) ==
  /\ t.slaves = s.slaves
  /\ \A c \in Conn : /\ t.cli[c] = NULL <=> s.cli[c] = NULL
                     /\ s.cli[c] # NULL => t.cli[c].slave = s.cli[c].slave

LEMMA SlavesKept ==
  ASSUME NEW n \in Node, NEW s, NEW net, GoodSlaves(n, s, net), NEW t, SameClients(s, t),
         NEW after, SameEnds(net, after)
  PROVE  GoodSlaves(n, t, after)
<1>1. Flagged(t) = Flagged(s)
  BY DEF Flagged, SameClients
<1> QED BY <1>1 DEF GoodSlaves, SameClients, SameEnds

\* A slave is a client, and its connection is open.
LEMMA SlaveFacts ==
  ASSUME NEW n \in Node, NEW x, GoodWorld(n, x), NEW c \in ToSet(x.s.slaves)
  PROVE  /\ c \in Conn /\ x.s.cli[c] \in ReplicaClient /\ x.s.cli[c] # NULL /\ x.s.cli[c].slave
         /\ x.net[c].m = n /\ x.net[c].mopen
BY DEF GoodWorld, GoodServer, GoodSlaves, Flagged

LEMMA OneItem ==
  ASSUME NEW m \in Item, m # Reply("continue")
  PROVE  <<m>> \in Seq(Item) /\ Reply("continue") \notin ToSet(<<m>>)
<1>1. <<m>> \in Seq(Item) /\ DOMAIN <<m>> = 1..1 /\ <<m>>[1] = m
  OBVIOUS
<1> QED BY <1>1, ToSetMember

LEMMA SetupFacts ==
  ASSUME NEW n \in Node, NEW x, GoodWorld(n, x), NEW c \in Conn, x.s.cli[c] # NULL,
         NEW offset \in Int, NEW y, y = replicationSetupSlaveForFullResync(x, c, offset)
  PROVE  /\ Serves(n, x, y) /\ y.s.b = x.s.b /\ y.s.slaves = x.s.slaves /\ y.fork = x.fork
         /\ y.s.cli[c].replstate = "WAIT_BGSAVE_END"
         /\ \A d \in Conn \ {c} : y.s.cli[d] = x.s.cli[d]
<1> DEFINE k == x.s.cli[c]
           v == [k EXCEPT !.psync_initial_offset = offset, !.replstate = "WAIT_BGSAVE_END"]
           w == [v EXCEPT !.asap = TRUE]
           reply == [t |-> "fullresync", runid |-> x.s.runid, offset |-> offset]
           s1 == [x.s EXCEPT !.cli[c].psync_initial_offset = offset,
                             !.cli[c].replstate = "WAIT_BGSAVE_END", !.slaveseldb = -1]
           s2 == [s1 EXCEPT !.cli[c].asap = TRUE]
           x1 == [x EXCEPT !.s.cli[c].psync_initial_offset = offset,
                           !.s.cli[c].replstate = "WAIT_BGSAVE_END", !.s.slaveseldb = -1]
           net == SendToR(x.net, c, <<reply>>)
<1>1. Shape(x) /\ GoodServer(x.s) /\ GoodNet(x.net) /\ GoodSlaves(n, x.s, x.net)
  BY DEF GoodWorld, Shape
<1>0. Shape(x1) /\ x1.fork = x.fork /\ x1.net = x.net /\ x1.s = s1
  BY <1>1 DEF Shape
<1>2. /\ Shape(y) /\ y.fork = x.fork
      /\ y.s = s1 \/ y.s = s2
      /\ y.net = x.net \/ y.net = net
  <2>1. y = IF k.pre_psync THEN x1
            ELSE IF c \in x.bad THEN [x1 EXCEPT !.s.cli[c].asap = TRUE]
            ELSE [x1 EXCEPT !.net = SendToR(@, c, <<reply>>)]
    BY DEF replicationSetupSlaveForFullResync
  <2> HIDE DEF x1, s1
  <2> QED BY <1>0, <2>1 DEF Shape
<1>3. k \in ReplicaClient
  BY <1>1 DEF GoodServer
<1>4. /\ v \in ReplicaClient /\ v.slave = k.slave /\ v.replstate = "WAIT_BGSAVE_END"
  <2> HIDE DEF k
  <2> QED BY <1>3 DEF ReplicaClient
<1>5. w \in ReplicaClient /\ w.slave = k.slave /\ w.replstate = "WAIT_BGSAVE_END"
  <2> HIDE DEF v, k
  <2> QED BY <1>4 DEF ReplicaClient
<1>6. /\ s1.cli = [x.s.cli EXCEPT ![c] = v]
      /\ s1.slaveseldb = -1
      /\ Outside(x.s, s1) /\ s1.b = x.s.b /\ s1.slaves = x.s.slaves /\ s1.child = x.s.child
  BY <1>1 DEF GoodServer, Outside
<1>13. /\ s2.cli = [x.s.cli EXCEPT ![c] = w]
       /\ s2.slaveseldb = -1
       /\ Outside(x.s, s2) /\ s2.b = x.s.b /\ s2.slaves = x.s.slaves /\ s2.child = x.s.child
  <2> HIDE DEF v, s1
  <2> QED BY <1>1, <1>6 DEF GoodServer, Outside
<1> HIDE DEF v, w, s1, s2
<1> DEFINE u == y.s.cli[c]
<1>15. PICK g \in {v, w} : y.s.cli = [x.s.cli EXCEPT ![c] = g]
  BY <1>2, <1>6, <1>13
<1>16. g \in ReplicaClient /\ x.s.cli \in [Conn -> ReplicaClient \cup {NULL}]
  BY <1>1, <1>4, <1>5, <1>15 DEF GoodServer
<1>8. /\ \A d \in Conn \ {c} : y.s.cli[d] = x.s.cli[d]
      /\ y.s.cli[c] = g /\ y.s.cli \in [Conn -> ReplicaClient \cup {NULL}]
      /\ y.s.slaveseldb = -1
      /\ Outside(x.s, y.s) /\ y.s.b = x.s.b /\ y.s.slaves = x.s.slaves /\ y.s.child = x.s.child
  BY <1>2, <1>6, <1>13, <1>15, <1>16
<1>7. u \in ReplicaClient /\ u # NULL /\ u.slave = k.slave /\ u.replstate = "WAIT_BGSAVE_END"
  <2>1. u \in ReplicaClient /\ u.slave = k.slave /\ u.replstate = "WAIT_BGSAVE_END"
    <3> HIDE DEF k
    <3> QED BY <1>4, <1>5, <1>8, <1>15
  <2> QED BY <2>1, ReplicationAssumption
<1>9. GoodServer(y.s) /\ LinkSame(x.s, y.s)
  <2>1. GoodBacklog(y.s.b) /\ y.s.slaves \in Seq(Conn) /\ y.s.child \in Save \cup {NULL}
    BY <1>1, <1>8 DEF GoodServer
  <2> QED BY <1>1, <1>8, <2>1, OutsideGood
<1>10. GoodNet(y.net) /\ MasterSide(n, x.net, y.net) /\ SameEnds(x.net, y.net)
  <2>1. MasterSide(n, x.net, x.net) /\ SameEnds(x.net, x.net)
    BY DEF MasterSide, MasterSideAt, SameEnds
  <2>2. reply \in Item /\ reply # Reply("continue")
    BY <1>1 DEF Item, Answer, GoodServer, Reply
  <2>3. <<reply>> \in Seq(Item) /\ Reply("continue") \notin ToSet(<<reply>>)
    BY <2>2, OneItem
  <2>4. GoodNet(net) /\ MasterSide(n, x.net, net) /\ SameEnds(x.net, net)
    BY <1>1, <2>3, SendFacts
  <2> HIDE DEF net
  <2> QED BY <1>1, <1>2, <2>1, <2>4
<1>11. SameClients(x.s, y.s)
  BY <1>7, <1>8 DEF SameClients
<1>12. GoodSlaves(n, y.s, y.net)
  BY <1>1, <1>10, <1>11, SlavesKept
<1> QED BY <1>2, <1>7, <1>8, <1>9, <1>10, <1>12 DEF Serves

-----------------------------------------------------------------------------
(* Loops over the slaves.                                                  *)

\* Slaves i + 1, i + 2, ... are still in the list after i rounds.
Remain(q, i) == {q[j] : j \in (i + 1)..Len(q)}

LEMMA RemainNext ==
  ASSUME NEW S, NEW q \in Seq(S), Distinct(q), NEW i \in 1..Len(q)
  PROVE  /\ q[i] \in Remain(q, i - 1) /\ Remain(q, i) = Remain(q, i - 1) \ {q[i]}
         /\ Remain(q, 0) = ToSet(q) /\ Remain(q, Len(q)) = {}
         /\ Remain(q, i) \subseteq Remain(q, i - 1) /\ q[i] \notin Remain(q, i)
<1> DEFINE m == Len(q)
<1>1. m \in Nat /\ DOMAIN q = 1..m
  OBVIOUS
<1>2. \A a, b \in 1..m : q[a] = q[b] => a = b
  BY <1>1 DEF Distinct
<1>3. (i - 1) + 1 = i /\ i..m = {i} \cup ((i + 1)..m) /\ i \in i..m
  BY <1>1
<1>4. Remain(q, i - 1) = {q[j] : j \in i..m} /\ Remain(q, i) = {q[j] : j \in (i + 1)..m}
  BY <1>3 DEF Remain
<1>5. \A j \in (i + 1)..m : j \in 1..m /\ i # j
  BY <1>1
<1>6. q[i] \notin Remain(q, i)
  BY <1>2, <1>4, <1>5
<1>7. (0 + 1)..m = 1..m /\ (m + 1)..m = {}
  BY <1>1
<1>8. Remain(q, 0) = ToSet(q) /\ Remain(q, m) = {}
  BY <1>1, <1>7 DEF Remain, ToSet
<1> QED BY <1>3, <1>4, <1>6, <1>8

FreeOp(p, r, c) == freeSlave(r, c)
FreeGood(p, i, r) ==
  /\ Half(p[1], r) /\ Serves(p[1], p[2], r)
  /\ r.s.b = p[2].s.b /\ r.fork = p[2].fork /\ r.bad = p[2].bad
  /\ ToSet(r.s.slaves) = Remain(p[2].s.slaves, i)
Frees == INSTANCE FoldFacts WITH Op <- FreeOp, Good <- FreeGood

LEMMA EmptyToSet ==
  ASSUME NEW S, NEW q \in Seq(S), ToSet(q) = {}
  PROVE  q = <<>>
<1>1. \A i \in 1..Len(q) : q[i] \in ToSet(q)
  BY DEF ToSet
<1>2. Len(q) = 0
  BY <1>1
<1> QED BY <1>2

LEMMA DisconnectHalf ==
  ASSUME NEW n \in Node, NEW x, Half(n, x), NEW y, y = disconnectSlaves(x)
  PROVE  /\ Serves(n, x, y) /\ y.s.slaves = <<>>
         /\ y.s.b = x.s.b /\ y.fork = x.fork /\ y.bad = x.bad
<1> DEFINE p == <<n, x>>
           q == x.s.slaves
<1>1. p[1] = n /\ p[2] = x
  OBVIOUS
<1> HIDE DEF p
<1>2. q \in Seq(Conn) /\ Distinct(q) /\ Len(q) \in Nat
  BY DEF Half, GoodServer, GoodSlaves
<1>3. y = Frees!Fold(p, x, q)
  BY DEF disconnectSlaves, Frees!Fold, FreeOp, FoldLeft, MapThenFoldSet, Max,
         Frees!FoldLeft, Frees!MapThenFoldSet, Frees!Max
<1>4. Remain(q, 0) = ToSet(q) /\ Remain(q, Len(q)) = {}
  <2>1. (0 + 1)..Len(q) = DOMAIN q /\ (Len(q) + 1)..Len(q) = {}
    BY <1>2
  <2> QED BY <2>1 DEF Remain, ToSet
<1>5. FreeGood(p, 0, x)
  BY <1>1, <1>4, HalfSelf DEF FreeGood
<1>6. ASSUME NEW r, NEW i \in 1..Len(q), FreeGood(p, i - 1, r)
      PROVE  FreeGood(p, i, FreeOp(p, r, q[i]))
  <2> DEFINE c == q[i]
             z == freeSlave(r, c)
  <2>1. /\ Half(n, r) /\ Serves(n, x, r) /\ ToSet(r.s.slaves) = Remain(q, i - 1)
        /\ r.s.b = x.s.b /\ r.fork = x.fork /\ r.bad = x.bad
    BY <1>1, <1>6 DEF FreeGood
  <2>2. c \in Remain(q, i - 1) /\ Remain(q, i) = Remain(q, i - 1) \ {c}
    <3> HIDE DEF q
    <3> QED BY <1>2, RemainNext
  <2>3. c \in Conn /\ r.net[c].m = n /\ r.net[c].mopen
    <3> HIDE DEF c
    <3> QED BY <2>1, <2>2 DEF Half, GoodServer, GoodSlaves, Flagged
  <2>4. Serves(n, r, z) /\ z.s.b = r.s.b /\ ToSet(z.s.slaves) = ToSet(r.s.slaves) \ {c}
    <3>1. z = freeSlave(r, c)
      OBVIOUS
    <3> HIDE DEF c, z
    <3> QED BY <2>1, <2>3, <3>1, FreeHalf
  <2>5. z.fork = r.fork /\ z.bad = r.bad
    BY <2>1 DEF freeSlave, Half, Shape
  <2> HIDE DEF z
  <2>6. Serves(n, x, z) /\ Half(n, z)
    BY <2>1, <2>4, ServesTrans DEF Serves, Half
  <2>7. FreeGood(p, i, z)
    BY <1>1, <2>1, <2>2, <2>4, <2>5, <2>6 DEF FreeGood
  <2> QED BY <2>7 DEF FreeOp, z
<1> HIDE DEF q
<1>7. FreeGood(p, Len(q), Frees!Fold(p, x, q))
  BY <1>2, <1>5, <1>6, Frees!FoldKeeps
<1>8. /\ Serves(n, x, y) /\ ToSet(y.s.slaves) = {}
      /\ y.s.b = x.s.b /\ y.fork = x.fork /\ y.bad = x.bad
  BY <1>1, <1>3, <1>4, <1>7 DEF FreeGood, q
<1>9. y.s.slaves = <<>>
  <2>1. y.s.slaves \in Seq(Conn)
    BY <1>8 DEF Serves, GoodServer
  <2> QED BY <1>8, <2>1, EmptyToSet
<1> QED BY <1>8, <1>9

LEMMA DisconnectFacts ==
  ASSUME NEW n \in Node, NEW x, GoodWorld(n, x), NEW y, y = disconnectSlaves(x)
  PROVE  /\ GoodWorld(n, y) /\ Serves(n, x, y) /\ y.s.slaves = <<>>
         /\ y.s.b = x.s.b /\ y.fork = x.fork /\ y.bad = x.bad
<1>1. Half(n, x)
  BY DEF GoodWorld, Half, Shape
<1> QED BY <1>1, DisconnectHalf, ServesGood

Others(x, y, c) == \A d \in ToSet(x.s.slaves) \ {c} : d \in ToSet(y.s.slaves)

LEMMA DropFacts ==
  ASSUME NEW n \in Node, NEW x, GoodWorld(n, x), NEW c \in ToSet(x.s.slaves), NEW W,
         NEW y, y = Drop(W, x, c)
  PROVE  /\ Serves(n, x, y) /\ y.s.b = x.s.b
         /\ ToSet(y.s.slaves) \subseteq ToSet(x.s.slaves)
         /\ Others(x, y, c)
<1>1. Shape(x) /\ GoodServer(x.s) /\ GoodNet(x.net) /\ GoodSlaves(n, x.s, x.net)
  BY DEF GoodWorld, Shape
<1>2. CASE c \notin W
  BY <1>2, ServesSelf DEF Drop, Others
<1>3. CASE c \in W
  <2> DEFINE k == x.s.cli[c]
             v == [k EXCEPT !.slave = FALSE, !.out = Append(@, Reply("err"))]
             q == RemoveFirst(x.s.slaves, c)
  <2>1. /\ Shape(y) /\ y.net = x.net
        /\ y.s = [x.s EXCEPT !.slaves = RemoveFirst(@, c), !.cli[c].slave = FALSE,
                             !.cli[c].out = Append(@, Reply("err"))]
    BY <1>1, <1>3 DEF Drop, Shape
  <2>2. /\ q \in Seq(Conn) /\ Distinct(q) /\ ToSet(q) = ToSet(x.s.slaves) \ {c}
    BY <1>1, RemoveFirstAny DEF GoodServer, GoodSlaves
  <2>3. c \in Conn /\ k \in ReplicaClient
    BY SlaveFacts
  <2>4. v \in ReplicaClient /\ ~v.slave
    <3>1. k.out \in Seq(Payload) /\ Reply("err") \in Payload
      <4> HIDE DEF k
      <4> QED BY <2>3 DEF ReplicaClient, Payload, Reply
    <3>2. Append(k.out, Reply("err")) \in Seq(Payload)
      BY <3>1
    <3> HIDE DEF k
    <3> QED BY <2>3, <3>2 DEF ReplicaClient
  <2>5. v # NULL
    BY <2>4, ReplicationAssumption
  <2>6. /\ y.s.slaves = q /\ y.s.cli = [x.s.cli EXCEPT ![c] = v] /\ Outside(x.s, y.s)
        /\ y.s.b = x.s.b /\ y.s.slaveseldb = x.s.slaveseldb /\ y.s.child = x.s.child
    <3>1. y.s.cli = [x.s.cli EXCEPT ![c].slave = FALSE, ![c].out = Append(@, Reply("err"))]
      BY <1>1, <2>1 DEF GoodServer
    <3>2. DOMAIN x.s.cli = Conn /\ k = x.s.cli[c] /\ "out" \in DOMAIN k /\ "slave" \in DOMAIN k
      BY <1>1, <2>3 DEF GoodServer, ReplicaClient
    <3>3. y.s.cli = [x.s.cli EXCEPT ![c] = v]
      BY <2>3, <3>1, <3>2
    <3>4. y.s.slaves = q
      BY <1>1, <2>1 DEF GoodServer
    <3>5. Outside(x.s, y.s) /\ y.s.b = x.s.b /\ y.s.slaveseldb = x.s.slaveseldb /\ y.s.child = x.s.child
      BY <1>1, <2>1 DEF GoodServer, Outside
    <3> QED BY <3>3, <3>4, <3>5
  <2> HIDE DEF v, q, k
  <2>7. /\ y.s.cli \in [Conn -> ReplicaClient \cup {NULL}] /\ y.s.cli[c] = v
        /\ \A d \in Conn \ {c} : y.s.cli[d] = x.s.cli[d]
    BY <1>1, <2>3, <2>4, <2>6 DEF GoodServer
  <2>8. GoodServer(y.s)
    <3>1. GoodBacklog(y.s.b) /\ y.s.slaves \in Seq(Conn) /\ y.s.child \in Save \cup {NULL} /\ y.s.slaveseldb \in Int
      BY <1>1, <2>2, <2>6 DEF GoodServer
    <3> QED BY <1>1, <2>6, <2>7, <3>1, OutsideGood
  <2>9. GoodSlaves(n, y.s, y.net)
    <3>1. Flagged(y.s) = Flagged(x.s) \ {c}
      BY <2>4, <2>7 DEF Flagged
    <3>2. x.s.cli[c] # NULL
      BY SlaveFacts
    <3>3. ToSet(y.s.slaves) = Flagged(y.s) /\ Distinct(y.s.slaves)
      BY <1>1, <2>2, <2>6, <3>1 DEF GoodSlaves
    <3>4. \A d \in Conn : y.s.cli[d] # NULL => y.net[d].m = n /\ y.net[d].mopen
      BY <1>1, <2>1, <2>7, <3>2 DEF GoodSlaves
    <3> QED BY <3>3, <3>4 DEF GoodSlaves
  <2>10. MasterSide(n, x.net, y.net)
    BY <2>1 DEF MasterSide, MasterSideAt
  <2> QED BY <1>1, <2>1, <2>2, <2>6, <2>8, <2>9, <2>10 DEF Serves, Others
<1> QED BY <1>2, <1>3

\* What a save does to the slaves: none is added, and the backlog stays.
Saves(n, x, y) ==
  /\ GoodWorld(n, y) /\ Serves(n, x, y)
  /\ y.s.b = x.s.b /\ ToSet(y.s.slaves) \subseteq ToSet(x.s.slaves)

LEMMA SavesTrans ==
  ASSUME NEW n \in Node, NEW x, NEW y, NEW z, Saves(n, x, y), Saves(n, y, z)
  PROVE  Saves(n, x, z)
<1>1. Serves(n, x, z)
  BY ServesTrans DEF Saves
<1> QED BY <1>1 DEF Saves

LEMMA SavesSelf ==
  ASSUME NEW n \in Node, NEW x, GoodWorld(n, x)
  PROVE  Saves(n, x, x)
BY ServesSelf DEF Saves

\* Slaves i + 1, i + 2, ... are in the list.
Ahead(q, i, r) == \A j \in (i + 1)..Len(q) : q[j] \in ToSet(r.s.slaves)

LEMMA AheadStart ==
  ASSUME NEW n \in Node, NEW x, GoodWorld(n, x)
  PROVE  /\ x.s.slaves \in Seq(Conn) /\ Distinct(x.s.slaves) /\ Len(x.s.slaves) \in Nat
         /\ Ahead(x.s.slaves, 0, x)
<1> DEFINE q == x.s.slaves
<1>1. q \in Seq(Conn) /\ Distinct(q) /\ Len(q) \in Nat /\ DOMAIN q = 1..Len(q)
  BY DEF GoodWorld, GoodServer, GoodSlaves
<1>2. \A j \in 1..Len(q) : q[j] \in ToSet(q)
  BY <1>1 DEF ToSet
<1> QED BY <1>1, <1>2 DEF Ahead

\* One round: the slave is in the list, and what is in the list apart from it
\* stays there.
LEMMA AheadNext ==
  ASSUME NEW S, NEW q \in Seq(S), Distinct(q), NEW i \in 1..Len(q), NEW r, Ahead(q, i - 1, r)
  PROVE  /\ q[i] \in ToSet(r.s.slaves)
         /\ \A z : Others(r, z, q[i]) => Ahead(q, i, z)
<1>1. (i - 1) + 1 = i /\ i \in i..Len(q) /\ \A j \in (i + 1)..Len(q) : j \in i..Len(q) /\ j # i
  OBVIOUS
<1>2. \A j \in (i + 1)..Len(q) : q[j] # q[i]
  BY <1>1 DEF Distinct
<1> QED BY <1>1, <1>2 DEF Ahead, Others

DropOp(p, r, c) == Drop(p[3], r, c)
DropGood(p, i, r) == Saves(p[1], p[2], r) /\ Ahead(p[2].s.slaves, i, r)
Drops == INSTANCE FoldFacts WITH Op <- DropOp, Good <- DropGood

LEMMA DropWaitingFacts ==
  ASSUME NEW n \in Node, NEW x, GoodWorld(n, x), NEW y, y = DropWaiting(x)
  PROVE  Saves(n, x, y)
<1> DEFINE p == <<n, x, WaitStart(x.s)>>
           q == x.s.slaves
<1>1. p[1] = n /\ p[2] = x /\ p[3] = WaitStart(x.s)
  OBVIOUS
<1> HIDE DEF p
<1>2. q \in Seq(Conn) /\ Distinct(q) /\ Len(q) \in Nat
  BY AheadStart
<1>3. y = Drops!Fold(p, x, q)
  BY <1>1 DEF DropWaiting, Drops!Fold, DropOp, FoldLeft, MapThenFoldSet, Max,
         Drops!FoldLeft, Drops!MapThenFoldSet, Drops!Max
<1>4. DropGood(p, 0, x)
  BY <1>1, AheadStart, SavesSelf DEF DropGood
<1>5. ASSUME NEW r, NEW i \in 1..Len(q), DropGood(p, i - 1, r)
      PROVE  DropGood(p, i, DropOp(p, r, q[i]))
  <2> DEFINE c == q[i]
             z == Drop(p[3], r, c)
  <2>1. Saves(n, x, r) /\ Ahead(q, i - 1, r)
    BY <1>1, <1>5 DEF DropGood
  <2> HIDE DEF q
  <2>2. /\ c \in ToSet(r.s.slaves)
        /\ Others(r, z, c) => Ahead(q, i, z)
    BY <1>2, <2>1, AheadNext
  <2>3. z = Drop(p[3], r, c)
    OBVIOUS
  <2> HIDE DEF c, z
  <2>4. /\ Serves(n, r, z) /\ z.s.b = r.s.b
        /\ ToSet(z.s.slaves) \subseteq ToSet(r.s.slaves) /\ Others(r, z, c)
    <3> DEFINE W == p[3]
    <3>1. GoodWorld(n, r) /\ z = Drop(W, r, c) /\ c \in ToSet(r.s.slaves)
      BY <2>1, <2>2, <2>3 DEF Saves
    <3> HIDE DEF W
    <3>2. Serves(n, r, z) /\ z.s.b = r.s.b
      BY <3>1, DropFacts
    <3>3. ToSet(z.s.slaves) \subseteq ToSet(r.s.slaves)
      BY <3>1, DropFacts
    <3>4. Others(r, z, c)
      BY <3>1, DropFacts
    <3> QED BY <3>2, <3>3, <3>4
  <2>5. Saves(n, r, z)
    BY <2>1, <2>4, ServesGood DEF Saves
  <2>6. Saves(n, x, z)
    BY <2>1, <2>5, SavesTrans
  <2>7. DropGood(p, i, z)
    BY <1>1, <2>2, <2>4, <2>6 DEF DropGood, q
  <2> QED BY <2>7 DEF DropOp, z, c
<1> HIDE DEF q
<1>6. DropGood(p, Len(q), Drops!Fold(p, x, q))
  BY <1>2, <1>4, <1>5, Drops!FoldKeeps
<1> QED BY <1>1, <1>3, <1>6 DEF DropGood

LEMMA InitialOffsetType ==
  ASSUME NEW b, GoodBacklog(b)
  PROVE  getPsyncInitialOffset(b) \in Int
BY DEF getPsyncInitialOffset, GoodBacklog

SetUpOp(p, r, c) == SetUp(p[3], r, c)
SetUpGood(p, i, r) == Saves(p[1], p[2], r) /\ r.s.slaves = p[2].s.slaves
SetUps == INSTANCE FoldFacts WITH Op <- SetUpOp, Good <- SetUpGood

SetUpAll(W, x) == FoldLeft(LAMBDA y, c : SetUp(W, y, c), x, x.s.slaves)

LEMMA SetUpFacts ==
  ASSUME NEW n \in Node, NEW x, GoodWorld(n, x), NEW W, NEW y, y = SetUpAll(W, x)
  PROVE  Saves(n, x, y)
<1> DEFINE p == <<n, x, W>>
           q == x.s.slaves
<1>1. p[1] = n /\ p[2] = x /\ p[3] = W
  OBVIOUS
<1> HIDE DEF p
<1>2. q \in Seq(Conn) /\ Distinct(q) /\ Len(q) \in Nat
  BY AheadStart
<1>3. y = SetUps!Fold(p, x, q)
  BY <1>1 DEF SetUpAll, SetUps!Fold, SetUpOp, FoldLeft, MapThenFoldSet, Max,
         SetUps!FoldLeft, SetUps!MapThenFoldSet, SetUps!Max
<1>4. SetUpGood(p, 0, x)
  BY <1>1, SavesSelf DEF SetUpGood
<1>5. ASSUME NEW r, NEW i \in 1..Len(q), SetUpGood(p, i - 1, r)
      PROVE  SetUpGood(p, i, SetUpOp(p, r, q[i]))
  <2> DEFINE c == q[i]
             o == getPsyncInitialOffset(r.s.b)
             z == replicationSetupSlaveForFullResync(r, c, o)
  <2>1. Saves(n, x, r) /\ r.s.slaves = q
    BY <1>1, <1>5 DEF SetUpGood
  <2>2. c \in ToSet(r.s.slaves)
    BY <1>2, <2>1 DEF ToSet
  <2>3. z = replicationSetupSlaveForFullResync(r, c, o) /\ o \in Int
    BY <2>1, InitialOffsetType DEF Saves, GoodWorld, GoodServer
  <2> HIDE DEF c, z, o, q
  <2>4. c \in Conn /\ r.s.cli[c] # NULL /\ GoodWorld(n, r)
    BY <2>1, <2>2, SlaveFacts DEF Saves
  <2>5. Serves(n, r, z) /\ z.s.b = r.s.b /\ z.s.slaves = r.s.slaves
    BY <2>3, <2>4, SetupFacts
  <2>6. Saves(n, r, z)
    BY <2>4, <2>5, ServesGood DEF Saves
  <2>7. Saves(n, x, z)
    BY <2>1, <2>6, SavesTrans
  <2>8. SetUpGood(p, i, z) /\ SetUpGood(p, i, r)
    BY <1>1, <2>1, <2>5, <2>7 DEF SetUpGood, q
  <2> QED BY <2>8 DEF SetUpOp, SetUp, z, c, o
<1> HIDE DEF q
<1>6. SetUpGood(p, Len(q), SetUps!Fold(p, x, q))
  BY <1>2, <1>4, <1>5, SetUps!FoldKeeps
<1> QED BY <1>1, <1>3, <1>6 DEF SetUpGood

WithChild(x, child) == [x EXCEPT !.s.child = child]

LEMMA WithChildFacts ==
  ASSUME NEW n \in Node, NEW x, GoodWorld(n, x), NEW child \in Save \cup {NULL}, NEW y, y = WithChild(x, child)
  PROVE  /\ Saves(n, x, y) /\ y.s.slaves = x.s.slaves /\ y.s.child = child /\ y.s.cli = x.s.cli
         /\ y.net = x.net /\ y.fork = x.fork /\ y.bad = x.bad /\ y.s.b = x.s.b
         /\ y.s.slaveseldb = x.s.slaveseldb
<1>1. Shape(x) /\ GoodServer(x.s) /\ GoodNet(x.net) /\ GoodSlaves(n, x.s, x.net)
  BY DEF GoodWorld, Shape
<1>2. Shape(y) /\ y.net = x.net /\ y.s = [x.s EXCEPT !.child = child] /\ y.fork = x.fork /\ y.bad = x.bad
  BY <1>1 DEF WithChild, Shape
<1>3. /\ Outside(x.s, y.s) /\ y.s.b = x.s.b /\ y.s.slaves = x.s.slaves /\ y.s.cli = x.s.cli
      /\ y.s.slaveseldb = x.s.slaveseldb /\ y.s.child = child
  BY <1>1, <1>2 DEF GoodServer, Outside
<1>4. GoodServer(y.s)
  <2>1. /\ GoodBacklog(y.s.b) /\ y.s.slaves \in Seq(Conn) /\ y.s.slaveseldb \in Int
        /\ y.s.cli \in [Conn -> ReplicaClient \cup {NULL}]
    BY <1>1, <1>3 DEF GoodServer
  <2> QED BY <1>1, <1>3, <2>1, OutsideGood
<1>5. MasterSide(n, x.net, y.net) /\ GoodSlaves(n, y.s, y.net)
  <2>1. MasterSide(n, x.net, y.net)
    BY <1>2 DEF MasterSide, MasterSideAt
  <2>2. Flagged(y.s) = Flagged(x.s)
    BY <1>3 DEF Flagged
  <2> QED BY <1>1, <1>2, <1>3, <2>1, <2>2 DEF GoodSlaves
<1>6. Serves(n, x, y)
  BY <1>1, <1>2, <1>3, <1>4, <1>5 DEF Serves
<1> QED BY <1>2, <1>3, <1>6, ServesGood DEF Saves

LEMMA ChildType ==
  ASSUME NEW type \in {"disk", "socket"}, NEW d \in Dataset, NEW W \in SUBSET Conn
  PROVE  Child(type, d, W) \in Save
BY DEF Child, Save

LEMMA StartBgsaveFacts ==
  ASSUME NEW n \in Node, NEW x, GoodWorld(n, x), NEW capa, NEW y, y = startBgsaveForReplication(x, capa)
  PROVE  Saves(n, x, y)
<1> DEFINE socket == x.s.diskless /\ "eof" \in capa
           child == IF socket THEN Child("socket", x.s.data, WaitStart(x.s)) ELSE Child("disk", x.s.data, {})
           z == WithChild(x, child)
<1>1. CASE ~x.fork
  <2>1. y = DropWaiting(x)
    BY <1>1 DEF startBgsaveForReplication
  <2> QED BY <2>1, DropWaitingFacts
<1>2. CASE x.fork
  <2>1. WaitStart(x.s) \in SUBSET Conn /\ x.s.data \in Dataset
    <3>1. ToSet(x.s.slaves) \subseteq Conn
      BY SlaveFacts
    <3> QED BY <3>1 DEF WaitStart, GoodWorld, GoodServer
  <2>2. child \in Save
    BY <2>1, ChildType
  <2>3. z = WithChild(x, child) /\ z = [x EXCEPT !.s.child = child]
    BY DEF WithChild
  <2>4. y = FoldLeft(LAMBDA w, c : SetUp(WaitStart(x.s), w, c), z, x.s.slaves)
    BY <1>2, <2>3 DEF startBgsaveForReplication
  <2> HIDE DEF z, child
  <2>5. Saves(n, x, z) /\ z.s.slaves = x.s.slaves
    <3>1. child \in Save \cup {NULL} /\ z = WithChild(x, child)
      BY <2>2, <2>3
    <3> QED BY <3>1, WithChildFacts
  <2>6. y = SetUpAll(WaitStart(x.s), z)
    BY <2>4, <2>5 DEF SetUpAll
  <2>7. Saves(n, z, y)
    BY <2>5, <2>6, SetUpFacts DEF Saves
  <2> QED BY <2>5, <2>7, SavesTrans
<1> QED BY <1>1, <1>2

-----------------------------------------------------------------------------
(* Requests of replicas.                                                   *)

\* Client c is given the value v, and nothing else changes.
Touched(s, t, c, v) ==
  /\ Outside(s, t) /\ t.cli = [s.cli EXCEPT ![c] = v] /\ t.slaves = s.slaves
  /\ t.b = s.b /\ t.child = s.child /\ t.slaveseldb = s.slaveseldb

\* It becomes a slave.
Enrolled(s, t, c, v) ==
  /\ Outside(s, t) /\ t.cli = [s.cli EXCEPT ![c] = v] /\ t.slaves = Append(s.slaves, c)
  /\ t.b = s.b /\ t.child = s.child /\ t.slaveseldb = s.slaveseldb

LEMMA TouchedFacts ==
  ASSUME NEW n \in Node, NEW x, GoodWorld(n, x), NEW c \in Conn, x.s.cli[c] # NULL,
         NEW v \in ReplicaClient, v.slave = x.s.cli[c].slave,
         NEW y, Shape(y), Touched(x.s, y.s, c, v), GoodNet(y.net), SameEnds(x.net, y.net)
  PROVE  /\ GoodServer(y.s) /\ GoodSlaves(n, y.s, y.net) /\ Outside(x.s, y.s)
         /\ MasterSide(n, x.net, y.net) => Serves(n, x, y) /\ GoodWorld(n, y)
<1>1. GoodServer(x.s) /\ GoodSlaves(n, x.s, x.net)
  BY DEF GoodWorld
<1>2. /\ y.s.cli \in [Conn -> ReplicaClient \cup {NULL}] /\ y.s.cli[c] = v
      /\ \A d \in Conn \ {c} : y.s.cli[d] = x.s.cli[d]
  BY <1>1 DEF GoodServer, Touched
<1>3. GoodServer(y.s)
  <2>1. /\ GoodBacklog(y.s.b) /\ y.s.slaves \in Seq(Conn) /\ y.s.slaveseldb \in Int
        /\ y.s.child \in Save \cup {NULL} /\ Outside(x.s, y.s)
    BY <1>1 DEF GoodServer, Touched
  <2> QED BY <1>1, <1>2, <2>1, OutsideGood
<1>4. v # NULL
  BY ReplicationAssumption
<1>5. SameClients(x.s, y.s)
  BY <1>2, <1>4 DEF SameClients, Touched
<1>6. GoodSlaves(n, y.s, y.net)
  BY <1>1, <1>5, SlavesKept
<1>7. Outside(x.s, y.s)
  BY DEF Touched
<1>8. MasterSide(n, x.net, y.net) => Serves(n, x, y)
  BY <1>3, <1>6, <1>7 DEF Serves
<1> QED BY <1>3, <1>6, <1>7, <1>8, ServesGood

LEMMA EnrolledFacts ==
  ASSUME NEW n \in Node, NEW x, GoodWorld(n, x), NEW c \in Conn, x.s.cli[c] # NULL, ~x.s.cli[c].slave,
         NEW v \in ReplicaClient, v.slave,
         NEW y, Shape(y), Enrolled(x.s, y.s, c, v), GoodNet(y.net), SameEnds(x.net, y.net)
  PROVE  /\ GoodServer(y.s) /\ GoodSlaves(n, y.s, y.net) /\ Outside(x.s, y.s)
         /\ ToSet(y.s.slaves) = ToSet(x.s.slaves) \cup {c} /\ c \notin ToSet(x.s.slaves)
         /\ MasterSide(n, x.net, y.net) => Serves(n, x, y) /\ GoodWorld(n, y)
<1>1. GoodServer(x.s) /\ GoodSlaves(n, x.s, x.net)
  BY DEF GoodWorld
<1>2. /\ y.s.cli \in [Conn -> ReplicaClient \cup {NULL}] /\ y.s.cli[c] = v
      /\ \A d \in Conn \ {c} : y.s.cli[d] = x.s.cli[d]
  BY <1>1 DEF GoodServer, Enrolled
<1>3. c \notin ToSet(x.s.slaves)
  BY <1>1 DEF GoodSlaves, Flagged
<1>4. x.s.slaves \in Seq(Conn) /\ Distinct(x.s.slaves)
  BY <1>1 DEF GoodServer, GoodSlaves
<1>5. /\ y.s.slaves \in Seq(Conn) /\ ToSet(y.s.slaves) = ToSet(x.s.slaves) \cup {c}
      /\ Distinct(y.s.slaves)
  BY <1>3, <1>4, AppendFacts DEF Enrolled
<1>6. GoodServer(y.s)
  <2>1. /\ GoodBacklog(y.s.b) /\ y.s.slaveseldb \in Int
        /\ y.s.child \in Save \cup {NULL} /\ Outside(x.s, y.s)
    BY <1>1 DEF GoodServer, Enrolled
  <2> QED BY <1>1, <1>2, <1>5, <2>1, OutsideGood
<1>7. v # NULL
  BY ReplicationAssumption
<1>8. Flagged(y.s) = Flagged(x.s) \cup {c}
  BY <1>2, <1>7 DEF Flagged
<1>9. \A d \in Conn : y.s.cli[d] # NULL => y.net[d].m = n /\ y.net[d].mopen
  BY <1>1, <1>2 DEF GoodSlaves, SameEnds
<1>10. GoodSlaves(n, y.s, y.net)
  <2>1. ToSet(x.s.slaves) = Flagged(x.s)
    BY <1>1 DEF GoodSlaves
  <2> QED BY <1>5, <1>8, <1>9, <2>1 DEF GoodSlaves
<1>11. Outside(x.s, y.s)
  BY DEF Enrolled
<1>12. MasterSide(n, x.net, y.net) => Serves(n, x, y)
  BY <1>6, <1>10, <1>11 DEF Serves
<1> QED BY <1>3, <1>5, <1>6, <1>10, <1>11, <1>12, ServesGood

Elsewhere(net, after, c) == \A d \in Conn \ {c} : after[d] = net[d]

LEMMA SendAny ==
  ASSUME NEW net, GoodNet(net), NEW c \in Conn, NEW q \in Seq(Item), NEW after, after = SendToR(net, c, q)
  PROVE  /\ GoodNet(after) /\ SameEnds(net, after)
         /\ Elsewhere(net, after, c)
         /\ after[c].toM = net[c].toM
<1> DEFINE k == net[c]
           l == [k EXCEPT !.toR = @ \o q]
<1>1. DOMAIN net = Conn /\ \A d \in Conn : GoodConn(net[d])
  BY DEF GoodNet
<1>2. k \in ConnRec /\ k.toR \in Seq(Item)
  BY <1>1 DEF GoodConn, ConnRec
<1>3. k.toR \o q \in Seq(Item)
  BY <1>2
<1>5. CASE ~LostToM(net, c)
  <2>1. after = [net EXCEPT ![c] = l]
    BY <1>5 DEF SendToR
  <2>2. l \in ConnRec
    <3>1. l = [k EXCEPT !.toR = k.toR \o q]
      OBVIOUS
    <3> HIDE DEF k
    <3> QED BY <1>2, <1>3, <3>1, ConnUpdated
  <2>3. /\ l.r = k.r /\ l.m = k.m /\ l.ropen = k.ropen /\ l.mopen = k.mopen /\ l.toM = k.toM
    <3> HIDE DEF k
    <3> QED BY <1>2 DEF ConnRec
  <2>4. k.ropen
    BY <1>5 DEF LostToM
  <2> HIDE DEF l, k
  <2>5. GoodConn(l)
    BY <1>1, <2>2, <2>3, <2>4 DEF GoodConn, k
  <2>8. /\ DOMAIN after = Conn /\ after[c] = l /\ \A d \in Conn \ {c} : after[d] = net[d]
    BY <1>1, <2>1
  <2>9. GoodNet(after)
    BY <1>1, <2>5, <2>8 DEF GoodNet
  <2>11. SameEnds(net, after)
    BY <2>3, <2>8 DEF SameEnds, k
  <2> QED BY <2>3, <2>8, <2>9, <2>11 DEF k, Elsewhere
<1>6. CASE LostToM(net, c)
  <2>1. after = net
    BY <1>6 DEF SendToR
  <2> QED BY <1>1, <2>1 DEF SameEnds, Elsewhere
<1> QED BY <1>5, <1>6

LEMMA AcceptFacts ==
  ASSUME NEW n \in Node, NEW x, GoodWorld(n, x), WithBacklog(x.s), NEW c \in Conn, x.s.cli[c] # NULL,
         ~x.s.cli[c].slave, NEW offset \in Int, Held(x.s.b, offset), NEW y, y = AcceptPartial(x, c, offset)
  PROVE  /\ Shape(y) /\ GoodServer(y.s) /\ GoodNet(y.net) /\ GoodSlaves(n, y.s, y.net)
         /\ Outside(x.s, y.s) /\ SameEnds(x.net, y.net) /\ WithBacklog(y.s)
         /\ Elsewhere(x.net, y.net, c) /\ y.s.b = x.s.b
<1> DEFINE k == x.s.cli[c]
           q == BacklogFrom(x.s.b, offset)
           v == [k EXCEPT !.slave = TRUE, !.replstate = "ONLINE", !.put_online_on_ack = FALSE]
           w == [v EXCEPT !.asap = TRUE]
           u == [v EXCEPT !.out = @ \o q]
           z == [x EXCEPT !.s.slaves = Append(@, c), !.s.cli[c] = v]
           net == SendToR(x.net, c, <<Reply("continue")>>)
<1>1. Shape(x) /\ GoodServer(x.s) /\ GoodNet(x.net) /\ GoodSlaves(n, x.s, x.net)
  BY DEF GoodWorld, Shape
<1>2. k \in ReplicaClient
  BY <1>1 DEF GoodServer
<1>3. v \in ReplicaClient /\ v.slave /\ v.out = k.out
  <2> HIDE DEF k
  <2> QED BY <1>2 DEF ReplicaClient
<1>4. w \in ReplicaClient /\ w.slave
  <2> HIDE DEF v
  <2> QED BY <1>3 DEF ReplicaClient
<1>5. u \in ReplicaClient /\ u.slave
  <2>1. q \in Seq(Byte)
    BY <1>1, BacklogFromIs DEF GoodServer
  <2>2. k.out \in Seq(Payload) /\ q \in Seq(Payload)
    <3>1. k.out \in Seq(Payload)
      <4> HIDE DEF k
      <4> QED BY <1>2 DEF ReplicaClient
    <3> HIDE DEF q, k
    <3>2. q \in Seq(Payload)
      BY <2>1, ItemFacts
    <3> QED BY <3>1, <3>2
  <2>3. v.out \o q \in Seq(Payload)
    <3> HIDE DEF q, k, v
    <3> QED BY <1>3, <2>2
  <2> HIDE DEF q, v
  <2> QED BY <1>3, <2>3 DEF ReplicaClient
<1>6. Shape(z) /\ z.net = x.net /\ z.s = [x.s EXCEPT !.slaves = Append(@, c), !.cli[c] = v] /\ z.s.cli[c] = v
  BY <1>1 DEF Shape, GoodServer
<1>7. Enrolled(x.s, z.s, c, v)
  <2> HIDE DEF v, z
  <2> QED BY <1>1, <1>6 DEF Enrolled, Outside, GoodServer
<1>8. y = IF c \in x.bad THEN [z EXCEPT !.s.cli[c].asap = TRUE]
          ELSE [z EXCEPT !.s.cli[c].out = @ \o q, !.net = SendToR(@, c, <<Reply("continue")>>)]
  BY DEF AcceptPartial
<1>9. GoodServer(z.s)
  <2>1. SameEnds(x.net, z.net) /\ GoodNet(z.net)
    BY <1>1, <1>6 DEF SameEnds
  <2> HIDE DEF v, z
  <2> QED BY <1>3, <1>6, <1>7, <2>1, EnrolledFacts
<1> HIDE DEF z, v
<1>10. /\ Shape(y) /\ (y.net = x.net \/ y.net = net)
       /\ Enrolled(x.s, y.s, c, w) \/ Enrolled(x.s, y.s, c, u)
  <2>1. CASE c \in x.bad
    <3>1. Shape(y) /\ y.net = x.net /\ y.s = [z.s EXCEPT !.cli[c].asap = TRUE]
      BY <1>6, <1>8, <2>1 DEF Shape
    <3>2. y.s.cli = [x.s.cli EXCEPT ![c] = w]
      <4>1. z.s.cli = [x.s.cli EXCEPT ![c] = v] /\ DOMAIN x.s.cli = Conn /\ "cli" \in DOMAIN z.s
        BY <1>1, <1>7, <1>9 DEF Enrolled, GoodServer
      <4>2. y.s.cli = [z.s.cli EXCEPT ![c] = w]
        BY <1>6, <3>1, <4>1
      <4> HIDE DEF w
      <4> QED BY <4>1, <4>2
    <3>3. Enrolled(x.s, y.s, c, w)
      <4> HIDE DEF w
      <4> QED BY <1>7, <1>9, <3>1, <3>2 DEF Enrolled, Outside, GoodServer
    <3> QED BY <3>1, <3>3
  <2>2. CASE c \notin x.bad
    <3>1. Shape(y) /\ y.net = net /\ y.s = [z.s EXCEPT !.cli[c].out = @ \o q]
      <4> HIDE DEF q
      <4> QED BY <1>6, <1>8, <2>2 DEF Shape
    <3>2. y.s.cli = [x.s.cli EXCEPT ![c] = u]
      <4>1. z.s.cli = [x.s.cli EXCEPT ![c] = v] /\ DOMAIN x.s.cli = Conn /\ "cli" \in DOMAIN z.s
        BY <1>1, <1>7, <1>9 DEF Enrolled, GoodServer
      <4>2. y.s.cli = [z.s.cli EXCEPT ![c] = u]
        <5> HIDE DEF q
        <5> QED BY <1>6, <3>1, <4>1
      <4> HIDE DEF u
      <4> QED BY <4>1, <4>2
    <3>3. Enrolled(x.s, y.s, c, u)
      <4> HIDE DEF u, q
      <4> QED BY <1>7, <1>9, <3>1, <3>2 DEF Enrolled, Outside, GoodServer
    <3> QED BY <3>1, <3>3
  <2> QED BY <2>1, <2>2
<1>11. GoodNet(y.net) /\ SameEnds(x.net, y.net) /\ Elsewhere(x.net, y.net, c)
  <2>1. <<Reply("continue")>> \in Seq(Item)
    <3>1. Reply("continue") \in Item
      BY DEF Item, Answer, Reply
    <3> QED BY <3>1
  <2>2. GoodNet(net) /\ SameEnds(x.net, net) /\ Elsewhere(x.net, net, c)
    BY <1>1, <2>1, SendAny
  <2>3. SameEnds(x.net, x.net) /\ Elsewhere(x.net, x.net, c)
    BY DEF SameEnds, Elsewhere
  <2> HIDE DEF net
  <2> QED BY <1>1, <1>10, <2>2, <2>3
<1>12. GoodServer(y.s) /\ GoodSlaves(n, y.s, y.net) /\ Outside(x.s, y.s)
  <2>1. PICK g \in ReplicaClient : g.slave /\ Enrolled(x.s, y.s, c, g)
    <3> HIDE DEF w, u
    <3> QED BY <1>4, <1>5, <1>10
  <2> QED BY <1>10, <1>11, <2>1, EnrolledFacts
<1>13. WithBacklog(y.s) /\ y.s.b = x.s.b
  BY <1>10 DEF WithBacklog, Held, Enrolled
<1> QED BY <1>10, <1>11, <1>12, <1>13

Put(x, c, v) == [x EXCEPT !.s.cli[c] = v]

LEMMA PutFacts ==
  ASSUME NEW n \in Node, NEW x, GoodWorld(n, x), NEW c \in Conn, x.s.cli[c] # NULL,
         NEW v \in ReplicaClient, v.slave = x.s.cli[c].slave, NEW y, y = Put(x, c, v)
  PROVE  /\ Touched(x.s, y.s, c, v) /\ y.s.cli[c] = v /\ v # NULL
         /\ y.net = x.net /\ y.fork = x.fork /\ y.bad = x.bad
         /\ Shape(y) /\ Serves(n, x, y) /\ GoodWorld(n, y) /\ Saves(n, x, y)
<1>1. /\ Shape(y) /\ y.net = x.net /\ y.fork = x.fork /\ y.bad = x.bad
      /\ Touched(x.s, y.s, c, v) /\ y.s.cli[c] = v
  BY DEF Put, GoodWorld, GoodServer, Shape, Touched, Outside
<1>2. GoodNet(y.net) /\ SameEnds(x.net, y.net) /\ MasterSide(n, x.net, y.net)
  BY <1>1 DEF GoodWorld, SameEnds, MasterSide, MasterSideAt
<1>3. Serves(n, x, y) /\ GoodWorld(n, y)
  BY <1>1, <1>2, TouchedFacts
<1>4. v # NULL
  BY ReplicationAssumption
<1>5. y.s.b = x.s.b /\ y.s.slaves = x.s.slaves
  BY <1>1 DEF Touched
<1> QED BY <1>1, <1>3, <1>4, <1>5 DEF Saves

\* The same with something written to the connection
Say(x, c, v, q) == [Put(x, c, v) EXCEPT !.net = SendToR(x.net, c, q)]

LEMMA SayFacts ==
  ASSUME NEW n \in Node, NEW x, GoodWorld(n, x), NEW c \in Conn, x.s.cli[c] # NULL,
         NEW v \in ReplicaClient, v.slave = x.s.cli[c].slave, NEW q \in Seq(Item),
         Reply("continue") \notin ToSet(q), NEW y, y = Say(x, c, v, q)
  PROVE  /\ Touched(x.s, y.s, c, v) /\ y.s.cli[c] = v /\ y.net = SendToR(x.net, c, q)
         /\ Shape(y) /\ Serves(n, x, y) /\ GoodWorld(n, y) /\ Saves(n, x, y)
<1> DEFINE z == Put(x, c, v)
<1>1. Touched(x.s, z.s, c, v) /\ z.s.cli[c] = v /\ Shape(z)
  <2>1. z = Put(x, c, v)
    OBVIOUS
  <2> HIDE DEF z
  <2> QED BY <2>1, PutFacts
<1>2. y = [z EXCEPT !.net = SendToR(x.net, c, q)]
  BY DEF Say
<1> HIDE DEF z
<1>3. y.s = z.s /\ y.net = SendToR(x.net, c, q) /\ Shape(y)
  BY <1>1, <1>2 DEF Shape
<1>4. GoodNet(y.net) /\ SameEnds(x.net, y.net) /\ MasterSide(n, x.net, y.net)
  BY <1>3, SendFacts DEF GoodWorld
<1>5. Serves(n, x, y) /\ GoodWorld(n, y)
  BY <1>1, <1>3, <1>4, TouchedFacts
<1>6. y.s.b = x.s.b /\ y.s.slaves = x.s.slaves
  BY <1>1, <1>3 DEF Touched
<1> QED BY <1>1, <1>3, <1>5, <1>6 DEF Saves

\* Nothing changes but what is on the wire.
Tell(x, c, q) == [x EXCEPT !.net = SendToR(x.net, c, q)]

LEMMA TellFacts ==
  ASSUME NEW n \in Node, NEW x, GoodWorld(n, x), NEW c \in Conn, NEW q \in Seq(Item),
         Reply("continue") \notin ToSet(q), NEW y, y = Tell(x, c, q)
  PROVE  Saves(n, x, y) /\ y.s = x.s /\ y.fork = x.fork /\ y.bad = x.bad
<1>1. Shape(x) /\ GoodServer(x.s) /\ GoodNet(x.net) /\ GoodSlaves(n, x.s, x.net)
  BY DEF GoodWorld, Shape
<1>2. Shape(y) /\ y.s = x.s /\ y.net = SendToR(x.net, c, q) /\ y.fork = x.fork /\ y.bad = x.bad
  BY <1>1 DEF Tell, Shape
<1>3. GoodNet(y.net) /\ SameEnds(x.net, y.net) /\ MasterSide(n, x.net, y.net)
  BY <1>1, <1>2, SendFacts
<1>4. GoodSlaves(n, y.s, y.net)
  BY <1>1, <1>2, <1>3, SlavesKept DEF SameClients
<1>5. Serves(n, x, y)
  BY <1>1, <1>2, <1>3, <1>4 DEF Serves, Outside
<1> QED BY <1>2, <1>5, ServesGood DEF Saves

LEMMA PayloadQuiet ==
  ASSUME NEW q \in Seq(Payload)
  PROVE  q \in Seq(Item) /\ Reply("continue") \notin ToSet(q)
<1>1. q \in Seq(Item)
  BY ItemFacts
<1>2. \A i \in DOMAIN q : q[i] \in Payload
  OBVIOUS
<1> QED BY <1>1, <1>2, ItemFacts, ToSetMember

LEMMA AttachFacts ==
  ASSUME NEW n \in Node, NEW x, GoodWorld(n, x), NEW c \in Conn, x.s.cli[c] # NULL,
         NEW d \in Conn, x.s.cli[d] # NULL, NEW y, y = AttachTo(x, c, d)
  PROVE  Saves(n, x, y)
<1> DEFINE k == x.s.cli[c]
           l == x.s.cli[d]
           v == [k EXCEPT !.out = l.out]
           z == Put(x, c, v)
<1>1. k \in ReplicaClient /\ l \in ReplicaClient
  BY DEF GoodWorld, GoodServer
<1>2. v \in ReplicaClient /\ v.slave = k.slave /\ l.psync_initial_offset \in Int
  <2> HIDE DEF k, l
  <2> QED BY <1>1 DEF ReplicaClient
<1>3. z = [x EXCEPT !.s.cli[c].out = l.out] /\ z = Put(x, c, v)
  BY DEF Put
<1>4. y = replicationSetupSlaveForFullResync(z, c, l.psync_initial_offset)
  BY <1>3 DEF AttachTo
<1> HIDE DEF z, v
<1>5. Saves(n, x, z) /\ GoodWorld(n, z) /\ z.s.cli[c] # NULL
  <2>1. z = Put(x, c, v) /\ v.slave = x.s.cli[c].slave /\ v \in ReplicaClient
    BY <1>2, <1>3
  <2>2. z.s.cli[c] = v /\ v # NULL
    BY <2>1, PutFacts
  <2>3. Saves(n, x, z)
    BY <2>1, PutFacts
  <2> QED BY <2>2, <2>3 DEF Saves
<1> HIDE DEF l
<1>6. Serves(n, z, y) /\ y.s.b = z.s.b /\ y.s.slaves = z.s.slaves
  BY <1>2, <1>4, <1>5, SetupFacts
<1>7. Saves(n, z, y)
  BY <1>5, <1>6, ServesGood DEF Saves
<1> QED BY <1>5, <1>7, SavesTrans

LEMMA JoinFacts ==
  ASSUME NEW n \in Node, NEW x, GoodWorld(n, x), NEW c \in Conn, x.s.cli[c] # NULL,
         NEW y, y = JoinDiskSave(x, c)
  PROVE  Saves(n, x, y)
<1> DEFINE H == {i \in DOMAIN x.s.slaves : x.s.slaves[i] \in WaitEnd(x.s)}
           d == x.s.slaves[Min(H)]
<1>1. y = IF H # {} /\ x.s.cli[d].capa \subseteq x.s.cli[c].capa THEN AttachTo(x, c, d) ELSE x
  BY DEF JoinDiskSave
<1>2. CASE H # {}
  <2>1. H \in SUBSET Nat
    BY DEF GoodWorld, GoodServer
  <2>2. Min(H) \in H
    <3> HIDE DEF H
    <3> QED BY <1>2, <2>1, MinIsLeast
  <2>3. d \in ToSet(x.s.slaves)
    BY <2>2 DEF ToSet
  <2> HIDE DEF d, H
  <2>4. d \in Conn /\ x.s.cli[d] # NULL
    BY <2>3, SlaveFacts
  <2> QED BY <1>1, <2>4, AttachFacts, SavesSelf
<1>3. CASE H = {}
  BY <1>1, <1>3, SavesSelf
<1> QED BY <1>2, <1>3

LEMMA OneSlave ==
  ASSUME NEW S, NEW q \in Seq(S), Distinct(q), NEW c, ToSet(q) \subseteq {c}, q # <<>>
  PROVE  Len(q) = 1
<1>1. Len(q) \in Nat /\ DOMAIN q = 1..Len(q) /\ Len(q) # 0
  OBVIOUS
<1>2. \A i \in 1..Len(q) : q[i] = c
  BY <1>1 DEF ToSet
<1>3. CASE Len(q) > 1
  <2>1. 1 \in 1..Len(q) /\ 2 \in 1..Len(q)
    BY <1>1, <1>3
  <2> QED BY <1>1, <1>2, <2>1 DEF Distinct
<1> QED BY <1>1, <1>3

SetBacklog(x, b) == [x EXCEPT !.s.b = b]

LEMMA SetBacklogHalf ==
  ASSUME NEW n \in Node, NEW x, Half(n, x), NEW b, GoodBacklog(b), NEW y, y = SetBacklog(x, b)
  PROVE  /\ Serves(n, x, y) /\ y.s.b = b /\ y.s.slaves = x.s.slaves
         /\ y.s.cli = x.s.cli /\ y.net = x.net /\ y.fork = x.fork /\ y.bad = x.bad /\ y.s.child = x.s.child
         /\ y.s.slaveseldb = x.s.slaveseldb
<1>1. Shape(x) /\ GoodServer(x.s) /\ GoodNet(x.net) /\ GoodSlaves(n, x.s, x.net)
  BY DEF Half
<1>2. Shape(y) /\ y.net = x.net /\ y.s = [x.s EXCEPT !.b = b] /\ y.fork = x.fork /\ y.bad = x.bad
  BY <1>1 DEF SetBacklog, Shape
<1>3. /\ Outside(x.s, y.s) /\ y.s.b = b /\ y.s.slaves = x.s.slaves /\ y.s.cli = x.s.cli
      /\ y.s.slaveseldb = x.s.slaveseldb /\ y.s.child = x.s.child
  BY <1>1, <1>2 DEF GoodServer, Outside
<1>4. GoodServer(y.s)
  <2>1. /\ GoodBacklog(y.s.b) /\ y.s.slaves \in Seq(Conn) /\ y.s.slaveseldb \in Int
        /\ y.s.cli \in [Conn -> ReplicaClient \cup {NULL}] /\ y.s.child \in Save \cup {NULL}
    BY <1>1, <1>3 DEF GoodServer
  <2> QED BY <1>1, <1>3, <2>1, OutsideGood
<1>5. MasterSide(n, x.net, y.net) /\ GoodSlaves(n, y.s, y.net)
  <2>1. MasterSide(n, x.net, y.net)
    BY <1>2 DEF MasterSide, MasterSideAt
  <2>2. Flagged(y.s) = Flagged(x.s)
    BY <1>3 DEF Flagged
  <2> QED BY <1>1, <1>2, <1>3, <2>1, <2>2 DEF GoodSlaves
<1>6. Serves(n, x, y)
  BY <1>1, <1>2, <1>3, <1>4, <1>5 DEF Serves
<1> QED BY <1>2, <1>3, <1>6

LEMMA SetBacklogFacts ==
  ASSUME NEW n \in Node, NEW x, GoodWorld(n, x), NEW b, GoodBacklog(b), NEW y, y = SetBacklog(x, b)
  PROVE  /\ Serves(n, x, y) /\ GoodWorld(n, y) /\ y.s.b = b /\ y.s.slaves = x.s.slaves
         /\ y.s.cli = x.s.cli /\ y.net = x.net /\ y.fork = x.fork /\ y.bad = x.bad /\ y.s.child = x.s.child
         /\ y.s.slaveseldb = x.s.slaveseldb
<1>1. Half(n, x)
  BY DEF GoodWorld, Half, Shape
<1> QED BY <1>1, SetBacklogHalf, ServesGood

LEMMA FullResyncFacts ==
  ASSUME NEW n \in Node, NEW x, GoodWorld(n, x), WithBacklog(x.s), NEW c \in Conn, x.s.cli[c] # NULL,
         ~x.s.cli[c].slave, NEW pre \in BOOLEAN, NEW y, y = FullResync(x, c, pre)
  PROVE  /\ Serves(n, x, y) /\ GoodWorld(n, y) /\ WithBacklog(y.s)
         /\ y.s.b = x.s.b \/ Made(x.s.b, y.s.b)
<1> DEFINE k == x.s.cli[c]
           v == [k EXCEPT !.slave = TRUE, !.pre_psync = pre \/ k.pre_psync,
                      !.replstate = "WAIT_BGSAVE_START"]
           a == Enlist(x, c, pre)
           z == FindSave(a, c)
<1>1. Shape(x) /\ GoodServer(x.s) /\ GoodNet(x.net) /\ GoodSlaves(n, x.s, x.net)
  BY DEF GoodWorld, Shape
<1>2. k \in ReplicaClient
  BY <1>1 DEF GoodServer
<1>3. v \in ReplicaClient /\ v.slave
  <2>1. (pre \/ k.pre_psync) \in BOOLEAN
    OBVIOUS
  <2> HIDE DEF k
  <2> QED BY <1>2, <2>1 DEF ReplicaClient
<1>4. v # NULL
  BY <1>3, ReplicationAssumption
<1>5. y = IF Len(z.s.slaves) = 1 /\ z.s.b.buf = NULL
          THEN SetBacklog(z, createReplicationBacklog(z.s.b)) ELSE z
  BY DEF FullResync, SetBacklog
<1> HIDE DEF v
<1>0. a = [x EXCEPT !.s.slaves = Append(@, c), !.s.cli[c] = v]
  BY DEF Enlist, v
<1> DEFINE q == Append(x.s.slaves, c)
<1>6. Shape(a) /\ a.net = x.net /\ a.s = [x.s EXCEPT !.slaves = q, !.cli[c] = v] /\ a.s.cli[c] = v
  <2>1. a = [x EXCEPT !.s.slaves = q, !.s.cli[c] = v]
    BY <1>0
  <2> HIDE DEF q
  <2>2. Shape(a) /\ a.net = x.net /\ a.s = [x.s EXCEPT !.slaves = q, !.cli[c] = v]
    BY <1>1, <2>1 DEF Shape
  <2> QED BY <1>1, <2>2 DEF GoodServer
<1> HIDE DEF a
<1>7. Enrolled(x.s, a.s, c, v)
  BY <1>1, <1>6 DEF Enrolled, Outside, GoodServer
<1>8. Serves(n, x, a) /\ GoodWorld(n, a) /\ ToSet(a.s.slaves) = ToSet(x.s.slaves) \cup {c}
  <2>1. SameEnds(x.net, a.net) /\ GoodNet(a.net) /\ MasterSide(n, x.net, a.net)
    BY <1>1, <1>6 DEF SameEnds, MasterSide, MasterSideAt
  <2> QED BY <1>3, <1>6, <1>7, <2>1, EnrolledFacts
<1>9. Saves(n, a, z)
  <2>1. Saves(n, a, a)
    BY <1>8, SavesSelf
  <2>2. Saves(n, a, JoinDiskSave(a, c))
    BY <1>4, <1>6, <1>8, JoinFacts
  <2>3. \A p : Saves(n, a, startBgsaveForReplication(a, p))
    BY <1>8, StartBgsaveFacts
  <2> QED BY <2>1, <2>2, <2>3 DEF FindSave
<1> HIDE DEF z
<1>10. Serves(n, x, z) /\ GoodWorld(n, z) /\ z.s.b = x.s.b /\ ToSet(z.s.slaves) \subseteq ToSet(x.s.slaves) \cup {c}
  BY <1>7, <1>8, <1>9, ServesTrans DEF Saves, Enrolled
<1>11. CASE Len(z.s.slaves) = 1 /\ z.s.b.buf = NULL
  <2> DEFINE b == createReplicationBacklog(z.s.b)
  <2>1. GoodBacklog(b) /\ b.buf # NULL
    BY <1>10, CreateFacts DEF GoodWorld, GoodServer
  <2>2. y = SetBacklog(z, b)
    BY <1>5, <1>11
  <2>5. Made(x.s.b, b)
    BY <1>1, <1>10, <1>11 DEF Made, GoodServer
  <2> HIDE DEF b
  <2>3. Serves(n, z, y) /\ GoodWorld(n, y) /\ y.s.b = b
    BY <1>10, <2>1, <2>2, SetBacklogFacts
  <2>4. Serves(n, x, y)
    BY <1>10, <2>3, ServesTrans
  <2> QED BY <2>1, <2>3, <2>4, <2>5 DEF WithBacklog
<1>12. CASE ~(Len(z.s.slaves) = 1 /\ z.s.b.buf = NULL)
  <2>1. y = z
    BY <1>5, <1>12
  <2>2. WithBacklog(z.s)
    <3>1. CASE x.s.slaves # <<>>
      BY <1>10, <3>1 DEF WithBacklog
    <3>2. CASE x.s.slaves = <<>> /\ z.s.slaves # <<>>
      <4>1. ToSet(x.s.slaves) = {}
        BY <3>2 DEF ToSet
      <4>2. z.s.slaves \in Seq(Conn) /\ Distinct(z.s.slaves)
        BY <1>10 DEF GoodWorld, GoodServer, GoodSlaves
      <4>3. Len(z.s.slaves) = 1
        BY <1>10, <3>2, <4>1, <4>2, OneSlave
      <4> QED BY <1>12, <4>3 DEF WithBacklog
    <3> QED BY <3>1, <3>2 DEF WithBacklog
  <2> QED BY <1>10, <2>1, <2>2
<1> QED BY <1>11, <1>12

\* SYNC and PSYNC: +CONTINUE only answers a request that named a run id.
LEMMA SyncFacts ==
  ASSUME NEW n \in Node, NEW w, NEW x, GoodWorld(n, w), Serves(n, w, x), GoodWorld(n, x), WithBacklog(x.s),
         NEW c \in Conn, x.s.cli[c] # NULL, Elsewhere(w.net, x.net, c), NEW msg \in Request,
         msg.t \in {"psync", "sync"}, msg.t = "psync" /\ msg.runid # NULL => ~Quiet(w.net[c]),
         NEW y, y = syncCommand(x, c, msg)
  PROVE  Serves(n, w, y) /\ WithBacklog(y.s) /\ (y.s.b = x.s.b \/ Made(x.s.b, y.s.b))
<1>1. CASE y = x
  BY <1>1
<1>2. CASE y = [x EXCEPT !.net = SendToR(@, c, <<Reply("err")>>)]
  <2>1. Reply("err") \in Item /\ Reply("err") # Reply("continue")
    BY DEF Reply, Item, Payload
  <2>2. <<Reply("err")>> \in Seq(Item) /\ Reply("continue") \notin ToSet(<<Reply("err")>>)
    BY <2>1, OneItem
  <2> DEFINE q == <<Reply("err")>>
  <2>3. y = Tell(x, c, q) /\ q \in Seq(Item) /\ Reply("continue") \notin ToSet(q)
    BY <1>2, <2>2 DEF Tell
  <2> HIDE DEF q
  <2>4. Saves(n, x, y) /\ y.s = x.s
    BY <2>3, TellFacts
  <2>5. Serves(n, w, y)
    BY <2>4, ServesTrans DEF Saves
  <2> QED BY <2>4, <2>5
<1>3. CASE ~x.s.cli[c].slave /\ msg.t = "psync" /\ CanContinue(x.s, msg.runid, msg.offset) /\ y = AcceptPartial(x, c, msg.offset)
  <2>1. msg.offset \in Int /\ Held(x.s.b, msg.offset)
    BY <1>3 DEF CanContinue, Request
  <2>2. ~Quiet(w.net[c])
    <3>1. msg.runid = x.s.runid /\ x.s.runid \in RunId
      BY <1>3 DEF CanContinue, GoodWorld, GoodServer
    <3> QED BY <1>3, <3>1, ReplicationAssumption
  <2>3. /\ Shape(y) /\ GoodServer(y.s) /\ GoodNet(y.net) /\ GoodSlaves(n, y.s, y.net)
        /\ Outside(x.s, y.s) /\ SameEnds(x.net, y.net) /\ WithBacklog(y.s)
        /\ Elsewhere(x.net, y.net, c) /\ y.s.b = x.s.b
    BY <1>3, <2>1, AcceptFacts
  <2>4. MasterSide(n, w.net, y.net)
    <3> SUFFICES ASSUME NEW d \in Conn PROVE MasterSideAt(n, w.net[d], y.net[d])
      BY DEF MasterSide
    <3>1. CASE d = c
      BY <2>2, <2>3, <3>1 DEF MasterSideAt, SameEnds, Serves, MasterSide
    <3>2. CASE d # c
      BY <2>3, <3>2 DEF MasterSideAt, Elsewhere
    <3> QED BY <3>1, <3>2
  <2>5. Outside(w.s, y.s)
    BY <2>3 DEF Serves, Outside
  <2> QED BY <2>3, <2>4, <2>5 DEF Serves
<1>4. CASE ~x.s.cli[c].slave /\ y = FullResync(x, c, msg.t = "sync")
  <2> DEFINE pre == msg.t = "sync"
  <2>1. pre \in BOOLEAN /\ y = FullResync(x, c, pre)
    BY <1>4
  <2> HIDE DEF pre
  <2>2. Serves(n, x, y) /\ WithBacklog(y.s) /\ (y.s.b = x.s.b \/ Made(x.s.b, y.s.b))
    BY <1>4, <2>1, FullResyncFacts
  <2> QED BY <2>2, ServesTrans
<1> QED BY <1>1, <1>2, <1>3, <1>4 DEF syncCommand

\* Two fields of a client are assigned one after the other.
Twice(x, c, f, a, g, b) == [x EXCEPT !.s.cli[c][f] = a, !.s.cli[c][g] = b]

Two(k, f, p, g, r) == [[k EXCEPT ![f] = p] EXCEPT ![g] = r]

LEMMA PutTwice ==
  ASSUME NEW n \in Node, NEW x, GoodWorld(n, x), NEW c \in Conn, NEW f, NEW p, NEW g, NEW r
  PROVE  Twice(x, c, f, p, g, r) = Put(x, c, Two(x.s.cli[c], f, p, g, r))
<1> DEFINE u == [x.s.cli[c] EXCEPT ![f] = p]
           v == [u EXCEPT ![g] = r]
           y == Twice(x, c, f, p, g, r)
           a == [x EXCEPT !.s.cli[c] = u]
           F == [x.s.cli EXCEPT ![c] = v]
           G == [x.s EXCEPT !.cli = F]
<1>1. Shape(x) /\ GoodServer(x.s)
  BY DEF GoodWorld, Shape
<1>2. y = [[x EXCEPT !.s.cli[c][f] = p] EXCEPT !.s.cli[c][g] = r]
  BY DEF Twice
<1>3. y = [a EXCEPT !.s.cli[c][g] = r]
  BY <1>2
<1>4. a.s.cli[c] = u
  BY <1>1 DEF Shape, GoodServer
<1>5. y = [a EXCEPT !.s.cli[c] = v]
  <2> HIDE DEF a, u, y
  <2> QED BY <1>3, <1>4
<1> HIDE DEF u, v
<1>6. [a.s.cli EXCEPT ![c] = v] = F
  BY <1>1 DEF Shape, GoodServer
<1> HIDE DEF F
<1>7. [a.s EXCEPT !.cli = F] = G
  BY <1>1 DEF Shape, GoodServer
<1> HIDE DEF G
<1>8. [a EXCEPT !.s = G] = [x EXCEPT !.s = G]
  BY <1>1 DEF Shape
<1>9. y = [a EXCEPT !.s = G]
  <2> HIDE DEF a, y
  <2> QED BY <1>5, <1>6, <1>7
<1>10. y = Put(x, c, v)
  BY <1>8, <1>9 DEF Put, F, G
<1> QED BY <1>10 DEF u, v, Two

LEMMA OnlineFacts ==
  ASSUME NEW n \in Node, NEW x, GoodWorld(n, x), NEW c \in Conn, x.s.cli[c] # NULL,
         NEW y, y = putSlaveOnline(x, c)
  PROVE  Saves(n, x, y)
<1> DEFINE k == x.s.cli[c]
           u == [k EXCEPT !.replstate = "ONLINE"]
           v == [u EXCEPT !.put_online_on_ack = FALSE]
<1>1. k \in ReplicaClient
  BY DEF GoodWorld, GoodServer
<1>2. v \in ReplicaClient /\ v.slave = k.slave
  <2> HIDE DEF k
  <2>1. u \in ReplicaClient /\ u.slave = k.slave
    BY <1>1 DEF ReplicaClient
  <2> HIDE DEF u
  <2> QED BY <2>1 DEF ReplicaClient
<1>3. y = Put(x, c, v)
  <2>1. y = Twice(x, c, "replstate", "ONLINE", "put_online_on_ack", FALSE)
    BY DEF Twice, putSlaveOnline
  <2>2. v = Two(k, "replstate", "ONLINE", "put_online_on_ack", FALSE)
    BY DEF Two
  <2> HIDE DEF v
  <2>3. \A r : Twice(x, c, "replstate", "ONLINE", "put_online_on_ack", r)
                = Put(x, c, Two(k, "replstate", "ONLINE", "put_online_on_ack", r))
    BY PutTwice
  <2> QED BY <2>1, <2>2, <2>3
<1> HIDE DEF v
<1> QED BY <1>2, <1>3, PutFacts

\* REPLCONF ACK
LEMMA AckFacts ==
  ASSUME NEW n \in Node, NEW x, GoodWorld(n, x), NEW c \in Conn, x.s.cli[c] # NULL, NEW offset \in Int,
         NEW y, y = replconfAck(x, c, offset)
  PROVE  Saves(n, x, y)
<1> DEFINE k == x.s.cli[c]
           o == IF offset > k.ack_off THEN offset ELSE k.ack_off
           u == [k EXCEPT !.ack_off = o]
           z == Put(x, c, u)
<1>1. k \in ReplicaClient
  BY DEF GoodWorld, GoodServer
<1>2. u \in ReplicaClient /\ u.slave = k.slave
  <2>1. o \in Int
    BY <1>1 DEF ReplicaClient
  <2> HIDE DEF k, o
  <2> QED BY <1>1, <2>1 DEF ReplicaClient
<1>3. z = [x EXCEPT !.s.cli[c].ack_off = IF offset > @ THEN offset ELSE @] /\ z = Put(x, c, u)
  BY DEF Put
<1>4. y \in {x, z, putSlaveOnline(z, c)}
  <2> HIDE DEF z
  <2> QED BY <1>3 DEF replconfAck
<1> HIDE DEF u, z
<1>5. GoodWorld(n, z) /\ Saves(n, x, z) /\ z.s.cli[c] # NULL
  <2>1. z = Put(x, c, u) /\ u.slave = x.s.cli[c].slave /\ u \in ReplicaClient
    BY <1>2, <1>3
  <2>2. z.s.cli[c] = u /\ u # NULL
    BY <2>1, PutFacts
  <2>3. Saves(n, x, z)
    BY <2>1, PutFacts
  <2> QED BY <2>2, <2>3 DEF Saves
<1>6. Saves(n, z, putSlaveOnline(z, c))
  BY <1>5, OnlineFacts
<1>7. Saves(n, x, putSlaveOnline(z, c))
  <2> DEFINE g == putSlaveOnline(z, c)
  <2> HIDE DEF g
  <2> QED BY <1>5, <1>6, SavesTrans DEF g
<1> QED BY <1>4, <1>5, <1>7, SavesSelf

\* A plain answer, with what the request changed in the client
LEMMA AnswerFacts ==
  ASSUME NEW n \in Node, NEW x, GoodWorld(n, x), NEW c \in Conn, x.s.cli[c] # NULL, NEW v \in ReplicaClient,
         v.slave = x.s.cli[c].slave, NEW kind \in {"pong", "ok"}, NEW y, y = Say(x, c, v, <<Reply(kind)>>)
  PROVE  Saves(n, x, y)
<1> DEFINE q == <<Reply(kind)>>
<1>1. Reply(kind) \in Item /\ Reply(kind) # Reply("continue")
  BY DEF Reply, Item, Answer
<1>2. q \in Seq(Item) /\ Reply("continue") \notin ToSet(q)
  BY <1>1, OneItem
<1> HIDE DEF q
<1> QED BY <1>2, SayFacts DEF q

LEMMA NewClientType ==
  /\ NewClient \in ReplicaClient /\ NewClient.slave = FALSE /\ NewClient # NULL
<1>1. <<>> \in Seq(Payload) /\ {} \in SUBSET {"eof"}
  OBVIOUS
<1>2. NewClient \in ReplicaClient /\ NewClient.slave = FALSE
  BY <1>1 DEF NewClient, ReplicaClient
<1> QED BY <1>2, ReplicationAssumption

\* A request is taken from a connection, which is accepted first if it is new.
Heard(n, c, bad, fork) == [Accepted(n, c) EXCEPT !.net[c].toM = Tail(@), !.bad = bad, !.fork = fork]

LEMMA HeardFacts ==
  ASSUME NEW n \in Node, NEW w, w = World(n, {}), GoodWorld(n, w), NEW c \in Conn, Open(n, c), conn[c].toM # <<>>,
         NEW bad, NEW fork, NEW x, x = Heard(n, c, bad, fork)
  PROVE  /\ Serves(n, w, x) /\ GoodWorld(n, x) /\ x.s.cli[c] # NULL /\ x.s.b = w.s.b
         /\ x.s.slaves = w.s.slaves /\ Elsewhere(w.net, x.net, c)
<1> DEFINE k == conn[c]
           q == Tail(k.toM)
           l == [k EXCEPT !.toM = q]
<1>1. w.s = server[n] /\ w.net = conn /\ GoodServer(w.s) /\ GoodNet(w.net) /\ GoodSlaves(n, w.s, w.net)
  BY DEF World, GoodWorld
<1>2. /\ Shape(x) /\ x.net = [conn EXCEPT ![c] = l]
      /\ x.s = IF server[n].cli[c] = NULL THEN [server[n] EXCEPT !.cli[c] = NewClient] ELSE server[n]
  BY <1>1 DEF Heard, Accepted, World, Shape
<1>3. k \in ConnRec /\ GoodConn(k) /\ k.m = n /\ k.mopen
  BY <1>1 DEF GoodNet, GoodConn, Open
<1>4. q \in Seq(Request) /\ \A i \in DOMAIN q : q[i] = k.toM[i + 1] /\ i + 1 \in DOMAIN k.toM
  <2>1. k.toM \in Seq(Request) /\ k.toM # <<>>
    BY <1>3 DEF ConnRec
  <2> HIDE DEF k
  <2> QED BY <2>1
<1>5. l \in ConnRec
  <2> HIDE DEF k, q
  <2> QED BY <1>3, <1>4, ConnUpdated
<1>6. l.r = k.r /\ l.m = k.m /\ l.ropen = k.ropen /\ l.mopen = k.mopen /\ l.toM = q /\ l.toR = k.toR
  <2> HIDE DEF k, q
  <2> QED BY <1>3 DEF ConnRec
<1> HIDE DEF l, k, q
<1>7. GoodConn(l)
  BY <1>3, <1>5, <1>6 DEF GoodConn
<1>8. Quiet(k) => Quiet(l)
  BY <1>4, <1>6 DEF Quiet
<1>9. DOMAIN x.net = Conn /\ x.net[c] = l /\ \A d \in Conn \ {c} : x.net[d] = w.net[d]
  BY <1>1, <1>2 DEF GoodNet
<1>10. GoodNet(x.net) /\ SameEnds(w.net, x.net) /\ Elsewhere(w.net, x.net, c)
  BY <1>1, <1>6, <1>7, <1>9 DEF GoodNet, SameEnds, Elsewhere, k
<1>11. MasterSide(n, w.net, x.net)
  BY <1>1, <1>6, <1>8, <1>9 DEF MasterSide, MasterSideAt, k
<1>12. CASE server[n].cli[c] # NULL
  <2>1. x.s = w.s
    BY <1>1, <1>2, <1>12
  <2>2. GoodSlaves(n, x.s, x.net)
    BY <1>1, <1>10, <2>1, SlavesKept DEF SameClients
  <2>3. Serves(n, w, x)
    BY <1>1, <1>2, <1>10, <1>11, <2>1, <2>2 DEF Serves, Outside
  <2> QED BY <1>1, <1>10, <1>12, <2>1, <2>3, ServesGood
<1>13. CASE server[n].cli[c] = NULL
  <2>1. x.s = [w.s EXCEPT !.cli[c] = NewClient]
    BY <1>1, <1>2, <1>13
  <2>2. Touched(w.s, x.s, c, NewClient) /\ x.s.cli[c] = NewClient
    BY <1>1, <2>1 DEF Touched, Outside, GoodServer
  <2>3. x.s.cli \in [Conn -> ReplicaClient \cup {NULL}] /\ \A d \in Conn \ {c} : x.s.cli[d] = w.s.cli[d]
    BY <1>1, <2>2, NewClientType DEF Touched, GoodServer
  <2>4. GoodServer(x.s) /\ Outside(w.s, x.s)
    <3>1. /\ GoodBacklog(x.s.b) /\ x.s.slaveseldb \in Int /\ x.s.slaves \in Seq(Conn)
          /\ x.s.child \in Save \cup {NULL} /\ Outside(w.s, x.s)
      BY <1>1, <2>2 DEF GoodServer, Touched
    <3> QED BY <1>1, <2>3, <3>1, OutsideGood
  <2>5. Flagged(x.s) = Flagged(w.s)
    BY <1>1, <1>13, <2>2, <2>3, NewClientType DEF Flagged
  <2>6. GoodSlaves(n, x.s, x.net)
    <3>1. x.s.slaves = w.s.slaves
      BY <2>2 DEF Touched
    <3>2. \A d \in Conn : x.s.cli[d] # NULL => x.net[d].m = n /\ x.net[d].mopen
      <4>1. \A d \in Conn \ {c} : x.s.cli[d] # NULL => x.net[d].m = n /\ x.net[d].mopen
        BY <1>1, <1>9, <2>3 DEF GoodSlaves
      <4>2. l.m = n /\ l.mopen
        BY <1>3, <1>6
      <4> QED BY <1>9, <4>1, <4>2
    <3> QED BY <1>1, <2>5, <3>1, <3>2 DEF GoodSlaves
  <2>7. Serves(n, w, x)
    BY <1>2, <1>10, <1>11, <2>4, <2>6 DEF Serves
  <2>8. x.s.b = w.s.b /\ x.s.slaves = w.s.slaves /\ x.s.cli[c] # NULL
    BY <2>2, NewClientType DEF Touched
  <2> QED BY <1>10, <2>7, <2>8, ServesGood
<1> QED BY <1>12, <1>13

-----------------------------------------------------------------------------
(* One step of one server.                                                 *)

\* What a step of n may do to the world it started from: an answer to a
\* replica's SYNC or PSYNC may also make the backlog, every other step keeps it
Sane(n, w, y) == GoodWorld(n, y) /\ WithBacklog(y.s) /\ Apart(n, w.net, y.net)
Step(n, w, y) == Sane(n, w, y) /\ Later(w.s.b, y.s.b)

LEMMA SaneServes ==
  ASSUME NEW n \in Node, NEW w, NEW y, GoodWorld(n, w), Serves(n, w, y), WithBacklog(y.s)
  PROVE  Sane(n, w, y)
BY ServesGood DEF Sane

LEMMA StepServes ==
  ASSUME NEW n \in Node, NEW w, NEW y, GoodWorld(n, w), Serves(n, w, y), WithBacklog(y.s),
         Later(w.s.b, y.s.b)
  PROVE  Step(n, w, y)
BY SaneServes DEF Step

LEMMA BacklogSelf ==
  ASSUME NEW n \in Node, NEW w, NEW y, GoodWorld(n, w), y.s.b = w.s.b
  PROVE  Later(w.s.b, y.s.b)
BY LaterSelf DEF GoodWorld, GoodServer

LEMMA StepSaves ==
  ASSUME NEW n \in Node, NEW w, NEW y, GoodWorld(n, w), WithBacklog(w.s), Saves(n, w, y)
  PROVE  Step(n, w, y)
<1>1. w.s.slaves \in Seq(Conn) /\ y.s.slaves \in Seq(Conn)
  BY DEF GoodWorld, GoodServer, Saves
<1>2. w.s.slaves = <<>> => y.s.slaves = <<>>
  <2> HAVE w.s.slaves = <<>>
  <2>1. ToSet(w.s.slaves) = {}
    BY DEF ToSet
  <2>2. ToSet(y.s.slaves) = {}
    BY <2>1 DEF Saves
  <2> QED BY <1>1, <2>2, EmptyToSet
<1>3. WithBacklog(y.s)
  BY <1>2 DEF WithBacklog, Saves
<1>4. Later(w.s.b, y.s.b)
  BY BacklogSelf DEF Saves
<1> QED BY <1>3, <1>4, StepServes DEF Saves

Counting == DOMAIN count = Counters /\ \A k \in Counters : count[k] \in Nat

\* Every server and link stays in order, and every backlog keeps what it has
Kept ==
  /\ LinkInv'
  /\ \A n \in Node : Later(server[n].b, server'[n].b) \/ Made(server[n].b, server'[n].b)

LEMMA SaneKeeps ==
  ASSUME LinkInv, NEW n \in Node, NEW y, Sane(n, World(n, {}), y), Becomes(n, y), Counting',
         Later(server[n].b, y.s.b) \/ Made(server[n].b, y.s.b)
  PROVE  Kept
<1> DEFINE w == World(n, {})
<1>1. DOMAIN server = Node /\ \A o \in Node : GoodWorld(o, World(o, {})) /\ WithBacklog(server[o])
  BY DEF LinkInv
<1>2. server' = [server EXCEPT ![n] = y.s] /\ conn' = y.net
  BY DEF Becomes
<1>3. DOMAIN server' = Node /\ server'[n] = y.s /\ \A o \in Node \ {n} : server'[o] = server[o]
  BY <1>1, <1>2
<1>4. GoodWorld(n, y) /\ WithBacklog(y.s) /\ Apart(n, conn, y.net)
  BY DEF Sane, World
<1>5. GoodWorld(n, World(n, {})') /\ WithBacklog(server'[n])
  BY <1>2, <1>3, <1>4 DEF World, GoodWorld
<1>6. ASSUME NEW o \in Node \ {n}
      PROVE  GoodWorld(o, World(o, {})') /\ WithBacklog(server'[o])
  <2> DEFINE s == server[o]
             net == y.net
  <2>1. s = server'[o] /\ WithBacklog(s) /\ GoodServer(s) /\ GoodSlaves(o, s, conn) /\ GoodLink(o, s, conn)
    BY <1>1, <1>3 DEF World, GoodWorld
  <2>2. GoodNet(net)
    BY <1>4 DEF GoodWorld
  <2>3. \A c \in Conn :
          /\ net[c].r = o /\ net[c].ropen <=> conn[c].r = o /\ conn[c].ropen
          /\ conn[c].m = o /\ conn[c].mopen => net[c].m = o /\ net[c].mopen
          /\ conn[c].r = o /\ conn[c].ropen /\ Quiet(conn[c]) => Quiet(net[c])
    BY <1>4 DEF Apart, ApartAt
  <2> HIDE DEF s, net
  <2>4. GoodSlaves(o, s, net)
    BY <2>1, <2>3 DEF GoodSlaves
  <2>5. GoodLink(o, s, net)
    <3>1. \A c \in Conn : net[c].r = o /\ net[c].ropen <=> HasLink(s) /\ c = LinkOf(s)
      BY <2>1, <2>3 DEF GoodLink
    <3>2. Early(s) => Quiet(net[LinkOf(s)])
      <4> HAVE Early(s)
      <4>1. HasLink(s)
        BY DEF Early, HasLink
      <4>2. LinkOf(s) \in Conn /\ Quiet(conn[LinkOf(s)])
        BY <2>1, <4>1 DEF GoodLink
      <4>3. conn[LinkOf(s)].r = o /\ conn[LinkOf(s)].ropen
        BY <2>1, <4>1, <4>2 DEF GoodLink
      <4> QED BY <2>3, <4>2, <4>3
    <3> QED BY <2>1, <3>1, <3>2 DEF GoodLink
  <2> QED BY <1>2, <2>1, <2>2, <2>4, <2>5 DEF World, GoodWorld, net
<1>7. \A o \in Node : GoodWorld(o, World(o, {})') /\ WithBacklog(server'[o])
  BY <1>5, <1>6
<1>8. \A o \in Node : Later(server[o].b, server'[o].b) \/ Made(server[o].b, server'[o].b)
  <2> SUFFICES ASSUME NEW o \in Node PROVE Later(server[o].b, server'[o].b) \/ Made(server[o].b, server'[o].b)
    OBVIOUS
  <2>1. CASE o = n
    BY <1>3, <2>1
  <2>2. CASE o # n
    <3>1. server'[o] = server[o] /\ GoodBacklog(server[o].b)
      BY <1>1, <1>3, <2>2 DEF World, GoodWorld, GoodServer
    <3> QED BY <3>1, LaterSelf
  <2> QED BY <2>1, <2>2
<1>9. LinkInv'
  BY <1>3, <1>7 DEF LinkInv, Counting
<1> QED BY <1>8, <1>9 DEF Kept

LEMMA StepKeeps ==
  ASSUME LinkInv, NEW n \in Node, NEW y, Step(n, World(n, {}), y), Becomes(n, y), Counting'
  PROVE  Kept
<1>1. World(n, {}).s = server[n]
  BY DEF World
<1> QED BY <1>1, SaneKeeps DEF Step

LEMMA Counts ==
  ASSUME LinkInv,
         \/ UNCHANGED count \/ (\E ok \in BOOLEAN : Succeeds(ok))
         \/ (\E k \in {"writes", "pings", "commands", "faults"} : Spend(k))
  PROVE  Counting'
<1>1. Counting /\ {"writes", "pings", "commands", "faults"} \subseteq Counters
  BY ReplicationAssumption DEF LinkInv, Counting, Counters
<1>2. CASE UNCHANGED count
  BY <1>1, <1>2 DEF Counting, Counters
<1>3. ASSUME NEW k \in {"writes", "pings", "commands", "faults"}, Spend(k)
      PROVE  Counting'
  BY <1>1, <1>3 DEF Counting, Spend, Counters
<1> QED BY <1>2, <1>3 DEF Succeeds

LEMMA Home ==
  ASSUME LinkInv, NEW n \in Node
  PROVE  /\ GoodWorld(n, World(n, {})) /\ WithBacklog(server[n])
         /\ World(n, {}).s = server[n] /\ World(n, {}).net = conn
BY DEF LinkInv, World

LEMMA MasterReadsKeeps ==
  ASSUME LinkInv, NEW n \in Node, NEW c \in Conn, MasterReads(n, c)
  PROVE  Kept
<1> DEFINE w == World(n, {})
           msg == Head(conn[c].toM)
<1>1. Open(n, c) /\ conn[c].toM # <<>>
  BY DEF MasterReads
<1>2. GoodWorld(n, w) /\ WithBacklog(w.s) /\ w.net = conn /\ w.s = server[n]
  BY Home
<1>3. msg \in Request /\ msg = conn[c].toM[1] /\ 1 \in DOMAIN conn[c].toM
  <2> DEFINE q == conn[c].toM
  <2>1. q \in Seq(Request) /\ q # <<>>
    BY <1>1, <1>2 DEF GoodWorld, GoodNet, GoodConn, ConnRec
  <2> HIDE DEF q
  <2> QED BY <2>1 DEF q
<1>4. PICK bad \in {{}, Lost(n)}, fork \in BOOLEAN :
        LET x == Heard(n, c, bad, fork)
            say(y, kind) == [y EXCEPT !.net = SendToR(@, c, <<Reply(kind)>>)]
            y == CASE msg.t = "ping" -> say(x, "pong")
                   [] msg.t \in {"auth", "port", "ip"} -> say(x, "ok")
                   [] msg.t = "capa" -> say([x EXCEPT !.s.cli[c].capa = {"eof"}], "ok")
                   [] msg.t = "ack"  -> replconfAck(x, c, msg.offset)
                   [] msg.t \in {"psync", "sync"} -> syncCommand(x, c, msg)
        IN  Becomes(n, y) /\ Succeeds(fork)
  BY ZenonT(60) DEF MasterReads, Heard
<1> DEFINE x == Heard(n, c, bad, fork)
<1>5. x = Heard(n, c, bad, fork)
  OBVIOUS
<1>6. Counting'
  BY <1>4, Counts
<1> HIDE DEF x, w
<1>7. /\ Serves(n, w, x) /\ GoodWorld(n, x) /\ x.s.cli[c] # NULL /\ x.s.b = w.s.b
      /\ x.s.slaves = w.s.slaves /\ Elsewhere(w.net, x.net, c)
  BY <1>1, <1>2, <1>5, HeardFacts DEF w
<1>8. WithBacklog(x.s)
  BY <1>2, <1>7 DEF WithBacklog
<1>9. ASSUME NEW y, Saves(n, x, y)
      PROVE  Step(n, w, y)
  <2>1. Step(n, x, y)
    BY <1>7, <1>8, <1>9, StepSaves
  <2>2. Serves(n, w, y)
    BY <1>7, <1>9, ServesTrans DEF Saves
  <2> QED BY <1>2, <1>7, <2>1, <2>2, StepServes DEF Step, Sane
<1>10. ASSUME NEW y, Step(n, w, y), Becomes(n, y)
       PROVE  Kept
  BY <1>6, <1>10, StepKeeps DEF w
<1> DEFINE k == x.s.cli[c]
           v == [k EXCEPT !.capa = {"eof"}]
<1>11. k \in ReplicaClient
  BY <1>7 DEF GoodWorld, GoodServer
<1>12. v \in ReplicaClient /\ v.slave = k.slave
  <2> HIDE DEF k
  <2> QED BY <1>11 DEF ReplicaClient
<1>13. ASSUME NEW kind \in {"pong", "ok"}, Becomes(n, Tell(x, c, <<Reply(kind)>>))
       PROVE  Kept
  <2> DEFINE q == <<Reply(kind)>>
             y == Tell(x, c, q)
  <2>1. Reply(kind) \in Item /\ Reply(kind) # Reply("continue")
    BY DEF Reply, Item, Answer
  <2>2. q \in Seq(Item) /\ Reply("continue") \notin ToSet(q)
    BY <2>1, OneItem
  <2>3. y = Tell(x, c, q) /\ Becomes(n, y)
    BY <1>13
  <2> HIDE DEF q, y
  <2>4. Saves(n, x, y)
    BY <1>7, <2>2, <2>3, TellFacts
  <2> QED BY <1>9, <1>10, <2>3, <2>4
<1>14. CASE msg.t = "ping"
  BY <1>4, <1>13, <1>14 DEF x, Tell
<1>15. CASE msg.t \in {"auth", "port", "ip"}
  BY <1>4, <1>13, <1>15 DEF x, Tell
<1>16. CASE msg.t = "capa"
  <2> DEFINE y == Say(x, c, v, <<Reply("ok")>>)
  <2>1. Becomes(n, y)
    <3>1. Becomes(n, [[x EXCEPT !.s.cli[c].capa = {"eof"}] EXCEPT !.net = SendToR(@, c, <<Reply("ok")>>)])
      BY <1>4, <1>16 DEF x
    <3>2. Put(x, c, v) = [x EXCEPT !.s.cli[c].capa = {"eof"}]
      BY DEF Put
    <3>3. Put(x, c, v).net = x.net
      BY <1>7 DEF Put, GoodWorld
    <3> QED BY <3>1, <3>2, <3>3 DEF Say
  <2>2. y = Say(x, c, v, <<Reply("ok")>>)
    OBVIOUS
  <2> HIDE DEF y, v
  <2>3. Saves(n, x, y)
    BY <1>7, <1>12, <2>2, AnswerFacts
  <2> QED BY <1>9, <1>10, <2>1, <2>3
<1>17. CASE msg.t = "ack"
  <2> DEFINE y == replconfAck(x, c, msg.offset)
  <2>1. Becomes(n, y) /\ msg.offset \in Int
    BY <1>3, <1>4, <1>17 DEF x, Request
  <2>2. Saves(n, x, y)
    BY <1>7, <2>1, AckFacts
  <2> HIDE DEF y
  <2> QED BY <1>9, <1>10, <2>1, <2>2
<1>18. CASE msg.t \in {"psync", "sync"}
  <2> DEFINE y == syncCommand(x, c, msg)
  <2>1. Becomes(n, y)
    BY <1>4, <1>18 DEF x
  <2>2. msg.t = "psync" /\ msg.runid # NULL => ~Quiet(w.net[c])
    BY <1>2, <1>3 DEF Quiet
  <2> HIDE DEF msg
  <2>3. Serves(n, w, y) /\ WithBacklog(y.s) /\ (y.s.b = x.s.b \/ Made(x.s.b, y.s.b))
    BY <1>2, <1>3, <1>7, <1>8, <1>18, <2>2, SyncFacts
  <2> HIDE DEF y
  <2>4. Sane(n, w, y)
    BY <1>2, <2>3, SaneServes
  <2>5. Later(server[n].b, y.s.b) \/ Made(server[n].b, y.s.b)
    BY <1>2, <1>7, <2>3, BacklogSelf
  <2> QED BY <1>6, <2>1, <2>4, <2>5, SaneKeeps DEF w
<1>19. msg.t \in {"ping", "auth", "port", "ip", "capa", "ack", "psync", "sync"}
  BY <1>3 DEF Request
<1> HIDE DEF msg
<1> QED BY <1>14, <1>15, <1>16, <1>17, <1>18, <1>19

LEMMA FreeSaves ==
  ASSUME NEW n \in Node, NEW x, GoodWorld(n, x), NEW c \in Conn, x.net[c].m = n, x.net[c].mopen,
         NEW y, y = freeSlave(x, c)
  PROVE  Saves(n, x, y)
<1>1. Serves(n, x, y) /\ y.s.b = x.s.b /\ ToSet(y.s.slaves) = ToSet(x.s.slaves) \ {c}
  BY FreeFacts
<1> QED BY <1>1, ServesGood DEF Saves

LEMMA ManyWorlds ==
  ASSUME LinkInv, NEW n \in Node, NEW x \in Worlds(n)
  PROVE  /\ GoodWorld(n, x) /\ WithBacklog(x.s) /\ x.s = server[n] /\ x.net = conn
         /\ \A y : Saves(n, x, y) => Step(n, World(n, {}), y)
<1>1. GoodWorld(n, x) /\ WithBacklog(x.s) /\ x.s = server[n] /\ x.net = conn
  BY DEF LinkInv, World, Worlds, GoodWorld
<1>2. \A y : Saves(n, x, y) => Step(n, x, y)
  BY <1>1, StepSaves
<1>3. World(n, {}).net = conn /\ World(n, {}).s = server[n]
  BY DEF World
<1> QED BY <1>1, <1>2, <1>3 DEF Step, Sane

LEMMA HomeSaves ==
  ASSUME LinkInv, NEW n \in Node, NEW y, Saves(n, World(n, {}), y)
  PROVE  Step(n, World(n, {}), y)
BY StepSaves, Home

LEMMA LostKeeps ==
  ASSUME LinkInv, NEW n \in Node, NEW c \in Conn, SlaveLost(n, c) \/ FreeAsync(n, c)
  PROVE  Kept
<1> DEFINE w == World(n, {})
           y == freeSlave(w, c)
<1>1. Open(n, c) /\ Becomes(n, y) /\ UNCHANGED count
  BY DEF SlaveLost, FreeAsync, Client
<1>2. Saves(n, w, y)
  BY <1>1, Home, FreeSaves DEF Open
<1> HIDE DEF y
<1>3. Step(n, w, y)
  BY <1>2, HomeSaves
<1> QED BY <1>1, <1>3, StepKeeps, Counts

LEMMA SendReplyKeeps ==
  ASSUME LinkInv, NEW n \in Node, NEW c \in Conn, SendReply(n, c)
  PROVE  Kept
<1>1. PICK x \in Worlds(n) : Becomes(n, writeToSlave(x, c))
  BY DEF SendReply
<1>2. Client(n, c) /\ UNCHANGED count
  BY DEF SendReply
<1>3. /\ GoodWorld(n, x) /\ x.s = server[n] /\ x.net = conn
      /\ \A y : Saves(n, x, y) => Step(n, World(n, {}), y)
  BY ManyWorlds
<1> DEFINE y == writeToSlave(x, c)
           k == x.s.cli[c]
           v == [k EXCEPT !.out = <<>>]
           q == k.out
<1>4. k \in ReplicaClient
  BY <1>2, <1>3 DEF Client, GoodWorld, GoodServer
<1>5. Saves(n, x, y)
  <2>1. CASE c \in x.bad
    <3>1. y = freeSlave(x, c)
      BY <2>1 DEF writeToSlave
    <3> HIDE DEF y
    <3> QED BY <1>2, <1>3, <3>1, FreeSaves DEF Client, Open
  <2>2. CASE c \notin x.bad
    <3>1. y = Say(x, c, v, q)
      <4>1. y = [x EXCEPT !.s.cli[c].out = <<>>, !.net = SendToR(@, c, q)]
        BY <2>2 DEF writeToSlave
      <4>2. y = [[x EXCEPT !.s.cli[c] = v] EXCEPT !.net = SendToR(x.net, c, q)]
        <5> HIDE DEF y, q
        <5> QED BY <1>3, <4>1 DEF GoodWorld
      <4> HIDE DEF y, v, q
      <4> QED BY <4>2 DEF Say, Put
    <3>2. v \in ReplicaClient /\ v.slave = k.slave
      <4>1. <<>> \in Seq(Payload)
        OBVIOUS
      <4> HIDE DEF k
      <4> QED BY <1>4, <4>1 DEF ReplicaClient
    <3>3. q \in Seq(Payload)
      <4> HIDE DEF k
      <4> QED BY <1>4 DEF ReplicaClient
    <3>4. x.s.cli[c] # NULL
      BY <1>2, <1>3 DEF Client
    <3> HIDE DEF y, v, q
    <3>5. q \in Seq(Item) /\ Reply("continue") \notin ToSet(q)
      BY <3>3, PayloadQuiet
    <3> QED BY <1>3, <3>1, <3>2, <3>4, <3>5, SayFacts
  <2> QED BY <2>1, <2>2
<1>6. Step(n, World(n, {}), y)
  BY <1>3, <1>5
<1> HIDE DEF y
<1> QED BY <1>1, <1>2, <1>6, StepKeeps, Counts DEF y

LEMMA SendBulkKeeps ==
  ASSUME LinkInv, NEW n \in Node, NEW c \in Conn, SendBulk(n, c)
  PROVE  Kept
<1>1. PICK x \in Worlds(n) : Becomes(n, sendBulkToSlave(x, c))
  BY DEF SendBulk
<1>2. Client(n, c) /\ UNCHANGED count
  BY DEF SendBulk
<1>3. /\ GoodWorld(n, x) /\ x.s = server[n] /\ x.net = conn
      /\ \A y : Saves(n, x, y) => Step(n, World(n, {}), y)
  BY ManyWorlds
<1> DEFINE y == sendBulkToSlave(x, c)
           k == x.s.cli[c]
           bulk == k.bulk
           i == IF bulk[1].t = "bulklen" THEN 2 ELSE 1
           rest == SubSeq(bulk, i + 1, Len(bulk))
           q == SubSeq(bulk, 1, i)
           v == [k EXCEPT !.bulk = rest]
           z == Say(x, c, v, q)
<1>4. k \in ReplicaClient /\ k # NULL
  BY <1>2, <1>3 DEF Client, GoodWorld, GoodServer
<1>5. bulk \in Seq(Payload)
  <2> HIDE DEF k
  <2> QED BY <1>4 DEF ReplicaClient
<1>6. CASE c \in x.bad \/ Len(bulk) < i
  <2>1. y = freeSlave(x, c)
    BY <1>6 DEF sendBulkToSlave
  <2> HIDE DEF y
  <2>2. Saves(n, x, y)
    BY <1>2, <1>3, <2>1, FreeSaves DEF Client, Open
  <2>3. Step(n, World(n, {}), y)
    BY <1>3, <2>2
  <2> QED BY <1>1, <1>2, <2>3, StepKeeps, Counts DEF y
<1>7. CASE ~(c \in x.bad \/ Len(bulk) < i)
  <2>1. z = [x EXCEPT !.s.cli[c].bulk = rest, !.net = SendToR(@, c, q)]
    <3>1. [x EXCEPT !.s.cli[c].bulk = rest, !.net = SendToR(@, c, q)]
            = [[x EXCEPT !.s.cli[c] = v] EXCEPT !.net = SendToR(x.net, c, q)]
      <4> HIDE DEF rest, q
      <4> QED BY <1>3 DEF GoodWorld
    <3> HIDE DEF v, q, rest
    <3> QED BY <3>1 DEF Say, Put
  <2>2. y \in {z, putSlaveOnline(z, c)}
    <3>1. [x EXCEPT !.s.cli[c].bulk = SubSeq(@, i + 1, Len(@)), !.net = SendToR(@, c, SubSeq(bulk, 1, i))] = z
      BY <2>1
    <3> HIDE DEF z
    <3> QED BY <1>7, <3>1 DEF sendBulkToSlave
  <2>3. i \in {1, 2} /\ i <= Len(bulk) /\ Len(bulk) \in Nat
    <3>1. i \in {1, 2} /\ Len(bulk) \in Nat
      BY <1>5
    <3> QED BY <1>7, <3>1
  <2>4. rest \in Seq(Payload) /\ q \in Seq(Payload)
    <3> HIDE DEF bulk, i
    <3> QED BY <1>5, <2>3
  <2>5. v \in ReplicaClient /\ v.slave = x.s.cli[c].slave
    <3> HIDE DEF k, rest
    <3> QED BY <1>4, <2>4 DEF ReplicaClient, k
  <2>6. z = Say(x, c, v, q)
    OBVIOUS
  <2> HIDE DEF z, v, q, y
  <2>7. q \in Seq(Item) /\ Reply("continue") \notin ToSet(q)
    BY <2>4, PayloadQuiet
  <2>8. z.s.cli[c] = v /\ Saves(n, x, z)
    BY <1>3, <1>4, <2>5, <2>6, <2>7, SayFacts
  <2>9. v # NULL
    BY <2>5, ReplicationAssumption
  <2>10. Saves(n, z, putSlaveOnline(z, c))
    BY <2>8, <2>9, OnlineFacts DEF Saves
  <2>11. Saves(n, x, putSlaveOnline(z, c))
    <3> DEFINE g == putSlaveOnline(z, c)
    <3> HIDE DEF g
    <3> QED BY <2>8, <2>10, SavesTrans DEF g
  <2>12. Step(n, World(n, {}), y)
    BY <1>3, <2>2, <2>8, <2>11
  <2> QED BY <1>1, <1>2, <2>12, StepKeeps, Counts DEF y
<1> QED BY <1>6, <1>7

\* Something other than +CONTINUE is written to some of the replicas.
WrittenAt(net, c, l) ==
  l = net[c] \/ \E m \in Payload : l = SendToR(net, c, <<m>>)[c]

LEMMA SendMany ==
  ASSUME NEW n \in Node, NEW net, GoodNet(net), NEW after, DOMAIN after = Conn,
         \A c \in Conn : WrittenAt(net, c, after[c])
  PROVE  GoodNet(after) /\ MasterSide(n, net, after) /\ SameEnds(net, after)
<1>1. ASSUME NEW c \in Conn
      PROVE  /\ GoodConn(after[c]) /\ MasterSideAt(n, net[c], after[c])
             /\ after[c].r = net[c].r /\ after[c].ropen = net[c].ropen
             /\ after[c].m = net[c].m /\ after[c].mopen = net[c].mopen
  <2>1. CASE after[c] = net[c]
    BY <2>1 DEF GoodNet, MasterSideAt
  <2>2. ASSUME NEW m \in Payload, after[c] = SendToR(net, c, <<m>>)[c]
        PROVE  /\ GoodConn(after[c]) /\ MasterSideAt(n, net[c], after[c])
               /\ after[c].r = net[c].r /\ after[c].ropen = net[c].ropen
               /\ after[c].m = net[c].m /\ after[c].mopen = net[c].mopen
    <3> DEFINE q == <<m>>
               f == SendToR(net, c, q)
    <3>1. m \in Item /\ m # Reply("continue")
      BY ItemFacts
    <3>2. q \in Seq(Item) /\ Reply("continue") \notin ToSet(q)
      BY <3>1, OneItem
    <3>3. f = SendToR(net, c, q) /\ after[c] = f[c]
      BY <2>2
    <3> HIDE DEF q, f
    <3>4. GoodNet(f) /\ MasterSide(n, net, f) /\ SameEnds(net, f)
      BY <3>2, <3>3, SendFacts
    <3> QED BY <3>3, <3>4 DEF GoodNet, MasterSide, SameEnds
  <2> QED BY <2>1, <2>2 DEF WrittenAt
<1> QED BY <1>1 DEF GoodNet, MasterSide, SameEnds

\* The wire changes so, and nothing else.
WithNet(x, net) == [x EXCEPT !.net = net]

LEMMA WithNetFacts ==
  ASSUME NEW n \in Node, NEW x, GoodWorld(n, x), NEW net, GoodNet(net), MasterSide(n, x.net, net), SameEnds(x.net, net),
         NEW y, y = WithNet(x, net)
  PROVE  Saves(n, x, y) /\ y.s = x.s /\ y.fork = x.fork /\ y.bad = x.bad /\ y.net = net
<1>1. Shape(x) /\ GoodServer(x.s) /\ GoodSlaves(n, x.s, x.net)
  BY DEF GoodWorld, Shape
<1>2. Shape(y) /\ y.s = x.s /\ y.net = net /\ y.fork = x.fork /\ y.bad = x.bad
  BY <1>1 DEF WithNet, Shape
<1>3. GoodSlaves(n, y.s, y.net)
  BY <1>1, <1>2, SlavesKept DEF SameClients
<1>4. Serves(n, x, y)
  BY <1>1, <1>2, <1>3 DEF Serves, Outside
<1> QED BY <1>2, <1>4, ServesGood DEF Saves

LEMMA ChildWritesKeeps ==
  ASSUME LinkInv, NEW n \in Node, ChildWrites(n)
  PROVE  Kept
<1> DEFINE w == World(n, {})
           child == server[n].child
           grown == [child EXCEPT !.sent = @ + 1]
           data == <<[t |-> "eofmark"]>> \o RdbPieces(child.snapshot) \o <<[t |-> "eof"]>>
           x == WithChild(w, grown)
           y == WithNet(x, conn')
<1>1. GoodWorld(n, w) /\ WithBacklog(w.s) /\ w.net = conn /\ w.s = server[n]
  BY Home
<1>2. child \in Save /\ child # NULL /\ child.sent < RdbLen + 2
  BY <1>1 DEF ChildWrites, GoodWorld, GoodServer
<1>3. grown \in Save \cup {NULL}
  <2> HIDE DEF child
  <2> QED BY <1>2 DEF Save
<1>4. child.sent \in Nat /\ child.snapshot \in Dataset
  <2> HIDE DEF child
  <2> QED BY <1>2 DEF Save
<1>5. data[child.sent + 1] \in Payload
  <2> DEFINE p == RdbPieces(child.snapshot)
             a == <<[t |-> "eofmark"]>>
             e == <<[t |-> "eof"]>>
  <2>1. p \in Seq(Payload) /\ Len(p) = RdbLen
    BY <1>4, RdbType, LengthAssumption DEF RdbPieces
  <2>2. a \in Seq(Payload) /\ e \in Seq(Payload) /\ Len(a) = 1 /\ Len(e) = 1
    <3>1. [t |-> "eofmark"] \in Payload /\ [t |-> "eof"] \in Payload
      BY DEF Payload
    <3> QED BY <3>1
  <2> HIDE DEF p, a, e
  <2>3. a \o p \o e \in Seq(Payload) /\ Len(a \o p \o e) = RdbLen + 2
    <3> DEFINE d == a \o p
    <3>1. RdbLen \in Nat
      BY LengthAssumption
    <3>2. d \in Seq(Payload)
      BY <2>1, <2>2
    <3>3. Len(d) = Len(a) + Len(p)
      BY <2>1, <2>2, ConcatProperties
    <3>4. d \o e \in Seq(Payload) /\ Len(d \o e) = Len(d) + Len(e)
      <4> HIDE DEF d
      <4> QED BY <2>2, <3>2, ConcatProperties
    <3> HIDE DEF d
    <3>5. Len(d \o e) = RdbLen + 2
      BY <2>1, <2>2, <3>1, <3>3, <3>4
    <3> QED BY <3>4, <3>5 DEF d
  <2>4. child.sent + 1 \in 1..(RdbLen + 2)
    BY <1>2, <1>4, LengthAssumption
  <2>5. data = a \o p \o e
    BY DEF a, p, e
  <2> HIDE DEF data, child
  <2> QED BY <2>3, <2>4, <2>5
<1>6. x = WithChild(w, grown)
  OBVIOUS
<1>7. DOMAIN conn' = Conn /\ \A c \in Conn : WrittenAt(conn, c, conn'[c])
  <2>1. conn' = [c \in Conn |-> IF c \in child.targets /\ server[n].cli[c] # NULL
                                   /\ server[n].cli[c].replstate = "WAIT_BGSAVE_END"
                                THEN SendToR(conn, c, <<data[child.sent + 1]>>)[c]
                                ELSE conn[c]]
    BY DEF ChildWrites
  <2> HIDE DEF data
  <2> QED BY <1>5, <2>1 DEF WrittenAt
<1> HIDE DEF w, x, grown, data
<1>8. /\ Saves(n, w, x) /\ GoodWorld(n, x) /\ x.net = conn /\ x.s.child = grown
  <2>1. Saves(n, w, x) /\ x.net = w.net /\ x.s.child = grown
    BY <1>1, <1>3, <1>6, WithChildFacts
  <2> QED BY <1>1, <2>1 DEF Saves
<1>9. GoodNet(conn') /\ MasterSide(n, conn, conn') /\ SameEnds(conn, conn')
  BY <1>1, <1>7, SendMany DEF GoodWorld
<1>10. Saves(n, x, y) /\ y.s = x.s /\ y.net = conn'
  <2>1. y = WithNet(x, conn')
    OBVIOUS
  <2> HIDE DEF y
  <2> QED BY <1>8, <1>9, <2>1, WithNetFacts
<1> HIDE DEF y
<1>11. Step(n, w, y)
  <2>1. Saves(n, w, y)
    BY <1>8, <1>10, SavesTrans
  <2> QED BY <2>1, HomeSaves DEF w
<1>12. Becomes(n, y)
  <2>1. server' = [server EXCEPT ![n].child.sent = @ + 1]
    BY DEF ChildWrites
  <2>2. x.s = [server[n] EXCEPT !.child.sent = @ + 1]
    BY <1>1, <1>6 DEF WithChild, GoodWorld, grown
  <2> QED BY <1>10, <2>1, <2>2 DEF Becomes
<1>13. Counting'
  BY Counts DEF ChildWrites
<1> QED BY <1>11, <1>12, <1>13, StepKeeps DEF w

LEMMA ServedFacts ==
  ASSUME NEW n \in Node, NEW x, GoodWorld(n, x), NEW c \in ToSet(x.s.slaves), NEW ok, NEW child \in Save,
         NEW failed, NEW y, y = Served(ok, child, failed, x, c)
  PROVE  Saves(n, x, y) /\ Others(x, y, c)
<1> DEFINE k == x.s.cli[c]
           u == [k EXCEPT !.replstate = "ONLINE"]
           u2 == [u EXCEPT !.put_online_on_ack = TRUE]
           v == [k EXCEPT !.replstate = "SEND_BULK"]
           v2 == [v EXCEPT !.bulk = RdbFile(child.snapshot)]
<1>1. c \in Conn /\ k \in ReplicaClient /\ k # NULL /\ x.net[c].m = n /\ x.net[c].mopen
  BY SlaveFacts
<1>2. CASE y = freeSlave(x, c)
  <2>1. ToSet(y.s.slaves) = ToSet(x.s.slaves) \ {c}
    BY <1>1, <1>2, FreeFacts
  <2> QED BY <1>1, <1>2, <2>1, FreeSaves DEF Others
<1>3. CASE y = [x EXCEPT !.s.cli[c].replstate = "ONLINE", !.s.cli[c].put_online_on_ack = TRUE]
  <2>1. u2 \in ReplicaClient /\ u2.slave = k.slave
    <3> HIDE DEF k
    <3>1. u \in ReplicaClient /\ u.slave = k.slave
      BY <1>1 DEF ReplicaClient
    <3> HIDE DEF u
    <3> QED BY <3>1 DEF ReplicaClient
  <2>2. y = Put(x, c, u2)
    <3>1. y = Twice(x, c, "replstate", "ONLINE", "put_online_on_ack", TRUE)
      BY <1>3 DEF Twice
    <3>2. u2 = Two(k, "replstate", "ONLINE", "put_online_on_ack", TRUE)
      BY DEF Two
    <3> HIDE DEF u2
    <3>3. \A r : Twice(x, c, "replstate", "ONLINE", "put_online_on_ack", r)
                  = Put(x, c, Two(k, "replstate", "ONLINE", "put_online_on_ack", r))
      BY <1>1, PutTwice
    <3> QED BY <3>1, <3>2, <3>3
  <2> HIDE DEF u2
  <2>3. Saves(n, x, y) /\ Touched(x.s, y.s, c, u2)
    BY <1>1, <2>1, <2>2, PutFacts
  <2> QED BY <2>3 DEF Others, Touched
<1>4. CASE y = [x EXCEPT !.s.cli[c].replstate = "SEND_BULK", !.s.cli[c].bulk = RdbFile(child.snapshot)]
  <2>1. v2 \in ReplicaClient /\ v2.slave = k.slave
    <3>1. child.snapshot \in Dataset
      BY DEF Save
    <3>2. RdbFile(child.snapshot) \in Seq(Payload)
      BY <3>1, RdbType
    <3> HIDE DEF k
    <3>3. v \in ReplicaClient /\ v.slave = k.slave
      BY <1>1 DEF ReplicaClient
    <3> HIDE DEF v
    <3> QED BY <3>2, <3>3 DEF ReplicaClient
  <2>2. y = Put(x, c, v2)
    <3>1. y = Twice(x, c, "replstate", "SEND_BULK", "bulk", RdbFile(child.snapshot))
      BY <1>4 DEF Twice
    <3>2. v2 = Two(k, "replstate", "SEND_BULK", "bulk", RdbFile(child.snapshot))
      BY DEF Two
    <3> HIDE DEF v2
    <3>3. \A r : Twice(x, c, "replstate", "SEND_BULK", "bulk", r)
                  = Put(x, c, Two(k, "replstate", "SEND_BULK", "bulk", r))
      BY <1>1, PutTwice
    <3> QED BY <3>1, <3>2, <3>3
  <2> HIDE DEF v2
  <2>3. Saves(n, x, y) /\ Touched(x.s, y.s, c, v2)
    BY <1>1, <2>1, <2>2, PutFacts
  <2> QED BY <2>3 DEF Others, Touched
<1> QED BY <1>2, <1>3, <1>4 DEF Served

UpdateOp(p, r, c) == IF c \in p[3] THEN Served(p[4], p[5], p[6], r, c) ELSE r
UpdateGood(p, i, r) == Saves(p[1], p[2], r) /\ Ahead(p[2].s.slaves, i, r)
Updates == INSTANCE FoldFacts WITH Op <- UpdateOp, Good <- UpdateGood

ServeAll(W, ok, child, failed, x) ==
  LET update(y, c) == IF c \in W THEN Served(ok, child, failed, y, c) ELSE y
  IN  FoldLeft(update, x, x.s.slaves)

LEMMA ServeAllFacts ==
  ASSUME NEW n \in Node, NEW x, GoodWorld(n, x), NEW W, NEW ok, NEW child \in Save, NEW failed,
         NEW y, y = ServeAll(W, ok, child, failed, x)
  PROVE  Saves(n, x, y)
<1> DEFINE q == x.s.slaves
           p == <<n, x, W, ok, child, failed>>
<1>1. /\ p[1] = n /\ p[2] = x /\ p[3] = W /\ p[4] = ok /\ p[5] = child /\ p[6] = failed
  OBVIOUS
<1> HIDE DEF p
<1>2. /\ q \in Seq(Conn) /\ Distinct(q) /\ Len(q) \in Nat /\ Ahead(q, 0, x)
  BY AheadStart
<1>3. y = Updates!Fold(p, x, q)
  BY <1>1 DEF ServeAll, Updates!Fold, UpdateOp, FoldLeft, MapThenFoldSet, Max,
     Updates!FoldLeft, Updates!MapThenFoldSet, Updates!Max
<1>4. UpdateGood(p, 0, x)
  BY <1>1, <1>2, SavesSelf DEF UpdateGood
<1>5. ASSUME NEW i \in 1..Len(q), NEW r, UpdateGood(p, i - 1, r)
      PROVE  UpdateGood(p, i, UpdateOp(p, r, q[i]))
  <2> DEFINE z == UpdateOp(p, r, q[i])
  <2>1. Saves(n, x, r) /\ Ahead(q, i - 1, r)
    BY <1>1, <1>5 DEF UpdateGood
  <2>2. q[i] \in ToSet(r.s.slaves) /\ (Others(r, z, q[i]) => Ahead(q, i, z))
    <3> HIDE DEF z
    <3> QED BY <1>2, <2>1, AheadNext
  <2>3. GoodWorld(n, r)
    BY <2>1 DEF Saves
  <2>4. Saves(n, r, z) /\ Others(r, z, q[i])
    <3>1. CASE q[i] \in W
      <4>1. z = Served(ok, child, failed, r, q[i])
        BY <1>1, <3>1 DEF UpdateOp
      <4> HIDE DEF z, q
      <4> QED BY <2>2, <2>3, <4>1, ServedFacts
    <3>2. CASE q[i] \notin W
      <4>1. z = r
        BY <1>1, <3>2 DEF UpdateOp
      <4> HIDE DEF z
      <4> QED BY <2>3, <4>1, SavesSelf DEF Others
    <3> QED BY <3>1, <3>2
  <2> HIDE DEF z
  <2>5. Saves(n, x, z)
    BY <2>1, <2>4, SavesTrans
  <2>6. UpdateGood(p, i, z)
    BY <1>1, <2>2, <2>4, <2>5 DEF UpdateGood
  <2> QED BY <2>6 DEF z
<1> HIDE DEF q
<1>6. UpdateGood(p, Len(q), Updates!Fold(p, x, q))
  BY <1>2, <1>4, <1>5, Updates!FoldKeeps
<1> QED BY <1>1, <1>3, <1>6 DEF UpdateGood

LEMMA UpdateFacts ==
  ASSUME NEW n \in Node, NEW x, GoodWorld(n, x), NEW ok, NEW child \in Save, NEW failed,
         NEW y, y = updateSlavesWaitingBgsave(x, ok, child, failed)
  PROVE  Saves(n, x, y)
<1> DEFINE W == WaitEnd(x.s)
           z == ServeAll(W, ok, child, failed, x)
<1>1. y = IF WaitStart(z.s) # {} THEN startBgsaveForReplication(z, mincapa(z.s)) ELSE z
  BY DEF updateSlavesWaitingBgsave, ServeAll
<1>2. z = ServeAll(W, ok, child, failed, x)
  OBVIOUS
<1> HIDE DEF z, W
<1>3. Saves(n, x, z)
  BY <1>2, ServeAllFacts
<1>4. GoodWorld(n, z)
  BY <1>3 DEF Saves
<1>5. Saves(n, z, y)
  BY <1>1, <1>4, StartBgsaveFacts, SavesSelf
<1> QED BY <1>3, <1>5, SavesTrans

\* Whether a save can be started
WithFork(x, fork) == [x EXCEPT !.fork = fork]

LEMMA WithForkFacts ==
  ASSUME NEW n \in Node, NEW x, GoodWorld(n, x), NEW fork, NEW y, y = WithFork(x, fork)
  PROVE  Saves(n, x, y) /\ y.s = x.s /\ y.net = x.net /\ y.bad = x.bad
<1>1. Shape(x)
  BY DEF GoodWorld, Shape
<1>2. y.s = x.s /\ y.net = x.net /\ y.bad = x.bad /\ Shape(y)
  BY <1>1 DEF WithFork, Shape
<1>3. Serves(n, x, x)
  BY ServesSelf
<1>4. Serves(n, x, y)
  BY <1>2, <1>3 DEF Serves
<1> QED BY <1>2, <1>4, ServesGood DEF Saves

LEMMA BgsaveDoneKeeps ==
  ASSUME LinkInv, NEW n \in Node, NEW ok \in BOOLEAN, NEW fork \in BOOLEAN, BgsaveDone(n, ok, fork)
  PROVE  Kept
<1> DEFINE w == World(n, {})
           child == server[n].child
           failed == IF child.type = "socket" THEN {c \in child.targets : LostToM(conn, c)} ELSE {}
           v == WithChild(w, NULL)
           x == WithFork(v, fork)
           y == updateSlavesWaitingBgsave(x, ok, child, failed)
<1>1. GoodWorld(n, w) /\ w.s = server[n]
  BY Home
<1>2. child \in Save
  BY <1>1 DEF BgsaveDone, GoodWorld, GoodServer
<1>3. x = [w EXCEPT !.s.child = NULL, !.fork = fork]
  BY DEF WithChild, WithFork, World
<1>4. Becomes(n, y) /\ Succeeds(ok /\ fork)
  <2> HIDE DEF x
  <2> QED BY <1>3 DEF BgsaveDone
<1>5. Counting'
  BY <1>4, Counts
<1>6. v = WithChild(w, NULL) /\ x = WithFork(v, fork) /\ y = updateSlavesWaitingBgsave(x, ok, child, failed)
  OBVIOUS
<1> HIDE DEF v, x, y, w, failed, child
<1>7. Saves(n, w, v)
  BY <1>1, <1>6, WithChildFacts
<1>8. Saves(n, v, x)
  BY <1>6, <1>7, WithForkFacts DEF Saves
<1>9. Saves(n, x, y)
  <2>1. GoodWorld(n, x)
    BY <1>8 DEF Saves
  <2> QED BY <1>2, <1>6, <2>1, UpdateFacts
<1>10. Saves(n, w, y)
  BY <1>7, <1>8, <1>9, SavesTrans
<1>11. Step(n, w, y)
  BY <1>10, HomeSaves DEF w
<1> QED BY <1>4, <1>5, <1>11, StepKeeps DEF w

LEMMA ResizeKeeps ==
  ASSUME LinkInv, NEW n \in Node, NEW size \in NewSizes, ResizeBacklog(n, size)
  PROVE  Kept
<1> DEFINE w == World(n, {})
           b == resizeReplicationBacklog(server[n].b, size)
           y == SetBacklog(w, b)
<1>1. GoodWorld(n, w) /\ w.s = server[n] /\ WithBacklog(w.s) /\ w.net = conn
  BY Home
<1>2. GoodBacklog(b) /\ (b.buf = NULL <=> w.s.b.buf = NULL) /\ Later(w.s.b, b)
  BY <1>1, ResizeFacts, LaterResize DEF GoodWorld, GoodServer
<1>3. y = SetBacklog(w, b)
  OBVIOUS
<1>4. server' = [server EXCEPT ![n].b = b] /\ conn' = conn /\ Spend("commands")
  BY DEF ResizeBacklog
<1>5. y.s = [server[n] EXCEPT !.b = b]
  <2> HIDE DEF b
  <2> QED BY <1>1 DEF SetBacklog, World
<1> HIDE DEF w, b, y
<1>6. Serves(n, w, y) /\ y.s.b = b /\ y.s.slaves = w.s.slaves /\ y.net = w.net
  BY <1>1, <1>2, <1>3, SetBacklogFacts
<1>7. Step(n, w, y)
  <2>1. WithBacklog(y.s)
    BY <1>1, <1>2, <1>6 DEF WithBacklog
  <2> QED BY <1>1, <1>2, <1>6, <2>1, StepServes
<1>8. Becomes(n, y)
  BY <1>1, <1>4, <1>5, <1>6 DEF Becomes
<1>9. Counting'
  BY <1>4, Counts
<1> QED BY <1>7, <1>8, <1>9, StepKeeps DEF w

-----------------------------------------------------------------------------
(* The stream is fed.                                                      *)

LEMMA FeedSlavesFacts ==
  ASSUME NEW n \in Node, NEW x, GoodWorld(n, x), NEW db \in Int, NEW cmd \in Command,
         NEW y, y = replicationFeedSlaves(x, db, cmd)
  PROVE  /\ Serves(n, x, y) /\ GoodWorld(n, y) /\ y.s.slaves = x.s.slaves /\ y.net = x.net
         /\ y.s.b.buf = NULL <=> x.s.b.buf = NULL
         /\ y.fork = x.fork /\ y.bad = x.bad /\ y.s.child = x.s.child
         /\ Later(x.s.b, y.s.b)
<1> DEFINE select == IF x.s.slaveseldb = db THEN <<>> ELSE Bytes(<<"select", db>>)
           bytes == select \o Bytes(cmd)
           fed == ToSet(x.s.slaves) \ WaitStart(x.s)
           b == IF x.s.b.buf = NULL THEN x.s.b ELSE feedReplicationBacklog(x.s.b, bytes)
           cli == [c \in Conn |-> IF c \in fed THEN Fed(x.s.cli[c], bytes) ELSE x.s.cli[c]]
<1>1. Shape(x) /\ GoodServer(x.s) /\ GoodNet(x.net) /\ GoodSlaves(n, x.s, x.net)
  BY DEF GoodWorld, Shape
<1>2. CASE x.s.b.buf = NULL /\ x.s.slaves = <<>>
  <2>1. y = x
    BY <1>2 DEF replicationFeedSlaves
  <2> QED BY <2>1, ServesSelf, BacklogSelf
<1>3. CASE ~(x.s.b.buf = NULL /\ x.s.slaves = <<>>)
  <2>1. bytes \in Seq(Byte)
    <3>1. <<"select", db>> \in Command
      BY DEF Command
    <3>2. Bytes(<<"select", db>>) \in Seq(Byte) /\ Bytes(cmd) \in Seq(Byte)
      BY <3>1, BytesType
    <3>3. select \in Seq(Byte)
      BY <3>2
    <3> HIDE DEF select
    <3> QED BY <3>2, <3>3
  <2>2. y = [x EXCEPT !.s.slaveseldb = db, !.s.b = b, !.s.cli = cli]
    <3> HIDE DEF bytes
    <3>1. y = [x EXCEPT
        !.s.slaveseldb = db,
        !.s.b = IF @.buf = NULL THEN @ ELSE feedReplicationBacklog(@, bytes),
        !.s.cli = [c \in Conn |-> IF c \in fed THEN Fed(@[c], bytes) ELSE @[c]]]
      BY <1>3 DEF replicationFeedSlaves, bytes
    <3> HIDE DEF fed
    <3> QED BY <1>1, <3>1 DEF Shape, GoodServer
  <2> HIDE DEF bytes, fed
  <2>3. GoodBacklog(b) /\ (b.buf = NULL <=> x.s.b.buf = NULL)
    BY <1>1, <2>1, FeedFacts DEF GoodServer
  <2>12. Later(x.s.b, b)
    BY <1>1, <2>1, LaterFeed, LaterSelf DEF GoodServer
  <2>4. ASSUME NEW c \in Conn
        PROVE  /\ cli[c] \in ReplicaClient \cup {NULL} /\ (cli[c] = NULL <=> x.s.cli[c] = NULL)
               /\ x.s.cli[c] # NULL => cli[c].slave = x.s.cli[c].slave
    <3> DEFINE k == x.s.cli[c]
    <3>1. CASE c \in fed
      <4>1. k \in ReplicaClient /\ k # NULL
        BY <3>1, SlaveFacts DEF fed
      <4>2. k.out \o bytes \in Seq(Payload)
        <5>1. bytes \in Seq(Payload)
          BY <2>1, ItemFacts
        <5>2. k.out \in Seq(Payload)
          <6> HIDE DEF k
          <6> QED BY <4>1 DEF ReplicaClient
        <5> HIDE DEF k
        <5> QED BY <5>1, <5>2
      <4>3. Fed(k, bytes) \in ReplicaClient /\ Fed(k, bytes).slave = k.slave
        <5> HIDE DEF k
        <5> QED BY <4>1, <4>2 DEF Fed, ReplicaClient
      <4>4. Fed(k, bytes) # NULL
        BY <4>3, ReplicationAssumption
      <4> QED BY <3>1, <4>1, <4>3, <4>4
    <3>2. CASE c \notin fed
      BY <1>1, <3>2 DEF GoodServer
    <3> QED BY <3>1, <3>2
  <2>5. cli \in [Conn -> ReplicaClient \cup {NULL}]
    BY <2>4
  <2> HIDE DEF b, cli
  <2>6. Shape(y) /\ y.net = x.net /\ y.s = [x.s EXCEPT !.slaveseldb = db, !.b = b, !.cli = cli]
        /\ y.fork = x.fork /\ y.bad = x.bad
    BY <1>1, <2>2 DEF Shape
  <2>7. /\ Outside(x.s, y.s) /\ y.s.slaveseldb = db /\ y.s.b = b /\ y.s.cli = cli
        /\ y.s.slaves = x.s.slaves /\ y.s.child = x.s.child
    BY <1>1, <2>6 DEF GoodServer, Outside
  <2>8. GoodServer(y.s)
    <3>1. y.s.slaves \in Seq(Conn) /\ y.s.child \in Save \cup {NULL}
      BY <1>1, <2>7 DEF GoodServer
    <3> QED BY <1>1, <2>3, <2>5, <2>7, <3>1, OutsideGood
  <2>9. SameClients(x.s, y.s) /\ SameEnds(x.net, y.net) /\ MasterSide(n, x.net, y.net)
    BY <2>4, <2>6, <2>7 DEF SameClients, SameEnds, MasterSide, MasterSideAt
  <2>10. GoodSlaves(n, y.s, y.net)
    BY <1>1, <2>9, SlavesKept
  <2>11. Serves(n, x, y)
    BY <1>1, <2>6, <2>7, <2>8, <2>9, <2>10 DEF Serves
  <2> QED BY <2>3, <2>6, <2>7, <2>11, <2>12, ServesGood
<1> QED BY <1>2, <1>3

\* The dataset is not part of the link.
WithData(x, d) == [x EXCEPT !.s.data = d]

LEMMA WithDataFacts ==
  ASSUME NEW n \in Node, NEW x, GoodWorld(n, x), NEW d \in Dataset, NEW y, y = WithData(x, d)
  PROVE  /\ GoodWorld(n, y) /\ y.net = x.net /\ y.s.slaves = x.s.slaves /\ y.s.b = x.s.b
         /\ y.s.data = d /\ LinkSame(x.s, y.s) /\ y.s.slaveseldb = x.s.slaveseldb
<1>1. Shape(x) /\ GoodServer(x.s) /\ GoodNet(x.net) /\ GoodSlaves(n, x.s, x.net) /\ GoodLink(n, x.s, x.net)
  BY DEF GoodWorld, Shape
<1>2. Shape(y) /\ y.net = x.net /\ y.s = [x.s EXCEPT !.data = d]
  BY <1>1 DEF WithData, Shape
<1>3. GoodServer(y.s)
  BY <1>1, <1>2 DEF GoodServer
<1>4. /\ y.s.slaves = x.s.slaves /\ y.s.b = x.s.b /\ y.s.data = d /\ y.s.cli = x.s.cli
      /\ LinkSame(x.s, y.s) /\ y.s.slaveseldb = x.s.slaveseldb
  BY <1>1, <1>2 DEF GoodServer, LinkSame
<1>5. GoodSlaves(n, y.s, y.net)
  BY <1>1, <1>2, <1>4 DEF GoodSlaves, Flagged
<1>6. GoodLink(n, y.s, y.net)
  BY <1>1, <1>2, <1>4 DEF GoodLink, LinkSame, HasLink, LinkOf, Early
<1> QED BY <1>1, <1>2, <1>3, <1>4, <1>5, <1>6 DEF GoodWorld, Shape

LEMMA WriteKeeps ==
  ASSUME LinkInv, NEW n \in Node, NEW db \in Db, Write(n, db)
  PROVE  Kept
<1> DEFINE w == World(n, {})
           i == count["writes"] + 1
           d == Append(server[n].data, <<i, db>>)
           cmd == <<"set", i>>
           x == WithData(w, d)
           y == replicationFeedSlaves(x, db, cmd)
<1>1. GoodWorld(n, w) /\ w.s = server[n] /\ WithBacklog(w.s) /\ w.net = conn
  BY Home
<1>2. Becomes(n, y) /\ Spend("writes")
  BY DEF Write, WithData, World
<1>3. i \in Int /\ db \in Int
  BY ReplicationAssumption DEF LinkInv, Counters
<1>4. d \in Dataset /\ cmd \in Command
  <2>1. server[n].data \in Dataset
    BY <1>1 DEF GoodWorld, GoodServer
  <2> HIDE DEF i
  <2>2. <<i, db>> \in Int \X Int
    BY <1>3
  <2> QED BY <1>3, <2>1, <2>2 DEF Dataset, Command
<1>5. x = WithData(w, d) /\ y = replicationFeedSlaves(x, db, cmd)
  OBVIOUS
<1> HIDE DEF w, d, cmd, x, y
<1>6. GoodWorld(n, x) /\ x.net = w.net /\ x.s.slaves = w.s.slaves /\ x.s.b = w.s.b
  BY <1>1, <1>4, <1>5, WithDataFacts
<1>7. /\ Serves(n, x, y) /\ GoodWorld(n, y) /\ y.s.slaves = x.s.slaves
      /\ y.s.b.buf = NULL <=> x.s.b.buf = NULL
      /\ Later(x.s.b, y.s.b)
  BY <1>3, <1>4, <1>5, <1>6, FeedSlavesFacts
<1>8. Step(n, w, y)
  <2>1. WithBacklog(y.s)
    BY <1>1, <1>6, <1>7 DEF WithBacklog
  <2>2. Apart(n, x.net, y.net)
    BY <1>6, <1>7, ServesGood
  <2> QED BY <1>6, <1>7, <2>1, <2>2 DEF Step, Sane
<1>9. Counting'
  BY <1>2, Counts
<1> QED BY <1>2, <1>8, <1>9, StepKeeps DEF w

-----------------------------------------------------------------------------
(* What a server does as a replica: it opens, uses and closes its end of   *)
(* the link to its master.                                                 *)

ReplicaSideAt(n, k, l) == ApartAt(n, k, l) /\ (k.m = n /\ k.mopen => l.m = n /\ l.mopen)
ReplicaSide(n, net, after) == \A c \in Conn : ReplicaSideAt(n, net[c], after[c])

LEMMA ReplicaSideSelf ==
  ASSUME NEW n \in Node, NEW net
  PROVE  ReplicaSide(n, net, net)
BY DEF ReplicaSide, ReplicaSideAt, ApartAt

LEMMA ApartTrans ==
  ASSUME NEW n \in Node, NEW a, NEW b, NEW c, Apart(n, a, b), Apart(n, b, c)
  PROVE  Apart(n, a, c)
<1> SUFFICES ASSUME NEW d \in Conn, NEW o \in Node \ {n}
             PROVE  /\ c[d].r = o /\ c[d].ropen <=> a[d].r = o /\ a[d].ropen
                    /\ a[d].m = o /\ a[d].mopen => c[d].m = o /\ c[d].mopen
                    /\ a[d].r = o /\ a[d].ropen /\ Quiet(a[d]) => Quiet(c[d])
  BY DEF Apart, ApartAt
<1>1. /\ b[d].r = o /\ b[d].ropen <=> a[d].r = o /\ a[d].ropen
      /\ a[d].m = o /\ a[d].mopen => b[d].m = o /\ b[d].mopen
      /\ a[d].r = o /\ a[d].ropen /\ Quiet(a[d]) => Quiet(b[d])
  BY DEF Apart, ApartAt
<1>2. /\ c[d].r = o /\ c[d].ropen <=> b[d].r = o /\ b[d].ropen
      /\ b[d].m = o /\ b[d].mopen => c[d].m = o /\ c[d].mopen
      /\ b[d].r = o /\ b[d].ropen /\ Quiet(b[d]) => Quiet(c[d])
  BY DEF Apart, ApartAt
<1> QED BY <1>1, <1>2

\* The clients stay, and so do their connections.
SameSlaves(s, t) == t.slaves = s.slaves /\ t.cli = s.cli

LEMMA TurnHalf ==
  ASSUME NEW n \in Node, NEW x, Half(n, x), NEW y, Shape(y), GoodServer(y.s), GoodNet(y.net),
         SameSlaves(x.s, y.s), ReplicaSide(n, x.net, y.net)
  PROVE  Half(n, y) /\ Apart(n, x.net, y.net)
<1>1. Flagged(y.s) = Flagged(x.s)
  BY DEF Flagged, SameSlaves
<1>2. GoodSlaves(n, y.s, y.net)
  BY <1>1 DEF Half, GoodSlaves, SameSlaves, ReplicaSide, ReplicaSideAt
<1>3. Apart(n, x.net, y.net)
  BY DEF ReplicaSide, ReplicaSideAt, Apart
<1> QED BY <1>2, <1>3 DEF Half

LEMMA CloseRFacts ==
  ASSUME NEW n \in Node, NEW net, GoodNet(net), NEW c \in Conn, net[c].r = n, net[c].ropen,
         NEW after, after = CloseR(net, c)
  PROVE  /\ GoodNet(after) /\ ReplicaSide(n, net, after) /\ Elsewhere(net, after, c)
         /\ after[c].ropen = FALSE
<1> DEFINE k == net[c]
           l == after[c]
<1>1. DOMAIN net = Conn /\ GoodConn(k)
  BY DEF GoodNet
<1>2. /\ DOMAIN after = Conn /\ \A d \in Conn \ {c} : after[d] = net[d]
      /\ l = IF k.mopen THEN [k EXCEPT !.ropen = FALSE, !.toR = <<>>] ELSE NoConn
  BY <1>1 DEF CloseR
<1> HIDE DEF l, k
<1>3. k \in ConnRec /\ NoConn \in ConnRec /\ k.mopen \in BOOLEAN
  BY <1>1 DEF GoodConn, ConnRec, NoConn
<1>4. /\ l.m = IF k.mopen THEN k.m ELSE NULL
      /\ l.mopen = k.mopen /\ l.ropen = FALSE /\ l.toR = <<>>
      /\ l.r = IF k.mopen THEN k.r ELSE NULL
      /\ l \in ConnRec
  <2>1. CASE k.mopen
    <3>1. l = [k EXCEPT !.ropen = FALSE, !.toR = <<>>]
      BY <1>2, <2>1
    <3>2. l.r = k.r /\ l.m = k.m /\ l.toR = <<>> /\ l.mopen = k.mopen
      BY <1>3, <3>1 DEF ConnRec
    <3>3. l.ropen = FALSE
      BY <1>3, <3>1 DEF ConnRec
    <3>4. l \in ConnRec
      BY <1>3, <3>1, ConnClosed
    <3> QED BY <2>1, <3>2, <3>3, <3>4
  <2>2. CASE ~k.mopen
    <3>1. l = NoConn /\ k.mopen = FALSE
      BY <1>2, <1>3, <2>2
    <3> QED BY <1>3, <2>2, <3>1 DEF NoConn
  <2> QED BY <2>1, <2>2
<1>5. GoodConn(l)
  BY <1>1, <1>2, <1>4 DEF GoodConn
<1>6. ReplicaSideAt(n, k, l)
  <2>1. k.r = n
    BY DEF k
  <2> QED BY <1>1, <1>4, <2>1 DEF ReplicaSideAt, ApartAt, GoodConn
<1>7. \A d \in Conn : ReplicaSideAt(n, net[d], net[d])
  BY DEF ReplicaSideAt, ApartAt
<1> QED BY <1>2, <1>4, <1>5, <1>6, <1>7 DEF ReplicaSide, GoodNet, k, l, Elsewhere

\* The replica's ends that are open are that of its link.
Owns(n, s, net) ==
  /\ \A c \in Conn : net[c].r = n /\ net[c].ropen <=> HasLink(s) /\ c = LinkOf(s)
  /\ HasLink(s) => LinkOf(s) \in Conn

Unlinked(s) ==
  /\ s.repl_state \in {"NONE", "CONNECT"} /\ s.master = NULL
  /\ s.masterhost = NULL <=> s.repl_state = "NONE"

\* A link is given up,
LEMMA UnlinkFacts ==
  ASSUME NEW n \in Node, NEW x, Half(n, x), Owns(n, x.s, x.net), HasLink(x.s), NEW y, Shape(y), GoodServer(y.s),
         SameSlaves(x.s, y.s), Unlinked(y.s), y.net = CloseR(x.net, LinkOf(x.s))
  PROVE  GoodWorld(n, y) /\ Apart(n, x.net, y.net)
<1> DEFINE c == LinkOf(x.s)
<1>1. c \in Conn /\ x.net[c].r = n /\ x.net[c].ropen /\ GoodNet(x.net)
  BY DEF Owns, Half
<1> HIDE DEF c
<1>2. /\ GoodNet(y.net) /\ ReplicaSide(n, x.net, y.net) /\ Elsewhere(x.net, y.net, c)
      /\ y.net[c].ropen = FALSE
  BY <1>1, CloseRFacts DEF c
<1>3. Half(n, y) /\ Apart(n, x.net, y.net)
  BY <1>2, TurnHalf
<1>4. GoodLink(n, y.s, y.net)
  <2>1. ~HasLink(y.s) /\ ~Early(y.s) /\ y.s.repl_state # "CONNECTED" /\ y.s.repl_state # "TRANSFER"
    BY DEF Unlinked, HasLink, Early
  <2>2. ASSUME NEW d \in Conn PROVE ~(y.net[d].r = n /\ y.net[d].ropen)
    <3>1. CASE d = c
      BY <1>2, <3>1
    <3>2. CASE d # c
      BY <1>2, <3>2 DEF Elsewhere, Owns, c
    <3> QED BY <3>1, <3>2
  <2> QED BY <2>1, <2>2 DEF GoodLink, Unlinked
<1> QED BY <1>3, <1>4 DEF GoodWorld, Half, Shape

\* and one that was not there stays so.
LEMMA NoLinkFacts ==
  ASSUME NEW n \in Node, NEW x, Half(n, x), Owns(n, x.s, x.net), ~HasLink(x.s), NEW y, Shape(y), GoodServer(y.s),
         SameSlaves(x.s, y.s), Unlinked(y.s), y.net = x.net
  PROVE  GoodWorld(n, y) /\ Apart(n, x.net, y.net)
<1>1. Half(n, y) /\ Apart(n, x.net, y.net)
  BY TurnHalf, ReplicaSideSelf DEF Half
<1>2. GoodLink(n, y.s, y.net)
  <2>1. ~HasLink(y.s) /\ ~Early(y.s) /\ y.s.repl_state # "CONNECTED" /\ y.s.repl_state # "TRANSFER"
    BY DEF Unlinked, HasLink, Early
  <2> QED BY <2>1 DEF GoodLink, Unlinked, Owns
<1> QED BY <1>1, <1>2 DEF GoodWorld, Half, Shape

LEMMA HalfOf ==
  ASSUME NEW n \in Node, NEW x, GoodWorld(n, x)
  PROVE  Half(n, x) /\ Owns(n, x.s, x.net)
BY DEF GoodWorld, Half, Shape, Owns, GoodLink

\* What the replica does leaves its own slaves and backlog alone.
Moved(n, x, y) ==
  GoodWorld(n, y) /\ Apart(n, x.net, y.net) /\ SameSlaves(x.s, y.s) /\ y.s.b = x.s.b

LEMMA MovedTrans ==
  ASSUME NEW n \in Node, NEW x, NEW y, NEW z, Moved(n, x, y), Moved(n, y, z)
  PROVE  Moved(n, x, z)
BY ApartTrans DEF Moved, SameSlaves

LEMMA MovedSelf ==
  ASSUME NEW n \in Node, NEW x, GoodWorld(n, x)
  PROVE  Moved(n, x, x)
BY DEF Moved, SameSlaves, Apart, ApartAt

\* An attempt to connect that has not got as far as the transfer
Attempt(s) ==
  /\ s.repl_state \in {"CONNECTING", "RECEIVE_PONG", "RECEIVE_AUTH", "RECEIVE_PORT", "RECEIVE_IP",
                       "RECEIVE_CAPA", "RECEIVE_PSYNC"}
  /\ s.master = NULL /\ s.masterhost # NULL

LEMMA AttemptFacts ==
  ASSUME NEW n \in Node, NEW x, GoodWorld(n, x), x.s.repl_state = "CONNECTING" \/ InHandshake(x.s)
  PROVE  Attempt(x.s)
BY DEF GoodWorld, GoodLink, Attempt, InHandshake

Undone(s, file) == [s EXCEPT !.transfer_s = NULL, !.file = file, !.repl_state = "CONNECT"]

LEMMA UndoFacts ==
  ASSUME NEW n \in Node, NEW x, Half(n, x), Owns(n, x.s, x.net), x.s.master = NULL, HasLink(x.s), x.s.masterhost # NULL,
         NEW file \in Seq(Item), NEW y, Shape(y), y.s = Undone(x.s, file), y.net = CloseR(x.net, x.s.transfer_s)
  PROVE  Moved(n, x, y) /\ y.s.repl_state = "CONNECT"
<1>1. GoodServer(x.s)
  BY DEF Half
<1>2. y.net = CloseR(x.net, LinkOf(x.s))
  BY DEF LinkOf
<1>3. GoodServer(y.s)
  BY <1>1 DEF GoodServer, LinkStates, Undone
<1>4. /\ SameSlaves(x.s, y.s) /\ y.s.b = x.s.b /\ y.s.repl_state = "CONNECT" /\ y.s.master = x.s.master
      /\ y.s.masterhost = x.s.masterhost
  BY <1>1 DEF SameSlaves, GoodServer, Undone
<1>5. Unlinked(y.s)
  BY <1>4 DEF Unlinked
<1> QED BY <1>2, <1>3, <1>4, <1>5, UnlinkFacts DEF Moved

LEMMA SyncErrorFacts ==
  ASSUME NEW n \in Node, NEW x, Half(n, x), Owns(n, x.s, x.net), Attempt(x.s), NEW y, y = SyncError(x)
  PROVE  Moved(n, x, y) /\ y.s.repl_state = "CONNECT"
<1> DEFINE net == CloseR(x.net, x.s.transfer_s)
           file == x.s.file
<1>1. Shape(x) /\ GoodServer(x.s) /\ file \in Seq(Item)
  BY DEF Half, GoodServer
<1>2. y = [[x EXCEPT !.s.transfer_s = NULL, !.net = net] EXCEPT !.s.repl_state = "CONNECT"]
  BY DEF SyncError, undoConnectWithMaster
<1>3. /\ Shape(y) /\ y.net = net
      /\ y.s = [[x.s EXCEPT !.transfer_s = NULL] EXCEPT !.repl_state = "CONNECT"]
  <2> HIDE DEF net
  <2> QED BY <1>1, <1>2 DEF Shape
<1>4. y.s = Undone(x.s, file)
  BY <1>1, <1>3 DEF Undone, GoodServer
<1>5. HasLink(x.s) /\ x.s.master = NULL /\ x.s.masterhost # NULL
  BY DEF Attempt, HasLink
<1> QED BY <1>1, <1>3, <1>4, <1>5, UndoFacts

LEMMA CancelFacts ==
  ASSUME NEW n \in Node, NEW x, Half(n, x), Owns(n, x.s, x.net),
         Attempt(x.s) \/ (x.s.repl_state = "TRANSFER" /\ x.s.master = NULL /\ x.s.masterhost # NULL),
         NEW y, y = cancelReplicationHandshake(x)
  PROVE  Moved(n, x, y) /\ y.s.repl_state = "CONNECT"
<1>1. Shape(x) /\ GoodServer(x.s)
  BY DEF Half
<1>2. CASE Attempt(x.s)
  <2>1. y = SyncError(x)
    BY <1>2 DEF cancelReplicationHandshake, SyncError, Attempt, InHandshake
  <2> QED BY <1>2, <2>1, SyncErrorFacts
<1>3. CASE x.s.repl_state = "TRANSFER" /\ x.s.master = NULL /\ x.s.masterhost # NULL
  <2> DEFINE net == CloseR(x.net, x.s.transfer_s)
  <2>1. y = [[[x EXCEPT !.s.transfer_s = NULL, !.net = net] EXCEPT !.s.file = <<>>] EXCEPT !.s.repl_state = "CONNECT"]
    BY <1>3 DEF cancelReplicationHandshake, replicationAbortSyncTransfer, undoConnectWithMaster
  <2>2. /\ Shape(y) /\ y.net = net
        /\ y.s = [[[x.s EXCEPT !.transfer_s = NULL] EXCEPT !.file = <<>>] EXCEPT !.repl_state = "CONNECT"]
    <3> HIDE DEF net
    <3> QED BY <1>1, <2>1 DEF Shape
  <2> DEFINE file == <<>>
  <2>3. y.s = Undone(x.s, file)
    BY <2>2 DEF Undone
  <2>4. file \in Seq(Item) /\ HasLink(x.s)
    BY <1>3 DEF HasLink
  <2> HIDE DEF file
  <2> QED BY <1>1, <1>3, <2>2, <2>3, <2>4, UndoFacts
<1> QED BY <1>2, <1>3

LEMMA CacheFacts ==
  ASSUME NEW n \in Node, NEW x, GoodWorld(n, x), x.s.master # NULL, NEW y, y = replicationCacheMaster(x)
  PROVE  Moved(n, x, y) /\ y.s.repl_state = "CONNECT" /\ y.s.master = NULL /\ y.s.masterhost # NULL
<1> DEFINE cached == [x.s.master EXCEPT !.conn = NULL]
           net == CloseR(x.net, x.s.master.conn)
<1>1. Half(n, x) /\ Owns(n, x.s, x.net) /\ Shape(x) /\ GoodServer(x.s)
  BY HalfOf DEF Half
<1>2. x.s.repl_state = "CONNECTED" /\ HasLink(x.s) /\ LinkOf(x.s) = x.s.master.conn /\ x.s.masterhost # NULL
  BY DEF GoodWorld, GoodLink, HasLink, LinkOf
<1>3. cached \in MasterClient
  <2>1. x.s.master \in MasterClient
    BY <1>1 DEF GoodServer
  <2> QED BY <2>1 DEF MasterClient
<1>4. y = [x EXCEPT !.s.cached_master = cached, !.s.master = NULL, !.s.repl_state = "CONNECT", !.net = net]
  BY DEF replicationCacheMaster
<1> HIDE DEF cached, net
<1>5. /\ Shape(y) /\ y.net = net
      /\ y.s = [x.s EXCEPT !.cached_master = cached, !.master = NULL, !.repl_state = "CONNECT"]
  BY <1>1, <1>4 DEF Shape
<1>6. GoodServer(y.s)
  BY <1>1, <1>3, <1>5 DEF GoodServer, LinkStates
<1>7. /\ SameSlaves(x.s, y.s) /\ y.s.b = x.s.b /\ y.s.repl_state = "CONNECT" /\ y.s.master = NULL
      /\ y.s.masterhost = x.s.masterhost
  BY <1>1, <1>5 DEF SameSlaves, GoodServer
<1>8. Unlinked(y.s)
  BY <1>2, <1>7 DEF Unlinked
<1> QED BY <1>1, <1>2, <1>5, <1>6, <1>7, <1>8, UnlinkFacts DEF Moved, net

\* Something changes on the link alone, and it is not less quiet than before.
Rewired(x, y, c, l) == y.s = x.s /\ y.net = [x.net EXCEPT ![c] = l]

LEMMA RewiredHalf ==
  ASSUME NEW n \in Node, NEW x, Half(n, x), Owns(n, x.s, x.net), HasLink(x.s), NEW c, c = LinkOf(x.s), NEW l \in ConnRec,
         l.r = x.net[c].r, l.m = x.net[c].m, l.ropen = x.net[c].ropen, l.mopen = x.net[c].mopen,
         NEW y, Shape(y), Rewired(x, y, c, l)
  PROVE  Half(n, y) /\ Owns(n, y.s, y.net) /\ Apart(n, x.net, y.net) /\ y.net[c] = l /\ y.s = x.s
<1> DEFINE k == x.net[c]
<1>1. c \in Conn /\ GoodNet(x.net) /\ k.r = n /\ k.ropen /\ GoodConn(k) /\ DOMAIN x.net = Conn
  BY DEF Half, Owns, GoodNet
<1>2. GoodConn(l)
  BY <1>1 DEF GoodConn
<1>3. y.s = x.s /\ DOMAIN y.net = Conn /\ y.net[c] = l /\ \A d \in Conn \ {c} : y.net[d] = x.net[d]
  BY <1>1 DEF Rewired
<1>4. GoodNet(y.net)
  BY <1>1, <1>2, <1>3 DEF GoodNet
<1>5. ReplicaSide(n, x.net, y.net)
  <2>1. ReplicaSideAt(n, k, l)
    BY <1>1 DEF ReplicaSideAt, ApartAt
  <2>2. \A d \in Conn : ReplicaSideAt(n, x.net[d], x.net[d])
    BY DEF ReplicaSideAt, ApartAt
  <2> QED BY <1>3, <2>1, <2>2 DEF ReplicaSide
<1>6. Half(n, y) /\ Apart(n, x.net, y.net)
  <2>1. GoodServer(y.s) /\ SameSlaves(x.s, y.s)
    BY <1>1, <1>3 DEF Half, SameSlaves
  <2> QED BY <1>1, <1>4, <1>5, <2>1, TurnHalf
<1>7. \A d \in Conn : y.net[d].r = n /\ y.net[d].ropen <=> x.net[d].r = n /\ x.net[d].ropen
  BY <1>3
<1>8. Owns(n, y.s, y.net)
  BY <1>1, <1>3, <1>7 DEF Owns
<1> QED BY <1>3, <1>6, <1>8

LEMMA RewiredFacts ==
  ASSUME NEW n \in Node, NEW x, GoodWorld(n, x), HasLink(x.s), NEW c, c = LinkOf(x.s), NEW l \in ConnRec,
         l.r = x.net[c].r, l.m = x.net[c].m, l.ropen = x.net[c].ropen, l.mopen = x.net[c].mopen,
         NEW y, Shape(y), Rewired(x, y, c, l), Early(x.s) => Quiet(l)
  PROVE  Moved(n, x, y)
<1>1. Half(n, x) /\ Owns(n, x.s, x.net)
  BY HalfOf
<1>2. Half(n, y) /\ Owns(n, y.s, y.net) /\ Apart(n, x.net, y.net) /\ y.net[c] = l /\ y.s = x.s
  BY <1>1, RewiredHalf
<1>3. GoodLink(n, y.s, y.net)
  BY <1>2 DEF GoodWorld, GoodLink, Owns
<1> QED BY <1>2, <1>3 DEF Moved, GoodWorld, Half, Shape, SameSlaves

\* Something is written to the master.
LEMMA SendToMFacts ==
  ASSUME NEW n \in Node, NEW x, Half(n, x), Owns(n, x.s, x.net), HasLink(x.s), NEW c, c = LinkOf(x.s),
         NEW msg \in Request, NEW z, z = WithNet(x, SendToM(x.net, c, msg))
  PROVE  /\ Half(n, z) /\ Owns(n, z.s, z.net) /\ Apart(n, x.net, z.net) /\ z.s = x.s /\ z.bad = x.bad /\ z.fork = x.fork
         /\ Quiet(x.net[c]) /\ (msg.t = "psync" => msg.runid = NULL) => Quiet(z.net[c])
<1> DEFINE k == x.net[c]
           l == [k EXCEPT !.toM = Append(k.toM, msg)]
           net == SendToM(x.net, c, msg)
<1>1. Shape(x) /\ GoodServer(x.s) /\ c \in Conn /\ k \in ConnRec /\ k.toM \in Seq(Request) /\ DOMAIN x.net = Conn
  BY DEF Half, Owns, GoodNet, GoodConn, ConnRec
<1>2. Append(k.toM, msg) \in Seq(Request)
  <2> HIDE DEF k
  <2> QED BY <1>1
<1>3. l \in ConnRec /\ l.toM = Append(k.toM, msg) /\ l.toR = k.toR
  <2> HIDE DEF k
  <2> QED BY <1>1, <1>2, ConnUpdated DEF ConnRec
<1>4. l.r = k.r /\ l.m = k.m /\ l.ropen = k.ropen /\ l.mopen = k.mopen
  <2> HIDE DEF k
  <2> QED BY <1>1 DEF ConnRec
<1>5. Quiet(k) /\ (msg.t = "psync" => msg.runid = NULL) => Quiet(l)
  <2> HAVE Quiet(k) /\ (msg.t = "psync" => msg.runid = NULL)
  <2> HIDE DEF k, l
  <2>1. \A i \in DOMAIN l.toM : l.toM[i] = msg \/ (i \in DOMAIN k.toM /\ l.toM[i] = k.toM[i])
    BY <1>1, <1>3
  <2> QED BY <1>3, <2>1 DEF Quiet
<1>6. net \in {x.net, [x.net EXCEPT ![c] = l]}
  BY DEF SendToM
<1> HIDE DEF net, l
<1>7. Shape(z) /\ z.s = x.s /\ z.net = net /\ z.bad = x.bad /\ z.fork = x.fork
  BY <1>1 DEF WithNet, Shape, net
<1>8. CASE net = x.net
  <2>1. Half(n, z) /\ Owns(n, z.s, z.net)
    BY <1>1, <1>7, <1>8 DEF Half, Owns
  <2>2. Apart(n, x.net, z.net)
    BY <1>7, <1>8 DEF Apart, ApartAt
  <2> QED BY <1>7, <1>8, <2>1, <2>2
<1>9. CASE net = [x.net EXCEPT ![c] = l]
  <2>1. Rewired(x, z, c, l)
    BY <1>7, <1>9 DEF Rewired
  <2>2. Half(n, z) /\ Owns(n, z.s, z.net) /\ Apart(n, x.net, z.net) /\ z.net[c] = l
    BY <1>3, <1>4, <1>7, <2>1, RewiredHalf
  <2> QED BY <1>5, <1>7, <2>2
<1> QED BY <1>6, <1>8, <1>9

LEMMA TookFacts ==
  ASSUME NEW n \in Node, NEW x, GoodWorld(n, x), HasLink(x.s), NEW c, c = LinkOf(x.s), NEW rep,
         NEW y, y = Took(x, c, rep)
  PROVE  Moved(n, x, y) /\ y.s = x.s /\ y.bad = x.bad /\ y.fork = x.fork
<1> DEFINE k == x.net[c]
           q == IF k.toR # <<>> /\ rep = Head(k.toR) THEN Tail(k.toR) ELSE <<>>
           l == [k EXCEPT !.toR = q]
<1>1. c \in Conn /\ k \in ConnRec /\ k.toR \in Seq(Item) /\ Shape(x) /\ DOMAIN x.net = Conn
  BY DEF GoodWorld, GoodNet, GoodLink, GoodConn, ConnRec, Shape
<1>2. y = [x EXCEPT !.net[c] = l]
  BY DEF Took
<1>3. q \in Seq(Item) /\ ToSet(q) \subseteq ToSet(k.toR)
  <2>1. CASE k.toR # <<>> /\ rep = Head(k.toR)
    <3>1. q = Tail(k.toR)
      BY <2>1
    <3> HIDE DEF k
    <3>2. Tail(k.toR) \in Seq(Item) /\ \A i \in DOMAIN Tail(k.toR) : Tail(k.toR)[i] = k.toR[i + 1] /\ i + 1 \in DOMAIN k.toR
      BY <1>1, <2>1
    <3> QED BY <3>1, <3>2 DEF ToSet
  <2>2. CASE ~(k.toR # <<>> /\ rep = Head(k.toR))
    <3>1. q = <<>>
      BY <2>2
    <3>2. ToSet(<<>>) = {}
      BY DEF ToSet
    <3>3. <<>> \in Seq(Item)
      OBVIOUS
    <3> QED BY <3>1, <3>2, <3>3
  <2> QED BY <2>1, <2>2
<1> HIDE DEF q
<1>4. l \in ConnRec
  <2> HIDE DEF k
  <2> QED BY <1>1, <1>3, ConnUpdated
<1>5. l.r = k.r /\ l.m = k.m /\ l.ropen = k.ropen /\ l.mopen = k.mopen /\ l.toM = k.toM /\ l.toR = q
  <2> HIDE DEF k
  <2> QED BY <1>1 DEF ConnRec
<1> HIDE DEF l, k
<1>6. Quiet(k) => Quiet(l)
  BY <1>3, <1>5 DEF Quiet
<1>7. Shape(y) /\ Rewired(x, y, c, l) /\ y.s = x.s /\ y.bad = x.bad /\ y.fork = x.fork
  BY <1>1, <1>2 DEF Shape, Rewired
<1>8. Early(x.s) => Quiet(l)
  BY <1>6 DEF GoodWorld, GoodLink, k
<1>9. Moved(n, x, y)
  BY <1>4, <1>5, <1>7, <1>8, RewiredFacts DEF k
<1> QED BY <1>7, <1>9

\* The states of a link and what comes with each
Proper(s) ==
  /\ s.master # NULL <=> s.repl_state = "CONNECTED"
  /\ s.master # NULL \/ s.repl_state = "TRANSFER" => s.cached_master = NULL
  /\ s.masterhost # NULL

\* The link stays and its state changes.
LEMMA TurnFacts ==
  ASSUME NEW n \in Node, NEW z, Half(n, z), Owns(n, z.s, z.net), HasLink(z.s), NEW y, Shape(y), GoodServer(y.s),
         SameSlaves(z.s, y.s), y.s.b = z.s.b, y.net = z.net, HasLink(y.s), LinkOf(y.s) = LinkOf(z.s), Proper(y.s),
         Early(y.s) => Quiet(z.net[LinkOf(z.s)])
  PROVE  Moved(n, z, y)
<1>1. Half(n, y) /\ Apart(n, z.net, y.net)
  BY TurnHalf, ReplicaSideSelf DEF Half
<1>2. y.s.repl_state # "NONE"
  BY DEF HasLink
<1>3. GoodLink(n, y.s, y.net)
  BY <1>2 DEF Owns, GoodLink, Proper
<1> QED BY <1>1, <1>3 DEF Moved, GoodWorld, Half, Shape

LEMMA AskFacts ==
  ASSUME NEW n \in Node, NEW x, GoodWorld(n, x), Attempt(x.s), Early(x.s), NEW msg \in Request,
         NEW state \in {"RECEIVE_PONG", "RECEIVE_AUTH", "RECEIVE_PORT", "RECEIVE_IP", "RECEIVE_CAPA", "RECEIVE_PSYNC"},
         msg.t = "psync" /\ msg.runid # NULL => state = "RECEIVE_PSYNC" /\ x.s.cached_master # NULL,
         NEW y, y = Ask(x, msg, state)
  PROVE  Moved(n, x, y)
<1> DEFINE c == x.s.transfer_s
           k == x.net[c]
           z == WithNet(x, SendToM(x.net, c, msg))
<1>1. Half(n, x) /\ Owns(n, x.s, x.net) /\ Shape(x) /\ GoodServer(x.s)
  BY HalfOf DEF Half
<1>2. HasLink(x.s) /\ LinkOf(x.s) = c
  BY DEF Attempt, HasLink, LinkOf
<1>3. c \in Conn /\ k \in ConnRec /\ k.toM \in Seq(Request) /\ DOMAIN x.net = Conn /\ Quiet(k)
  BY <1>1, <1>2 DEF GoodWorld, GoodNet, GoodLink, GoodConn, ConnRec
<1>4. CASE c \in x.bad
  <2>1. y = SyncError(x)
    BY <1>4 DEF Ask
  <2> QED BY <1>1, <2>1, SyncErrorFacts
<1>5. CASE c \notin x.bad
  <2>1. y = [z EXCEPT !.s.repl_state = state] /\ z = WithNet(x, SendToM(x.net, c, msg))
    BY <1>5 DEF Ask, WithNet
  <2> HIDE DEF z, c
  <2>7. Shape(z) /\ z.s = x.s
    BY <1>1, <1>2, <2>1, SendToMFacts DEF Half
  <2>8. /\ Half(n, z) /\ Owns(n, z.s, z.net) /\ Apart(n, x.net, z.net)
        /\ (msg.t = "psync" => msg.runid = NULL) => Quiet(z.net[c])
    BY <1>1, <1>2, <1>3, <2>1, SendToMFacts, SMTT(60)
  <2>9. Shape(y) /\ y.net = z.net /\ y.s = [x.s EXCEPT !.repl_state = state]
    BY <2>1, <2>7 DEF Shape
  <2>10. GoodServer(y.s)
    BY <1>1, <2>9 DEF GoodServer, LinkStates
  <2>11. /\ SameSlaves(z.s, y.s) /\ y.s.b = z.s.b /\ y.s.repl_state = state /\ y.s.master = x.s.master
         /\ y.s.cached_master = x.s.cached_master /\ y.s.masterhost = x.s.masterhost /\ y.s.transfer_s = x.s.transfer_s
    BY <1>1, <2>7, <2>9 DEF SameSlaves, GoodServer
  <2>12. HasLink(y.s) /\ LinkOf(y.s) = LinkOf(z.s) /\ Proper(y.s) /\ HasLink(z.s)
    BY <1>2, <2>7, <2>11 DEF HasLink, LinkOf, Proper, Attempt
  <2>13. Early(y.s) => Quiet(z.net[LinkOf(z.s)])
    BY <1>2, <2>7, <2>8, <2>11 DEF Early
  <2>14. Moved(n, z, y)
    BY <2>8, <2>9, <2>10, <2>11, <2>12, <2>13, TurnFacts
  <2> QED BY <2>7, <2>8, <2>14, ApartTrans DEF Moved, SameSlaves
<1> QED BY <1>4, <1>5

\* Other fields change.
LEMMA SameLinkFacts ==
  ASSUME NEW n \in Node, NEW x, GoodWorld(n, x), NEW y, Shape(y), GoodServer(y.s), LinkSame(x.s, y.s),
         SameSlaves(x.s, y.s), y.s.b = x.s.b, y.net = x.net
  PROVE  Moved(n, x, y)
<1>1. Half(n, y) /\ Apart(n, x.net, y.net)
  BY HalfOf, TurnHalf, ReplicaSideSelf DEF Half
<1>2. GoodLink(n, y.s, y.net)
  BY DEF GoodWorld, GoodLink, LinkSame, HasLink, LinkOf, Early
<1> QED BY <1>1, <1>2 DEF Moved, GoodWorld, Half, Shape

LEMMA MovedStep ==
  ASSUME NEW n \in Node, NEW x, NEW y, WithBacklog(x.s), Moved(n, x, y)
  PROVE  Step(n, x, y)
<1>1. GoodWorld(n, y) /\ y.s.b = x.s.b /\ GoodBacklog(x.s.b)
  BY DEF Moved, GoodWorld, GoodServer
<1> QED BY <1>1, LaterSelf DEF Step, Sane, Moved, SameSlaves, WithBacklog

LEMMA MovedKeeps ==
  ASSUME LinkInv, NEW n \in Node, NEW w \in Worlds(n), NEW y, Moved(n, w, y), Becomes(n, y), Counting'
  PROVE  Kept
<1>1. WithBacklog(w.s) /\ w.net = conn /\ w.s = server[n]
  BY ManyWorlds
<1>2. Step(n, w, y)
  BY <1>1, MovedStep
<1>3. Step(n, World(n, {}), y)
  BY <1>1, <1>2 DEF Step, Sane, World
<1> QED BY <1>3, StepKeeps

LEMMA RequestTypes ==
  \A kind \in {"ping", "auth", "port", "ip", "capa", "sync"} :
    Reply(kind) \in Request /\ Reply(kind).t = kind
BY DEF Request, Reply

LEMMA AskPlain ==
  ASSUME NEW n \in Node, NEW x, GoodWorld(n, x), Attempt(x.s), Early(x.s),
         NEW kind \in {"ping", "auth", "port", "ip", "capa"},
         NEW state \in {"RECEIVE_PONG", "RECEIVE_AUTH", "RECEIVE_PORT", "RECEIVE_IP", "RECEIVE_CAPA"},
         NEW y, y = Ask(x, Reply(kind), state)
  PROVE  Moved(n, x, y)
<1> DEFINE msg == Reply(kind)
<1>1. msg \in Request /\ msg.t # "psync" /\ y = Ask(x, msg, state)
  BY RequestTypes
<1> HIDE DEF msg
<1> QED BY <1>1, AskFacts

LEMMA AskPsyncFacts ==
  ASSUME NEW n \in Node, NEW x, GoodWorld(n, x), Attempt(x.s), Early(x.s), NEW y, y = AskPsync(x)
  PROVE  Moved(n, x, y)
<1> DEFINE z == [x EXCEPT !.s.initial_offset = -1]
           cached == x.s.cached_master
           msg == IF cached = NULL THEN [t |-> "psync", runid |-> NULL, offset |-> -1]
                  ELSE [t |-> "psync", runid |-> cached.replrunid, offset |-> cached.reploff + 1]
<1>1. y = Ask(z, msg, "RECEIVE_PSYNC")
  BY DEF AskPsync
<1>2. Shape(x) /\ GoodServer(x.s)
  BY HalfOf DEF Half
<1>3. Shape(z) /\ z.net = x.net /\ z.s = [x.s EXCEPT !.initial_offset = -1]
  BY <1>2 DEF Shape
<1>4. msg \in Request /\ (msg.runid # NULL => cached # NULL)
  <2>1. CASE cached = NULL
    BY <2>1 DEF Request
  <2>2. CASE cached # NULL
    <3>1. cached \in MasterClient
      BY <1>2, <2>2 DEF GoodServer
    <3>2. cached.replrunid \in RunId \cup {NULL} /\ cached.reploff + 1 \in Int
      <4> HIDE DEF cached
      <4> QED BY <3>1 DEF MasterClient
    <3> QED BY <2>2, <3>2 DEF Request
  <2> QED BY <2>1, <2>2
<1> HIDE DEF z, msg
<1>5. GoodServer(z.s)
  BY <1>2, <1>3 DEF GoodServer
<1>6. LinkSame(x.s, z.s) /\ SameSlaves(x.s, z.s) /\ z.s.b = x.s.b
  BY <1>2, <1>3 DEF LinkSame, SameSlaves, GoodServer
<1>7. Moved(n, x, z)
  BY <1>3, <1>5, <1>6, SameLinkFacts
<1>8. GoodWorld(n, z) /\ Attempt(z.s) /\ Early(z.s) /\ z.s.cached_master = cached
  BY <1>6, <1>7 DEF Moved, Attempt, Early, LinkSame
<1>9. Moved(n, z, y)
  <2> HIDE DEF cached
  <2> QED BY <1>1, <1>4, <1>8, AskFacts
<1> QED BY <1>7, <1>9, MovedTrans

LEMMA SendPingKeeps ==
  ASSUME LinkInv, NEW n \in Node, SendPing(n)
  PROVE  Kept
<1>1. PICK x \in Worlds(n) : Becomes(n, Ask(x, Reply("ping"), "RECEIVE_PONG"))
  BY DEF SendPing
<1>2. GoodWorld(n, x) /\ x.s.repl_state = "CONNECTING" /\ UNCHANGED count
  BY ManyWorlds DEF SendPing
<1>3. Attempt(x.s) /\ Early(x.s)
  BY <1>2, AttemptFacts DEF Early
<1>4. Moved(n, x, Ask(x, Reply("ping"), "RECEIVE_PONG"))
  BY <1>2, <1>3, AskPlain
<1> QED BY <1>1, <1>2, <1>4, MovedKeeps, Counts

LEMMA SocketErrorKeeps ==
  ASSUME LinkInv, NEW n \in Node, SocketError(n)
  PROVE  Kept
<1> DEFINE w == World(n, {})
           y == SyncError(w)
<1>1. w \in Worlds(n) /\ GoodWorld(n, w) /\ w.s = server[n]
  BY Home DEF Worlds
<1>2. Becomes(n, y) /\ UNCHANGED count /\ Attempt(w.s)
  BY <1>1, AttemptFacts DEF SocketError
<1> HIDE DEF w
<1>3. Moved(n, w, y)
  BY <1>1, <1>2, HalfOf, SyncErrorFacts
<1> QED BY <1>1, <1>2, <1>3, MovedKeeps, Counts

LEMMA MasterLostKeeps ==
  ASSUME LinkInv, NEW n \in Node, MasterLost(n)
  PROVE  Kept
<1> DEFINE w == World(n, {})
           y == replicationCacheMaster(w)
<1>1. w \in Worlds(n) /\ GoodWorld(n, w) /\ w.s = server[n]
  BY Home DEF Worlds
<1>2. Becomes(n, y) /\ UNCHANGED count /\ w.s.master # NULL
  BY <1>1 DEF MasterLost
<1> HIDE DEF w
<1>3. Moved(n, w, y)
  BY <1>1, <1>2, CacheFacts
<1> QED BY <1>1, <1>2, <1>3, MovedKeeps, Counts

\* An answer that is read is one on the wire, or an error.
LEMMA AnswersFacts ==
  ASSUME GoodNet(conn), NEW c \in Conn, NEW rep \in Answers(c)
  PROVE  rep \in Item /\ (rep.t = "continue" => ~Quiet(conn[c]))
<1> DEFINE q == conn[c].toR
<1>1. q \in Seq(Item) /\ Len(q) \in Nat
  BY DEF GoodNet, GoodConn, ConnRec
<1>2. CASE rep = Reply("err")
  BY <1>2 DEF Reply, Item, Payload
<1>3. ASSUME NEW i \in 1..Min({1, Len(q)}), rep = q[i]
      PROVE  rep \in Item /\ (rep.t = "continue" => ~Quiet(conn[c]))
  <2>1. Min({1, Len(q)}) <= Len(q) /\ Min({1, Len(q)}) \in Int
    <3> DEFINE L == Len(q)
    <3>1. L \in Int /\ 1 \in Int
      BY <1>1
    <3> HIDE DEF L
    <3>2. Min({1, L}) = IF 1 <= L THEN 1 ELSE L
      BY <3>1, MaxOfTwo
    <3> QED BY <3>1, <3>2 DEF L
  <2>2. i \in DOMAIN q
    BY <1>1, <2>1
  <2>3. rep \in Item /\ rep \in ToSet(q)
    BY <1>1, <1>3, <2>2 DEF ToSet
  <2>4. rep.t = "continue" => rep = Reply("continue")
    BY <2>3 DEF Item, Payload, Answer, Byte, Reply
  <2> QED BY <2>3, <2>4 DEF Quiet
<1> QED BY <1>2, <1>3 DEF Answers

LEMMA HandshakeKeeps ==
  ASSUME LinkInv, NEW n \in Node, Handshake(n)
  PROVE  Kept
<1> DEFINE st == server[n].repl_state
           c == server[n].transfer_s
<1>1. InHandshake(server[n]) /\ st # "RECEIVE_PSYNC" /\ UNCHANGED count
  BY DEF Handshake
<1>2. PICK w \in Worlds(n), rep \in Answers(c) :
        Becomes(n, CASE st = "RECEIVE_PONG" -> AfterPong(Took(w, c, rep), n, rep)
                     [] st = "RECEIVE_AUTH" -> AfterAuth(Took(w, c, rep), n, rep)
                     [] st = "RECEIVE_PORT" -> AfterPort(Took(w, c, rep), n, rep)
                     [] st = "RECEIVE_IP"   -> AfterIp(Took(w, c, rep), n, rep)
                     [] st = "RECEIVE_CAPA" -> AfterCapa(Took(w, c, rep), n, rep))
  BY DEF Handshake
<1> DEFINE x == Took(w, c, rep)
<1>3. GoodWorld(n, w) /\ w.s = server[n]
  BY ManyWorlds
<1>4. Attempt(w.s) /\ HasLink(w.s) /\ LinkOf(w.s) = c
  BY <1>1, <1>3, AttemptFacts DEF HasLink, LinkOf, Attempt
<1>5. x = Took(w, c, rep)
  OBVIOUS
<1> HIDE DEF x, c
<1>6. Moved(n, w, x) /\ x.s = w.s
  BY <1>3, <1>4, <1>5, TookFacts
<1>7. GoodWorld(n, x) /\ Attempt(x.s) /\ Early(x.s)
  BY <1>1, <1>3, <1>4, <1>6 DEF Moved, Early, InHandshake
<1>8. ASSUME NEW y, Moved(n, x, y), Becomes(n, y) PROVE Kept
  <2>1. Moved(n, w, y)
    BY <1>6, <1>8, MovedTrans
  <2> QED BY <1>1, <1>8, <2>1, MovedKeeps, Counts
<1>9. ASSUME NEW kind \in {"ping", "auth", "port", "ip", "capa"},
             NEW state \in {"RECEIVE_PONG", "RECEIVE_AUTH", "RECEIVE_PORT", "RECEIVE_IP", "RECEIVE_CAPA"},
             Becomes(n, Ask(x, Reply(kind), state))
      PROVE  Kept
  <2>1. Moved(n, x, Ask(x, Reply(kind), state))
    BY <1>7, AskPlain
  <2> QED BY <1>8, <1>9, <2>1
<1>10. ASSUME Becomes(n, SyncError(x)) PROVE Kept
  <2>1. Moved(n, x, SyncError(x))
    BY <1>7, HalfOf, SyncErrorFacts
  <2> QED BY <1>8, <1>10, <2>1
<1>11. ASSUME Becomes(n, AskPsync(x)) PROVE Kept
  <2>1. Moved(n, x, AskPsync(x))
    BY <1>7, AskPsyncFacts
  <2> QED BY <1>8, <1>11, <2>1
<1>12. CASE st = "RECEIVE_PONG"
  <2>1. Becomes(n, AfterPong(x, n, rep))
    BY <1>2, <1>12 DEF x
  <2> QED BY <1>9, <1>10, <2>1 DEF AfterPong, AskPort
<1>13. CASE st = "RECEIVE_AUTH"
  <2>1. Becomes(n, AfterAuth(x, n, rep))
    BY <1>2, <1>13 DEF x
  <2> QED BY <1>9, <1>10, <2>1 DEF AfterAuth, AskPort
<1>14. CASE st = "RECEIVE_PORT"
  <2>1. Becomes(n, AfterPort(x, n, rep))
    BY <1>2, <1>14 DEF x
  <2> QED BY <1>9, <1>10, <2>1 DEF AfterPort, AskCapa
<1>15. CASE st = "RECEIVE_IP"
  <2>1. Becomes(n, AfterIp(x, n, rep))
    BY <1>2, <1>15 DEF x
  <2> QED BY <1>9, <2>1 DEF AfterIp, AskCapa
<1>16. CASE st = "RECEIVE_CAPA"
  <2>1. Becomes(n, AfterCapa(x, n, rep))
    BY <1>2, <1>16 DEF x
  <2> QED BY <1>11, <2>1 DEF AfterCapa
<1>17. st \in {"RECEIVE_PONG", "RECEIVE_AUTH", "RECEIVE_PORT", "RECEIVE_IP", "RECEIVE_CAPA"}
  BY <1>1 DEF InHandshake
<1> QED BY <1>12, <1>13, <1>14, <1>15, <1>16, <1>17

-----------------------------------------------------------------------------
(* The answer to PSYNC.                                                    *)

LEMMA ServesOwns ==
  ASSUME NEW n \in Node, NEW x, NEW y, Owns(n, x.s, x.net), Serves(n, x, y)
  PROVE  Half(n, y) /\ Owns(n, y.s, y.net) /\ Apart(n, x.net, y.net) /\ LinkSame(x.s, y.s)
<1>1. \A c \in Conn : y.net[c].r = n /\ y.net[c].ropen <=> x.net[c].r = n /\ x.net[c].ropen
  BY DEF Serves, MasterSide, MasterSideAt
<1>2. LinkSame(x.s, y.s) /\ HasLink(y.s) = HasLink(x.s) /\ LinkOf(y.s) = LinkOf(x.s)
  BY DEF Serves, Outside, LinkSame, HasLink, LinkOf
<1>3. Apart(n, x.net, y.net)
  BY DEF Serves, MasterSide, MasterSideAt, Apart, ApartAt
<1> QED BY <1>1, <1>2, <1>3 DEF Serves, Half, Owns

LEMMA FreeBacklogFacts ==
  ASSUME NEW b, GoodBacklog(b), NEW offset \in Int
  PROVE  /\ GoodBacklog(freeReplicationBacklog(b)) /\ freeReplicationBacklog(b).buf = NULL
         /\ GoodBacklog([freeReplicationBacklog(b) EXCEPT !.offset = offset])
         /\ [freeReplicationBacklog(b) EXCEPT !.offset = offset].buf = NULL
BY DEF GoodBacklog, freeReplicationBacklog

\* An attempt, whatever may still be on its link
Trying(n, x) == Half(n, x) /\ Owns(n, x.s, x.net) /\ Attempt(x.s)

\* The replica's own replicas and its backlog go.
Cleared(x) == SetBacklog(disconnectSlaves(x), freeReplicationBacklog(disconnectSlaves(x).s.b))

LEMMA ClearedFacts ==
  ASSUME NEW n \in Node, NEW x, Half(n, x), NEW y, y = Cleared(x)
  PROVE  Serves(n, x, y) /\ y.s.slaves = <<>> /\ y.s.b.buf = NULL
<1> DEFINE d == disconnectSlaves(x)
           b == freeReplicationBacklog(d.s.b)
<1>1. d = disconnectSlaves(x) /\ y = SetBacklog(d, b)
  BY DEF Cleared
<1> HIDE DEF d
<1>2. Serves(n, x, d) /\ d.s.slaves = <<>>
  BY <1>1, DisconnectHalf
<1>3. GoodBacklog(b) /\ b.buf = NULL
  BY <1>2, FreeBacklogFacts DEF Serves, GoodServer, GoodBacklog, freeReplicationBacklog
<1>4. Half(n, d)
  BY <1>2 DEF Serves, Half
<1> HIDE DEF b
<1>5. Serves(n, d, y) /\ y.s.slaves = <<>> /\ y.s.b = b
  BY <1>1, <1>2, <1>3, <1>4, SetBacklogHalf
<1> QED BY <1>2, <1>3, <1>5, ServesTrans

LEMMA TryingCleared ==
  ASSUME NEW n \in Node, NEW x, Trying(n, x), NEW z, z = Cleared(x)
  PROVE  /\ Trying(n, z) /\ z.s.slaves = <<>> /\ Apart(n, x.net, z.net) /\ LinkSame(x.s, z.s)
         /\ \A y : Moved(n, z, y) => Step(n, x, y)
<1>1. Serves(n, x, z) /\ z.s.slaves = <<>> /\ z.s.b.buf = NULL
  BY ClearedFacts DEF Trying
<1>2. Half(n, z) /\ Owns(n, z.s, z.net) /\ Apart(n, x.net, z.net) /\ LinkSame(x.s, z.s)
  BY <1>1, ServesOwns DEF Trying
<1>3. Attempt(z.s)
  BY <1>2 DEF Trying, Attempt, LinkSame
<1>4. ASSUME NEW y, Moved(n, z, y) PROVE Step(n, x, y)
  <2>1. WithBacklog(z.s)
    BY <1>1 DEF WithBacklog
  <2>2. Step(n, z, y)
    BY <1>4, <2>1, MovedStep
  <2>3. Later(x.s.b, y.s.b)
    BY <1>1, <1>4 DEF Moved, Later
  <2> QED BY <1>2, <2>2, <2>3, ApartTrans DEF Step, Sane
<1> QED BY <1>1, <1>2, <1>3, <1>4 DEF Trying

LEMMA StartTransferFacts ==
  ASSUME NEW n \in Node, NEW x, Trying(n, x), x.s.cached_master = NULL, NEW opens \in BOOLEAN,
         NEW y, y = StartTransfer(x, opens)
  PROVE  Step(n, x, y)
<1> DEFINE z == Cleared(x)
           file == <<>>
<1>1. z = Cleared(x) /\ file \in Seq(Item)
  OBVIOUS
<1>2. y = IF ~opens THEN SyncError(z)
          ELSE [z EXCEPT !.s.repl_state = "TRANSFER", !.s.transfer_size = -1, !.s.file = file]
  BY DEF StartTransfer, Cleared, SetBacklog
<1> HIDE DEF z, file
<1>3. /\ Trying(n, z) /\ LinkSame(x.s, z.s) /\ Half(n, z) /\ Owns(n, z.s, z.net) /\ Attempt(z.s)
      /\ \A v : Moved(n, z, v) => Step(n, x, v)
  BY <1>1, TryingCleared DEF Trying
<1>4. CASE ~opens
  <2>1. Moved(n, z, y)
    BY <1>2, <1>3, <1>4, SyncErrorFacts
  <2> QED BY <1>3, <2>1
<1>5. CASE opens
  <2>1. Shape(z) /\ GoodServer(z.s)
    BY <1>3 DEF Half
  <2>2. /\ Shape(y) /\ y.net = z.net
        /\ y.s = [z.s EXCEPT !.repl_state = "TRANSFER", !.transfer_size = -1, !.file = file]
    BY <1>2, <1>5, <2>1 DEF Shape
  <2>3. GoodServer(y.s)
    BY <1>1, <2>1, <2>2 DEF GoodServer, LinkStates
  <2>4. /\ SameSlaves(z.s, y.s) /\ y.s.b = z.s.b /\ y.s.repl_state = "TRANSFER" /\ y.s.master = z.s.master
        /\ y.s.cached_master = z.s.cached_master /\ y.s.masterhost = z.s.masterhost /\ y.s.transfer_s = z.s.transfer_s
    BY <2>1, <2>2 DEF SameSlaves, GoodServer
  <2>5. HasLink(y.s) /\ LinkOf(y.s) = LinkOf(z.s) /\ Proper(y.s) /\ HasLink(z.s) /\ ~Early(y.s)
    BY <1>3, <2>4 DEF HasLink, LinkOf, Proper, Attempt, LinkSame, Early
  <2>6. Moved(n, z, y)
    BY <1>3, <2>2, <2>3, <2>4, <2>5, TurnFacts
  <2> QED BY <1>3, <2>6
<1> QED BY <1>4, <1>5

\* The cached master goes, and what was answered is kept.
Told(x, runid, offset) ==
  [x EXCEPT !.s.master_runid = runid, !.s.initial_offset = offset, !.s.cached_master = NULL]

LEMMA DiscardFacts ==
  ASSUME NEW n \in Node, NEW x, Trying(n, x), NEW runid \in RunId \cup {NULL}, NEW offset \in Int, NEW y,
         y = Told(x, runid, offset)
  PROVE  /\ Trying(n, y) /\ y.s.cached_master = NULL /\ y.net = x.net /\ y.s.transfer_s = x.s.transfer_s /\ y.bad = x.bad
         /\ y.s.b = x.s.b
<1>1. Shape(x) /\ GoodServer(x.s) /\ Half(n, x)
  BY DEF Trying, Half
<1>2. /\ Shape(y) /\ y.net = x.net /\ y.bad = x.bad
      /\ y.s = [x.s EXCEPT !.master_runid = runid, !.initial_offset = offset, !.cached_master = NULL]
  BY <1>1 DEF Shape, Told
<1>3. GoodServer(y.s)
  BY <1>1, <1>2 DEF GoodServer
<1>4. /\ SameSlaves(x.s, y.s) /\ y.s.repl_state = x.s.repl_state /\ y.s.master = x.s.master
      /\ y.s.cached_master = NULL /\ y.s.masterhost = x.s.masterhost /\ y.s.transfer_s = x.s.transfer_s
      /\ y.s.b = x.s.b
  BY <1>1, <1>2 DEF SameSlaves, GoodServer
<1>5. Half(n, y)
  <2>1. ReplicaSide(n, x.net, y.net) /\ GoodNet(y.net)
    BY <1>1, <1>2, ReplicaSideSelf DEF Half
  <2> QED BY <1>1, <1>2, <1>3, <1>4, <2>1, TurnHalf
<1>6. Owns(n, y.s, y.net) /\ Attempt(y.s)
  BY <1>2, <1>4 DEF Trying, Owns, HasLink, LinkOf, Attempt
<1> QED BY <1>2, <1>4, <1>5, <1>6 DEF Trying

LEMMA NotSupportedFacts ==
  ASSUME NEW n \in Node, NEW x, Trying(n, x), NEW opens \in BOOLEAN, NEW y, y = AfterNotSupported(x, opens)
  PROVE  Step(n, x, y)
<1> DEFINE v == replicationDiscardCachedMaster(x)
           c == x.s.transfer_s
           msg == Reply("sync")
           z == WithNet(v, SendToM(v.net, c, msg))
           d == Cleared(v)
<1>1. /\ c \in x.bad => y = SyncError(d)
      /\ c \notin x.bad => y = StartTransfer(z, opens)
      /\ z = WithNet(v, SendToM(v.net, c, msg)) /\ d = Cleared(v)
  BY DEF AfterNotSupported, WithNet, Cleared, SetBacklog
<1>2. /\ Trying(n, v) /\ v.s.cached_master = NULL /\ v.net = x.net /\ v.s.transfer_s = c
      /\ v.s.b = x.s.b
  <2> DEFINE runid == x.s.master_runid
             offset == x.s.initial_offset
  <2>1. Shape(x) /\ GoodServer(x.s) /\ runid \in RunId \cup {NULL} /\ offset \in Int
    BY DEF Trying, Half, GoodServer
  <2>2. v = Told(x, runid, offset)
    BY <2>1 DEF replicationDiscardCachedMaster, Shape, GoodServer, Told
  <2> HIDE DEF runid, offset, v
  <2> QED BY <2>1, <2>2, DiscardFacts
<1>3. msg \in Request
  BY RequestTypes
<1> HIDE DEF v, c, z, d, msg
<1>4. CASE c \in x.bad
  <2>1. Trying(n, d) /\ \A u : Moved(n, d, u) => Step(n, v, u)
    BY <1>1, <1>2, TryingCleared
  <2>2. Moved(n, d, y)
    BY <1>1, <1>4, <2>1, SyncErrorFacts DEF Trying
  <2>3. Step(n, v, y)
    BY <2>1, <2>2
  <2> QED BY <1>2, <2>3 DEF Step, Sane
<1>5. CASE c \notin x.bad
  <2>1. Half(n, v) /\ Owns(n, v.s, v.net) /\ HasLink(v.s) /\ c = LinkOf(v.s)
    BY <1>2 DEF Trying, Attempt, HasLink, LinkOf
  <2>2. Half(n, z) /\ Owns(n, z.s, z.net) /\ Apart(n, v.net, z.net) /\ z.s = v.s
    BY <1>1, <1>3, <2>1, SendToMFacts
  <2>3. Trying(n, z) /\ z.s.cached_master = NULL
    BY <1>2, <2>2 DEF Trying
  <2>4. Step(n, z, y)
    BY <1>1, <1>5, <2>3, StartTransferFacts
  <2> QED BY <1>2, <2>2, <2>4, ApartTrans DEF Step, Sane
<1> QED BY <1>4, <1>5

LEMMA FullResyncAnswered ==
  ASSUME NEW n \in Node, NEW x, Trying(n, x), NEW rep \in Item, rep.t = "fullresync", NEW opens \in BOOLEAN,
         NEW y, y = AfterFullResync(x, rep, opens)
  PROVE  Step(n, x, y)
<1> DEFINE runid == rep.runid
           offset == rep.offset
           v == Told(x, runid, offset)
<1>1. runid \in RunId \cup {NULL} /\ offset \in Int
  BY DEF Item, Answer, Payload, Byte
<1>2. Shape(x) /\ GoodServer(x.s)
  BY DEF Trying, Half
<1>3. y = StartTransfer(v, opens)
  <2>1. v = replicationDiscardCachedMaster([x EXCEPT !.s.master_runid = runid, !.s.initial_offset = offset])
    BY <1>2 DEF replicationDiscardCachedMaster, Shape, GoodServer, Told
  <2> HIDE DEF v
  <2> QED BY <2>1 DEF AfterFullResync
<1>4. Trying(n, v) /\ v.s.cached_master = NULL /\ v.net = x.net /\ v.s.b = x.s.b
  <2> HIDE DEF runid, offset
  <2>1. v = Told(x, runid, offset)
    OBVIOUS
  <2> HIDE DEF v
  <2> QED BY <1>1, <2>1, DiscardFacts
<1> HIDE DEF v
<1>5. Step(n, v, y)
  BY <1>3, <1>4, StartTransferFacts
<1> QED BY <1>4, <1>5 DEF Step, Sane

\* The stream is taken up where it was left.
LEMMA ResurrectFacts ==
  ASSUME NEW n \in Node, NEW x, GoodWorld(n, x), Attempt(x.s), x.s.cached_master # NULL,
         NEW y, y = replicationResurrectCachedMaster(x)
  PROVE  Moved(n, x, y)
<1> DEFINE c == x.s.transfer_s
           master == [x.s.cached_master EXCEPT !.conn = c]
<1>1. Half(n, x) /\ Owns(n, x.s, x.net) /\ Shape(x) /\ GoodServer(x.s)
  BY HalfOf DEF Half
<1>2. HasLink(x.s) /\ LinkOf(x.s) = c /\ c \in Conn
  BY <1>1 DEF Attempt, HasLink, LinkOf, Owns
<1>3. master \in MasterClient /\ master.conn = c
  <2> DEFINE k == x.s.cached_master
  <2>1. k \in MasterClient
    BY <1>1 DEF GoodServer
  <2> HIDE DEF k, c
  <2>2. [k EXCEPT !.conn = c] \in MasterClient /\ [k EXCEPT !.conn = c].conn = c
    BY <1>2, <2>1 DEF MasterClient
  <2> QED BY <2>2 DEF k
<1>4. y = [x EXCEPT !.s.master = master, !.s.cached_master = NULL, !.s.repl_state = "CONNECTED"]
  BY DEF replicationResurrectCachedMaster
<1>5. master # NULL
  BY <1>3, ReplicationAssumption
<1> HIDE DEF master, c
<1>6. /\ Shape(y) /\ y.net = x.net
      /\ y.s = [x.s EXCEPT !.master = master, !.cached_master = NULL, !.repl_state = "CONNECTED"]
  BY <1>1, <1>4 DEF Shape
<1>7. GoodServer(y.s)
  BY <1>1, <1>3, <1>6 DEF GoodServer, LinkStates
<1>8. /\ SameSlaves(x.s, y.s) /\ y.s.b = x.s.b /\ y.s.repl_state = "CONNECTED" /\ y.s.master = master
      /\ y.s.cached_master = NULL /\ y.s.masterhost = x.s.masterhost
  BY <1>1, <1>6 DEF SameSlaves, GoodServer
<1>9. HasLink(y.s) /\ LinkOf(y.s) = LinkOf(x.s) /\ Proper(y.s) /\ ~Early(y.s)
  BY <1>2, <1>3, <1>5, <1>8 DEF HasLink, LinkOf, Proper, Attempt, Early
<1> QED BY <1>1, <1>2, <1>6, <1>7, <1>8, <1>9, TurnFacts

LEMMA ReceivePsyncKeeps ==
  ASSUME LinkInv, NEW n \in Node, NEW opens \in BOOLEAN, ReceivePsync(n, opens)
  PROVE  Kept
<1> DEFINE c == server[n].transfer_s
<1>1. server[n].repl_state = "RECEIVE_PSYNC" /\ Succeeds(opens)
  BY DEF ReceivePsync
<1>2. PICK w \in Worlds(n), rep \in Answers(c) : Becomes(n, AfterPsync(Took(w, c, rep), rep, opens))
  BY DEF ReceivePsync
<1> DEFINE x == Took(w, c, rep)
           y == AfterPsync(x, rep, opens)
<1>3. GoodWorld(n, w) /\ w.s = server[n] /\ w.net = conn /\ WithBacklog(w.s)
  BY ManyWorlds
<1>4. Attempt(w.s) /\ HasLink(w.s) /\ LinkOf(w.s) = c
  BY <1>1, <1>3, AttemptFacts DEF HasLink, LinkOf, Attempt, InHandshake
<1>5. c \in Conn /\ GoodNet(conn)
  BY <1>3, <1>4 DEF GoodWorld, GoodLink
<1>6. rep \in Item /\ (rep.t = "continue" => ~Quiet(conn[c]))
  <2> HIDE DEF c
  <2> QED BY <1>2, <1>5, AnswersFacts
<1>7. x = Took(w, c, rep) /\ y = AfterPsync(x, rep, opens) /\ Becomes(n, y)
  BY <1>2
<1> HIDE DEF x, c, y
<1>8. Moved(n, w, x) /\ x.s = w.s
  BY <1>3, <1>4, <1>7, TookFacts
<1>9. GoodWorld(n, x) /\ Trying(n, x) /\ Apart(n, w.net, x.net) /\ WithBacklog(x.s)
  BY <1>3, <1>4, <1>8, HalfOf DEF Moved, Trying
<1>10. Step(n, x, y)
  <2>1. CASE rep.t = "newline"
    <3>1. y = x
      BY <1>7, <2>1 DEF AfterPsync
    <3> QED BY <1>9, <3>1, MovedSelf, MovedStep
  <2>2. CASE rep.t = "fullresync"
    <3>1. y = AfterFullResync(x, rep, opens)
      BY <1>7, <2>2 DEF AfterPsync
    <3> QED BY <1>6, <1>9, <2>2, <3>1, FullResyncAnswered
  <2>3. CASE rep.t = "continue"
    <3>1. y = replicationResurrectCachedMaster(x)
      BY <1>7, <2>3 DEF AfterPsync
    <3>2. ~Early(w.s)
      BY <1>3, <1>4, <1>6, <2>3 DEF GoodWorld, GoodLink
    <3>3. x.s.cached_master # NULL
      BY <1>1, <1>3, <1>8, <3>2 DEF Early
    <3>4. Moved(n, x, y)
      BY <1>9, <3>1, <3>3, ResurrectFacts DEF Trying
    <3> QED BY <1>9, <3>4, MovedStep
  <2>4. CASE rep.t \notin {"newline", "fullresync", "continue"}
    <3>1. y = AfterNotSupported(x, opens)
      BY <1>7, <2>4 DEF AfterPsync
    <3> QED BY <1>9, <3>1, NotSupportedFacts
  <2> QED BY <2>1, <2>2, <2>3, <2>4
<1>11. Step(n, World(n, {}), y)
  BY <1>3, <1>8, <1>9, <1>10, Home, ApartTrans DEF Step, Sane
<1> QED BY <1>1, <1>7, <1>11, StepKeeps, Counts

-----------------------------------------------------------------------------
(* The transfer.                                                           *)

\* A transfer that is on
Receiving(n, x) == GoodWorld(n, x) /\ x.s.repl_state = "TRANSFER"

LEMMA ReceivingFacts ==
  ASSUME NEW n \in Node, NEW x, Receiving(n, x)
  PROVE  /\ Half(n, x) /\ Owns(n, x.s, x.net) /\ Shape(x) /\ GoodServer(x.s) /\ x.s.master = NULL
         /\ x.s.masterhost # NULL /\ HasLink(x.s) /\ LinkOf(x.s) = x.s.transfer_s /\ x.s.cached_master = NULL
         /\ x.s.transfer_s \in Conn
         /\ \A y : y = cancelReplicationHandshake(x) => Moved(n, x, y)
<1>1. /\ Half(n, x) /\ Owns(n, x.s, x.net) /\ Shape(x) /\ GoodServer(x.s) /\ x.s.master = NULL
      /\ x.s.masterhost # NULL /\ HasLink(x.s) /\ LinkOf(x.s) = x.s.transfer_s /\ x.s.cached_master = NULL
  BY HalfOf DEF Receiving, GoodWorld, GoodLink, HasLink, LinkOf, Half
<1>2. x.s.transfer_s \in Conn
  BY <1>1 DEF Owns
<1>3. \A y : y = cancelReplicationHandshake(x) => Moved(n, x, y)
  BY <1>1, CancelFacts DEF Receiving
<1> QED BY <1>1, <1>2, <1>3

Sized(x, size, mark) == [x EXCEPT !.s.transfer_size = size, !.s.usemark = mark]
Filled(x, file) == [x EXCEPT !.s.file = file]

LEMMA SizedFacts ==
  ASSUME NEW n \in Node, NEW x, Receiving(n, x), NEW size \in Int, NEW mark \in BOOLEAN, NEW y, y = Sized(x, size, mark)
  PROVE  Moved(n, x, y)
<1>1. Shape(x) /\ GoodServer(x.s) /\ GoodWorld(n, x)
  BY ReceivingFacts DEF Receiving
<1>2. Shape(y) /\ y.net = x.net /\ y.s = [x.s EXCEPT !.transfer_size = size, !.usemark = mark]
  BY <1>1 DEF Shape, Sized
<1>3. GoodServer(y.s)
  BY <1>1, <1>2 DEF GoodServer
<1>4. SameSlaves(x.s, y.s) /\ y.s.b = x.s.b /\ LinkSame(x.s, y.s)
  BY <1>1, <1>2 DEF SameSlaves, GoodServer, LinkSame
<1> QED BY <1>1, <1>2, <1>3, <1>4, SameLinkFacts

LEMMA FilledFacts ==
  ASSUME NEW n \in Node, NEW x, Receiving(n, x), NEW file \in Seq(Item), NEW y, y = Filled(x, file)
  PROVE  Moved(n, x, y)
<1>1. Shape(x) /\ GoodServer(x.s) /\ GoodWorld(n, x)
  BY ReceivingFacts DEF Receiving
<1>2. Shape(y) /\ y.net = x.net /\ y.s = [x.s EXCEPT !.file = file]
  BY <1>1 DEF Shape, Filled
<1>3. GoodServer(y.s)
  BY <1>1, <1>2 DEF GoodServer
<1>4. SameSlaves(x.s, y.s) /\ y.s.b = x.s.b /\ LinkSame(x.s, y.s)
  BY <1>1, <1>2 DEF SameSlaves, GoodServer, LinkSame
<1> QED BY <1>1, <1>2, <1>3, <1>4, SameLinkFacts

LEMMA LoadFacts ==
  ASSUME NEW n \in Node, NEW x, Receiving(n, x), NEW file \in Seq(Item), NEW y, y = LoadDataset(x, file)
  PROVE  Moved(n, x, y)
<1>1. Half(n, x) /\ Owns(n, x.s, x.net) /\ Shape(x) /\ GoodServer(x.s) /\ GoodWorld(n, x)
  BY ReceivingFacts DEF Receiving
<1>2. CASE ~Loadable(file)
  <2> DEFINE d == <<>>
             z == WithData(x, d)
  <2>1. y = cancelReplicationHandshake(z) /\ z = WithData(x, d)
    BY <1>2 DEF LoadDataset, WithData
  <2>2. d \in Dataset
    BY DEF Dataset
  <2> HIDE DEF d, z
  <2>3. GoodWorld(n, z) /\ z.net = x.net /\ z.s.slaves = x.s.slaves /\ z.s.b = x.s.b /\ LinkSame(x.s, z.s)
    BY <1>1, <2>1, <2>2, WithDataFacts
  <2>4. z.s.cli = x.s.cli
    BY <1>1, <2>1 DEF WithData, Shape, GoodServer
  <2>5. Moved(n, x, z)
    BY <2>3, <2>4 DEF Moved, SameSlaves, Apart, ApartAt
  <2>6. Receiving(n, z)
    BY <2>3 DEF Receiving, LinkSame
  <2>7. Moved(n, z, y)
    BY <2>1, <2>6, ReceivingFacts
  <2> QED BY <2>5, <2>7, MovedTrans
<1>3. CASE Loadable(file)
  <2> DEFINE d == file[1].data
             none == <<>>
             master == CreateMasterClient(x.s)
  <2>1. y = [x EXCEPT !.s.data = d, !.s.file = none, !.s.master = master, !.s.repl_state = "CONNECTED"]
    BY <1>3 DEF LoadDataset
  <2>2. d \in Dataset /\ none \in Seq(Item)
    <3>1. Len(file) = RdbLen /\ file[1].t = "rdb" /\ RdbLen \in Nat \ {0}
      BY <1>3, LengthAssumption DEF Loadable
    <3>2. file[1] \in Item
      BY <3>1
    <3> QED BY <3>1, <3>2 DEF Item, Payload, Answer, Byte
  <2>3. master \in MasterClient /\ master.conn = x.s.transfer_s
    <3>1. /\ x.s.transfer_s \in Conn \cup {NULL} /\ x.s.initial_offset \in Int
          /\ x.s.master_runid \in RunId \cup {NULL}
      BY <1>1 DEF GoodServer
    <3>2. <<>> \in Seq(Item)
      OBVIOUS
    <3> QED BY <3>1, <3>2 DEF CreateMasterClient, MasterClient
  <2>4. master # NULL
    BY <2>3, ReplicationAssumption
  <2> HIDE DEF d, none, master
  <2>5. /\ Shape(y) /\ y.net = x.net
        /\ y.s = [x.s EXCEPT !.data = d, !.file = none, !.master = master, !.repl_state = "CONNECTED"]
    BY <1>1, <2>1 DEF Shape
  <2>6. GoodServer(y.s)
    BY <1>1, <2>2, <2>3, <2>5 DEF GoodServer, LinkStates
  <2>7. /\ SameSlaves(x.s, y.s) /\ y.s.b = x.s.b /\ y.s.repl_state = "CONNECTED" /\ y.s.master = master
        /\ y.s.cached_master = x.s.cached_master /\ y.s.masterhost = x.s.masterhost
    BY <1>1, <2>5 DEF SameSlaves, GoodServer
  <2>8. HasLink(x.s) /\ HasLink(y.s) /\ LinkOf(y.s) = LinkOf(x.s) /\ Proper(y.s) /\ ~Early(y.s)
    BY <2>3, <2>4, <2>7, ReceivingFacts DEF HasLink, LinkOf, Proper, Early
  <2> QED BY <1>1, <2>5, <2>6, <2>7, <2>8, TurnFacts
<1> QED BY <1>2, <1>3

LEMMA TookManyFacts ==
  ASSUME NEW n \in Node, NEW x, GoodWorld(n, x), HasLink(x.s), NEW c, c = LinkOf(x.s), NEW m \in Nat,
         NEW y, y = TookMany(x, c, m)
  PROVE  Moved(n, x, y) /\ y.s = x.s
<1> DEFINE k == x.net[c]
           q == SubSeq(k.toR, m + 1, Len(k.toR))
           l == [k EXCEPT !.toR = q]
<1>1. c \in Conn /\ k \in ConnRec /\ k.toR \in Seq(Item) /\ Shape(x) /\ DOMAIN x.net = Conn
  BY DEF GoodWorld, GoodNet, GoodLink, GoodConn, ConnRec, Shape
<1>2. y = [x EXCEPT !.net[c] = l]
  BY DEF TookMany
<1>3. q \in Seq(Item) /\ ToSet(q) \subseteq ToSet(k.toR)
  <2> DEFINE s == k.toR
  <2>1. s \in Seq(Item)
    BY <1>1
  <2> HIDE DEF s
  <2>2. SubSeq(s, m + 1, Len(s)) \in Seq(Item) /\ ToSet(SubSeq(s, m + 1, Len(s))) \subseteq ToSet(s)
    BY <2>1 DEF ToSet
  <2> QED BY <2>2 DEF s
<1> HIDE DEF q
<1>4. l \in ConnRec
  <2> HIDE DEF k
  <2> QED BY <1>1, <1>3, ConnUpdated
<1>5. l.r = k.r /\ l.m = k.m /\ l.ropen = k.ropen /\ l.mopen = k.mopen /\ l.toM = k.toM /\ l.toR = q
  <2> HIDE DEF k
  <2> QED BY <1>1 DEF ConnRec
<1> HIDE DEF l, k
<1>6. Quiet(k) => Quiet(l)
  BY <1>3, <1>5 DEF Quiet
<1>7. Shape(y) /\ Rewired(x, y, c, l) /\ y.s = x.s
  BY <1>1, <1>2 DEF Shape, Rewired
<1>8. Early(x.s) => Quiet(l)
  BY <1>6 DEF GoodWorld, GoodLink, k
<1>9. Moved(n, x, y)
  BY <1>4, <1>5, <1>7, <1>8, RewiredFacts DEF k
<1> QED BY <1>7, <1>9

\* The line with the length of the file
LEMMA ReadLengthFacts ==
  ASSUME NEW n \in Node, NEW x, GoodWorld(n, x), Receiving(n, x), NEW rep \in Item,
         NEW y, y = ReadBulkLength(x, rep)
  PROVE  Moved(n, x, y)
<1>1. CASE rep.t = "newline"
  <2>1. y = x
    BY <1>1 DEF ReadBulkLength
  <2> QED BY <2>1, MovedSelf
<1>2. CASE rep.t = "bulklen"
  <2> DEFINE size == rep.n
  <2>1. y = Sized(x, size, FALSE)
    BY <1>2 DEF ReadBulkLength, Sized
  <2>2. size \in Int
    BY <1>2 DEF Item, Payload, Answer, Byte
  <2> HIDE DEF size
  <2>3. \A mark \in BOOLEAN : y = Sized(x, size, mark) => Moved(n, x, y)
    BY <2>2, SizedFacts
  <2> QED BY <2>1, <2>3
<1>3. CASE rep.t = "eofmark"
  <2> DEFINE size == 0
  <2>1. y = Sized(x, size, TRUE)
    BY <1>3 DEF ReadBulkLength, Sized
  <2>2. size \in Int
    OBVIOUS
  <2> HIDE DEF size
  <2>3. \A mark \in BOOLEAN : y = Sized(x, size, mark) => Moved(n, x, y)
    BY <2>2, SizedFacts
  <2> QED BY <2>1, <2>3
<1>4. CASE rep.t \notin {"newline", "bulklen", "eofmark"}
  <2>1. y = cancelReplicationHandshake(x)
    BY <1>4 DEF ReadBulkLength
  <2> QED BY <2>1, ReceivingFacts
<1> QED BY <1>1, <1>2, <1>3, <1>4

\* What one read returned of the file
LEMMA ReadPiecesFacts ==
  ASSUME NEW n \in Node, NEW x, GoodWorld(n, x), Receiving(n, x), x.s.file \in Seq(Item),
         NEW pieces \in Seq(Item), pieces # <<>>, NEW y, y = ReadBulkPieces(x, pieces)
  PROVE  Moved(n, x, y)
<1> DEFINE file == x.s.file \o pieces
           front == Front(file)
<1>1. y \in {LoadDataset(x, front), LoadDataset(x, file), Filled(x, file)}
  BY DEF ReadBulkPieces, Filled
<1>2. file \in Seq(Item) /\ front \in Seq(Item)
  <2> DEFINE old == x.s.file
  <2>1. old \in Seq(Item)
    OBVIOUS
  <2> HIDE DEF old
  <2>2. old \o pieces \in Seq(Item) /\ Len(old \o pieces) >= 1
    BY <2>1
  <2>3. SubSeq(old \o pieces, 1, Len(old \o pieces) - 1) \in Seq(Item)
    BY <2>2
  <2> QED BY <2>2, <2>3 DEF Front, old
<1> HIDE DEF file, front
<1>3. \A f \in Seq(Item) : y = LoadDataset(x, f) => Moved(n, x, y)
  BY LoadFacts
<1>4. y = Filled(x, file) => Moved(n, x, y)
  BY <1>2, FilledFacts
<1> QED BY <1>1, <1>2, <1>3, <1>4

LEMMA ReadBulkKeeps ==
  ASSUME LinkInv, NEW n \in Node, ReadBulk(n)
  PROVE  Kept
<1> DEFINE w == World(n, {})
           c == server[n].transfer_s
           q == conn[c].toR
<1>1. server[n].repl_state = "TRANSFER" /\ UNCHANGED count
  BY DEF ReadBulk
<1>2. w \in Worlds(n) /\ GoodWorld(n, w) /\ w.s = server[n] /\ w.net = conn
  BY Home DEF Worlds
<1>3. HasLink(w.s) /\ LinkOf(w.s) = c /\ c \in Conn /\ GoodNet(conn) /\ Receiving(n, w)
  <2>1. Receiving(n, w)
    BY <1>1, <1>2 DEF Receiving
  <2> HIDE DEF w
  <2> QED BY <1>2, <2>1, ReceivingFacts DEF GoodWorld
<1>4. \/ \E rep \in Answers(c) : Becomes(n, ReadBulkLength(Took(w, c, rep), rep))
      \/ Becomes(n, cancelReplicationHandshake(TookMany(w, c, Len(q))))
      \/ \E k \in 1..ReadLen(w, Len(q)) : Becomes(n, ReadBulkPieces(TookMany(w, c, k), SubSeq(q, 1, k)))
  BY DEF ReadBulk
<1>5. q \in Seq(Item) /\ Len(q) \in Nat
  BY <1>3 DEF GoodNet, GoodConn, ConnRec
<1>6. ASSUME NEW x, Moved(n, w, x), x.s = w.s
      PROVE  Receiving(n, x) /\ x.s.file \in Seq(Item) /\ GoodWorld(n, x)
  BY <1>1, <1>2, <1>6 DEF Moved, Receiving, GoodWorld, GoodServer
<1> HIDE DEF c, w, q
<1>7. ASSUME NEW x, Moved(n, w, x), NEW y, Moved(n, x, y), Becomes(n, y)
      PROVE  Kept
  <2>1. Moved(n, w, y)
    BY <1>7, MovedTrans
  <2> QED BY <1>1, <1>2, <1>7, <2>1, MovedKeeps, Counts
<1>8. ASSUME NEW rep \in Answers(c), Becomes(n, ReadBulkLength(Took(w, c, rep), rep))
      PROVE  Kept
  <2> DEFINE x == Took(w, c, rep)
             y == ReadBulkLength(x, rep)
  <2>1. rep \in Item
    BY <1>3, AnswersFacts
  <2>2. x = Took(w, c, rep) /\ y = ReadBulkLength(x, rep) /\ Becomes(n, y)
    BY <1>8
  <2> HIDE DEF x, y
  <2>3. Moved(n, w, x) /\ x.s = w.s
    BY <1>2, <1>3, <2>2, TookFacts
  <2>4. Moved(n, x, y)
    BY <1>6, <2>1, <2>2, <2>3, ReadLengthFacts
  <2> QED BY <1>7, <2>2, <2>3, <2>4
<1>9. ASSUME Becomes(n, cancelReplicationHandshake(TookMany(w, c, Len(q))))
      PROVE  Kept
  <2> DEFINE x == TookMany(w, c, Len(q))
             y == cancelReplicationHandshake(x)
  <2>1. x = TookMany(w, c, Len(q)) /\ y = cancelReplicationHandshake(x) /\ Becomes(n, y)
    BY <1>9
  <2> HIDE DEF x, y
  <2>2. Moved(n, w, x) /\ x.s = w.s
    BY <1>2, <1>3, <1>5, <2>1, TookManyFacts
  <2>3. Moved(n, x, y)
    BY <1>6, <2>1, <2>2, ReceivingFacts
  <2> QED BY <1>7, <2>1, <2>2, <2>3
<1>10. ASSUME NEW k \in 1..ReadLen(w, Len(q)), Becomes(n, ReadBulkPieces(TookMany(w, c, k), SubSeq(q, 1, k)))
       PROVE  Kept
  <2> DEFINE x == TookMany(w, c, k)
             pieces == SubSeq(q, 1, k)
             y == ReadBulkPieces(x, pieces)
  <2>1. k \in 1..Len(q)
    <3> DEFINE L == Len(q)
               t == w.s.transfer_size - Len(w.s.file)
    <3>1. ReadLen(w, L) = IF w.s.usemark THEN L ELSE Min({L, t})
      BY DEF ReadLen
    <3>2. t \in Int /\ L \in Int
      BY <1>2, <1>5 DEF GoodWorld, GoodServer
    <3> HIDE DEF L, t
    <3>3. Min({L, t}) = IF L <= t THEN L ELSE t
      BY <3>2, MaxOfTwo
    <3>4. k \in 1..ReadLen(w, L)
      BY DEF L
    <3> QED BY <3>1, <3>2, <3>3, <3>4 DEF L
  <2>2. pieces \in Seq(Item) /\ pieces # <<>>
    BY <1>5, <2>1
  <2>3. x = TookMany(w, c, k) /\ y = ReadBulkPieces(x, pieces) /\ Becomes(n, y) /\ k \in Nat
    BY <1>10, <2>1
  <2> HIDE DEF x, y, pieces
  <2>4. Moved(n, w, x) /\ x.s = w.s
    BY <1>2, <1>3, <2>3, TookManyFacts
  <2>5. Moved(n, x, y)
    BY <1>6, <2>2, <2>3, <2>4, ReadPiecesFacts
  <2> QED BY <1>7, <2>3, <2>4, <2>5
<1> QED BY <1>4, <1>8, <1>9, <1>10

-----------------------------------------------------------------------------
(* The stream is read.                                                     *)

ReaderRec == [data : Dataset, db : Int, querybuf : Seq(Item)]

LEMMA ExecuteFacts ==
  ASSUME NEW m \in ReaderRec, NEW cmd \in Command
  PROVE  /\ Execute(m, cmd) \in ReaderRec
         /\ Execute(m, cmd).data = m.data \/ \E e \in Int \X Int : Execute(m, cmd).data = Append(m.data, e)
<1>1. m.data \in Seq(Int \X Int) /\ m.db \in Int /\ m.querybuf \in Seq(Item)
  BY DEF ReaderRec, Dataset
<1>2. cmd[1] \in {"set", "select", "ping"} /\ cmd[2] \in Int
  BY DEF Command
<1>3. CASE cmd[1] = "set"
  <2> DEFINE e == <<cmd[2], m.db>>
             d == Append(m.data, e)
  <2>1. e \in Int \X Int
    BY <1>1, <1>2
  <2>2. Execute(m, cmd) = [m EXCEPT !.data = d]
    BY <1>3 DEF Execute
  <2> HIDE DEF e
  <2>3. d \in Dataset
    BY <1>1, <2>1 DEF Dataset
  <2>4. d = Append(m.data, e)
    OBVIOUS
  <2> HIDE DEF d
  <2>5. [m EXCEPT !.data = d] \in ReaderRec /\ [m EXCEPT !.data = d].data = d
    BY <2>3 DEF ReaderRec
  <2> QED BY <2>1, <2>2, <2>4, <2>5
<1>4. CASE cmd[1] = "select"
  <2> DEFINE db == cmd[2]
  <2>1. Execute(m, cmd) = [m EXCEPT !.db = db]
    BY <1>4 DEF Execute
  <2>2. db \in Int
    BY <1>2
  <2> HIDE DEF db
  <2>3. [m EXCEPT !.db = db] \in ReaderRec /\ [m EXCEPT !.db = db].data = m.data
    BY <2>2 DEF ReaderRec
  <2> QED BY <2>1, <2>3
<1>5. CASE cmd[1] = "ping"
  BY <1>5 DEF Execute
<1> QED BY <1>2, <1>3, <1>4, <1>5

LEMMA ReadByteFacts ==
  ASSUME NEW m \in ReaderRec, NEW byte \in Item
  PROVE  /\ ReadByte(m, byte) \in ReaderRec
         /\ ReadByte(m, byte).data = m.data \/ \E e \in Int \X Int : ReadByte(m, byte).data = Append(m.data, e)
<1> DEFINE have == Append(m.querybuf, byte)
           none == <<>>
           d == Append(m.data, Garbage)
<1>1. m.data \in Seq(Int \X Int) /\ m.db \in Int /\ m.querybuf \in Seq(Item)
  BY DEF ReaderRec, Dataset
<1>2. have \in Seq(Item) /\ none \in Seq(Item)
  BY <1>1
<1>3. Garbage \in Int \X Int
  BY DEF Garbage
<1>4. d \in Dataset
  BY <1>1, <1>3 DEF Dataset
<1>5. byte.t = "byte" => byte.cmd \in Command
  BY DEF Item, Payload, Answer, Byte
<1>6. \/ ReadByte(m, byte) = m
      \/ ReadByte(m, byte) = [m EXCEPT !.data = d]
      \/ ReadByte(m, byte) = [m EXCEPT !.data = d, !.querybuf = none]
      \/ ReadByte(m, byte) = [m EXCEPT !.querybuf = have]
      \/ byte.t = "byte" /\ ReadByte(m, byte) = Execute([m EXCEPT !.querybuf = none], byte.cmd)
  BY DEF ReadByte
<1>7. d = Append(m.data, Garbage)
  OBVIOUS
<1> HIDE DEF have, none, d
<1>8. [m EXCEPT !.data = d] \in ReaderRec /\ [m EXCEPT !.data = d].data = d
  BY <1>4 DEF ReaderRec
<1>9. [m EXCEPT !.data = d, !.querybuf = none] \in ReaderRec /\ [m EXCEPT !.data = d, !.querybuf = none].data = d
  BY <1>2, <1>4 DEF ReaderRec
<1>10. [m EXCEPT !.querybuf = have] \in ReaderRec /\ [m EXCEPT !.querybuf = have].data = m.data
  BY <1>2 DEF ReaderRec
<1> DEFINE k == [m EXCEPT !.querybuf = none]
<1>11. k \in ReaderRec /\ k.data = m.data
  BY <1>2 DEF ReaderRec
<1> HIDE DEF k
<1>12. ASSUME byte.t = "byte", ReadByte(m, byte) = Execute(k, byte.cmd)
       PROVE  /\ ReadByte(m, byte) \in ReaderRec
              /\ ReadByte(m, byte).data = m.data \/ \E e \in Int \X Int : ReadByte(m, byte).data = Append(m.data, e)
  BY <1>5, <1>11, <1>12, ExecuteFacts
<1> QED BY <1>3, <1>6, <1>7, <1>8, <1>9, <1>10, <1>12 DEF k

\* The master's client has read a byte.
HasRead(m, r) == [m EXCEPT !.db = r.db, !.querybuf = r.querybuf, !.reploff = m.reploff + 1]

LEMMA HasReadFacts ==
  ASSUME NEW m \in MasterClient, NEW r \in ReaderRec
  PROVE  HasRead(m, r) \in MasterClient /\ HasRead(m, r).conn = m.conn
<1> DEFINE db == r.db
           buf == r.querybuf
           off == m.reploff + 1
<1>1. db \in Int /\ buf \in Seq(Item) /\ off \in Int
  BY DEF ReaderRec, MasterClient
<1>2. HasRead(m, r) = [m EXCEPT !.db = db, !.querybuf = buf, !.reploff = off]
  BY DEF HasRead
<1> HIDE DEF db, buf, off
<1> QED BY <1>1, <1>2 DEF MasterClient

LEMMA ReadStreamKeeps ==
  ASSUME LinkInv, NEW n \in Node, ReadStream(n)
  PROVE  Kept
<1> DEFINE w == World(n, {})
           c == server[n].master.conn
           byte == Head(conn[c].toR)
           x == Took(w, c, byte)
           y == ReadFromMaster(x, byte)
<1>1. server[n].master # NULL /\ conn[c].toR # <<>> /\ Becomes(n, y) /\ UNCHANGED count
  BY DEF ReadStream
<1>2. GoodWorld(n, w) /\ w.s = server[n] /\ w.net = conn /\ WithBacklog(w.s)
  BY Home
<1>3. HasLink(w.s) /\ LinkOf(w.s) = c /\ c \in Conn
  BY <1>1, <1>2 DEF GoodWorld, GoodLink, HasLink, LinkOf
<1>4. byte \in Item
  <2>1. conn[c].toR \in Seq(Item)
    BY <1>2, <1>3 DEF GoodWorld, GoodNet, GoodConn, ConnRec
  <2> QED BY <1>1, <2>1
<1>5. x = Took(w, c, byte) /\ y = ReadFromMaster(x, byte)
  OBVIOUS
<1> HIDE DEF w, c, byte, x, y
<1>6. Moved(n, w, x) /\ x.s = w.s
  BY <1>2, <1>3, <1>5, TookFacts
<1>7. Half(n, x) /\ Owns(n, x.s, x.net) /\ Shape(x) /\ GoodServer(x.s) /\ GoodWorld(n, x)
  BY <1>6, HalfOf DEF Moved, Half
<1> DEFINE m == x.s.master
           old == [data |-> x.s.data, db |-> m.db, querybuf |-> m.querybuf]
           r == ReadByte(old, byte)
           d == r.data
           master == HasRead(m, r)
           z == [x EXCEPT !.s.data = d, !.s.master = master]
           cmd == <<"set", Last(d)[1]>>
<1>8. y = IF Len(d) = Len(x.s.data) THEN z ELSE replicationFeedSlaves(z, r.db, cmd)
  BY <1>5 DEF ReadFromMaster, HasRead
<1>9. m \in MasterClient
  BY <1>1, <1>2, <1>6, <1>7 DEF GoodServer
<1>10. old \in ReaderRec
  <2>1. m.db \in Int /\ m.querybuf \in Seq(Item)
    <3> HIDE DEF m
    <3> QED BY <1>9 DEF MasterClient
  <2>2. x.s.data \in Dataset
    BY <1>7 DEF GoodServer
  <2> HIDE DEF m
  <2> QED BY <2>1, <2>2 DEF ReaderRec
<1>11. old.data = x.s.data
  OBVIOUS
<1> HIDE DEF old
<1>12. r \in ReaderRec /\ (d = x.s.data \/ \E e \in Int \X Int : d = Append(x.s.data, e))
  BY <1>4, <1>10, <1>11, ReadByteFacts
<1> HIDE DEF r, m
<1>13. master \in MasterClient /\ master.conn = m.conn /\ master # NULL
  BY <1>9, <1>12, HasReadFacts, ReplicationAssumption
<1>14. d \in Dataset /\ r.db \in Int
  BY <1>12 DEF ReaderRec
<1> HIDE DEF d, master
<1>15. Shape(z) /\ z.net = x.net /\ z.s = [x.s EXCEPT !.data = d, !.master = master]
  BY <1>7 DEF Shape
<1> HIDE DEF z
<1>16. GoodServer(z.s)
  BY <1>7, <1>13, <1>14, <1>15 DEF GoodServer
<1>17. /\ SameSlaves(x.s, z.s) /\ z.s.b = x.s.b /\ z.s.repl_state = x.s.repl_state /\ z.s.master = master
       /\ z.s.cached_master = x.s.cached_master /\ z.s.masterhost = x.s.masterhost
  BY <1>7, <1>15 DEF SameSlaves, GoodServer
<1>18. HasLink(x.s) /\ HasLink(z.s) /\ LinkOf(z.s) = LinkOf(x.s) /\ Proper(z.s) /\ ~Early(z.s)
  <2>1. /\ x.s.master # NULL /\ x.s.repl_state = "CONNECTED" /\ x.s.cached_master = NULL /\ x.s.masterhost # NULL
        /\ HasLink(x.s)
    BY <1>1, <1>2, <1>3, <1>6, <1>7 DEF GoodWorld, GoodLink
  <2> QED BY <1>13, <1>17, <2>1 DEF HasLink, LinkOf, Proper, Early, m
<1>19. Moved(n, x, z)
  BY <1>7, <1>15, <1>16, <1>17, <1>18, TurnFacts
<1>20. Moved(n, w, z)
  BY <1>6, <1>19, MovedTrans
<1>21. Step(n, w, z)
  BY <1>2, <1>20, MovedStep
<1>22. Step(n, w, y)
  <2>1. CASE y = z
    BY <1>21, <2>1
  <2>2. CASE y # z
    <3>1. y = replicationFeedSlaves(z, r.db, cmd) /\ Len(d) # Len(x.s.data)
      BY <1>8, <2>2
    <3>2. PICK e \in Int \X Int : d = Append(x.s.data, e)
      BY <1>12, <3>1
    <3>3. cmd \in Command
      <4>1. x.s.data \in Seq(Int \X Int)
        BY <1>7 DEF GoodServer, Dataset
      <4>2. Last(d) = e
        BY <3>2, <4>1 DEF Last
      <4>3. Last(d)[1] \in Int
        BY <4>2
      <4> QED BY <4>3 DEF Command
    <3>4. GoodWorld(n, z) /\ WithBacklog(z.s) /\ Apart(n, w.net, z.net)
      BY <1>21 DEF Step, Sane
    <3> DEFINE db == r.db
    <3>5. db \in Int /\ y = replicationFeedSlaves(z, db, cmd)
      BY <1>14, <3>1
    <3> HIDE DEF db, cmd
    <3>6. /\ GoodWorld(n, y) /\ y.s.slaves = z.s.slaves /\ y.net = z.net /\ (y.s.b.buf = NULL <=> z.s.b.buf = NULL)
          /\ Later(z.s.b, y.s.b)
      BY <3>3, <3>4, <3>5, FeedSlavesFacts
    <3>7. Later(w.s.b, y.s.b)
      BY <1>21, <3>6, LaterTrans DEF Step
    <3> QED BY <3>4, <3>6, <3>7 DEF Step, Sane, WithBacklog
  <2> QED BY <2>1, <2>2
<1> QED BY <1>1, <1>22, StepKeeps, Counts DEF w

-----------------------------------------------------------------------------
(* SLAVEOF.                                                                *)

\* A server that follows nobody at the moment
Free(n, x) == Half(n, x) /\ Owns(n, x.s, x.net) /\ ~HasLink(x.s) /\ x.s.master = NULL

LEMMA GiveUpFacts ==
  ASSUME NEW n \in Node, NEW y, GoodWorld(n, y), y.s.master = NULL,
         NEW z, z = cancelReplicationHandshake(replicationDiscardCachedMaster(y))
  PROVE  Free(n, z) /\ Apart(n, y.net, z.net) /\ SameSlaves(y.s, z.s) /\ z.s.b = y.s.b
<1> DEFINE e == replicationDiscardCachedMaster(y)
<1>1. Half(n, y) /\ Owns(n, y.s, y.net) /\ Shape(y) /\ GoodServer(y.s)
  BY HalfOf DEF Half
<1>2. Shape(e) /\ e.net = y.net /\ e.s = [y.s EXCEPT !.cached_master = NULL]
  BY <1>1 DEF replicationDiscardCachedMaster, Shape
<1>3. z = cancelReplicationHandshake(e)
  OBVIOUS
<1> HIDE DEF e
<1>4. GoodServer(e.s)
  BY <1>1, <1>2 DEF GoodServer
<1>5. /\ SameSlaves(y.s, e.s) /\ e.s.b = y.s.b /\ e.s.repl_state = y.s.repl_state /\ e.s.master = y.s.master
      /\ e.s.masterhost = y.s.masterhost /\ e.s.transfer_s = y.s.transfer_s
  BY <1>1, <1>2 DEF SameSlaves, GoodServer
<1>6. Half(n, e)
  <2>1. ReplicaSide(n, y.net, e.net) /\ GoodNet(e.net)
    BY <1>1, <1>2, ReplicaSideSelf DEF Half
  <2> QED BY <1>1, <1>2, <1>4, <1>5, <2>1, TurnHalf
<1>7. Owns(n, e.s, e.net)
  BY <1>1, <1>2, <1>5 DEF Owns, HasLink, LinkOf
<1>8. Apart(n, y.net, e.net)
  BY <1>2 DEF Apart, ApartAt
<1>9. CASE y.s.repl_state \in {"NONE", "CONNECT"}
  <2>1. z = e
    BY <1>3, <1>5, <1>9 DEF cancelReplicationHandshake, InHandshake
  <2> QED BY <1>5, <1>6, <1>7, <1>8, <1>9, <2>1 DEF Free, HasLink
<1>10. CASE y.s.repl_state \notin {"NONE", "CONNECT"}
  <2>1. y.s.repl_state \in LinkStates /\ y.s.repl_state # "CONNECTED" /\ y.s.masterhost # NULL
    BY <1>1, <1>10 DEF GoodWorld, GoodLink, GoodServer
  <2>2. Attempt(e.s) \/ (e.s.repl_state = "TRANSFER" /\ e.s.master = NULL /\ e.s.masterhost # NULL)
    BY <1>5, <1>10, <2>1 DEF Attempt, LinkStates
  <2>3. Moved(n, e, z) /\ z.s.repl_state = "CONNECT"
    BY <1>3, <1>6, <1>7, <2>2, CancelFacts
  <2>4. GoodWorld(n, z) /\ SameSlaves(y.s, z.s) /\ z.s.b = y.s.b /\ Apart(n, y.net, z.net)
    BY <1>5, <1>8, <2>3, ApartTrans DEF Moved, SameSlaves
  <2>5. Free(n, z)
    BY <2>3, <2>4, HalfOf DEF Free, HasLink, GoodWorld, GoodLink
  <2> QED BY <2>4, <2>5
<1> QED BY <1>9, <1>10

Follows(s, m, state, b) == [s EXCEPT !.masterhost = m, !.repl_state = state, !.b = b]

LEMMA FollowsFacts ==
  ASSUME NEW n \in Node, NEW z, Free(n, z), NEW m \in Node \cup {NULL}, NEW state \in {"NONE", "CONNECT"},
         m = NULL <=> state = "NONE", NEW b, GoodBacklog(b), NEW y, Shape(y), y.net = z.net,
         y.s = Follows(z.s, m, state, b)
  PROVE  GoodWorld(n, y) /\ Apart(n, z.net, y.net) /\ y.s.slaves = z.s.slaves /\ y.s.b = b
<1>1. GoodServer(z.s) /\ Half(n, z) /\ Owns(n, z.s, z.net) /\ ~HasLink(z.s) /\ z.s.master = NULL
  BY DEF Free, Half
<1>2. GoodServer(y.s)
  BY <1>1 DEF GoodServer, LinkStates, Follows
<1>3. SameSlaves(z.s, y.s) /\ y.s.b = b /\ y.s.repl_state = state /\ y.s.master = z.s.master /\ y.s.masterhost = m
  BY <1>1 DEF SameSlaves, GoodServer, Follows
<1>4. Unlinked(y.s)
  BY <1>1, <1>3 DEF Unlinked
<1> QED BY <1>1, <1>2, <1>3, <1>4, NoLinkFacts DEF SameSlaves

LEMMA MaybeCacheFacts ==
  ASSUME NEW n \in Node, NEW x, GoodWorld(n, x),
         NEW y, y = IF x.s.master # NULL THEN replicationCacheMaster(x) ELSE x
  PROVE  Moved(n, x, y) /\ y.s.master = NULL
<1>1. CASE x.s.master = NULL
  BY <1>1, MovedSelf
<1>2. CASE x.s.master # NULL
  BY <1>2, CacheFacts
<1> QED BY <1>1, <1>2

LEMMA SetMasterFacts ==
  ASSUME NEW n \in Node, NEW x, GoodWorld(n, x), NEW m \in Node, NEW y, y = replicationSetMaster(x, m)
  PROVE  Step(n, x, y)
<1> DEFINE k == IF x.s.master # NULL THEN replicationCacheMaster(x) ELSE x
           d == disconnectSlaves(k)
           z == cancelReplicationHandshake(replicationDiscardCachedMaster(d))
           b == [freeReplicationBacklog(z.s.b) EXCEPT !.offset = 0]
<1>1. /\ k = (IF x.s.master # NULL THEN replicationCacheMaster(x) ELSE x) /\ d = disconnectSlaves(k)
      /\ z = cancelReplicationHandshake(replicationDiscardCachedMaster(d))
  OBVIOUS
<1> HIDE DEF k, d, z
<1>2. y = [z EXCEPT !.s.masterhost = m, !.s.repl_state = "CONNECT", !.s.b = [freeReplicationBacklog(@) EXCEPT !.offset = 0]]
  BY DEF replicationSetMaster, k, d, z
<1>3. Moved(n, x, k) /\ k.s.master = NULL /\ GoodWorld(n, k)
  BY <1>1, MaybeCacheFacts DEF Moved
<1>4. GoodWorld(n, d) /\ Serves(n, k, d) /\ d.s.slaves = <<>>
  BY <1>1, <1>3, DisconnectFacts
<1>5. Apart(n, k.net, d.net) /\ d.s.master = NULL
  BY <1>3, <1>4, ServesGood DEF Serves, Outside
<1>6. Free(n, z) /\ Apart(n, d.net, z.net) /\ SameSlaves(d.s, z.s)
  BY <1>1, <1>4, <1>5, GiveUpFacts
<1>7. Shape(z) /\ GoodServer(z.s)
  BY <1>6 DEF Free, Half
<1>8. GoodBacklog(b) /\ b.buf = NULL
  <2>1. GoodBacklog(z.s.b) /\ 0 \in Int
    BY <1>7 DEF GoodServer
  <2>2. b.buf = NULL
    BY <2>1 DEF GoodBacklog, freeReplicationBacklog
  <2> QED BY <2>1, <2>2, FreeBacklogFacts
<1>9. Shape(y) /\ y.net = z.net /\ y.s = Follows(z.s, m, "CONNECT", b)
  <2>1. y = [z EXCEPT !.s.masterhost = m, !.s.repl_state = "CONNECT", !.s.b = b]
    BY <1>2, <1>7 DEF Shape, GoodServer
  <2> HIDE DEF b
  <2> QED BY <1>7, <2>1 DEF Shape, Follows
<1> HIDE DEF b
<1>10. m # NULL
  BY ReplicationAssumption
<1>11. GoodWorld(n, y) /\ Apart(n, z.net, y.net) /\ y.s.slaves = z.s.slaves /\ y.s.b = b
  <2> DEFINE state == "CONNECT"
  <2>1. state \in {"NONE", "CONNECT"} /\ (m = NULL <=> state = "NONE") /\ y.s = Follows(z.s, m, state, b)
    BY <1>9, <1>10
  <2> HIDE DEF state
  <2> QED BY <1>6, <1>8, <1>9, <2>1, FollowsFacts
<1>12. y.s.slaves = <<>>
  BY <1>4, <1>6, <1>11 DEF SameSlaves
<1>13. Apart(n, x.net, y.net)
  <2>1. Apart(n, x.net, d.net)
    BY <1>3, <1>5, ApartTrans DEF Moved
  <2>2. Apart(n, d.net, y.net)
    BY <1>6, <1>11, ApartTrans
  <2> QED BY <2>1, <2>2, ApartTrans
<1>14. Later(x.s.b, y.s.b)
  BY <1>8, <1>11 DEF Later
<1> QED BY <1>11, <1>12, <1>13, <1>14 DEF Step, Sane, WithBacklog

LEMMA UnsetMasterFacts ==
  ASSUME NEW n \in Node, NEW x, GoodWorld(n, x), WithBacklog(x.s), NEW y, y = replicationUnsetMaster(x)
  PROVE  Step(n, x, y)
<1> DEFINE b == [freeReplicationBacklog(x.s.b) EXCEPT !.offset = x.s.master.reploff]
           a == IF x.s.master # NULL /\ x.s.slaves = <<>> THEN SetBacklog(x, b) ELSE x
           k == IF a.s.master # NULL THEN replicationCacheMaster(a) ELSE a
           z == cancelReplicationHandshake(replicationDiscardCachedMaster(k))
<1>1. Shape(x) /\ GoodServer(x.s)
  BY DEF GoodWorld, Shape
<1>2. x.s.master # NULL => GoodBacklog(b) /\ b.buf = NULL
  <2> HAVE x.s.master # NULL
  <2>1. x.s.master \in MasterClient /\ GoodBacklog(x.s.b)
    BY <1>1 DEF GoodServer
  <2>2. x.s.master.reploff \in Int
    BY <2>1 DEF MasterClient
  <2>3. b.buf = NULL
    BY <2>1 DEF GoodBacklog, freeReplicationBacklog
  <2> QED BY <2>1, <2>2, <2>3, FreeBacklogFacts
<1>3. a = IF x.s.master # NULL /\ x.s.slaves = <<>>
          THEN [x EXCEPT !.s.b = [freeReplicationBacklog(@) EXCEPT !.offset = x.s.master.reploff]] ELSE x
  BY <1>1 DEF Shape, GoodServer, SetBacklog
<1>4. a = IF x.s.master # NULL /\ x.s.slaves = <<>> THEN SetBacklog(x, b) ELSE x
  OBVIOUS
<1> HIDE DEF b
<1>5. /\ GoodWorld(n, a) /\ Serves(n, x, a) /\ WithBacklog(a.s) /\ a.s.master = x.s.master
      /\ Later(x.s.b, a.s.b)
  <2>1. CASE x.s.master # NULL /\ x.s.slaves = <<>>
    <3>1. a = SetBacklog(x, b) /\ GoodBacklog(b) /\ b.buf = NULL
      BY <1>2, <2>1
    <3> HIDE DEF a
    <3>2. Serves(n, x, a) /\ GoodWorld(n, a) /\ a.s.slaves = x.s.slaves /\ a.s.b = b
      BY <3>1, SetBacklogFacts
    <3> QED BY <2>1, <3>1, <3>2 DEF WithBacklog, Serves, Outside, Later
  <2>2. CASE ~(x.s.master # NULL /\ x.s.slaves = <<>>)
    <3>1. a = x
      BY <2>2
    <3> HIDE DEF a
    <3> QED BY <3>1, ServesSelf, BacklogSelf
  <2> QED BY <2>1, <2>2
<1>6. /\ k = (IF a.s.master # NULL THEN replicationCacheMaster(a) ELSE a)
      /\ z = cancelReplicationHandshake(replicationDiscardCachedMaster(k))
  OBVIOUS
<1> HIDE DEF a, k, z
<1>7. y = [z EXCEPT !.s.masterhost = NULL, !.s.repl_state = "NONE"]
  <2>1. k = IF x.s.master # NULL THEN replicationCacheMaster(a) ELSE a
    BY <1>5, <1>6
  <2> QED BY <1>3, <1>6, <2>1 DEF replicationUnsetMaster
<1>8. Moved(n, a, k) /\ k.s.master = NULL /\ GoodWorld(n, k)
  BY <1>5, <1>6, MaybeCacheFacts DEF Moved
<1>9. Free(n, z) /\ Apart(n, k.net, z.net) /\ SameSlaves(k.s, z.s) /\ z.s.b = k.s.b
  BY <1>6, <1>8, GiveUpFacts
<1> DEFINE c == z.s.b
           state == "NONE"
           m == NULL
<1>10. Shape(z) /\ GoodServer(z.s) /\ GoodBacklog(c)
  BY <1>9 DEF Free, Half, GoodServer
<1>11. Shape(y) /\ y.net = z.net /\ y.s = Follows(z.s, m, state, c)
  <2>1. Shape(y) /\ y.net = z.net /\ y.s = [z.s EXCEPT !.masterhost = NULL, !.repl_state = "NONE"]
    BY <1>7, <1>10 DEF Shape
  <2>2. y.s = [z.s EXCEPT !.masterhost = NULL, !.repl_state = "NONE", !.b = z.s.b]
    BY <1>10, <2>1 DEF GoodServer
  <2> QED BY <2>1, <2>2 DEF Follows
<1>12. m \in Node \cup {NULL} /\ state \in {"NONE", "CONNECT"} /\ (m = NULL <=> state = "NONE")
  OBVIOUS
<1>13. c = a.s.b
  BY <1>8, <1>9 DEF Moved
<1> HIDE DEF c, state, m
<1>14. GoodWorld(n, y) /\ Apart(n, z.net, y.net) /\ y.s.slaves = z.s.slaves /\ y.s.b = c
  BY <1>9, <1>10, <1>11, <1>12, FollowsFacts
<1>15. WithBacklog(y.s)
  BY <1>5, <1>8, <1>9, <1>13, <1>14 DEF WithBacklog, SameSlaves, Moved
<1>16. Apart(n, x.net, y.net)
  <2>1. Apart(n, x.net, a.net)
    BY <1>5, ServesGood
  <2>2. Apart(n, x.net, k.net)
    BY <1>8, <2>1, ApartTrans DEF Moved
  <2>3. Apart(n, k.net, y.net)
    BY <1>9, <1>14, ApartTrans
  <2> QED BY <2>2, <2>3, ApartTrans
<1>17. Later(x.s.b, y.s.b)
  BY <1>5, <1>13, <1>14
<1> QED BY <1>14, <1>15, <1>16, <1>17 DEF Step, Sane

LEMMA SlaveofKeeps ==
  ASSUME LinkInv, NEW n \in Node, NEW m \in Node \cup {NULL}, Slaveof(n, m)
  PROVE  Kept
<1> DEFINE w == World(n, {})
           y == IF m = NULL THEN replicationUnsetMaster(w) ELSE replicationSetMaster(w, m)
<1>1. Becomes(n, y) /\ Spend("commands")
  BY DEF Slaveof
<1>2. GoodWorld(n, w) /\ WithBacklog(w.s)
  BY Home
<1>3. w = World(n, {})
  OBVIOUS
<1> HIDE DEF w
<1>4. Step(n, w, y)
  BY <1>2, SetMasterFacts, UnsetMasterFacts
<1> HIDE DEF y
<1> QED BY <1>1, <1>3, <1>4, StepKeeps, Counts

-----------------------------------------------------------------------------
(* replicationCron.                                                        *)

\* A part of it: the list of slaves stays.
Pass(n, x, y) == Step(n, x, y) /\ y.s.slaves = x.s.slaves

Sound(n, x) == GoodWorld(n, x) /\ WithBacklog(x.s)

LEMMA StepTrans ==
  ASSUME NEW n \in Node, NEW x, NEW y, NEW z, Step(n, x, y), Step(n, y, z)
  PROVE  Step(n, x, z)
<1>1. Sane(n, x, z)
  BY ApartTrans DEF Step, Sane
<1>2. Later(x.s.b, z.s.b)
  BY LaterTrans DEF Step
<1> QED BY <1>1, <1>2 DEF Step

LEMMA PassTrans ==
  ASSUME NEW n \in Node, NEW x, NEW y, NEW z, Pass(n, x, y), Pass(n, y, z)
  PROVE  Pass(n, x, z)
BY StepTrans DEF Pass

LEMMA PassMoved ==
  ASSUME NEW n \in Node, NEW x, Sound(n, x), NEW y, Moved(n, x, y)
  PROVE  Pass(n, x, y)
BY MovedStep DEF Pass, Sound, Moved, SameSlaves

LEMMA CronTimeoutFacts ==
  ASSUME NEW n \in Node, NEW x, Sound(n, x), NEW silent, silent => HasLink(x.s), NEW y, y = CronTimeout(x, silent)
  PROVE  Pass(n, x, y)
<1>1. CASE ~silent
  BY <1>1, MovedSelf, PassMoved DEF CronTimeout, Sound
<1>2. CASE silent /\ x.s.master # NULL
  <2>1. y = replicationCacheMaster(x)
    BY <1>2 DEF CronTimeout
  <2>2. Moved(n, x, y)
    BY <1>2, <2>1, CacheFacts DEF Sound
  <2> QED BY <2>2, PassMoved
<1>3. CASE silent /\ x.s.master = NULL
  <2>1. y = cancelReplicationHandshake(x)
    BY <1>3 DEF CronTimeout
  <2>2. /\ x.s.repl_state \in LinkStates \ {"NONE", "CONNECT", "CONNECTED"} /\ x.s.masterhost # NULL
        /\ Half(n, x) /\ Owns(n, x.s, x.net)
    BY <1>3, HalfOf DEF Sound, GoodWorld, GoodServer, GoodLink, HasLink
  <2>3. Attempt(x.s) \/ (x.s.repl_state = "TRANSFER" /\ x.s.master = NULL /\ x.s.masterhost # NULL)
    BY <1>3, <2>2 DEF Attempt, LinkStates
  <2>4. Moved(n, x, y)
    BY <2>1, <2>2, <2>3, CancelFacts
  <2> QED BY <2>4, PassMoved
<1> QED BY <1>1, <1>2, <1>3

LEMMA OpenedFacts ==
  ASSUME NEW n \in Node, NEW m \in Node
  PROVE  /\ GoodConn(Opened(n, m)) /\ Quiet(Opened(n, m)) /\ ReplicaSideAt(n, NoConn, Opened(n, m))
         /\ Opened(n, m).r = n /\ Opened(n, m).ropen
<1> DEFINE k == NoConn
           l == Opened(n, m)
<1>1. k \in ConnRec /\ k.toM = <<>> /\ k.toR = <<>>
  BY DEF NoConn, ConnRec
<1>2. l = [k EXCEPT !.r = n, !.m = m, !.ropen = TRUE, !.mopen = TRUE, !.up = TRUE]
  BY DEF Opened
<1>3. k.ropen = FALSE /\ k.mopen = FALSE
  BY DEF NoConn
<1> HIDE DEF k, l
<1>4. l \in ConnRec
  BY <1>1, <1>2 DEF ConnRec
<1>5. l.r = n /\ l.m = m /\ l.toM = k.toM /\ l.toR = k.toR
  BY <1>1, <1>2 DEF ConnRec
<1>6. l.ropen = TRUE /\ l.mopen = TRUE
  BY <1>1, <1>2 DEF ConnRec
<1>7. Quiet(l)
  BY <1>1, <1>5 DEF Quiet, ToSet
<1>8. ReplicaSideAt(n, k, l)
  BY <1>3, <1>5 DEF ReplicaSideAt, ApartAt
<1>9. GoodConn(l)
  BY <1>4, <1>5, <1>6 DEF GoodConn
<1> QED BY <1>5, <1>6, <1>7, <1>8, <1>9 DEF l, k

LEMMA ConnectFacts ==
  ASSUME NEW n \in Node, NEW x, GoodWorld(n, x), x.s.repl_state = "CONNECT", NEW c \in Conn, x.net[c] = NoConn,
         NEW y, y = connectWithMaster(x, n, c)
  PROVE  Moved(n, x, y)
<1> DEFINE m == x.s.masterhost
           l == Opened(n, m)
<1>1. Half(n, x) /\ Owns(n, x.s, x.net) /\ Shape(x) /\ GoodServer(x.s) /\ GoodNet(x.net)
  BY HalfOf DEF Half
<1>2. m \in Node /\ x.s.master = NULL /\ ~HasLink(x.s)
  BY <1>1 DEF GoodWorld, GoodLink, GoodServer, HasLink
<1>3. y = [x EXCEPT !.s.transfer_s = c, !.s.repl_state = "CONNECTING", !.net[c] = l]
  BY DEF connectWithMaster
<1> HIDE DEF m
<1>4. GoodConn(l) /\ Quiet(l) /\ ReplicaSideAt(n, NoConn, l) /\ l.r = n /\ l.ropen
  BY <1>2, OpenedFacts
<1> HIDE DEF l
<1>5. /\ Shape(y) /\ y.net = [x.net EXCEPT ![c] = l]
      /\ y.s = [x.s EXCEPT !.transfer_s = c, !.repl_state = "CONNECTING"]
  BY <1>1, <1>3 DEF Shape
<1>6. DOMAIN y.net = Conn /\ y.net[c] = l /\ \A d \in Conn \ {c} : y.net[d] = x.net[d]
  BY <1>1, <1>5 DEF GoodNet
<1>7. GoodNet(y.net)
  BY <1>1, <1>4, <1>6 DEF GoodNet
<1>8. ReplicaSide(n, x.net, y.net)
  <2>1. \A d \in Conn : ReplicaSideAt(n, x.net[d], x.net[d])
    BY DEF ReplicaSideAt, ApartAt
  <2> QED BY <1>4, <1>6, <2>1 DEF ReplicaSide
<1>9. GoodServer(y.s)
  BY <1>1, <1>5 DEF GoodServer, LinkStates
<1>10. /\ SameSlaves(x.s, y.s) /\ y.s.b = x.s.b /\ y.s.repl_state = "CONNECTING" /\ y.s.master = x.s.master
       /\ y.s.masterhost = x.s.masterhost /\ y.s.transfer_s = c
  BY <1>1, <1>5 DEF SameSlaves, GoodServer
<1>11. Half(n, y) /\ Apart(n, x.net, y.net)
  BY <1>1, <1>5, <1>7, <1>8, <1>9, <1>10, TurnHalf
<1>12. GoodLink(n, y.s, y.net)
  <2>1. HasLink(y.s) /\ LinkOf(y.s) = c
    BY <1>2, <1>10 DEF HasLink, LinkOf
  <2>2. \A d \in Conn : y.net[d].r = n /\ y.net[d].ropen <=> d = c
    BY <1>1, <1>2, <1>4, <1>6 DEF Owns
  <2>3. y.s.masterhost # NULL
    BY <1>2, <1>10, ReplicationAssumption DEF m
  <2>4. Quiet(y.net[LinkOf(y.s)])
    BY <1>4, <1>6, <2>1
  <2> QED BY <1>2, <1>10, <2>1, <2>2, <2>3, <2>4 DEF GoodLink
<1> QED BY <1>10, <1>11, <1>12 DEF Moved, GoodWorld, Half, Shape

LEMMA CronConnectFacts ==
  ASSUME NEW n \in Node, NEW x, Sound(n, x), NEW y, y = CronConnect(x, n)
  PROVE  Pass(n, x, y)
<1> DEFINE c == Min(FreeConns(x.net))
<1>1. CASE x.s.repl_state = "CONNECT" /\ FreeConns(x.net) # {}
  <2>1. y = connectWithMaster(x, n, c)
    BY <1>1 DEF CronConnect
  <2>2. c \in FreeConns(x.net)
    <3>1. FreeConns(x.net) \in SUBSET Nat
      BY ConnAssumption DEF FreeConns
    <3> QED BY <1>1, <3>1, MinIsLeast
  <2> HIDE DEF c
  <2>3. c \in Conn /\ x.net[c] = NoConn
    BY <2>2 DEF FreeConns
  <2>4. Moved(n, x, y)
    BY <1>1, <2>1, <2>3, ConnectFacts DEF Sound
  <2> QED BY <2>4, PassMoved
<1>2. CASE ~(x.s.repl_state = "CONNECT" /\ FreeConns(x.net) # {})
  BY <1>2, MovedSelf, PassMoved DEF CronConnect, Sound
<1> QED BY <1>1, <1>2

\* The last request that waits is taken back.
LEMMA FrontFacts ==
  ASSUME NEW S, NEW q \in Seq(S), q # <<>>
  PROVE  Front(q) \in Seq(S)
BY DEF Front

TakeBack(x, c) == [x EXCEPT !.net[c].toM = Front(@)]

LEMMA TakeBackFacts ==
  ASSUME NEW n \in Node, NEW x, Half(n, x), Owns(n, x.s, x.net), HasLink(x.s), NEW c, c = LinkOf(x.s),
         x.net[c].toM # <<>>, NEW y, y = TakeBack(x, c)
  PROVE  Half(n, y) /\ Owns(n, y.s, y.net) /\ Apart(n, x.net, y.net) /\ y.s = x.s
<1> DEFINE k == x.net[c]
           q == Front(k.toM)
           l == [k EXCEPT !.toM = q]
<1>1. c \in Conn /\ k \in ConnRec /\ k.toM \in Seq(Request) /\ Shape(x) /\ DOMAIN x.net = Conn
  BY DEF Half, Owns, GoodNet, GoodConn, ConnRec
<1>2. y = [x EXCEPT !.net[c] = l]
  BY DEF TakeBack
<1>3. q \in Seq(Request)
  <2> HIDE DEF k
  <2> QED BY <1>1, FrontFacts DEF k
<1> HIDE DEF q
<1>4. l \in ConnRec
  <2> HIDE DEF k
  <2> QED BY <1>1, <1>3, ConnUpdated
<1>5. l.r = k.r /\ l.m = k.m /\ l.ropen = k.ropen /\ l.mopen = k.mopen
  <2> HIDE DEF k
  <2> QED BY <1>1 DEF ConnRec
<1> HIDE DEF l
<1>6. Shape(y) /\ Rewired(x, y, c, l)
  BY <1>1, <1>2 DEF Shape, Rewired
<1> QED BY <1>4, <1>5, <1>6, RewiredHalf DEF k

LEMMA CronAckFacts ==
  ASSUME NEW n \in Node, NEW x, Sound(n, x), NEW y, y = CronAck(x)
  PROVE  Pass(n, x, y)
<1> DEFINE c == x.s.master.conn
           ack == [t |-> "ack", offset |-> x.s.master.reploff]
           q == x.net[c].toM
           z == IF q # <<>> /\ Last(q).t = "ack" THEN TakeBack(x, c) ELSE x
<1>1. CASE x.s.master # NULL /\ ~x.s.master.pre_psync
  <2>1. y = WithNet(z, SendToM(z.net, c, ack))
    BY <1>1 DEF CronAck, replicationSendAck, TakeBack, WithNet
  <2>2. /\ Half(n, x) /\ Owns(n, x.s, x.net) /\ HasLink(x.s) /\ c = LinkOf(x.s) /\ x.s.repl_state = "CONNECTED"
        /\ GoodServer(x.s) /\ Proper(x.s) /\ ~Early(x.s)
    BY <1>1, HalfOf DEF Sound, GoodWorld, GoodLink, HasLink, LinkOf, Proper, Early
  <2>3. ack \in Request
    <3>1. x.s.master \in MasterClient
      BY <1>1, <2>2 DEF GoodServer
    <3>2. x.s.master.reploff \in Int
      BY <3>1 DEF MasterClient
    <3> QED BY <3>2 DEF Request
  <2>4. z = x \/ (q # <<>> /\ z = TakeBack(x, c))
    OBVIOUS
  <2>5. q = x.net[c].toM
    OBVIOUS
  <2> HIDE DEF z, c, ack, q
  <2>6. Half(n, z) /\ Owns(n, z.s, z.net) /\ Apart(n, x.net, z.net) /\ z.s = x.s
    <3>1. CASE z = x
      BY <2>2, <3>1 DEF Apart, ApartAt
    <3>2. CASE q # <<>> /\ z = TakeBack(x, c)
      BY <2>2, <2>5, <3>2, TakeBackFacts
    <3> QED BY <2>4, <3>1, <3>2
  <2>7. Half(n, y) /\ Owns(n, y.s, y.net) /\ Apart(n, z.net, y.net) /\ y.s = z.s
    BY <2>1, <2>2, <2>3, <2>6, SendToMFacts
  <2>8. Moved(n, y, y)
    BY <2>2, <2>6, <2>7, TurnFacts DEF Half, SameSlaves
  <2>9. Moved(n, x, y)
    BY <2>6, <2>7, <2>8, ApartTrans DEF Moved
  <2> QED BY <2>9, PassMoved
<1>2. CASE ~(x.s.master # NULL /\ ~x.s.master.pre_psync)
  BY <1>2, MovedSelf, PassMoved DEF CronAck, Sound
<1> QED BY <1>1, <1>2

LEMMA CronPingFacts ==
  ASSUME NEW n \in Node, NEW x, Sound(n, x), NEW ping, NEW y, y = CronPing(x, ping)
  PROVE  Pass(n, x, y)
<1>1. CASE ~ping
  BY <1>1, MovedSelf, PassMoved DEF CronPing, Sound
<1>2. CASE ping
  <2> DEFINE db == x.s.slaveseldb
             cmd == <<"ping", 0>>
  <2>1. y = replicationFeedSlaves(x, db, cmd)
    BY <1>2 DEF CronPing
  <2>2. db \in Int /\ cmd \in Command
    BY DEF Sound, GoodWorld, GoodServer, Command
  <2> HIDE DEF db, cmd
  <2>3. /\ GoodWorld(n, y) /\ y.s.slaves = x.s.slaves /\ y.net = x.net /\ (y.s.b.buf = NULL <=> x.s.b.buf = NULL)
        /\ Later(x.s.b, y.s.b)
    BY <2>1, <2>2, FeedSlavesFacts DEF Sound
  <2>4. Apart(n, x.net, y.net)
    BY <2>3 DEF Apart, ApartAt
  <2> QED BY <2>3, <2>4 DEF Pass, Step, Sane, Sound, WithBacklog
<1> QED BY <1>1, <1>2

LEMMA CronNewlineFacts ==
  ASSUME NEW n \in Node, NEW x, Sound(n, x), NEW y, y = CronNewline(x)
  PROVE  Pass(n, x, y)
<1> DEFINE socket == x.s.child # NULL /\ x.s.child.type = "socket"
           waiting == WaitStart(x.s) \cup (IF socket THEN {} ELSE WaitEnd(x.s))
           net == [c \in Conn |->
                     IF c \in waiting /\ (x.net[c].toR = <<>> \/ Last(x.net[c].toR) # Newline)
                     THEN SendToR(x.net, c, <<Newline>>)[c] ELSE x.net[c]]
<1>1. Shape(x) /\ GoodNet(x.net)
  BY DEF Sound, GoodWorld, Shape
<1>2. y = WithNet(x, net)
  BY <1>1 DEF CronNewline, WithNet, Shape
<1>3. Newline \in Payload
  BY DEF Newline, Payload
<1>4. \A c \in Conn : WrittenAt(x.net, c, net[c])
  <2> HIDE DEF waiting
  <2> SUFFICES ASSUME NEW c \in Conn PROVE WrittenAt(x.net, c, net[c])
    OBVIOUS
  <2>1. net[c] \in {x.net[c], SendToR(x.net, c, <<Newline>>)[c]}
    OBVIOUS
  <2> HIDE DEF net
  <2> QED BY <1>3, <2>1 DEF WrittenAt
<1>5. DOMAIN net = Conn
  OBVIOUS
<1> HIDE DEF net
<1>6. GoodNet(net) /\ MasterSide(n, x.net, net) /\ SameEnds(x.net, net)
  BY <1>1, <1>4, <1>5, SendMany
<1>7. Saves(n, x, y) /\ y.s = x.s
  BY <1>2, <1>6, WithNetFacts DEF Sound
<1> QED BY <1>7, StepSaves DEF Pass, Sound

\* One replica, or none, has not acknowledged for too long.
LEMMA SmallToSeq ==
  ASSUME NEW q, NEW T, q = SetToSeq(T), T = {} \/ \E c : T = {c}
  PROVE  q \in Seq(T) /\ Len(q) <= 1 /\ Len(q) \in Nat /\ (Len(q) = 0 <=> T = {})
<1>1. CASE T = {}
  <2> DEFINE f == [i \in 1..0 |-> 0]
  <2>1. Cardinality(T) = 0
    BY <1>1, FS_EmptySet
  <2>2. f \in [1..0 -> T] /\ \A i \in 1..0 : FALSE
    BY <1>1
  <2>3. IsInjective(f)
    BY <2>2 DEF IsInjective
  <2> HIDE DEF f
  <2>4. q \in [1..0 -> T]
    BY <2>1, <2>2, <2>3 DEF SetToSeq
  <2> QED BY <1>1, <2>4
<1>2. ASSUME NEW c, T = {c}
      PROVE  q \in Seq(T) /\ Len(q) <= 1 /\ Len(q) \in Nat /\ (Len(q) = 0 <=> T = {})
  <2> DEFINE f == [i \in 1..1 |-> c]
  <2>1. Cardinality(T) = 1
    BY <1>2, FS_Singleton
  <2>2. f \in [1..1 -> T]
    BY <1>2
  <2>3. IsInjective(f)
    BY DEF IsInjective
  <2> HIDE DEF f
  <2>4. q \in [1..1 -> T]
    BY <2>1, <2>2, <2>3 DEF SetToSeq
  <2>5. q \in Seq(T) /\ Len(q) = 1
    BY <2>4
  <2>6. T # {}
    BY <1>2
  <2> QED BY <2>5, <2>6
<1> QED BY <1>1, <1>2

SlowGood(p, i, r) ==
  /\ i = 0 => r = p[2]
  /\ i # 0 => Saves(p[1], p[2], r) /\ ToSet(r.s.slaves) = ToSet(p[2].s.slaves) \ p[3]
SlowFrees == INSTANCE FoldFacts WITH Op <- FreeOp, Good <- SlowGood

LEMMA CronSlowFacts ==
  ASSUME NEW n \in Node, NEW x, Sound(n, x), NEW slow, slow = {} \/ \E c \in ToSet(x.s.slaves) : slow = {c},
         NEW y, y = CronSlow(x, slow)
  PROVE  Step(n, x, y) /\ ToSet(y.s.slaves) = ToSet(x.s.slaves) \ slow
<1> DEFINE p == <<n, x, slow>>
           q == SetToSeq(slow)
<1>1. p[1] = n /\ p[2] = x /\ p[3] = slow
  OBVIOUS
<1>2. q \in Seq(slow) /\ Len(q) <= 1 /\ Len(q) \in Nat /\ (Len(q) = 0 <=> slow = {})
  BY SmallToSeq
<1>3. y = SlowFrees!Fold(p, x, q)
  BY DEF CronSlow, SlowFrees!Fold, FreeOp, FoldLeft, MapThenFoldSet, Max,
         SlowFrees!FoldLeft, SlowFrees!MapThenFoldSet, SlowFrees!Max
<1> HIDE DEF p, q
<1>4. SlowGood(p, 0, x)
  BY <1>1 DEF SlowGood
<1>5. ASSUME NEW r, NEW i \in 1..Len(q), SlowGood(p, i - 1, r)
      PROVE  SlowGood(p, i, FreeOp(p, r, q[i]))
  <2> DEFINE c == q[i]
             z == freeSlave(r, c)
  <2>1. i = 1 /\ i - 1 = 0
    BY <1>2
  <2>2. r = x
    BY <1>1, <1>5, <2>1 DEF SlowGood
  <2>3. c \in slow
    BY <1>2
  <2> HIDE DEF c
  <2>4. slow = {c} /\ c \in ToSet(x.s.slaves)
    BY <2>3
  <2>5. c \in Conn /\ x.net[c].m = n /\ x.net[c].mopen
    BY <2>4 DEF Sound, GoodWorld, GoodSlaves, Flagged
  <2>6. z = freeSlave(x, c)
    BY <2>2
  <2> HIDE DEF z
  <2>7. Saves(n, x, z) /\ ToSet(z.s.slaves) = ToSet(x.s.slaves) \ {c}
    BY <2>5, <2>6, FreeSaves, FreeFacts DEF Sound
  <2>8. SlowGood(p, i, z)
    BY <1>1, <2>1, <2>4, <2>7 DEF SlowGood
  <2> QED BY <2>8 DEF FreeOp, z, c
<1>6. SlowGood(p, Len(q), SlowFrees!Fold(p, x, q))
  BY <1>2, <1>4, <1>5, SlowFrees!FoldKeeps
<1>7. CASE slow = {}
  <2>1. y = x
    BY <1>1, <1>2, <1>3, <1>6, <1>7 DEF SlowGood
  <2>2. Step(n, x, x)
    BY MovedSelf, MovedStep DEF Sound
  <2> QED BY <1>7, <2>1, <2>2
<1>8. CASE slow # {}
  <2>1. Saves(n, x, y) /\ ToSet(y.s.slaves) = ToSet(x.s.slaves) \ slow
    BY <1>1, <1>2, <1>3, <1>6, <1>8 DEF SlowGood
  <2> QED BY <2>1, StepSaves DEF Sound
<1> QED BY <1>7, <1>8

LEMMA CronBacklogFacts ==
  ASSUME NEW n \in Node, NEW x, Sound(n, x), NEW idle, idle => ToSet(x.s.slaves) = {}, NEW y, y = CronBacklog(x, idle)
  PROVE  Step(n, x, y)
<1>1. CASE ~idle
  BY <1>1, MovedSelf, MovedStep DEF CronBacklog, Sound
<1>2. CASE idle
  <2> DEFINE b == freeReplicationBacklog(x.s.b)
  <2>1. Shape(x) /\ GoodServer(x.s)
    BY DEF Sound, GoodWorld, Shape
  <2>2. GoodBacklog(b) /\ b.buf = NULL
    BY <2>1, FreeBacklogFacts DEF GoodServer, GoodBacklog, freeReplicationBacklog
  <2>3. y = SetBacklog(x, b)
    BY <1>2 DEF CronBacklog, SetBacklog
  <2> HIDE DEF b
  <2>4. Serves(n, x, y) /\ y.s.slaves = x.s.slaves /\ y.s.b = b
    BY <2>2, <2>3, SetBacklogFacts DEF Sound
  <2>5. x.s.slaves = <<>>
    BY <1>2, <2>1, EmptyToSet DEF GoodServer
  <2>6. WithBacklog(y.s)
    BY <2>4, <2>5 DEF WithBacklog
  <2>7. Later(x.s.b, y.s.b)
    BY <2>2, <2>4 DEF Later
  <2> QED BY <2>4, <2>6, <2>7, StepServes DEF Sound
<1> QED BY <1>1, <1>2

LEMMA CronBgsaveFacts ==
  ASSUME NEW n \in Node, NEW x, Sound(n, x), NEW ripe, NEW y, y = CronBgsave(x, ripe)
  PROVE  Step(n, x, y)
<1>1. y = x \/ y = startBgsaveForReplication(x, mincapa(x.s))
  BY DEF CronBgsave
<1>2. Saves(n, x, y)
  BY <1>1, SavesSelf, StartBgsaveFacts DEF Sound
<1> QED BY <1>2, StepSaves DEF Sound

LEMMA CronCounts ==
  ASSUME LinkInv, NEW ping, NEW fault,
         count' = [count EXCEPT !["pings"] = IF ping THEN @ + 1 ELSE @, !["faults"] = IF fault THEN @ + 1 ELSE @]
  PROVE  Counting'
<1>1. Counting /\ {"pings", "faults"} \subseteq Counters
  BY ReplicationAssumption DEF LinkInv, Counting, Counters
<1> QED BY <1>1 DEF Counting, Counters

LEMMA CronKeeps ==
  ASSUME LinkInv, NEW n \in Node, NEW silent \in May(HasLink(server[n])), NEW ping, NEW slow,
         slow \in {{}} \cup {{c} : c \in Online(server[n])}, NEW idle \in May(Idle(n, slow)), NEW ripe, NEW fork,
         Cron(n, silent, slow, idle, ripe, ping, fork)
  PROVE  Kept
<1> DEFINE o == World(n, {})
           a == WithFork(o, fork)
           w == CronTimeout(a, silent)
           k == CronConnect(w, n)
           x == CronAck(k)
           p == CronPing(x, ping)
           y == CronNewline(p)
           d == CronSlow(y, slow)
           z == CronBacklog(d, idle)
           e == CronBgsave(z, ripe)
<1>1. Becomes(n, e)
  BY DEF Cron, WithFork
<1>2. Counting'
  BY CronCounts DEF Cron
<1>3. Sound(n, o) /\ o.s = server[n]
  BY Home DEF Sound
<1>4. /\ a = WithFork(o, fork) /\ w = CronTimeout(a, silent) /\ k = CronConnect(w, n) /\ x = CronAck(k)
      /\ p = CronPing(x, ping) /\ y = CronNewline(p) /\ d = CronSlow(y, slow) /\ z = CronBacklog(d, idle)
      /\ e = CronBgsave(z, ripe) /\ o = World(n, {})
  OBVIOUS
<1> HIDE DEF a, w, k, x, p, y, d, z, e, o
<1>5. Pass(n, o, a) /\ a.s = o.s
  <2>1. Saves(n, o, a) /\ a.s = o.s
    BY <1>3, <1>4, WithForkFacts DEF Sound
  <2> QED BY <1>3, <2>1, StepSaves DEF Sound, Pass
<1>6. \A u, v : Pass(n, u, v) => Sound(n, v)
  BY DEF Pass, Step, Sane, Sound
<1>7. silent => HasLink(a.s)
  BY <1>3, <1>5 DEF May
<1>8. Pass(n, a, w)
  BY <1>4, <1>5, <1>6, <1>7, CronTimeoutFacts
<1>9. Pass(n, w, k)
  BY <1>4, <1>6, <1>8, CronConnectFacts
<1>10. Pass(n, k, x)
  BY <1>4, <1>6, <1>9, CronAckFacts
<1>11. Pass(n, x, p)
  BY <1>4, <1>6, <1>10, CronPingFacts
<1>12. Pass(n, p, y)
  BY <1>4, <1>6, <1>11, CronNewlineFacts
<1>13. Pass(n, o, y)
  <2>1. Pass(n, o, k)
    BY <1>5, <1>8, <1>9, PassTrans
  <2>2. Pass(n, k, y)
    BY <1>10, <1>11, <1>12, PassTrans
  <2> QED BY <2>1, <2>2, PassTrans
<1>14. y.s.slaves = server[n].slaves /\ Sound(n, y)
  BY <1>3, <1>6, <1>13 DEF Pass
<1>15. slow = {} \/ \E c \in ToSet(y.s.slaves) : slow = {c}
  BY <1>14 DEF Online
<1>16. Step(n, y, d) /\ ToSet(d.s.slaves) = ToSet(y.s.slaves) \ slow
  BY <1>4, <1>14, <1>15, CronSlowFacts
<1>17. \A u, v : Step(n, u, v) => Sound(n, v)
  BY DEF Step, Sane, Sound
<1>18. idle => ToSet(d.s.slaves) = {}
  BY <1>14, <1>16 DEF May, Idle
<1>19. Step(n, d, z)
  BY <1>4, <1>16, <1>17, <1>18, CronBacklogFacts
<1>20. Step(n, z, e)
  BY <1>4, <1>17, <1>19, CronBgsaveFacts
<1>21. Step(n, o, e)
  <2>1. Step(n, o, d)
    BY <1>13, <1>16, StepTrans DEF Pass
  <2>2. Step(n, d, e)
    BY <1>19, <1>20, StepTrans
  <2> QED BY <2>1, <2>2, StepTrans
<1> QED BY <1>1, <1>2, <1>4, <1>21, StepKeeps

-----------------------------------------------------------------------------
(* Links break, and servers start.                                         *)

LEMMA BacklogsStay ==
  ASSUME LinkInv, LinkInv', server' = server
  PROVE  Kept
<1>1. \A n \in Node : GoodBacklog(server[n].b)
  BY Home DEF GoodWorld, GoodServer
<1> QED BY <1>1, LaterSelf DEF Kept

LEMMA BreakKeeps ==
  ASSUME LinkInv, NEW c \in Conn, Break(c)
  PROVE  Kept
<1>1. conn' = [conn EXCEPT ![c].up = FALSE] /\ conn[c].up /\ server' = server /\ Spend("faults")
  BY DEF Break
<1>2. Counting'
  BY <1>1, Counts
<1>3. ASSUME NEW n \in Node PROVE GoodWorld(n, World(n, {})') /\ WithBacklog(server'[n])
  <2> DEFINE k == conn[c]
             l == [k EXCEPT !.up = FALSE]
             s == server[n]
  <2>1. GoodServer(s) /\ GoodNet(conn) /\ GoodSlaves(n, s, conn) /\ GoodLink(n, s, conn) /\ WithBacklog(s)
    BY Home DEF GoodWorld
  <2>2. GoodConn(k) /\ k \in ConnRec /\ DOMAIN conn = Conn
    BY <2>1 DEF GoodNet, GoodConn
  <2>3. DOMAIN conn' = Conn /\ conn'[c] = l /\ \A d \in Conn \ {c} : conn'[d] = conn[d]
    BY <1>1, <2>2
  <2>4. k # NoConn
    BY <1>1 DEF NoConn
  <2> HIDE DEF k
  <2>5. l.r = k.r /\ l.m = k.m /\ l.ropen = k.ropen /\ l.mopen = k.mopen /\ l.toM = k.toM /\ l.toR = k.toR
    BY <2>2 DEF ConnRec
  <2>6. l \in ConnRec
    BY <2>2, ConnUpdated
  <2> HIDE DEF l, s
  <2>7. GoodConn(l) /\ (Quiet(k) => Quiet(l))
    BY <2>2, <2>4, <2>5, <2>6 DEF GoodConn, Quiet
  <2>8. GoodNet(conn')
    BY <2>1, <2>3, <2>7 DEF GoodNet
  <2>9. \A d \in Conn : /\ conn'[d].r = conn[d].r /\ conn'[d].m = conn[d].m /\ conn'[d].ropen = conn[d].ropen
                        /\ conn'[d].mopen = conn[d].mopen /\ (Quiet(conn[d]) => Quiet(conn'[d]))
    BY <2>3, <2>5, <2>7 DEF k
  <2>10. GoodSlaves(n, s, conn')
    BY <2>1, <2>9 DEF GoodSlaves
  <2>11. GoodLink(n, s, conn')
    <3>1. Early(s) => HasLink(s)
      BY DEF Early, HasLink
    <3> QED BY <2>1, <2>9, <3>1 DEF GoodLink
  <2>12. server'[n] = s
    BY <1>1 DEF s
  <2> QED BY <2>1, <2>8, <2>10, <2>11, <2>12 DEF World, GoodWorld
<1>4. DOMAIN server' = Node
  BY <1>1 DEF LinkInv
<1>5. LinkInv'
  BY <1>2, <1>3, <1>4 DEF LinkInv, Counting
<1> QED BY <1>1, <1>5, BacklogsStay

\* A server that starts
LEMMA FreshFacts ==
  ASSUME NEW n \in Node, NEW i \in Nat, NEW diskless \in BOOLEAN, NEW x, Shape(x), GoodNet(x.net),
         x.s = NewServer(<<n, i>>, InitialMaster[n], BacklogSize, diskless),
         \A c \in Conn : ~(x.net[c].r = n /\ x.net[c].ropen)
  PROVE  GoodWorld(n, x) /\ WithBacklog(x.s) /\ x.s.b.buf = NULL
<1> DEFINE runid == <<n, i>>
           m == InitialMaster[n]
           b == NoBacklog(BacklogSize)
           cli == [c \in Conn |-> NULL]
           s == x.s
<1>1. runid \in RunId /\ m \in Node \cup {NULL}
  BY ReplicationAssumption DEF RunId
<1>2. GoodBacklog(b) /\ b.buf = NULL
  BY DEF GoodBacklog, NoBacklog, Sizes
<1>3. cli \in [Conn -> ReplicaClient \cup {NULL}] /\ \A c \in Conn : cli[c] = NULL
  OBVIOUS
<1>4. x.s = NewServer(runid, m, BacklogSize, diskless)
  OBVIOUS
<1> HIDE DEF runid, m, b, cli
<1>5. /\ DOMAIN s = {"runid", "diskless", "data", "b", "slaveseldb", "slaves", "cli", "child",
                     "masterhost", "repl_state", "transfer_s", "master_runid", "initial_offset",
                     "transfer_size", "usemark", "file", "master", "cached_master"}
      /\ s.runid = runid /\ s.data = <<>> /\ s.b = b /\ s.slaveseldb = -1
      /\ s.slaves = <<>> /\ s.cli = cli /\ s.child = NULL /\ s.masterhost = m
      /\ s.repl_state = (IF m = NULL THEN "NONE" ELSE "CONNECT") /\ s.transfer_s = NULL /\ s.master_runid = NULL
      /\ s.initial_offset = -1 /\ s.transfer_size = -1 /\ s.file = <<>>
      /\ s.master = NULL /\ s.cached_master = NULL
  BY <1>4 DEF NewServer, b, cli
<1>6. s.diskless \in BOOLEAN /\ s.usemark \in BOOLEAN
  BY <1>4 DEF NewServer
<1> HIDE DEF s
<1>7. GoodServer(s)
  <2>1. s.data \in Dataset /\ s.slaves \in Seq(Conn) /\ s.file \in Seq(Item)
    BY <1>5 DEF Dataset
  <2>2. s.repl_state \in LinkStates
    BY <1>5 DEF LinkStates
  <2>3. s.slaveseldb \in Int /\ s.initial_offset \in Int /\ s.transfer_size \in Int
    BY <1>5
  <2> QED BY <1>1, <1>2, <1>3, <1>5, <1>6, <2>1, <2>2, <2>3 DEF GoodServer
<1>8. GoodSlaves(n, s, x.net)
  <2>1. ToSet(s.slaves) = {} /\ Distinct(s.slaves)
    BY <1>5 DEF ToSet, Distinct
  <2>2. Flagged(s) = {}
    BY <1>3, <1>5 DEF Flagged
  <2> QED BY <1>3, <1>5, <2>1, <2>2 DEF GoodSlaves
<1>9. GoodLink(n, s, x.net)
  <2>1. ~HasLink(s) /\ ~Early(s) /\ s.repl_state # "CONNECTED" /\ s.repl_state # "TRANSFER"
    BY <1>5 DEF HasLink, Early
  <2> QED BY <1>5, <2>1 DEF GoodLink
<1>10. WithBacklog(s)
  BY <1>5 DEF WithBacklog
<1>11. s.b.buf = NULL
  BY <1>2, <1>5
<1> QED BY <1>7, <1>8, <1>9, <1>10, <1>11 DEF GoodWorld, Shape, s

LEMMA RestartKeeps ==
  ASSUME LinkInv, NEW n \in Node, Restart(n)
  PROVE  Kept
<1> DEFINE i == server[n].runid[2] + 1
           diskless == server[n].diskless
           t == NewServer(<<n, i>>, InitialMaster[n], BacklogSize, diskless)
           net == [c \in Conn |-> IF conn[c].r = n /\ conn[c].ropen THEN CloseR(conn, c)[c]
                                  ELSE IF conn[c].m = n /\ conn[c].mopen THEN CloseM(conn, c)[c]
                                  ELSE conn[c]]
           y == [s |-> t, net |-> net, bad |-> {}, fork |-> TRUE]
<1>1. server' = [server EXCEPT ![n] = t] /\ conn' = net /\ Spend("faults")
  BY DEF Restart
<1>2. GoodServer(server[n]) /\ GoodNet(conn)
  BY Home DEF GoodWorld
<1>3. i \in Nat /\ diskless \in BOOLEAN
  <2>1. server[n].runid \in RunId
    BY <1>2 DEF GoodServer
  <2>2. server[n].runid[2] \in Nat
    BY <2>1 DEF RunId
  <2> QED BY <1>2, <2>2 DEF GoodServer
<1>4. ASSUME NEW c \in Conn
      PROVE  GoodConn(net[c]) /\ ApartAt(n, conn[c], net[c]) /\ ~(net[c].r = n /\ net[c].ropen)
  <2>1. CASE conn[c].r = n /\ conn[c].ropen
    <3> DEFINE f == CloseR(conn, c)
    <3>1. net[c] = f[c] /\ f = CloseR(conn, c)
      BY <2>1
    <3> HIDE DEF f, net
    <3>2. GoodNet(f) /\ ReplicaSide(n, conn, f) /\ f[c].ropen = FALSE
      BY <1>2, <2>1, <3>1, CloseRFacts
    <3> QED BY <3>1, <3>2 DEF GoodNet, ReplicaSide, ReplicaSideAt
  <2>2. CASE ~(conn[c].r = n /\ conn[c].ropen) /\ conn[c].m = n /\ conn[c].mopen
    <3> DEFINE f == CloseM(conn, c)
    <3>1. net[c] = f[c]
      BY <2>2
    <3>2. GoodNet(f) /\ MasterSide(n, conn, f)
      BY <1>2, <2>2, CloseMFacts
    <3> HIDE DEF f, net
    <3>3. GoodConn(f[c]) /\ MasterSideAt(n, conn[c], f[c])
      BY <3>2 DEF GoodNet, MasterSide
    <3> QED BY <2>2, <3>1, <3>3 DEF MasterSideAt, ApartAt
  <2>3. CASE ~(conn[c].r = n /\ conn[c].ropen) /\ ~(conn[c].m = n /\ conn[c].mopen)
    <3>1. net[c] = conn[c]
      BY <2>3
    <3> HIDE DEF net
    <3> QED BY <1>2, <2>3, <3>1 DEF GoodNet, ApartAt
  <2> QED BY <2>1, <2>2, <2>3
<1>5. DOMAIN net = Conn
  OBVIOUS
<1> HIDE DEF net
<1>6. Shape(y) /\ y.s = t /\ y.net = net
  BY DEF Shape
<1>7. t = NewServer(<<n, i>>, InitialMaster[n], BacklogSize, diskless)
  OBVIOUS
<1> HIDE DEF y, t, i, diskless
<1>8. GoodNet(net)
  BY <1>4, <1>5 DEF GoodNet
<1>9. GoodWorld(n, y) /\ WithBacklog(y.s) /\ y.s.b.buf = NULL
  BY <1>3, <1>4, <1>6, <1>7, <1>8, FreshFacts
<1>10. Apart(n, conn, net)
  BY <1>4 DEF Apart
<1>11. Step(n, World(n, {}), y) /\ Becomes(n, y)
  BY <1>1, <1>6, <1>9, <1>10, Home DEF Step, Sane, Later, Becomes
<1> QED BY <1>1, <1>11, StepKeeps, Counts

LEMMA LinkInit ==
  Init => LinkInv
<1> SUFFICES ASSUME Init PROVE LinkInv
  OBVIOUS
<1>1. PICK diskless \in Diskless :
        server = [n \in Node |-> NewServer(<<n, 0>>, InitialMaster[n], BacklogSize, diskless)]
  BY DEF Init
<1>2. conn = [c \in Conn |-> NoConn] /\ count = [k \in Counters |-> 0]
  BY DEF Init
<1>3. diskless \in BOOLEAN
  BY ReplicationAssumption
<1>4. GoodNet(conn) /\ \A c \in Conn : ~conn[c].ropen
  <2>1. GoodConn(NoConn)
    <3>1. NoConn \in ConnRec
      BY DEF NoConn, ConnRec
    <3>2. NoConn.ropen = FALSE /\ NoConn.mopen = FALSE
      BY DEF NoConn
    <3> QED BY <3>1, <3>2 DEF GoodConn
  <2>2. NoConn.ropen = FALSE
    BY DEF NoConn
  <2> QED BY <1>2, <2>1, <2>2 DEF GoodNet
<1>5. ASSUME NEW n \in Node PROVE GoodWorld(n, World(n, {})) /\ WithBacklog(server[n])
  <2> DEFINE x == World(n, {})
             i == 0
  <2>1. Shape(x) /\ x.s = server[n] /\ x.net = conn /\ i \in Nat
    BY DEF World, Shape
  <2>2. server[n] = NewServer(<<n, i>>, InitialMaster[n], BacklogSize, diskless)
    BY <1>1
  <2> HIDE DEF x, i
  <2>3. GoodWorld(n, x) /\ WithBacklog(x.s)
    BY <1>3, <1>4, <2>1, <2>2, FreshFacts
  <2> QED BY <2>1, <2>3 DEF x
<1> QED BY <1>1, <1>2, <1>5 DEF LinkInv

LEMMA LinkNext ==
  LinkInv /\ [Next]_vars => Kept
<1> SUFFICES ASSUME LinkInv, [Next]_vars PROVE Kept
  OBVIOUS
<1>1. CASE UNCHANGED vars
  <2>1. server' = server /\ conn' = conn /\ count' = count
    BY <1>1 DEF vars
  <2>2. LinkInv'
    BY <2>1 DEF LinkInv, World, Counters
  <2> QED BY <2>1, <2>2, BacklogsStay
<1>2. ASSUME NEW n \in Node, Link(n) PROVE Kept
  <2>1. CASE \E opens \in BOOLEAN : ReceivePsync(n, opens)
    BY <2>1, ReceivePsyncKeeps
  <2> QED BY <1>2, <2>1, SendPingKeeps, SocketErrorKeeps, HandshakeKeeps, ReadBulkKeeps, ReadStreamKeeps,
             MasterLostKeeps DEF Link
<1>3. ASSUME NEW n \in Node, NEW c \in Conn, MasterReads(n, c) \/ Writable(n, c) \/ Over(n, c) PROVE Kept
  BY <1>3, MasterReadsKeeps, SendReplyKeeps, SendBulkKeeps, LostKeeps DEF Writable, Over
<1>4. ASSUME NEW n \in Node, NEW silent \in May(HasLink(server[n])), NEW ping \in May(Left("pings")),
             NEW slow \in {{}} \cup {{c} : c \in Online(server[n])},
             NEW idle \in May(Idle(n, slow)), NEW ripe \in Must(CanDelay(n)), NEW fork \in Must(CanStart(n)),
             Cron(n, silent, slow, idle, ripe, ping, fork)
      PROVE  Kept
  BY <1>4, CronKeeps
<1>5. ASSUME NEW p \in MayFollow, Slaveof(p[1], p[2]) PROVE Kept
  <2>1. p[1] \in Node /\ p[2] \in Node \cup {NULL}
    BY ReplicationAssumption
  <2> QED BY <1>5, <2>1, SlaveofKeeps
<1>6. CASE Next
  BY <1>2, <1>3, <1>4, <1>5, <1>6, ChildWritesKeeps, BgsaveDoneKeeps, WriteKeeps, ResizeKeeps, RestartKeeps,
     BreakKeeps DEF Next
<1> QED BY <1>1, <1>6

\* The two ends of every link agree about it, whatever breaks and whoever is
\* told to follow whom: an attempt that is given up leaves no descriptor behind,
\* a master's client is there exactly when the state says CONNECTED and never
\* together with a cached one, and a master feeds the clients it has flagged as
\* slaves, which it never does without a backlog.
THEOREM LinksAreOwned == Spec => []LinkOwned
<1>1. LinkInv => LinkOwned
  <2> SUFFICES ASSUME LinkInv, NEW n \in Node
               PROVE  LET s == server[n] IN
                      /\ \A c \in Conn : conn[c].r = n /\ conn[c].ropen <=> HasLink(s) /\ c = LinkOf(s)
                      /\ (s.master # NULL) <=> (s.repl_state = "CONNECTED")
                      /\ s.master # NULL => s.cached_master = NULL
                      /\ ToSet(s.slaves) = {c \in Conn : s.cli[c] # NULL /\ s.cli[c].slave}
                      /\ s.slaves # <<>> => s.b.buf # NULL
    BY DEF LinkOwned
  <2>1. GoodWorld(n, World(n, {})) /\ WithBacklog(server[n]) /\ World(n, {}).s = server[n] /\ World(n, {}).net = conn
    BY Home
  <2> QED BY <2>1 DEF GoodWorld, GoodLink, GoodSlaves, Flagged, WithBacklog
<1>2. LinkInv /\ [Next]_vars => LinkInv'
  BY LinkNext DEF Kept
<1> QED BY <1>1, <1>2, LinkInit, PTL DEF Spec

\* A PSYNC offset the backlog still covers is answered with what it was answered
\* with before, and with what came since: no write, ping, resize, full or partial
\* resynchronization, change of master or restart puts other bytes at an offset
\* the ring keeps, however often it goes round.
THEOREM BacklogIsSteady == Spec => BacklogSteady
<1> DEFINE Steady ==
             \A n \in Node :
               LET b == server[n].b
                   e == server'[n].b
               IN  e # b =>
                     \A o \in e.off..(b.offset + 1) :
                       Held(e, o) => Held(b, o) /\ IsPrefix(BacklogFrom(b, o), BacklogFrom(e, o))
<1>1. Kept => Steady
  BY StillAnswers DEF Kept
<1>2. LinkInv /\ [Next]_vars => LinkInv' /\ Steady
  <2> HIDE DEF Steady
  <2> QED BY <1>1, LinkNext DEF Kept
<1>3. BacklogSteady <=> [][Steady]_vars
  BY DEF BacklogSteady
<1> HIDE DEF Steady
<1> QED BY <1>2, <1>3, LinkInit, PTL DEF Spec
=============================================================================
