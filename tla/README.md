# A TLA+ verification of redis_test

The repository is a cut-down Redis 3.2 for reading: a single-threaded server
(`redis-server`) that accepts connections over its own event loop, parses the
Redis protocol, keeps one keyspace of string objects with times to live and
knows three commands, `GET`, `SET` and `DEL` (and `QUIT`); and the library of
data structures behind it (dict, quicklist, ziplist, intset, skip list, strings,
lists), which `redis-test` exercises on its own. Much of the original is kept as
text only, commented out or never reached. The models follow what the code does,
and this document says where that is less than it seems.

## Inventory

| Component | State it keeps | Operations | Meets the others through |
|---|---|---|---|
| dict (`dict.c`) | two hash tables, `rehashidx`, a count of open safe iterators; the global `dict_can_resize` | add, replace, delete, find, random key, empty, resize, expand, rehash for some milliseconds, safe iterators, `dictScan` | the keyspace, the command table, WATCH tables and sorted sets are dicts; every lookup may move a bucket |
| event loop, files (`ae.c`, `ae_epoll.c`) | per descriptor a mask, handlers and client data; the fired events of one poll | create and delete events, poll, dispatch | calls the handlers of `networking.c`, which change the table it walks |
| event loop, timers (`ae.c`) | an unsorted list of timers, the time of the last walk | create (at the head), delete (mark), find the nearest, process | `serverCron`; procedures change the list that is walked |
| clients (`networking.c`) | per client: descriptor, flags, static buffer, reply list, `sentlen`, `reply_bytes`; the lists of clients, of pending writes, of clients to close | accept, create, add replies, write, free now or later, enforce limits | event loop, commands, the socket |
| request parsing (`networking.c`, `sds.c`, `util.c`) | query buffer, `reqtype`, `multibulklen`, `bulklen`, `argv` | read, take inline or multibulk requests off the buffer | the socket on one side, `processCommand` on the other |
| keyspace (`db.c`, `t_string.c`) | two dicts, values and expire times | get, set with NX/XX/EX/PX, delete, expire lazily | dict, objects, the clock |
| quicklist (`quicklist.c`) | a linked list of ziplists, some compressed, counts | push, pop, insert, delete, replace, rotate, duplicate, iterate | ziplist, LZF |
| ziplist (`ziplist.c`) | one block of memory with a header | push, insert, delete, merge, walk | quicklist, objects |
| intset (`intset.c`) | one block of memory, an encoding | add, remove, find, get | set objects |
| skip list (`t_zset.c`) | nodes with levels, spans, backward pointers | insert, delete, first and last in range | sorted set objects |
| transactions (`multi.c`) | per client a queue of commands, the keys it watches and the flags for EXEC; per database who watches a key | multi, discard, watch, unwatch, touch, queue | `processCommand`, the keyspace, clients that leave; all share objects by reference counts |
| replication, master (`replication.c`) | the backlog (a ring with offsets), the slaves and the state of each, the save under way | feed, PSYNC and SYNC, REPLCONF, send the file, cron | writes, the child that saves, the replicas |
| replication, replica (`replication.c`) | `repl_state`, the connection, the file being received, the master's client, live or cached | connect, handshake, receive, resume, SLAVEOF, cron | its master; its own replicas, which start over with it |
| adlist, sds, objects | nodes and iterators; headers and free space; reference counts | - | used everywhere |
| sockets, configuration, logging, compression, hashing, stubs | - | I/O and set-up | - |

What is hard here. There are no threads; the concurrency is that of one loop with
its peers, and of a long-lived operation with the calls made in the middle of it:

* a rehash, a scan and an iteration are spread over many calls, with anything in
  between, on tables that are swapped when the last bucket has moved;
* events are fetched together and handled one by one, while handlers free
  clients and descriptors are reused; output is written in three places (before
  sleeping, by a write handler, after a limit) and sockets take what they like;
* TCP cuts requests anywhere, and the parser keeps its place in six fields;
* the clock moves during a command, which reads it again at each step, and dead
  keys stay in both dicts until somebody looks;
* the procedures of timers create and delete timers during the walk, and the
  clock the walk compares with may be set back;
* key objects are shared by a queue, a list and a table that let go of them in any
  order, while other clients modify the keys and leave;
* master and replica are two servers over links that break in the middle of a
  command, fall silent, or are given up by one end before the other; saves fail,
  servers restart under another run id, and the ring of the backlog forgets;
* the compact structures are rewritten in place, with lengths, offsets, counts
  and spans kept redundantly, so an error shows many calls later.

`PROJECT.json` lists these as hazards, each at its line with the properties that
would catch it.

## Modules

| Module | Models | Uses |
|---|---|---|
| `DictOps` | the functions of `dict.c` as operators on a dict | - |
| `Dict` | one dict, every public call an action | `DictOps`; implements `FiniteMap` |
| `DictScan` | `dictScan` between changes of the table | `DictOps` |
| `DictIter` | a safe iterator whose user changes the dict | `DictOps` |
| `FiniteMap` | abstract: what a dict promises | - |
| `ClientOps` | clients, replies, events as operators on the server | - |
| `Networking` | the loop, its handlers, the sockets and the peers | `ClientOps` |
| `QueryBuffer` | reading and parsing, byte by byte | - |
| `AeTimers` | the time events of `ae.c` | - |
| `Traversals` | `DictScan`, `DictIter` and `AeTimers` side by side | these three |
| `Transactions` | `multi.c` and the queueing of `processCommand` | - |
| `Keyspace` | `GET`, `SET`, `DEL` on one database | implements `KeyStore` |
| `KeyStore` | abstract: values that vanish on time | - |
| `Requests` | `QueryBuffer`, `Transactions` and `Keyspace` side by side: what a request goes through | these three |
| `BacklogOps` | the ring of the replication backlog | - |
| `ReplicationOps` | what the master's functions of `replication.c` do to a server and its connections | `BacklogOps` |
| `ReplicaOps` | the replica's functions, which also use the master's (chained replicas) | `ReplicationOps` |
| `Replication` | servers, connections and faults | `ReplicaOps` |
| `QuickListOps`, `QuickList` | `quicklist.c`, and one list with an iterator | implements `ListSpec` |
| `ZipListOps`, `ZipList` | `ziplist.c` in bytes and pointers, and one ziplist with a walk | implements `ListSpec` |
| `ListSpec` | abstract: one sequence and at most one traversal | - |
| `IntSet` | `intset.c` over memory units | implements `IntegerSet` |
| `IntegerSet` | abstract: a set of integers, readable in order | - |
| `SkipList` | the skip list of `t_zset.c` | - |
| `Encodings` | an object with a dict, a quicklist or one of the last three as its encoding (`object.c`) | `Dict`, `QuickList`, `ZipList`, `IntSet`, `SkipList` |
| `DictProofs` | theorems on a dict and on its safe iterator | `Dict`, `DictIter` |
| `KeyspaceProofs`, `AeTimersProofs`, `NetworkingProofs`, `TransactionsProofs`, `ReplicationProofs` | theorems | the module they are named after |
| `ListFacts`, `FoldFacts` | lemmas on lists without repetition, their removals and concatenation, and on folds | the proofs |
| `MC*` | small instances for TLC | - |

Definitions have the names of the functions they translate; `map` in
`PROJECT.json` gives the lines. A definition whose comment begins with *Fault* is a
plausible mistake in the definition below it, used to show that a property
notices it; no specification uses it.

### How state and actions correspond

**Dict.** A table is its size, `used` and a set of entries per bucket (the order of
a chain matters only to `DictIter`, where it is chosen as the iterator follows
it). Every call is one action with the rehash step it begins with, the expansion
it may cause and its early returns. `dictRehash` visits at most `n*10` empty
buckets (`EmptyVisitsPerStep`). Allocation never fails: `zmalloc` aborts. `_dictNextPower`
has no branch for sizes from `LONG_MAX` on, which no allocation reaches. `call` is the
function last called, with its arguments, and `ret` its answer; `FiniteMap` has both, so
that an answer belongs to the key that was asked for. That `dictGetRandomKey` can return
every entry is a fact about a state, and part of `TablesConsistent`.

**DictScan, DictIter.** The cursor is `CursorBits` wide and reversed bit by bit.
The iterator's fields are those of `dictIterator`; the count it takes is taken at
its first `dictNext` and given back on release. Its user may delete the entry it
was given, add, look up and resize, as the comment in `dictNext` allows; deleting
another entry may free the saved successor, and is not done by any caller.

**Networking.** `server` has the lists, the clients and the event table; `sock` what
the kernel and the peers hold; `loop` where the single thread is. A peer acts at
any time. Handlers are split only where the code returns to the loop or the
socket decides something: between two requests of one read, and between two
clients of the pending list. Each output byte carries its number, so order, loss
and duplication show. The write of `writeToClient` takes any number of bytes up
to the room in the socket. Registering an event may fail (`AddCanFail`). The
loop of a write removes the empty chunks it meets; when it stops at
`NET_MAX_WRITES_PER_EVENT`, those behind stay (`networking.c:906-934`, `AfterWrite`).
That limit is off while `server.maxmemory` is set and exceeded; it is 0 on 64 bits.
`reply_bytes` is memory, as in the code: a reply object is embedded, raw, shared, or the
empty node of a deferred header, and has room for `alloc` bytes; a raw string that grows
gets spare room (`sdsMakeRoomFor`), a block is padded and prefixed (`zmalloc_size`), and
a shared object is copied, to its exact size, before something is appended to it. The
constants `SdsHeader`, `ObjectSize`, `LongSize` and `PREFIX_SIZE` are any sizes; the four
header types of `sds.h` are one. An object that is shared when it is queued stays so
while it is in the list.

**QueryBuffer.** Bytes are a small alphabet; numbers have one digit; anything else
where a number belongs stands for what is refused, but for -1: a negative number of
arguments is an empty request, a negative length is refused. `pos` and the trim at the end
are as in the code, as is the argument that takes the whole buffer over.

**Keyspace.** Dicts are functions, which is what `Dict` implements. A `SET` is two
actions and a `DEL` one per key, because each reads the clock again. `call` is the command
being executed with its arguments, `ret` its reply, until `resetClient`; `KeyStore` has both,
refuses a SET only for the reason its reply gives, and gives a stored key the deadline the
call asked for. Signed arithmetic beyond `LLONG_MAX`, which C leaves undefined, wraps
around, as in the build; `KeyStore` says what that makes of a time to live.

**AeTimers.** A walk of `processTimeEvents` is one step per timer, because the
procedure called for it may do anything: create a timer, delete any (its own
too), and ask to be called again or not. `te` and `prev` are kept as in the code,
and so is the head when it is removed. Time is in ticks, several to a second,
since `lastTime` is in seconds and the timers in milliseconds. `asked`,
`dropped`, `fired` and `owed` record what the procedures asked for.

**Transactions.** One action per request, from the creation of its arguments to
`resetClient`. Objects have a reference count and a name that is lost when the
count reaches zero; `panic` is a failed assertion or a count below zero. The
arguments of a request are distinct free objects, one for each name, whichever
they are (all free objects are alike, so one choice is as good as another). The
table `watched_keys` of a database keeps the object of the first watcher as its
key, which its destructor drops (`keylistDictType`). In this tree the commands of
`multi.c` are not in the command table, and the three calls into it are comments:
`initClientMultiState` (`networking.c:100`), `freeClientMultiState`
(`networking.c:852`) and `touchWatchedKey` (`db.c:77`). The model makes them, so
it says of `multi.c` what holds once they are put back. `execCommand` is a comment
as a whole; what it would look at, the two dirty flags, is what is checked.

**Replication.** `replication.c` is not linked by the makefile, and its hooks in
`freeClient`, `readQueryFromClient` and `call` are comments; the model takes them as made.
Each server is one record and one thread: a handler is one step. A byte of the
stream knows its command and its place in it; a dataset is the sequence of writes
executed, each with its database, so that a gap, a repetition, a torn command or a
wrong database all show. A connection has a queue in each direction; when it
breaks each end finds out for itself, and what it had received may still be read.
A write to a lost connection may fail or seem to succeed. The child of a save is
its snapshot and how far it has written; `rdb.c` and the rest of the child are
external. Time is not counted: what `replicationCron` compares with a timeout are
its arguments, and a timeout of a link that works costs one of the bounded faults.
A read of the transfer returns any number of the pieces that have arrived, and the
delimiter of a diskless save is looked for at the end of the read only, as in the code.
An ACK is sent in one piece, so a cached master has no output left to send.
Restarted servers have another run id and no data.

**Traversals, Requests, Encodings.** These put independent components side by side: a
behaviour exercises the one that `traversal`, `stage` or `encoding` names, while the others
stay as they are. They share a run, not a state.

**QuickList.** A node is a sequence of values with its `count`, `sz`, encoding and
recompress flag. `quicklist->len` is passed where the code reads it before it is
adjusted. The compressor refuses nodes below `MIN_COMPRESS_BYTES` and those on which it
saves too little (`Saving`, bytes per value), and then leaves the recompress flag as it is.
A push, pop or rotation that would take a compressed end for a ziplist is not made
(`Raw`): what it does is undefined, and `quicklist_ends` shows how it comes to that. A
rotation is a set of outcomes: where it copies from the ziplist it has just moved, the
head gets any string of that length; such rotations are made in `quicklist_rotate` only
(`RotateInPlace`). `quicklistDup` copies the value of a compressed node as it is; the code
copies `sz` bytes of a block that is shorter, and the copy decompresses to the same. The bit
fields of `fill` and `compress` are 16 bits wide: the largest values the setters
let through become -2^15 and 0.

**ZipList.** One cell per byte, written as what it is, so that reading a byte as
something else gives a wrong number, as in C. `zipPrevEncodeLength`, the resizes
and the moves are literal, offsets before the first entry (the header) included.
How a payload is encoded is a size per value.

**IntSet.** Memory in units of the smallest encoding, little endian; the new part
of a resized array holds nothing readable.

**SkipList.** Nodes are named by their objects. `zslRandomLevel` may return any
level.

## Runs

All passing runs finish in under four minutes on two cores.

| Run | Checks | Bounds and why they are enough |
|---|---|---|
| `traversals` | `ScanComplete`, `ScanEnds`; `IterationExact`, `RehashMovesOn`; `CalledRightly`, `DueAreCalled` | scan: four keys that part only in 8 and 16 buckets, tables of 2 to 16 that differ by a factor of two during a rehash; iterator: three keys, begun in and outside a rehash; timers: three, created and deleted by each other, two ticks to a second, the clock set back once: head, middle and last are removed, alone and together, by themselves and by others |
| `scan_shrink` | `ScanComplete` fails | as above, with a factor of four (`MaxRatio`): finding below |
| `stream` | `StreamIntact`, `ReplyBytesExact`, `OutputScheduled`, `ClosingIsFinal`, `AllSentBeforeClose` | one client, three requests of every kind, a static buffer and a socket of two bytes: replies fit, spill, are glued, are deferred, are cut |
| `clients` | `ListsMatchFlags`, `EventsReachTheirClient` | three clients, a limit of two, four descriptors that are reused, event registration that fails; symmetric clients |
| `net_live` | `OutputDelivered` | two clients, one request each, a socket of one byte |
| `requests` | `ExecutesWhatWasSent`, `NothingLeftBehind`, `ErrorsAreErrors`; `TablesAgree`, `HoldersCounted`, `AbortsRightly`; `ExpiresHaveKeys`, `ImplementsStore`, `NXNeverOverwrites` | parsing: every cut of streams of two or three requests into reads of 1 to 3 bytes, arguments below and above the size that earns a buffer of its own, every kind of malformed request; transactions: two symmetric clients, two databases, one name, three objects: two watchers of one key that come and go in any order, one key watched twice in a request, a queue that shares objects; keyspace: two keys, two values, numbers of seconds and milliseconds that are 0, 1 and 30 on a clock up to 4 with `LLONG_MAX` 31 and two milliseconds to a second: refused, over within the run, and beyond what fits |
| `quicklist_ends` | `EndsUncompressed` fails | depth 1: finding below |
| `quicklist_rotate` | `RotateMoves` fails | rotations of a single node of strings, no compression: finding below |
| `queue_errors` | `ErrorsSpoil` fails | as `requests`: finding below |
| `encodings` | `TypeOK`, `TablesConsistent`, `ImplementsMap`, `RehashForward`; `CountsExact`, `ImplementsList`; `LayoutExact`, `ZipListImplementsList`; `ImplementsSet`; `SearchExact`, `DeletesExact` | dict: three keys of which two collide in up to four buckets, tables of 1 to 8, one iterator: single entries and chains move, a rehash can be stopped, and may end inside any call; quicklist: five entries of one or two bytes, of which one kind compresses, nodes limited to two entries, by bytes, and by a fill that overflows its field, depths 0, 1, 2 and one that overflows, nodes below and above the least size for compression: up to five nodes, splits, merges, every compression boundary and refusal; ziplist: four entries that are small, just below and just beyond what makes a length field large, a length that saturates at 3; intset: both sides of every encoding boundary of a two-bit unit; skip list: four objects, equal and different scores, three levels. States are told apart by the structure in use (`MCView`): no call reads the record of the one before, so states that differ in it alone have the same successors, and every step is checked |
| `replication` | `StreamExact`, `PartialResyncSafe`, `TransferIntact`, `LinkOwned`, `BacklogSteady` | a master, a replica with a password and an announced address, two connections (the old one is still known to one end when the next is made), saves to disk and to sockets; two writes, a ping, a command of the administrator, a fault, three of these in a behaviour: a ring of four or three bytes is overwritten, wraps, is freed and made anew while the replica is away with half a command |
| `repl_live` | `EventuallyInSync` | one write and one fault in any order, both kinds of saves |

The bounds of the models are the constants `MaxDoublings`, `MaxIterators`,
`MaxRequests`, `MaxTime`, `MaxCount`, `MaxEntries`, `MaxIds`, `MaxSetBacks`, `MaxWatched`,
`MaxQueued`, `Limit`, `MaxEvents`, the switches `RangeStarts` and `RotateInPlace` and the input sets of the `MC` modules. Sizes
that are large in the code (`PROTO_REPLY_CHUNK_BYTES`, `ZIP_BIGLEN`, table sizes,
`LLONG_MAX`) are constants given small values that keep the relations the code
relies on, which the modules state as assumptions.

A connection on which everything was read and a table of timers at rest are
behaviours that go on stuttering: `requests` says so with a disjunct of its own
(`Quiet`) and checks for deadlocks, the others need none.

### Fairness

* `traversals`: the caller of a scan keeps calling (weak fairness of `Scan`);
  whoever else changes the table needs no fairness. Users of iterators release
  them, and lookups keep coming at moments when none is open (strong fairness:
  those moments come and go). Nothing but calls moves buckets, since `serverCron`
  returns at once.
* `repl_live`: every server runs its cron once a second and serves connections that
  have something for it (weak fairness per connection and direction: the poll
  reports each), learns in time that a link is dead (its timeouts), and its saves
  end. Nothing is assumed of writes, commands or faults, which are bounded.
* `net_live`: the server's thread runs (weak fairness of its step: the loop never
  blocks, because `serverCron` returning 0 keeps a timer due), and peers read what
  they are sent.

### What the runs found

* `dict.c:870`: the loop over the larger table of a rehash begins at the cursor's
  own index, while the cursor counts with reversed bits; with tables that differ
  by four or more, a key present throughout is missed, although `dict.c:742`
  guarantees that it is returned.
* `quicklist.c:305`: the recompress flag is leave to compress a node at any depth, and it
  outlives the call that set it: `quicklistIndex` leaves it, and so does a compressor that
  refuses (`quicklist.c:153-166`). In the run an insert splits a compressed node, the piece is
  too small to be compressed again, it is merged with the tail, and the tail is compressed;
  an index followed by the deletion of the nodes before it does it to the head. Then
  `quicklistPushHead` takes compressed bytes for a ziplist, although `quicklist.h:49` has
  "depth of end nodes not to compress".
* `quicklist.c:1272`: with one node, `quicklistRotate` gives `quicklistPushHead` a pointer into
  the ziplist that `__ziplistInsert` reallocates and shifts before it copies
  (`ziplist.c:530`, `:536`, `:573`): a string does not arrive at the head as it was.
* `server.c:1937`: a command refused while loading is not queued, and the transaction is not
  flagged, although `multi.c:50-51` says that `flagTransaction` "Should be called every time
  there is an error while queueing a command". A nested MULTI and a WATCH in MULTI do not
  flag it either. `EXEC` is a comment here, so nothing runs such a transaction yet.

Lists are only created, counted and released in this build, so the two findings on
them do not bite yet.

Observed while modelling, and excluded from the inputs of the passing runs or
modelled as it is:

* An inline request ended by LF alone takes the first byte of a pipelined
  successor with it (`networking.c:1064`); in `requests` such a line comes last.
* A time to live whose moment does not fit in a long long is stored as a negative number
  (`t_string.c:36`, `:47`), which is "No expire for this key" (`db.c:145`): the key is
  permanent. `KeyStore` says so, and `ImplementsStore` holds with such times.
* Clients scheduled by `freeClientAsync` are never freed: nothing calls
  `freeClientsInAsyncFreeQueue`. `OutputDelivered` leaves them out.
* `quicklistDelRange` from a positive index inside a node takes its whole extent off the
  counts when the range is shorter than the node and reaches its end
  (`quicklist.c:962-982`), though fewer entries are there; with 2 in `RangeStarts`,
  `CountsExact` fails. The runs take ranges from the head or from an index counted from
  the tail, as LTRIM does.
* Inserting at an entry with a negative offset into a full node, an iterator that starts on
  the far side of its direction, and inserting without a reference entry go wrong as
  well. No caller here does any of these.
* The cached master keeps output it had not written, perhaps half an ACK, and sends it on
  over the new connection (`replication.c:1937`). Not modelled, see above.
* `dictEmpty` zeroes the iterator count (`dict.c:955`); releasing an iterator opened before
  would make it negative and stop rehashing. No caller empties a dict it iterates.
* A timer that a finalizer creates while the head of the list and its successor are
  both being removed is lost with the successor (`ae.c:264-271`); `Loses` keeps
  finalizers from creating one there. No timer here has a finalizer.
* `processTimeEvents` notices a clock that was set back only when it runs, which is
  after a sleep computed from the old times (`ae.c:345`); `DueAreCalled` promises
  the length of a sleep only for a clock that was not set back. The test
  `te->id > maxId` is never true, as its comment says.
* A save that cannot be started (`replication.c:495-507`) means to tell the waiting
  slaves and to close them after the reply; as their `replstate` stays
  `WAIT_BGSAVE_START`, `prepareClientToWrite` schedules nothing, the error is
  never sent and the connection stays until the replica gives up (`DropWaiting`).
  `EventuallyInSync` relies on that timeout.
* `replicationSetMaster` resets `master_repl_offset` while the run id stays, so offsets
  of one run id can be given out twice; `SLAVEOF` is given to replicas only here.
* After the fallback to `SYNC` the master's client has offset -1 and counts from there,
  with the run id of an earlier master; it never sends ACKs, and would ask for a wrong
  offset with PSYNC. The masters modelled understand PSYNC.
* `replicationCountAcksByOffset` with offset 0 counts slaves that never acknowledged
  anything. WAIT is not modelled.
* With the calls of `networking.c:100` and `:852` as comments, a client would start with
  an uninitialised queue and leave it behind; no command of the table can queue.

## Theorems

TLAPS checks the proofs in the modules named `*Proofs`, and the lemmas of
`ListFacts` and `FoldFacts` they share, for every value of the constants that
satisfies the named assumptions. Each theorem is about the specification of one
component (`Spec`, `IterSpec`, `TimersSpec`, `TransactionsSpec`); `Traversals`, `Requests` and
`Encodings`, which the runs check, extend these modules and take their steps unchanged.

### Dict

* `TypeCorrect`, `AlwaysConsistent`: any finite set of keys, any hash function, any
  table sizes that hold twice the keys, any order of calls. The inductive
  invariant is `TypeOK` with `GoodDict`: entries sit where they hash to, `used`
  counts them, the tables share no key, and outside a rehash the second table is
  reset, while during one `rehashidx` is in range with empty buckets below it.
  That last part is what makes the rest inductive: it is why a delete that empties
  a table, a lookup that ends a rehash and an add in the same call agree. The
  lemmas follow the code: a table after an insert, an unlink, a new value
  (`InsertGood`, `UnlinkGood`, `SetValGood`), a move of buckets (`MoveDrainsHt0`,
  `MoveFillsHt1`, `RehashGood`), then one lemma per function.
* `DictImplementsMap`: every step of `Dict` is a step of `FiniteMap` or a stutter,
  under the mapping of a dict to the entries of both tables. The call with its key and the
  answer are part of the abstract state, so an add is refused only for a key that is
  bound, never because an expansion was refused, and a lookup or a deletion fails only for
  a key that is not.
* `RehashGoesForward` (`RehashForward`): during one rehash, `rehashidx` never goes back and the
  table that is drained gets no new key, and each lookup of a non-empty dict moves it on.
* `SafeIterationIsExact` (`IterationExact`): from `IterAssumption`, a safe iteration returns
  no key twice, misses none that was there throughout, follows live entries only and gives
  its count back. The invariant `IterInv` says where the iterator stands: what it saved of
  a chain is in the bucket it is at (`IterPlaced`), what it returned is neither there nor
  ahead, and what was there all along is returned, in that chain, or ahead
  (`IterProgress`). It is inductive because `d->iterators` stops every move of a bucket:
  no call of the user changes the table or the bucket of a key that stays (`Stays`), and an
  expansion in the middle only adds a second table, which is ahead.

### Keyspace

* `KeyspaceTypeCorrect` (in no run), `ExpiresAlwaysHaveKeys`, `NXSafe`: any keys,
  values, clock and times, overflowing ones included. The invariant adds to
  `ExpiresHaveKeys` that a `SET NX` under way has nothing in its way: time only
  removes keys.
* `KeyspaceImplementsStore`: lazy expiry implements `KeyStore`, for all keys, values, times and
  clocks, with no assumption on overflow. The abstract state has the call and the keys a
  DEL has left: NX is refused exactly on a live key and XX exactly on a missing or dead one,
  a SET without a time makes the key permanent, one with a time gives it that deadline,
  or none where the moment wraps to a negative number, and the number DEL returns is that of the
  live keys. What makes it provable is that a job under way belongs to its call
  (`TypeOK`) and that a lookup changes no view (`ValueView`, `DeadlineView`).

### Timers

`WalksCallWhatIsDue` (`DueAreCalled`) and `WalksCallRightly` (`CalledRightly`), from
`TimersAssumption`: any number of timers, any delays, any clock that may be set
back, any procedures. The invariant `TimersInv` says of the list that it repeats no
timer and has every one that was not deleted (`GoodLoop`). Of a walk it says where
it stands (`StandsAt`): `prev` is in front of `te`, or there is no `prev` and `te` is the
head or will not be unlinked; everything from `te` on is as old as the walk and was
not called in it; and a timer that is owed a call was called, was deleted, or is
from `te` on. This is what the properties lack: it survives a removal because
`prev` stays, and a call because what a procedure creates goes to the head.
`ClockInv` is what sleeping needs: while the clock was not set back, no timer is due
before the sleep ends.

### Clients and the loop

The invariant `ServerInv` (`ServerInvariant`, in no run) is proved for every set of
clients, descriptors and requests, every size of buffers, chunks and sockets, from
`RequestAssumption` and the assumptions on sizes. It has four parts:

* `GoodServer`: a flag and the list it stands for agree and no list repeats a
  client; a live client is the one registered for its descriptor, which is
  readable, and a descriptor with an event has a live owner; `sentlen` is a position in
  the buffer, or in the first chunk when that is empty, and `reply_bytes` is the
  memory of the reply list (`ListMemory`), whatever the sizes of headers, blocks and
  spare room;
* `Connection`: what was sent with what is buffered is the output so far, and a
  client with output is on the pending list, has a write handler, or is to be closed;
* the types of the sockets;
* `LoopInv`: a descriptor being read from is registered, so the client that the
  rest of its input is executed for is alive. The requests of one read are steps
  of their own here, and freeing a client in the middle ends them.

`ListsFollowFlags` (`ListsMatchFlags`), `EventsAreOwned` (`EventsReachTheirClient`),
`NoOutputForgotten` (`OutputScheduled`), `ReplyBytesAreExact` (`ReplyBytesExact`) and
`StreamIsIntact` (`StreamIntact`) are what it says. `ClosingStaysFinal` (`ClosingIsFinal`) and
`AllIsSentBeforeClose` (`AllSentBeforeClose`) are about steps; they are proved with it, since
each action lemma gives the invariant afterwards, that a closing client's output
did not grow and none of its input was taken, and that one closed by the write path was sent
everything (`Outcome`). Replies of several parts and lists of clients are folds: that
each part keeps the invariant carries over to the fold by `FoldFacts`. Proving what a
write leaves behind is what showed that `AfterWrite` removed too many empty chunks.

### Transactions

`WatchTablesAgree` (`TablesAgree`), `ReferencesAreCounted` (`HoldersCounted`) and
`ExecAbortsRightly` (`AbortsRightly`) from `TransactionsAssumption`: database 0 exists,
objects are finite in number, requests are sequences of names, and `Nobody` is no
name. Any clients, databases, names and lengths of lists, tables and queues.

Counts are sums over three kinds of holders, which no prover here can add up. The proof
therefore keeps the *set* of references, pairs of a holder (a place in a list, an
entry of a table, an argument of a queued command) and an object, and says that an
object's count is the cardinality of its references (`Counted`). Taking one adds an
element, dropping one removes an element, and a drop in the middle of a request never
finds a count of zero because the reference it drops is in the set. The invariant
`TransInv` (`TransactionsInvariant`, in no run) adds that each list names live objects and
no pair twice, that the tables hold for each name exactly the clients that asked for
it, in a list without repetition under an object of that name, that clients
which are gone hold nothing, and that the dirty flags follow the history: `DIRTY_CAS` in both
directions, `DIRTY_EXEC` only in the one that holds (`queue_errors` refutes the other).

Within a request this does not hold: `unwatchAllKeys` has freed some of its entries, a
queue is partly released, the arguments have references of their own. The lemmas
about single rounds are stated for such states (`Mid`, `Busy`: the references that
remain, with those of the request), and rounds are put together by `FoldFacts`.
The model was changed in notation only to make this provable (`WithEntry`, `Argv`).

### Replication

`LinksAreOwned` (`LinkOwned`), from `ReplicationAssumption` and the assumptions on lengths:
any number of servers and connections, any topology `MayFollow` allows (rings and
chains too), backlogs and transfers of any size, every fault of the model. The assumption
only keeps `NULL` apart from values and gives the constants their types.

`LinkOwned` is far from inductive. `LinkInv` adds, for each server and its connections
(`GoodWorld`):

* a connection that both ends have closed is forgotten, and a client of a server has its own
  end open (`GoodConn`, `GoodSlaves`): a descriptor is not reused while somebody holds it;
* `masterhost` is set exactly when the state is not `NONE`, and during a transfer there is no
  cached master (`GoodLink`);
* nothing on the connection of an attempt that has not asked to resume a stream can make
  the replica resume one: no `+CONTINUE` is on its way to it, and no PSYNC of its own asks for
  one (`Early`, `Quiet`). `replicationResurrectCachedMaster` therefore always finds the
  cached master it takes for granted. The answer comes from another server, so this
  part is about both ends;
* the ring is as long as its size, `off`, `histlen` and `master_repl_offset` agree, and the
  last `histlen` cells have been written (`GoodBacklog`): nothing unwritten is ever sent.

A handler of one server may touch the connections of others only in the way `Apart`
says, so that each lemma is about one server's world. The lemmas follow the functions, the
loops over slaves by `FoldFacts`. `WrittenCells`, `FeedFacts` and `BacklogFromIs` say what the ring
holds after the `memcpy` loop and what is sent from it, modulo its size.

`BacklogIsSteady` (`BacklogSteady`, an action property) uses them for what a replica may be
given: whatever step is taken, an offset of the earlier stream that the ring covers after it
was covered before it, and the bytes sent for it then are the beginning of those sent for it
now. Every handler's lemma therefore also says that the backlog afterwards is a later state of
the one before (`Later`: gone, or with the same byte at every offset it still has; it is
transitive, so a handler that feeds, frees or resizes on its way is covered), except that SYNC
and PSYNC may make one where there was none (`Made`), whose first offset lies beyond all
earlier ones: `createReplicationBacklog` skips one offset for this.

To be provable the loops of `ReplicationOps` got names (`Drop`, `SetUp`, `Served`, `Fed`) and
`syncCommand` its parts (`Enlist`, `FindSave`). The proof showed that `sendBulkToSlave` did not
model a file that ends too early (`replication.c:798-804`); it does now.

### Only model-checked

* Liveness (`ScanEnds`, `RehashMovesOn`, `OutputDelivered`, `EventuallyInSync`), which needs
  fairness and is out of the prover's reach.
* What a recursive definition computes: `ScanComplete` (reversed cursors), parsing
  (`QueryBuffer`), `CountsExact`, `LayoutExact`, `SearchExact`, the refinements of
  `ListSpec` and `IntegerSet`. The library's induction theorems take an operator as a
  parameter, which the provers cannot instantiate. Where a proof above needs an
  induction (folds, the concatenation of the parts of a reply list), it is over a
  *set* of numbers, by the least element of its complement.
* `StreamExact` and `PartialResyncSafe`, which follow a stream with a fold over all its bytes, and
  hold only while no server of the chain resets its offset under an unchanged run id
  (see `replicationSetMaster` above), which is so in the topology of the run.
* `TransferIntact`: its invariant has to say of each queue which of the orders of replies,
  keep-alives and pieces it may hold, against the states of both ends.

## Not modelled

* `dictGetSomeKeys`, `dictGetStats` and iterator fingerprints: sampling and diagnostics.
* `CLIENT` subcommands, pausing, argument rewriting: unreachable from the table.
* Quoted inline arguments beyond their being unbalanced, and numbers of several digits.
* Integer encodings inside ziplists, `ziplistFind`, `ziplistCompare`.
* Sockets, configuration, logging, the compressor and the hash functions: I/O,
  set-up, or third-party code; the poll backends that Linux does not build.
* `EXEC` (a comment here), `WAIT`, `ROLE`, `MONITOR`, the script cache, `min-slaves` and the
  AOF restart after a resynchronisation. Chains of more than two servers are in the
  model and in its theorems, not in the runs.
* Linked lists and strings as such: the modules use sequences, and rely on `listNext`
  having read the successor before the node is deleted. String encodings of objects.
* Blocking, publishing, the slow log, notifications, cluster: stubs here.

## Plan

Done, in this order: dict (modelled, proved), clients and the loop (modelled,
proved), parsing, keyspace (modelled, proved), quicklist and the other encodings,
timers (modelled, proved), transactions (modelled, proved), replication (modelled, the
links and the backlog proved). What remains is to prove more:

1. `TransferIntact`, with what may be on its way to a replica in each state of both ends; on top
   of it `StreamExact` and `PartialResyncSafe` for a master that stays one, from
   `FeedFacts` and `BacklogFromIs`.
2. `QueryBuffer`, as far as its operators allow.
