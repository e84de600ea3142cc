----------------------------- MODULE BacklogOps ------------------------------
(***************************************************************************)
(* The replication backlog of replication.c: a ring holding the last bytes *)
(* of the replication stream, so that a replica that was away for a while  *)
(* can be given what it missed.  The fields of "struct redisServer" it is  *)
(* made of are one record b here:                                          *)
(*   buf      repl_backlog           size   repl_backlog_size              *)
(*   histlen  repl_backlog_histlen   idx    repl_backlog_idx               *)
(*   off      repl_backlog_off       offset master_repl_offset             *)
(***************************************************************************)
EXTENDS Integers, Sequences, FiniteSetsExt

CONSTANTS
  NULL,                          \* no backlog, and a byte never written
  CONFIG_REPL_BACKLOG_MIN_SIZE   \* the smallest size a backlog is given

ASSUME BacklogAssumption == CONFIG_REPL_BACKLOG_MIN_SIZE \in Nat \ {0}

\* initServerConfig
NoBacklog(size) ==
  [buf |-> NULL, size |-> size, histlen |-> 0, idx |-> 0, off |-> 0, offset |-> 0]

\* zmalloc: a ring with nothing readable in it
EmptyRing(size) == [i \in 0..(size - 1) |-> NULL]

createReplicationBacklog(b) ==
  [b EXCEPT !.buf = EmptyRing(b.size), !.histlen = 0, !.idx = 0,
            !.offset = b.offset + 1, !.off = b.offset + 2]

\* Fault: the new ring is emptied, but still said to start where the old one did.
ResizeWithoutOff(b, n) ==
  LET size == Max({n, CONFIG_REPL_BACKLOG_MIN_SIZE})
  IN  IF size = b.size THEN b
      ELSE IF b.buf = NULL THEN [b EXCEPT !.size = size]
      ELSE [b EXCEPT !.size = size, !.buf = EmptyRing(size), !.histlen = 0, !.idx = 0]

resizeReplicationBacklog(b, n) ==
  LET size == Max({n, CONFIG_REPL_BACKLOG_MIN_SIZE})
  IN  IF size = b.size THEN b
      ELSE IF b.buf = NULL THEN [b EXCEPT !.size = size]
      ELSE [b EXCEPT !.size = size, !.buf = EmptyRing(size), !.histlen = 0,
                     !.idx = 0, !.off = b.offset + 1]

freeReplicationBacklog(b) == [b EXCEPT !.buf = NULL]

\* The memcpy loop: byte k goes to cell idx + k - 1 of the ring, and where the
\* bytes go round more than once the last one to arrive stays.
Written(b, bytes) ==
  [i \in DOMAIN b.buf |->
     LET here == {k \in DOMAIN bytes : (b.idx + k - 1) % b.size = i}
     IN  IF here = {} THEN b.buf[i] ELSE bytes[Max(here)]]

\* Fault: the history length is not cut to the size of the ring.
FeedUncut(b, bytes) ==
  LET histlen == b.histlen + Len(bytes)
      offset  == b.offset + Len(bytes)
  IN  [b EXCEPT !.buf = Written(b, bytes), !.idx = (b.idx + Len(bytes)) % b.size,
                !.histlen = histlen, !.offset = offset, !.off = offset - histlen + 1]

feedReplicationBacklog(b, bytes) ==
  LET histlen == Min({b.histlen + Len(bytes), b.size})
      offset  == b.offset + Len(bytes)
  IN  [b EXCEPT !.buf = Written(b, bytes), !.idx = (b.idx + Len(bytes)) % b.size,
                !.histlen = histlen, !.offset = offset, !.off = offset - histlen + 1]

\* The bytes addReplyReplicationBacklog sends for an offset: from its place in
\* the ring, round the end if need be, up to the newest.
BacklogFrom(b, offset) ==
  LET skip  == offset - b.off
      first == (b.idx + (b.size - b.histlen)) % b.size
      j     == (first + skip) % b.size
  IN  IF b.histlen = 0 THEN <<>>
      ELSE [k \in 1..(b.histlen - skip) |-> b.buf[(j + k - 1) % b.size]]

\* Whether the backlog has everything from the offset on
Held(b, offset) ==
  b.buf # NULL /\ offset >= b.off /\ offset <= b.off + b.histlen

\* getPsyncInitialOffset
getPsyncInitialOffset(b) == IF b.buf = NULL THEN b.offset + 1 ELSE b.offset
=============================================================================
