---------------------------- MODULE QueryBuffer ------------------------------
(***************************************************************************)
(* How networking.c turns the bytes of a connection into commands:         *)
(* readQueryFromClient appends what one read() returned to the query       *)
(* buffer, and processInputBuffer takes as many whole requests off it as   *)
(* there are, keeping the state of a half-read one (multibulklen, bulklen, *)
(* argv) for the next call.  TCP cuts the stream anywhere.                 *)
(*                                                                         *)
(* A byte is "CR", "LF", "*", "$", "-", " ", a quote, a digit or a letter; *)
(* a number is one digit, with or without a minus, and everything else     *)
(* stands for the lengths that are not numbers or are over the limits.     *)
(***************************************************************************)
EXTENDS Integers, SequencesExt

CONSTANTS
  Scripts,                \* what peers send: sequences of requests
  PROTO_IOBUF_LEN,        \* the most one read() returns: 16k
  PROTO_MBULK_BIG_ARG,    \* an argument worth its own buffer: 32k
  PROTO_INLINE_MAX_SIZE   \* buffer without a line end in it: 64k

\* One read behind a small argument that is not complete yet stays below the
\* length at which a buffer without a line end is refused.
ASSUME SizesAssumption ==
  /\ PROTO_IOBUF_LEN \in Nat \ {0}
  /\ PROTO_MBULK_BIG_ARG + PROTO_IOBUF_LEN < PROTO_INLINE_MAX_SIZE

VARIABLES
  stream,    \* bytes sent and not yet read
  script,    \* the requests those bytes were made from
  q,         \* the fields of the client that parsing uses
  at,        \* where the server is: "read", or inside processInputBuffer
  executed   \* the commands handed to processCommand, as their arguments

qbvars == <<stream, script, q, at, executed>>

Digits == "0" :> 0 @@ "1" :> 1 @@ "2" :> 2 @@ "3" :> 3 @@ "4" :> 4
NoNumber == 5
CRLF == <<"CR", "LF">>

-----------------------------------------------------------------------------
(* The requests of a peer: what it means, and the bytes it sends.          *)

DigitOf(n) == CHOOSE b \in DOMAIN Digits : Digits[b] = n

BulkBytes(arg) == <<"$", DigitOf(Len(arg))>> \o CRLF \o arg \o CRLF

\* A request is [form, args]: "multibulk"; "negative", a multibulk with a count
\* below 0; "inline", ended by CR LF or, "line", by LF alone; "malformed", whose
\* args are the bytes themselves.
RequestBytes(r) ==
  CASE r.form = "multibulk" -> <<"*", DigitOf(Len(r.args))>> \o CRLF
                                 \o FlattenSeq([i \in 1..Len(r.args) |-> BulkBytes(r.args[i])])
    [] r.form = "negative"  -> <<"*", "-", DigitOf(1)>> \o CRLF
    [] r.form = "inline"    -> FlattenSeq([i \in 1..Len(r.args) |-> r.args[i] \o <<" ">>]) \o CRLF
    [] r.form = "line"      -> FlattenSeq([i \in 1..Len(r.args) |-> r.args[i] \o <<" ">>]) \o <<"LF">>
    [] r.form = "malformed" -> r.args

ScriptBytes(s) == FlattenSeq([i \in 1..Len(s) |-> RequestBytes(s[i])])

\* The commands a script stands for: those before a malformed request, the
\* ones without arguments left out.
Wellformed(s) == \A i \in 1..Len(s) : s[i].form # "malformed"
Meant(s) ==
  LET bad  == {i \in 1..Len(s) : s[i].form = "malformed"}
      upto == IF bad = {} THEN s
              ELSE SubSeq(s, 1, (CHOOSE i \in bad : \A j \in bad : i <= j) - 1)
      cmds == SelectSeq(upto, LAMBDA r : r.args # <<>>)
  IN  [i \in 1..Len(cmds) |-> cmds[i].args]

-----------------------------------------------------------------------------

\* resetClient
Reset(x) == [x EXCEPT !.reqtype = "none", !.multibulklen = 0, !.bulklen = -1, !.argv = <<>>]

\* createClient; pos is the local variable of processMultibulkBuffer, and
\* closing is CLIENT_CLOSE_AFTER_REPLY.
Fresh == Reset([querybuf |-> <<>>, pos |-> 0, closing |-> FALSE, reqtype |-> "none",
                multibulklen |-> 0, bulklen |-> -1, argv |-> <<>>])

QBInit ==
  /\ script \in Scripts
  /\ stream = ScriptBytes(script)
  /\ q = Fresh /\ at = "read" /\ executed = <<>>

\* sdsrange(c->querybuf,n,-1)
Trim(buf, n) == SubSeq(buf, n + 1, Len(buf))

\* readQueryFromClient: when a big argument is being read, no byte beyond it.
readlen ==
  IF q.reqtype = "multibulk" /\ q.multibulklen # 0 /\ q.bulklen >= PROTO_MBULK_BIG_ARG
  THEN LET remaining == q.bulklen + 2 - Len(q.querybuf)
       IN  IF remaining < PROTO_IOBUF_LEN THEN remaining ELSE PROTO_IOBUF_LEN
  ELSE PROTO_IOBUF_LEN

readQueryFromClient(n) ==
  /\ at = "read" /\ ~q.closing
  /\ n <= readlen /\ n <= Len(stream)
  /\ q' = [q EXCEPT !.querybuf = @ \o SubSeq(stream, 1, n)]
  /\ stream' = Trim(stream, n)
  /\ at' = "input"
  /\ UNCHANGED <<script, executed>>

\* The loop of processInputBuffer.
processInputBuffer ==
  LET kind == IF q.reqtype # "none" THEN q.reqtype
              ELSE IF q.querybuf[1] = "*" THEN "multibulk" ELSE "inline"
  IN  /\ at = "input"
      /\ IF q.querybuf = <<>> \/ q.closing
         THEN at' = "read" /\ UNCHANGED q
         ELSE /\ at' = IF kind = "multibulk" /\ q.multibulklen > 0 THEN "bulk" ELSE kind
              /\ q' = [q EXCEPT !.reqtype = kind, !.pos = 0]
      /\ UNCHANGED <<stream, script, executed>>

\* The ways out of the two parsers.  Stop: C_ERR, wait for more bytes.
Stop(x) == q' = x /\ at' = "read" /\ UNCHANGED <<stream, script, executed>>
Fail(pos) == Stop([q EXCEPT !.closing = TRUE, !.querybuf = Trim(@, pos)])  \* setProtocolError
\* Fault: one request for each read.
ReadyOnce(x) ==
  /\ executed' = IF x.argv = <<>> THEN executed ELSE Append(executed, x.argv)
  /\ q' = Reset(x) /\ at' = "read" /\ UNCHANGED <<stream, script>>

\* C_OK: run the command, if there is one, and look for the next.
Ready(x) ==
  /\ executed' = IF x.argv = <<>> THEN executed ELSE Append(executed, x.argv)
  /\ q' = Reset(x) /\ at' = "input" /\ UNCHANGED <<stream, script>>

\* The index of the first b at or behind pos, -1 when there is none (strchr).
strchr(b, pos) ==
  LET S == {i \in pos..(Len(q.querybuf) - 1) : q.querybuf[i + 1] = b}
  IN  IF S = {} THEN -1 ELSE CHOOSE i \in S : \A j \in S : i <= j

\* string2ll of the bytes from pos up to end: NoNumber when they are not a
\* number (-0 is none) or one above the limits of the protocol.
string2ll(pos, end) ==
  LET minus == q.querybuf[pos + 1] = "-"
      byte == IF minus THEN q.querybuf[pos + 2] ELSE q.querybuf[pos + 1]
      length == IF minus THEN 2 ELSE 1
  IN  IF end # pos + length \/ byte \notin DOMAIN Digits \/ (minus /\ byte = "0") THEN NoNumber
      ELSE IF minus THEN -Digits[byte] ELSE Digits[byte]

-----------------------------------------------------------------------------
(* processInlineBuffer.                                                    *)

\* sdssplitargs: the words between spaces.
Words(line) ==
  LET edges == {0} \cup {i \in 1..Len(line) : line[i] = " "} \cup {Len(line) + 1}
      next(i) == CHOOSE j \in edges : j > i /\ \A k \in edges : k > i => j <= k
      starts == SetToSortSeq({i \in edges : i <= Len(line) /\ next(i) > i + 1}, <)
  IN  [n \in 1..Len(starts) |-> SubSeq(line, starts[n] + 1, next(starts[n]) - 1)]

\* The line has an open quote: sdssplitargs returns NULL.
Unbalanced(line) == Cardinality({i \in 1..Len(line) : line[i] = "QUOTE"}) % 2 = 1

InlineIncomplete ==
  /\ at = "inline" /\ strchr("LF", 0) = -1
  /\ IF Len(q.querybuf) > PROTO_INLINE_MAX_SIZE THEN Fail(0) ELSE Stop(q)

\* The line ends before LF or CR LF, and querylen+2 bytes are taken.
InlineLine ==
  LET lf == strchr("LF", 0)
      querylen == IF lf > 0 /\ q.querybuf[lf] = "CR" THEN lf - 1 ELSE lf
      line == SubSeq(q.querybuf, 1, querylen)
  IN  /\ at = "inline" /\ lf # -1
      /\ IF Unbalanced(line) THEN Fail(0)
         ELSE Ready([q EXCEPT !.argv = Words(line), !.querybuf = Trim(@, querylen + 2)])

-----------------------------------------------------------------------------
(* processMultibulkBuffer.                                                 *)

\* A line end was found, but the byte behind CR has not arrived.
HalfLine(cr) == cr > Len(q.querybuf) - 2

\* multibulklen is not known yet.
CountIncomplete ==
  LET cr == strchr("CR", 0) IN
  /\ at = "multibulk" /\ (cr = -1 \/ HalfLine(cr))
  /\ IF cr = -1 /\ Len(q.querybuf) > PROTO_INLINE_MAX_SIZE THEN Fail(0) ELSE Stop(q)

CountLine ==
  LET cr == strchr("CR", 0)
      ll == string2ll(1, cr)
  IN  /\ at = "multibulk" /\ cr # -1 /\ ~HalfLine(cr)
      /\ \/ ll = NoNumber /\ Fail(0)
         \/ ll <= 0 /\ Ready([q EXCEPT !.querybuf = Trim(@, cr + 2)])
         \/ /\ ll > 0 /\ ll # NoNumber
            /\ q' = [q EXCEPT !.multibulklen = ll, !.pos = cr + 2]
            /\ at' = "bulk" /\ UNCHANGED <<stream, script, executed>>

Continue(x) == q' = x /\ at' = "bulk" /\ UNCHANGED <<stream, script, executed>>

\* The end of the loop: trim to pos, and run the command when it is complete.
Trimmed == [q EXCEPT !.querybuf = Trim(@, q.pos), !.pos = 0]
BulksDone == at = "bulk" /\ q.multibulklen = 0 /\ Ready(Trimmed)

BulkLengthIncomplete ==
  LET cr == strchr("CR", q.pos) IN
  /\ at = "bulk" /\ q.multibulklen > 0 /\ q.bulklen = -1 /\ (cr = -1 \/ HalfLine(cr))
  /\ IF cr = -1 /\ Len(q.querybuf) > PROTO_INLINE_MAX_SIZE THEN Fail(0) ELSE Stop(Trimmed)

\* Fault: the length of an argument is taken whatever stands before it.
BulkLengthUnmarked ==
  LET cr == strchr("CR", q.pos)
      ll == string2ll(q.pos + 1, cr)
  IN  /\ at = "bulk" /\ q.multibulklen > 0 /\ q.bulklen = -1 /\ cr # -1 /\ ~HalfLine(cr)
      /\ IF ll < 0 \/ ll = NoNumber THEN Fail(q.pos)
         ELSE Continue([q EXCEPT !.bulklen = ll, !.pos = cr + 2])

\* A big argument is moved to the start of the buffer.
BulkLength ==
  LET cr == strchr("CR", q.pos)
      ll == string2ll(q.pos + 1, cr)
  IN  /\ at = "bulk" /\ q.multibulklen > 0 /\ q.bulklen = -1 /\ cr # -1 /\ ~HalfLine(cr)
      /\ IF q.querybuf[q.pos + 1] # "$" \/ ll < 0 \/ ll = NoNumber THEN Fail(q.pos)
         ELSE IF ll >= PROTO_MBULK_BIG_ARG
         THEN Continue([q EXCEPT !.bulklen = ll, !.pos = 0, !.querybuf = Trim(@, cr + 2)])
         ELSE Continue([q EXCEPT !.bulklen = ll, !.pos = cr + 2])

BulkIncomplete ==
  /\ at = "bulk" /\ q.multibulklen > 0 /\ q.bulklen # -1
  /\ Len(q.querybuf) - q.pos < q.bulklen + 2
  /\ Stop(Trimmed)

\* Fault: an argument that fills the buffer keeps its line end.
BulkWithEnd ==
  LET whole == /\ q.pos = 0 /\ q.bulklen >= PROTO_MBULK_BIG_ARG
               /\ Len(q.querybuf) = q.bulklen + 2
      arg == IF whole THEN q.querybuf
             ELSE SubSeq(q.querybuf, q.pos + 1, q.pos + q.bulklen)
      rest == [q EXCEPT !.argv = Append(@, arg), !.bulklen = -1, !.multibulklen = @ - 1]
  IN  /\ at = "bulk" /\ q.multibulklen > 0 /\ q.bulklen # -1
      /\ Len(q.querybuf) - q.pos >= q.bulklen + 2
      /\ IF whole THEN Continue([rest EXCEPT !.querybuf = <<>>, !.pos = 0])
         ELSE Continue([rest EXCEPT !.pos = @ + q.bulklen + 2])

\* The argument is the buffer itself when the buffer holds nothing else, or a
\* copy of its bytes.
BulkArgument ==
  LET whole == /\ q.pos = 0 /\ q.bulklen >= PROTO_MBULK_BIG_ARG
               /\ Len(q.querybuf) = q.bulklen + 2
      arg == IF whole THEN SubSeq(q.querybuf, 1, Len(q.querybuf) - 2)
             ELSE SubSeq(q.querybuf, q.pos + 1, q.pos + q.bulklen)
      rest == [q EXCEPT !.argv = Append(@, arg), !.bulklen = -1, !.multibulklen = @ - 1]
  IN  /\ at = "bulk" /\ q.multibulklen > 0 /\ q.bulklen # -1
      /\ Len(q.querybuf) - q.pos >= q.bulklen + 2
      /\ IF whole THEN Continue([rest EXCEPT !.querybuf = <<>>, !.pos = 0])
         ELSE Continue([rest EXCEPT !.pos = @ + q.bulklen + 2])

-----------------------------------------------------------------------------

QBNext ==
  \/ \E n \in 1..PROTO_IOBUF_LEN : readQueryFromClient(n)
  \/ processInputBuffer
  \/ InlineIncomplete \/ InlineLine
  \/ CountIncomplete \/ CountLine
  \/ BulksDone \/ BulkLengthIncomplete \/ BulkLength \/ BulkIncomplete \/ BulkArgument

QBSpec == QBInit /\ [][QBNext]_qbvars

-----------------------------------------------------------------------------

\* However the stream was cut into reads, and whichever arguments were big
\* enough for a buffer of their own, the commands executed are those that were
\* sent, in order, each with exactly its arguments.
ExecutesWhatWasSent == IsPrefix(executed, Meant(script))

\* When everything has arrived, everything was executed: no whole request is
\* left waiting in the buffer for bytes that will not come, and no read asks
\* for no bytes, whose answer would pass for the end of the connection.
NothingLeftBehind ==
  at = "read" =>
    /\ stream = <<>> /\ Wellformed(script) => executed = Meant(script) /\ q.querybuf = <<>>
    /\ readlen > 0

\* A protocol error is reported for a malformed request, and only for one:
\* PROTO_INLINE_MAX_SIZE bounds a line, not what happens to be buffered around
\* it, and a connection is given up exactly there.
ErrorsAreErrors ==
  /\ q.closing => ~Wellformed(script) /\ executed = Meant(script)
  /\ at = "read" /\ stream = <<>> /\ ~Wellformed(script) => q.closing
=============================================================================
