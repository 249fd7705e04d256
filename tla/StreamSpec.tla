----------------------------- MODULE StreamSpec -----------------------------
(***************************************************************************)
(* One UtpStream: the calls of ReadToEOF, Write and Close, the channels    *)
(* between them and the connection's event loop, and the context.  The     *)
(* goroutines meet here: a send on reads waits for room, Close waits for   *)
(* the loop, and a Write waits for its answer.  Of the connection (module  *)
(* Connection) no more is kept than what decides who waits: which packets  *)
(* of the peer have come, how many of our own are unacknowledged, and how  *)
(* many writes the send buffer holds.                                      *)
(***************************************************************************)
EXTENDS Integers, Sequences, FiniteSets, Functions

CONSTANTS Writers,          \* calls of Write
          Chunks,           \* data packets of the peer; its FIN comes after them
          ReadsCap,         \* capacity of reads, 100 in the code
          WritesCap,        \* capacity of writes, 100 in the code
          SendBufCap,       \* writes the send buffer has room for
          TokenCap,         \* capacity of readable and of writable, 3 in the code
          MaxPackets        \* bound: packets that arrive

ASSUME CapsAssumption == {ReadsCap, WritesCap, SendBufCap, TokenCap} \subseteq Nat \ {0}
ASSUME ChunksAssumption == Chunks \in Nat

VARIABLES conn,             \* the connection record
          reads, writes,
          loop,             \* the event loop: at its select, within processReads, or returned
          shutdown, streamCtx,
          reader, writer, closer,
          got,              \* the chunks the application has read
          packets

app == <<reader, writer, closer, got>>
vars == <<conn, reads, writes, loop, shutdown, streamCtx, app, packets>>

Fin == Chunks + 1

newConnection ==
  [state |-> "Connected", closing |-> FALSE, LocalFin |-> FALSE,
   arrived |-> {},      \* the packets of the peer that have come; Fin is its FIN
   handed |-> 0,        \* the chunks that were taken from the receive buffer
   sendBuf |-> 0,       \* the writes in the send buffer
   unacked |-> 0,       \* the packets that are not acknowledged
   pendingWrites |-> <<>>, readable |-> 0, writable |-> 0,
   results |-> [w \in Writers |-> 0]]   \* how often a Write was answered

Init ==
  /\ conn = newConnection
  /\ reads = <<>> /\ writes = <<>>
  /\ loop = "select" /\ shutdown = FALSE /\ streamCtx = "alive"
  /\ reader = "idle" /\ writer = [w \in Writers |-> "idle"]
  /\ closer = "idle" /\ got = <<>> /\ packets = 0

-----------------------------------------------------------------------------
(* The calls of the application. *)

\* ReadToEOF, call after call: readLocker admits one at a time.
StartRead ==
  /\ reader # "reading" /\ reader' = "reading"
  /\ UNCHANGED <<got, reads>>

TakeRead ==
  /\ reader = "reading" /\ reads # <<>>
  /\ reads' = Tail(reads)
  /\ IF Head(reads) = Fin THEN reader' = "eof" /\ UNCHANGED got
     ELSE got' = Append(got, Head(reads)) /\ UNCHANGED reader

\* The context of the call is done, or that of the stream.
EndRead ==
  /\ reader = "reading" /\ reader' = "idle"
  /\ UNCHANGED <<got, reads>>

ReadToEOF ==
  /\ StartRead \/ TakeRead \/ EndRead
  /\ UNCHANGED <<conn, writes, loop, shutdown, streamCtx, writer, closer, packets>>

\* Write
WriterTo(w, step) == writer' = [writer EXCEPT ![w] = step]

StartWrite(w) ==
  /\ writer[w] = "idle"
  /\ WriterTo(w, IF shutdown THEN "returned" ELSE "offering")
  /\ UNCHANGED writes

Offer(w) ==
  /\ writer[w] = "offering" /\ Len(writes) < WritesCap
  /\ writes' = Append(writes, w)
  /\ WriterTo(w, "waiting")

\* Only the second select of Write watches the context of the stream.
Answered(w) ==
  /\ writer[w] = "waiting" /\ (conn.results[w] > 0 \/ streamCtx = "done")
  /\ WriterTo(w, "returned")
  /\ UNCHANGED writes

\* The context of the call is done.
EndWrite(w) ==
  /\ writer[w] \in {"offering", "waiting"}
  /\ WriterTo(w, "returned")
  /\ UNCHANGED writes

Write(w) ==
  /\ StartWrite(w) \/ Offer(w) \/ Answered(w) \/ EndWrite(w)
  /\ UNCHANGED <<conn, reads, loop, shutdown, streamCtx, reader, closer, got, packets>>

\* Close
StartClose ==
  /\ closer = "idle"
  /\ closer' = "waiting" /\ shutdown' = TRUE
  /\ UNCHANGED <<conn, reads, writes, loop, streamCtx, reader, writer, got, packets>>

\* Mutant: the context of the stream is left alive.
EndCloseAlive ==
  /\ closer = "waiting" /\ loop = "returned"
  /\ closer' = "done"
  /\ UNCHANGED <<conn, reads, writes, loop, shutdown, streamCtx, reader, writer, got, packets>>
EndClose ==
  /\ closer = "waiting" /\ loop = "returned"
  /\ closer' = "done" /\ streamCtx' = "done"
  /\ UNCHANGED <<conn, reads, writes, loop, shutdown, reader, writer, got, packets>>

\* The context the stream was made under is done.
Cancel ==
  /\ streamCtx = "alive"
  /\ streamCtx' = "done"
  /\ UNCHANGED <<conn, reads, writes, loop, shutdown, app, packets>>

-----------------------------------------------------------------------------
(* The connection, as a record. *)

Token(n) == IF n < TokenCap THEN n + 1 ELSE n

\* The receive buffer has the next chunk.
HasNext(c) == c.handed < Chunks /\ c.handed + 1 \in c.arrived

\* Mutant: the FIN ends the stream whatever precedes it.
eofAtFin(c) == c.state = "Closed" \/ Fin \in c.arrived
eof(c) == c.state = "Closed" \/ 1..Fin \subseteq c.arrived

AnswerAll(c, ws) == [c EXCEPT !.results = [w \in Writers |-> @[w] + IF w \in Range(ws) THEN 1 ELSE 0]]

\* processWrites: the congestion window lets n writes leave the send buffer, and the
\* room they leave is filled.
processWrites(c, n) ==
  LET room  == SendBufCap - (c.sendBuf - n)
      moved == IF room < Len(c.pendingWrites) THEN room ELSE Len(c.pendingWrites)
  IN  IF c.state = "Closed" THEN AnswerAll(c, c.pendingWrites)
      ELSE [AnswerAll(c, SubSeq(c.pendingWrites, 1, moved)) EXCEPT
              !.sendBuf = @ - n + moved, !.unacked = @ + n,
              !.pendingWrites = SubSeq(@, moved + 1, Len(@)),
              !.writable = IF moved > 0 THEN Token(@) ELSE @]

\* Mutant: a Write that is refused is queued as well.
onWriteBoth(c, w, n) ==
  LET d == AnswerAll([c EXCEPT !.pendingWrites = Append(@, w)],
                     IF c.closing /\ (c.LocalFin \/ Fin \notin c.arrived) THEN <<w>> ELSE <<>>)
  IN  [processWrites(d, n) EXCEPT !.writable = Token(@)]
onWrite(c, w, n) ==
  LET d == IF c.closing /\ (c.LocalFin \/ Fin \notin c.arrived) THEN AnswerAll(c, <<w>>)
           ELSE [c EXCEPT !.pendingWrites = Append(@, w)]
  IN  [processWrites(d, n) EXCEPT !.writable = Token(@)]

\* onPacket up to the tests at its end: p is a chunk, the FIN or, 0, a state packet,
\* and leaves so many packets unacknowledged.
onPacket(c, p, left) ==
  [c EXCEPT !.arrived = IF p = 0 THEN @ ELSE @ \cup {p},
            !.closing = @ \/ p = Fin,
            !.unacked = left,
            !.writable = IF p = 0 THEN Token(@) ELSE @,
            !.readable = IF p = 0 THEN @ ELSE Token(@)]

Closed(c) == [c EXCEPT !.state = "Closed"]

\* The FIN goes out when nothing is left to put into packets.
shutdownConn(c) ==
  IF ~c.LocalFin /\ c.pendingWrites = <<>> /\ c.sendBuf = 0
  THEN [c EXCEPT !.closing = TRUE, !.LocalFin = TRUE, !.unacked = @ + 1]
  ELSE [c EXCEPT !.closing = TRUE]

\* The loop returns.  Of its connection only the results of the writes matter still.
Leave(c) ==
  /\ conn' = [newConnection EXCEPT !.state = "Closed", !.results = c.results]
  /\ loop' = "returned"

\* What follows every event.
afterSelect(c, shut) ==
  LET d == IF shut /\ c.state # "Closed" THEN shutdownConn(c) ELSE c
  IN  IF d.state = "Closed" THEN Leave(processWrites(d, 0))
      ELSE conn' = d /\ loop' = "select"

-----------------------------------------------------------------------------
(* The event loop. *)

Event ==
  /\ loop = "select"
  /\ UNCHANGED <<reads, streamCtx, app>>

Packet ==
  /\ Event /\ packets < MaxPackets /\ packets' = packets + 1
  /\ \E p \in 0..Fin, left \in 0..conn.unacked :
       LET c == onPacket(conn, p, left)
           finAcked == c.LocalFin /\ left = 0
           theirs == ~finAcked /\ left = 0 /\ 1..Fin \subseteq c.arrived
       IN  IF theirs THEN conn' = c /\ loop' = "readingToClose"
           ELSE afterSelect(IF finAcked \/ (c.LocalFin /\ Fin \in c.arrived) THEN Closed(c) ELSE c,
                            shutdown)
  /\ UNCHANGED <<writes, shutdown>>

ResetPacket ==
  /\ Event /\ packets < MaxPackets /\ packets' = packets + 1
  /\ afterSelect(Closed(conn), shutdown)
  /\ UNCHANGED <<writes, shutdown>>

SocketShutdown ==
  /\ Event
  /\ shutdown' = TRUE
  /\ afterSelect(conn, TRUE)
  /\ UNCHANGED <<writes, packets>>

TakeWrite ==
  /\ Event /\ writes # <<>>
  /\ writes' = Tail(writes)
  /\ \E n \in 0..conn.sendBuf : afterSelect(onWrite(conn, Head(writes), n), shutdown)
  /\ UNCHANGED <<shutdown, packets>>

Readable ==
  /\ Event /\ conn.readable > 0
  /\ conn' = [conn EXCEPT !.readable = @ - 1] /\ loop' = "reading"
  /\ UNCHANGED <<writes, shutdown, packets>>

Writable ==
  /\ Event /\ conn.writable > 0
  /\ \E n \in 0..conn.sendBuf :
       afterSelect(processWrites([conn EXCEPT !.writable = @ - 1], n), shutdown)
  /\ UNCHANGED <<writes, shutdown, packets>>

\* Mutant: the idle timer notes an error and closes nothing.
IdleIgnored == Event /\ afterSelect(conn, shutdown) /\ UNCHANGED <<writes, shutdown, packets>>
IdleTimeout == Event /\ afterSelect(Closed(conn), shutdown) /\ UNCHANGED <<writes, shutdown, packets>>

CtxDone ==
  /\ Event /\ streamCtx = "done"
  /\ Leave(conn) /\ shutdown' = TRUE
  /\ UNCHANGED <<writes, packets>>

\* processReads sends what has come in order, then the end of the stream.  Every send
\* waits for room, and for nothing else.
HandOver ==
  /\ loop \in {"reading", "readingToClose"} /\ HasNext(conn)
  /\ Len(reads) < ReadsCap
  /\ reads' = Append(reads, conn.handed + 1)
  /\ conn' = [conn EXCEPT !.handed = @ + 1]
  /\ UNCHANGED <<writes, loop, shutdown, streamCtx, app, packets>>

ReadsDone ==
  /\ loop \in {"reading", "readingToClose"} /\ ~HasNext(conn)
  /\ IF eof(conn) THEN Len(reads) < ReadsCap /\ reads' = Append(reads, Fin) ELSE UNCHANGED reads
  /\ afterSelect(IF loop = "readingToClose" THEN Closed(conn) ELSE conn, shutdown)
  /\ UNCHANGED <<writes, shutdown, streamCtx, app, packets>>

-----------------------------------------------------------------------------
Next ==
  \/ ReadToEOF
  \/ \E w \in Writers : Write(w)
  \/ StartClose \/ EndClose \/ Cancel
  \/ Packet \/ ResetPacket \/ SocketShutdown
  \/ TakeWrite \/ Readable \/ Writable \/ IdleTimeout \/ CtxDone
  \/ HandOver \/ ReadsDone

Spec == Init /\ [][Next]_vars

\* Every goroutine that can run does, and no case of the loop's select is passed over
\* for ever: the idle timer is always armed, and only so many packets come.  The case
\* of unackTimeoutCh, and the wait for the wheel's mutex in it, are in TimeWheelSpec.
FairSpec ==
  /\ Spec
  /\ WF_vars(HandOver \/ ReadsDone)
  /\ WF_vars(CtxDone) /\ SF_vars(TakeWrite) /\ WF_vars(IdleTimeout)
  /\ WF_vars(EndClose)
  /\ SF_vars(ReadToEOF /\ TakeRead) /\ WF_vars(ReadToEOF /\ EndRead /\ streamCtx = "done")
  /\ \A w \in Writers : WF_vars(Write(w) /\ Answered(w))

-----------------------------------------------------------------------------
(* Properties. *)

\* ReadToEOF reports the end of the stream only when the calls of ReadToEOF have read
\* everything the peer sent before its FIN, in order and once, however packets came
\* and whichever calls gave up in between.
EofIsComplete == reader = "eof" => got = [i \in 1..Chunks |-> i]

\* A Write is answered once: its resultCh has room for one result, and a second one
\* would stop the event loop for good.
AnsweredOnce == \A w \in Writers : conn.results[w] <= 1

\* The loop waits in processReads for a reader, and there is none.
Jam ==
  /\ loop \in {"reading", "readingToClose"} /\ Len(reads) = ReadsCap
  /\ reader # "reading"

\* Close returns, unless the loop waits for room in reads and nobody reads.  A loop
\* that waits for the wheel is the subject of WheelCallsReturn of TimeWheelSpec.
CloseReturns == (closer = "waiting") ~> (closer = "done" \/ []Jam)

\* A Write whose request the loop has taken returns under the same condition, and when
\* Close has returned, so do all calls of Write that wait for an answer and all calls
\* of ReadToEOF.
CallsReturn ==
  /\ \A w \in Writers :
       /\ (writer[w] = "waiting" /\ w \notin Range(writes)) ~> (writer[w] = "returned" \/ []Jam)
       /\ (writer[w] = "waiting" /\ closer = "done") ~> (writer[w] = "returned")
  /\ (reader = "reading" /\ closer = "done") ~> (reader # "reading")
=============================================================================
