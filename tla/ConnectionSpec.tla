--------------------------- MODULE ConnectionSpec ---------------------------
(***************************************************************************)
(* Two connected sides: the initiator "A" and the acceptor "B", each an    *)
(* event loop (module Connection) with its stream's Write and Close calls  *)
(* and its timers, over a network that delays, reorders, and up to stated  *)
(* bounds loses and duplicates packets.                                    *)
(***************************************************************************)
EXTENDS Connection

CONSTANTS SynNumA, SynAckB,
          Chunks,         \* Chunks[e]: what the application of e writes, in order
          Closers,        \* the sides whose application calls Close
          LoseSynState,   \* whether the answer to the SYN may be lost
          MaxLost, MaxDuplicated, MaxPremature, MaxIdle, MaxCancelled

Ends == {"A", "B"}
Peer(e) == IF e = "A" THEN "B" ELSE "A"

ASSUME ChunksAssumption == DOMAIN Chunks = Ends /\ Closers \subseteq Ends
ASSUME FaultAssumption ==
  /\ MaxLost \in Nat /\ MaxDuplicated \in Nat /\ MaxPremature \in Nat
  /\ MaxIdle \in Nat /\ MaxCancelled \in Nat
  /\ LoseSynState \in BOOLEAN
ASSUME NumberAssumption == SynNumA \in SeqNums /\ SynAckB \in SeqNums

VARIABLES conn,        \* conn[e]: the connection of e, Nil before it exists
          registered,  \* the sides whose socket still routes packets to the connection
          writes,      \* writes[e]: queued writes the event loop has not taken
          nextChunk,   \* the number of Write calls made
          shut,        \* the sides whose stream has its shutdown flag set
          net,         \* net[e]: packets on their way to e
          faults       \* how often each kind of fault has happened

vars == <<conn, registered, writes, nextChunk, shut, net, faults>>

StartA == startInitiator(SynNumA)

Init ==
  /\ conn = [e \in Ends |-> IF e = "A" THEN [StartA EXCEPT !.out = {}] ELSE Nil]
  /\ registered = {"A"}
  /\ writes = [e \in Ends |-> << >>]
  /\ nextChunk = [e \in Ends |-> 1]
  /\ shut = {}
  /\ net = [e \in Ends |-> IF e = "B" THEN StartA.out ELSE {}]
  /\ faults = [lost |-> 0, duplicated |-> 0, premature |-> 0, idle |-> 0, cancelled |-> 0]

Exists(e) == conn[e] # Nil
HasBuffers(e) == Exists(e) /\ conn[e].RecvBuf # Nil
Running(e) == Exists(e) /\ conn[e].running /\ ~conn[e].panicked

\* One turn of e's event loop: the handler has made c of the connection; what
\* follows the select is done, and what was sent goes on the network, from
\* which the packets taken are gone.
Turn(e, c, taken) ==
  LET d == afterSelect(c, e \in shut)
  IN  /\ conn' = [conn EXCEPT ![e] = [d EXCEPT !.out = {}]]
      /\ net' = [net EXCEPT ![e] = @ \ taken, ![Peer(e)] = @ \cup d.out]

\* CidFromPacket: a reset carries the connection id of the packet it answers, the
\* send id of the side it is for.  The initiator's connection (send = recv + 1) is
\* found by that id, the acceptor's (send = recv - 1) is not (see module Socket).
Routed(e, p) == p.type = "st_reset" => e = "A"

\* handleIncomingBuf and handleIncoming: a packet that can be decoded goes to
\* the connection; for none a SYN makes one (an accept is waiting), anything
\* else but a reset is answered by a reset.
Deliver(e, p, taken) ==
  LET q == DecodePacket(p)
      drop == net' = [net EXCEPT ![e] = @ \ taken] /\ UNCHANGED <<conn, registered>>
  IN  CASE q = Nil \/ ~Routed(e, p) -> drop
        [] q # Nil /\ Routed(e, p) /\ Running(e) -> Turn(e, onPacket(conn[e], q), taken) /\ UNCHANGED registered
        [] q # Nil /\ conn[e] = Nil /\ q.type = "st_syn" ->
             /\ Turn(e, startAcceptor(q, SynAckB), taken)
             /\ registered' = registered \cup {e}
        [] q # Nil /\ ~Running(e) /\ e \notin registered /\ q.type \notin {"st_syn", "st_reset"} ->
             /\ net' = [net EXCEPT ![e] = @ \ taken, ![Peer(e)] = @ \cup {reset_packet}]
             /\ UNCHANGED <<conn, registered>>
        [] OTHER -> drop

Receive(e, p) ==
  /\ Deliver(e, p, {p})
  /\ UNCHANGED <<writes, nextChunk, shut, faults>>

Duplicate(e, p) ==
  /\ faults.duplicated < MaxDuplicated
  /\ faults' = [faults EXCEPT !.duplicated = @ + 1]
  /\ Deliver(e, p, {})
  /\ UNCHANGED <<writes, nextChunk, shut>>

SynState(p) == p.type = "st_state" /\ p.seqNum = SynAckB /\ p.ackNum = SynNumA
Lose(e, p) ==
  /\ faults.lost < MaxLost
  /\ LoseSynState \/ ~SynState(p)
  /\ faults' = [faults EXCEPT !.lost = @ + 1]
  /\ net' = [net EXCEPT ![e] = @ \ {p}]
  /\ UNCHANGED <<conn, registered, writes, nextChunk, shut>>

\* UtpStream.Write, up to the queue; UtpStream.Close, up to the flag.  The
\* streams exist once Connect and Accept have returned.
Write(e) ==
  /\ HasBuffers(e)
  /\ e \notin shut /\ writes[e] = << >>
  /\ nextChunk[e] <= Len(Chunks[e])
  /\ writes' = [writes EXCEPT ![e] = Append(@, Chunks[e][nextChunk[e]])]
  /\ nextChunk' = [nextChunk EXCEPT ![e] = @ + 1]
  /\ UNCHANGED <<conn, registered, shut, net, faults>>

StreamClose(e) ==
  /\ e \in Closers \ shut
  /\ HasBuffers(e)
  /\ nextChunk[e] > Len(Chunks[e])
  /\ shut' = shut \cup {e}
  /\ UNCHANGED <<conn, registered, writes, nextChunk, net, faults>>

HandleWrite(e) ==
  /\ Running(e) /\ writes[e] # << >>
  /\ Turn(e, onWrite(conn[e], Head(writes[e])), {})
  /\ writes' = [writes EXCEPT ![e] = Tail(@)]
  /\ UNCHANGED <<registered, nextChunk, shut, faults>>

HandleReadable(e) ==
  /\ Running(e) /\ conn[e].readable > 0
  /\ Turn(e, processReads([conn[e] EXCEPT !.readable = @ - 1]), {})
  /\ UNCHANGED <<registered, writes, nextChunk, shut, faults>>

HandleWritable(e) ==
  /\ Running(e) /\ conn[e].writable > 0
  /\ Turn(e, processWrites([conn[e] EXCEPT !.writable = @ - 1]), {})
  /\ UNCHANGED <<registered, writes, nextChunk, shut, faults>>

\* The time wheel's goroutine moves entries to unackTimeoutCh.  A timeout is
\* longer than what a packet, its answer and their handling take on a working
\* network: by then nothing is on its way and all entries have expired.  Only
\* MaxPremature times an entry expires earlier.
Quiet == \A e \in Ends : net[e] = {} /\ (Exists(e) => conn[e].unackTimeoutCh = {})
Expire(e, T) ==
  /\ Running(e)
  /\ conn' = [conn EXCEPT ![e].unacked = @ \ T, ![e].unackTimeoutCh = @ \cup T]
  /\ UNCHANGED <<registered, writes, nextChunk, shut, net>>
Tick(e) ==
  /\ Quiet /\ Exists(e) /\ conn[e].unacked # {}
  /\ Expire(e, conn[e].unacked)
  /\ UNCHANGED faults
PrematureTick(e) ==
  /\ ~Quiet /\ Exists(e)
  /\ faults.premature < MaxPremature
  /\ faults' = [faults EXCEPT !.premature = @ + 1]
  /\ \E t \in conn[e].unacked : Expire(e, {t})

HandleTimeout(e, t, backoff) ==
  /\ Running(e)
  /\ Turn(e, onTimeout([conn[e] EXCEPT !.unackTimeoutCh = @ \ {t}], t, backoff), {})
  /\ UNCHANGED <<registered, writes, nextChunk, shut, faults>>

IdleTimeout(e) ==
  /\ Running(e)
  /\ faults.idle < MaxIdle
  /\ faults' = [faults EXCEPT !.idle = @ + 1]
  /\ Turn(e, onIdleTimeout(conn[e]), {})
  /\ UNCHANGED <<registered, writes, nextChunk, shut>>

\* UtpSocket.Close cancels the context: the loop leaves as it is, without the
\* shutdown event, and the socket is gone with it.
Cancel(e) ==
  /\ Running(e)
  /\ faults.cancelled < MaxCancelled
  /\ faults' = [faults EXCEPT !.cancelled = @ + 1]
  /\ shut' = shut \cup {e}
  /\ conn' = [conn EXCEPT ![e] = Leave(@)]
  /\ UNCHANGED <<registered, writes, nextChunk, net>>

\* The socket's writeLoop reaches the shutdown event of a finished connection.
Finished(e) == e \in registered /\ Exists(e) /\ ~conn[e].running /\ conn[e].stateType = "Closed"
Unregister(e) ==
  /\ Finished(e)
  /\ registered' = registered \ {e}
  /\ UNCHANGED <<conn, writes, nextChunk, shut, net, faults>>

Incoming(e) == \E p \in net[e] : Receive(e, p)
TimedOut(e) ==
  Exists(e) /\ \E t \in conn[e].unackTimeoutCh, backoff \in BOOLEAN : HandleTimeout(e, t, backoff)

Next ==
  \E e \in Ends :
    \/ Incoming(e)
    \/ HandleWrite(e)
    \/ HandleReadable(e)
    \/ HandleWritable(e)
    \/ Tick(e)
    \/ PrematureTick(e)
    \/ TimedOut(e)
    \/ \E p \in net[e] : Duplicate(e, p) \/ Lose(e, p)
    \/ Write(e)
    \/ StreamClose(e)
    \/ IdleTimeout(e)
    \/ Cancel(e)
    \/ Unregister(e)

Spec == Init /\ [][Next]_vars

\* Packets that are not lost arrive, the wheel ticks, the socket's writeLoop
\* drains socketEvents, and a select that is entered again and again takes every
\* case that stays ready.  Each conjunct is
\* weak fairness of the action it names, with its guard written out.
FairSpec ==
  /\ Spec
  /\ []<>(\A e \in Ends : net[e] = {})
     \/ []<><<\E e \in Ends : Incoming(e)>>_vars
  /\ []<>(\A e \in Ends : ~Running(e) \/ writes[e] = << >>)
     \/ []<><<\E e \in Ends : HandleWrite(e)>>_vars
  /\ []<>(\A e \in Ends : ~Running(e) \/ conn[e].readable = 0)
     \/ []<><<\E e \in Ends : HandleReadable(e)>>_vars
  /\ []<>(\A e \in Ends : ~Running(e) \/ conn[e].writable = 0)
     \/ []<><<\E e \in Ends : HandleWritable(e)>>_vars
  /\ []<>(\A e \in Ends : ~Running(e) \/ conn[e].unackTimeoutCh = {})
     \/ []<><<\E e \in Ends : TimedOut(e)>>_vars
  /\ []<>(~Quiet \/ \A e \in Ends : ~Running(e) \/ conn[e].unacked = {})
     \/ []<><<\E e \in Ends : Tick(e)>>_vars
  /\ []<>(\A e \in Ends : ~Finished(e))
     \/ []<><<\E e \in Ends : Unregister(e)>>_vars

-----------------------------------------------------------------------------
(* What the two sides promise each other.                                  *)

Written(e) == FlattenSeq(SubSeq(Chunks[e], 1, nextChunk[e] - 1))
\* The bytes e has received in order, read or not.
Received(e) == IF HasBuffers(e) THEN conn[e].delivered \o conn[e].RecvBuf.buf ELSE << >>

\* Whatever is lost, repeated, delayed or retransmitted, a reader gets the bytes
\* the other side wrote, in order, without gaps or repetitions.
DeliveredIsPrefix ==
  \A e \in Ends : Exists(e) => IsPrefix(conn[e].delivered, Written(Peer(e)))

\* A reader that is told the stream has ended without an error has been given
\* every byte whose Write had succeeded on the other side.
CleanEndIsComplete ==
  \A e \in Ends : Exists(e) /\ conn[e].readEnd \in {<<"EOF">>, <<Nil>>}
     => Len(conn[e].delivered) >= conn[Peer(e)].confirmed

\* A stream that was closed and ends without an error has had everything it
\* wrote received by the other side: Close waits for the write buffer.
CleanCloseIsComplete ==
  \A e \in Ends : Exists(e) /\ e \in shut /\ conn[e].stateType = "Closed" /\ conn[e].Err = Nil
     => Len(Received(Peer(e))) >= conn[e].confirmed

\* What a side takes for acknowledged the other has received, through every
\* selective ack, stale ack and retransmission.
AckedWereReceived ==
  \A e \in Ends : HasBuffers(e) =>
    LET sp == conn[e].SentPackets
    IN  \A i \in DOMAIN sp.packets : sp.packets[i].acked =>
          HasBuffers(Peer(e)) /\ RB!WasWritten(conn[Peer(e)].RecvBuf, SP!SeqNumOf(sp, i))

\* A packet the other side does not have has its timer running, or has timed out
\* and waits to be handled: no interleaving of acks, selective acks and timeouts
\* stops the timer without which a lost packet would never be sent again.
MissingHasTimer ==
  \A e \in Ends : Running(e) /\ Connected(conn[e]) /\ HasBuffers(Peer(e)) =>
    LET sp == conn[e].SentPackets
    IN  \A i \in DOMAIN sp.packets :
          \/ RB!WasWritten(conn[Peer(e)].RecvBuf, SP!SeqNumOf(sp, i))
          \/ \E t \in conn[e].unacked \cup conn[e].unackTimeoutCh : t.seqNum = SP!SeqNumOf(sp, i)

\* After the end of the stream has been reported nothing more is delivered.
NothingAfterEnd ==
  [][\A e \in Ends : Exists(e) /\ conn[e].readEnd # Nil
       => conn'[e].delivered = conn[e].delivered]_vars

\* Every byte a Write has accepted is delivered in the end, although a packet of
\* either direction is lost: a timeout or a selective ack has it sent again.
WrittenIsDelivered ==
  \A n \in 1..Len(FlattenSeq(Chunks["A"])) :
    (conn["A"].confirmed >= n) ~> (Exists("B") /\ Len(conn["B"].delivered) >= n)

\* Once the FIN is out the close completes: the event loop ends, and the other
\* side's reader is told of the end, although a packet (the FIN, its ack, data
\* before it) is lost.
FinCompletes ==
  /\ (LocalFin(conn["A"]) # Nil) ~> ~conn["A"].running
  /\ (LocalFin(conn["A"]) # Nil) ~> (Exists("B") /\ conn["B"].readEnd = <<"EOF">>)

\* Something besides the idle timer leads to an event of e.
Stirring(e) ==
  \/ net[e] # {}
  \/ Running(e) /\ \/ writes[e] # << >>
                   \/ conn[e].readable > 0 \/ conn[e].writable > 0
                   \/ conn[e].unacked # {} \/ conn[e].unackTimeoutCh # {}

\* Close waits for the event loop, which looks at the flag after its next event:
\* until the FIN is out there is, on one side or the other, something besides the
\* idle timer that leads to one (a packet under way, a write, a token, a timer).
CloseIsNoticed ==
  \A e \in shut : Running(e) /\ LocalFin(conn[e]) = Nil => \E x \in Ends : Stirring(x)

\* The initiator does not run out of attempts although one packet, whichever, is
\* lost: a SYN that is sent again is answered again.
ConnectSurvivesLoss == conn["A"].RecvBuf = Nil => conn["A"].Err # "TimedOut"
=============================================================================
