----------------------------- MODULE Connection -----------------------------
(***************************************************************************)
(* conn.go: the state machine of one side of a connection.  A connection   *)
(* is a record; every handler of its event loop is an operator from record *)
(* to record.  What a handler sends to other goroutines is collected in    *)
(*   out        packets put on socketEvents                                *)
(*   delivered, readEnd    bytes, and the first end-of-stream result, put  *)
(*              on reads (the stream's reader takes them at once)          *)
(*   confirmed  bytes reported to Write through resultCh                   *)
(* unacked is the time wheel: the packets whose timer runs, less the       *)
(* header fields a retransmission fills in anew.                           *)
(***************************************************************************)
EXTENDS SeqNum, Sequences, SequencesExt, FiniteSets

CONSTANTS MaxPacketSizeBytes, MaxWindowSizeIncBytes, TargetDelayMicros,
          InitialTimeout, MinTimeout, MaxTimeout, Uint32Space, LossThreshold,
          BufferSize, MaxSelectiveAckCount, WindowSize,
          HeaderRoom,        \* what a packet of MaxPacketSize keeps for headers
          MaxConnAttempts,
          TokenCap,          \* capacity of readable and of writable
          Nil

RB == INSTANCE ReceiveBuffer
SB == INSTANCE SendBuffer
SP == INSTANCE SentPackets

-----------------------------------------------------------------------------
(* Packets.                                                                *)

\* PacketBuilder.Build: the extension flag says whether a selective ack follows.
Build(type, wnd, seqNum, ackNum, sack, body) ==
  [type |-> type, wnd |-> wnd, seqNum |-> seqNum, ackNum |-> ackNum,
   ext |-> sack # Nil, sack |-> sack, body |-> body]

\* What DecodePacket makes of Encode's bytes.  An unannounced selective ack
\* becomes part of the body (here: one byte, 0); an announced one that is not
\* there is looked for in the body: the packet is refused, since a body of less than
\* two bytes is no extension header (Packet has bodies of any length).
DecodePacket(p) ==
  IF p.ext = (p.sack # Nil) THEN p
  ELSE IF p.ext THEN Nil
  ELSE [p EXCEPT !.sack = Nil, !.body = <<0>> \o @]

\* Its random number is never looked at, nor is its window, 100 000.
reset_packet == Build("st_reset", Uint32Space - 1, 0, 0, Nil, << >>)

-----------------------------------------------------------------------------
(* The connection record.                                                  *)

newConnection(type, synNum, synAck, window) ==
  [type |-> type, SynNum |-> synNum, SynAck |-> synAck, Attempts |-> 0,
   stateType |-> "Connecting", Err |-> Nil, closing |-> Nil,
   RecvBuf |-> Nil, SendBuf |-> Nil, SentPackets |-> Nil,
   peerRecvWindow |-> window, unacked |-> {}, unackTimeoutCh |-> {},
   pendingWrites |-> << >>, readable |-> 0, writable |-> 0, synState |-> FALSE,
   out |-> {}, delivered |-> << >>, readEnd |-> Nil, confirmed |-> 0,
   running |-> TRUE, panicked |-> FALSE]

Connected(c) == c.stateType = "Connected"
LocalFin(c) == IF c.closing = Nil THEN Nil ELSE c.closing.LocalFin
RemoteFin(c) == IF c.closing = Nil THEN Nil ELSE c.closing.RemoteFin

Emit(c, p) == [c EXCEPT !.out = @ \cup {p}]
Close(c, err) == [c EXCEPT !.stateType = "Closed", !.Err = err]
Token(n) == IF n < TokenCap THEN n + 1 ELSE n

\* establish: the buffers of a connected side.
Establish(c, recvInit, sentInit) ==
  [c EXCEPT !.stateType = "Connected",
            !.RecvBuf = RB!newReceiveBuffer(recvInit),
            !.SendBuf = SB!newSendBuffer,
            !.SentPackets = SP!newSentPackets(sentInit)]

\* A packet with the acknowledgements of this moment.
AckingPacket(c, type, seqNum, body) ==
  Build(type, RB!Available(c.RecvBuf), seqNum, RB!AckNum(c.RecvBuf),
        RB!SelectiveAck(c.RecvBuf), body)

synPacket(c) == Build("st_syn", WindowSize, c.SynNum, 0, Nil, << >>)
synStatePacket(c) == Build("st_state", WindowSize, c.SynAck, c.SynNum, Nil, << >>)
statePacket(c) == AckingPacket(c, "st_state", SP!NextSeqNum(c.SentPackets), << >>)

\* unacked.put, retain and remove.  The old entry of a packet whose extension
\* flag has changed stays in its slot.
Entry(p) == [type |-> p.type, seqNum |-> p.seqNum, ext |-> p.ext, body |-> p.body]
\* Mutant: no timer for a FIN.
putNoFin(c, p) == IF p.type = "st_fin" THEN c ELSE [c EXCEPT !.unacked = @ \cup {Entry(p)}]
put(c, p) == [c EXCEPT !.unacked = @ \cup {Entry(p)}]
\* Mutant: an ack stops the timers of everything sent.
StopAllTimers(c, ackNum, sack) ==
  [c EXCEPT !.unacked = {t \in @ : ~SP!SeqNumRangeContains(c.SentPackets, t.seqNum)}]
\* The entries of what is acknowledged.  A wheel in which put has left a second entry
\* of a selectively acknowledged packet keeps that one: see TimeWheelSpec.
StopTimers(c, ackNum, sack) ==
  [c EXCEPT !.unacked = {t \in @ :
     /\ ~SP!FullAckedContains(c.SentPackets, ackNum, t.seqNum)
     /\ t.seqNum \notin SP!SelectedAcks(ackNum, sack)}]

\* Mutant: no timer is set.
transmitNoTimer(c, p) ==
  Emit([c EXCEPT !.SentPackets = SP!OnTransmit(@, p.seqNum, p.type, p.body)], p)

transmit(c, p) ==
  LET d == [c EXCEPT
              !.panicked = @ \/ SP!TransmitPanics(c.SentPackets, p.seqNum, p.body),
              !.SentPackets = SP!OnTransmit(@, p.seqNum, p.type, p.body)]
  IN  Emit(put(d, p), p)

\* reset: after our FIN it counts as a successful close.
reset(c, err) ==
  IF Connected(c) /\ LocalFin(c) # Nil THEN [c EXCEPT !.stateType = "Closed"]
  ELSE Close(c, err)

-----------------------------------------------------------------------------
(* Reading and writing.                                                    *)

\* Mutant: the FIN ends the stream whatever precedes it.
eofAtFin(c) ==
  CASE c.stateType = "Connecting" -> FALSE
    [] c.stateType = "Connected"  -> RemoteFin(c) # Nil
    [] OTHER                      -> TRUE

eof(c) ==
  CASE c.stateType = "Connecting" -> FALSE
    [] c.stateType = "Connected"  -> RemoteFin(c) # Nil /\ RB!AckNum(c.RecvBuf) = RemoteFin(c)
    [] OTHER                      -> TRUE

End(c, result) == IF c.readEnd = Nil THEN [c EXCEPT !.readEnd = result] ELSE c

processReads(c) ==
  LET n == c.RecvBuf.offset
      d == [c EXCEPT !.delivered = @ \o RB!ReadBytes(c.RecvBuf, n),
                     !.RecvBuf = RB!Read(@, n)]
  IN  CASE c.stateType = "Connecting" -> c
        [] c.stateType = "Closed"     -> End(c, <<c.Err>>)
        [] OTHER                      -> IF eof(d) THEN End(d, <<"EOF">>) ELSE d

\* The payloads one call of processWrites composes: [SendBuf, window, payloads].
\* A read of 0 bytes (an empty chunk) ends the loop.
Compose(c) ==
  LET Window == SP!Window(c.SentPackets)
      window == IF Window < c.peerRecvWindow THEN Window ELSE c.peerRecvWindow
      room   == MaxPacketSizeBytes - HeaderRoom
      Next(s, i) ==
        LET size == IF s.window < room THEN s.window ELSE room
            n    == SB!ReadLen(s.SendBuf, size)
        IN  IF s.done \/ size = 0 THEN s
            ELSE [SendBuf  |-> SB!Read(s.SendBuf, size),
                  window   |-> s.window - n,
                  payloads |-> IF n = 0 THEN s.payloads
                               ELSE Append(s.payloads, SB!ReadBytes(s.SendBuf, size)),
                  done     |-> n = 0]
  IN  FoldLeft(Next, [SendBuf |-> c.SendBuf, window |-> window,
                      payloads |-> << >>, done |-> FALSE],
               [i \in 1..window |-> i])

\* Pending writes move into the space of the send buffer; a write is confirmed
\* when its last byte is in it.
FillSendBuf(c) ==
  LET Next(d, i) ==
        LET w     == Head(d.pendingWrites)
            space == SB!Available(d.SendBuf)
        IN  IF space <= 0 THEN d
            ELSE IF Len(w.data) <= space
            THEN [d EXCEPT !.SendBuf = SB!Write(@, w.data),
                           !.confirmed = @ + Len(w.data) + w.written,
                           !.pendingWrites = Tail(@),
                           !.writable = Token(@)]
            ELSE [d EXCEPT !.SendBuf = SB!Write(@, SubSeq(w.data, 1, space)),
                           !.pendingWrites[1] = [data |-> SubSeq(w.data, space + 1, Len(w.data)),
                                                 written |-> w.written + space],
                           !.writable = Token(@)]
  IN  FoldLeft(Next, c, c.pendingWrites)

\* Mutant: the sequence number is taken once for all packets.
processWritesOneNum(c) ==
  LET composed == Compose(c)
      filled   == FillSendBuf([c EXCEPT !.SendBuf = composed.SendBuf])
      Send(d, payload) ==
        transmit(d, AckingPacket(d, "st_data", SP!NextSeqNum(c.SentPackets), payload))
  IN  IF Connected(c) THEN FoldLeft(Send, filled, composed.payloads) ELSE c

processWrites(c) ==
  LET composed == Compose(c)
      filled   == FillSendBuf([c EXCEPT !.SendBuf = composed.SendBuf])
      Send(d, payload) ==
        transmit(d, AckingPacket(d, "st_data", SP!NextSeqNum(d.SentPackets), payload))
  IN  IF Connected(c) THEN FoldLeft(Send, filled, composed.payloads) ELSE c

onWrite(c, data) ==
  LET queues == \/ c.stateType = "Connecting"
                \/ Connected(c) /\ (c.closing # Nil => LocalFin(c) = Nil /\ RemoteFin(c) # Nil)
      d == IF queues
           THEN [c EXCEPT !.pendingWrites = Append(@, [data |-> data, written |-> 0])] ELSE c
  IN  [processWrites(d) EXCEPT !.writable = Token(@)]

-----------------------------------------------------------------------------
(* Packets, timers, closing.                                               *)

onSyn(c, p) ==
  IF c.stateType = "Closed" \/ (c.type = "Acceptor" /\ p.seqNum = c.SynNum) THEN c
  ELSE reset(c, IF c.type = "Acceptor" THEN "InvalidSyn" ELSE "SynFromAcceptor")

onState(c, p) ==
  IF c.stateType = "Connecting" /\ c.type = "Initiator" /\ p.ackNum = c.SynNum
  THEN Establish(c, Minus(p.seqNum, 1), c.SynNum) ELSE c

onData(c, p) ==
  LET d == IF p.body = << >> THEN reset(c, "EmptyDataPayload") ELSE c
      beyond == /\ RemoteFin(d) # Nil
                /\ ~RangeContains(d.RecvBuf.initSeqNum, RemoteFin(d), p.seqNum)
  IN  IF ~Connected(d) THEN d
      ELSE IF beyond THEN Close(d, "InvalidSeqNum")
      ELSE IF Len(p.body) <= RB!Available(d.RecvBuf)
      THEN [d EXCEPT !.RecvBuf = RB!Write(@, p.body, p.seqNum)] ELSE d

\* The first FIN is noted; without a closing record only if the buffer took it.
onFin(c, p) ==
  LET write == [c EXCEPT !.RecvBuf = RB!Write(@, p.body, p.seqNum)]
  IN  IF ~Connected(c) THEN c
      ELSE IF c.closing = Nil
      THEN IF RB!WriteFails(c.RecvBuf, p.body, p.seqNum) THEN c
           ELSE [write EXCEPT !.closing = [LocalFin |-> Nil, RemoteFin |-> p.seqNum]]
      ELSE IF RemoteFin(c) = Nil THEN [write EXCEPT !.closing.RemoteFin = p.seqNum]
      ELSE IF p.seqNum # RemoteFin(c) THEN reset(c, "InvalidFin") ELSE c

onReset(c) == IF c.stateType = "Closed" THEN c ELSE reset(c, "Reset")

processAck(c, p) ==
  LET err == SP!OnAckError(c.SentPackets, p.ackNum, p.sack)
      d   == [c EXCEPT !.SentPackets = SP!OnAck(@, p.ackNum, p.sack, 0, MinTimeout)]
  IN  IF ~Connected(c) THEN c
      ELSE CASE err = "InvalidAckNum" -> reset(c, err)
             [] err = "none"          -> StopTimers(d, p.ackNum, p.sack)
             [] OTHER                 -> d

retransmitLostPackets(c) ==
  LET Resend(d, seqNum) ==
        LET lost == d.SentPackets.packets[SP!Index(d.SentPackets, seqNum)]
        IN  transmit(d, AckingPacket(d, lost.packetType, seqNum, lost.data))
  IN  IF Connected(c) /\ SP!HasLostPackets(c.SentPackets)
      THEN FoldLeft(Resend, c, SetToSortSeq(c.SentPackets.lostPackets, <)) ELSE c

\* Mutant: any ack after the FIN was sent counts for it.
FinAckedByAny(c) == Connected(c) /\ LocalFin(c) # Nil /\ SP!LastAckNum(c.SentPackets) # Nil

\* The three tests at the end of onPacket.
FinAcked(c) ==
  Connected(c) /\ LocalFin(c) # Nil /\ SP!LastAckNum(c.SentPackets) = LocalFin(c)
CloseIfDone(c) ==
  LET c1   == IF FinAcked(c) THEN Close(c, Nil) ELSE c
      theirs == /\ Connected(c1) /\ RemoteFin(c1) # Nil
                /\ ~SP!HasUnackedPackets(c1.SentPackets)
                /\ RB!AckNum(c1.RecvBuf) = RemoteFin(c1)
      c2   == IF theirs THEN Close(processReads(c1), Nil) ELSE c1
      both == Connected(c2) /\ RemoteFin(c2) # Nil /\ LocalFin(c2) # Nil
  IN  IF both THEN Close(c2, Nil) ELSE c2

onPacket(c, p) ==
  LET c0 == [c EXCEPT !.peerRecvWindow = p.wnd]
      c1 == CASE p.type = "st_syn"   -> onSyn(c0, p)
              [] p.type = "st_state" -> onState(c0, p)
              [] p.type = "st_data"  -> onData(c0, p)
              [] p.type = "st_fin"   -> onFin(c0, p)
              [] OTHER               -> onReset(c0)
      c2 == IF p.type \in {"st_state", "st_data", "st_fin"} THEN processAck(c1, p) ELSE c1
      c3 == retransmitLostPackets(c2)
      c4 == CASE p.type \in {"st_data", "st_fin"} /\ Connected(c3) -> Emit(c3, statePacket(c3))
              [] p.type = "st_syn" /\ ~c3.synState /\ Connected(c3)
                   -> [Emit(c3, statePacket(c3)) EXCEPT !.synState = TRUE]
              [] p.type = "st_syn" /\ ~c3.synState -> Emit(c3, reset_packet)
              [] OTHER -> c3
      c5 == [c4 EXCEPT
               !.writable = IF p.type = "st_state" THEN Token(@) ELSE @,
               !.readable = IF p.body # << >> \/ p.type = "st_fin" THEN Token(@) ELSE @]
  IN  CloseIfDone(c5)

\* A retransmission takes type, extension flag and body of the packet that
\* timed out.  backoff: the last timeout is long enough ago.
onTimeout(c, t, backoff) ==
  LET again == [AckingPacket(c, t.type, t.seqNum, t.body) EXCEPT !.ext = t.ext]
      d     == IF backoff THEN [c EXCEPT !.SentPackets = SP!OnTimeout(@)] ELSE c
      syn   == synPacket(c)
  IN  CASE c.stateType = "Connecting" /\ c.type = "Initiator" ->
             IF c.Attempts >= MaxConnAttempts THEN Close(c, "TimedOut")
             ELSE Emit(put([c EXCEPT !.Attempts = @ + 1], syn), syn)
        [] Connected(c) /\ t.type # "st_syn" -> transmit(d, again)
        [] OTHER -> c

onIdleTimeout(c) == IF c.stateType = "Closed" THEN c ELSE Close(c, "TimedOut")

\* The FIN goes out when nothing is left to put into packets.
shutdown(c) ==
  LET ready  == c.pendingWrites = << >> /\ SB!IsEmpty(c.SendBuf)
      seqNum == SP!NextSeqNum(c.SentPackets)
      fin    == transmit(c, AckingPacket(c, "st_fin", seqNum, << >>))
      open   == [LocalFin |-> Nil, RemoteFin |-> RemoteFin(c)]
  IN  CASE c.stateType = "Connecting" -> [c EXCEPT !.stateType = "Closed"]
        [] Connected(c) /\ LocalFin(c) = Nil ->
             IF ready THEN [fin EXCEPT !.closing = [open EXCEPT !.LocalFin = seqNum]]
             ELSE [c EXCEPT !.closing = open]
        [] OTHER -> c

\* The loop is left: the time wheel stops and nobody takes from the channels.
Leave(c) == [c EXCEPT !.running = FALSE, !.unacked = {}, !.unackTimeoutCh = {},
                      !.readable = 0, !.writable = 0]

\* What the event loop does after every event.  A closed connection answers
\* the pending writes and leaves the loop (eof is true of it, so processReads
\* is not called).
afterSelect(c, shut) ==
  LET d == IF shut /\ c.stateType # "Closed" THEN shutdown(c) ELSE c
      e == IF eof(d) THEN d ELSE processReads(d)
  IN  IF d.stateType = "Closed"
      THEN [Leave(e) EXCEPT !.pendingWrites = << >>] ELSE d

\* The beginning of the event loop.
startInitiator(synNum) ==
  LET c == newConnection("Initiator", synNum, Nil, Uint32Space - 1)
  IN  [Emit(put(c, synPacket(c)), synPacket(c)) EXCEPT !.Attempts = 1]
startAcceptor(syn, synAck) ==
  LET c == newConnection("Acceptor", syn.seqNum, synAck, syn.wnd)
  IN  [Establish(Emit(c, synStatePacket(c)), c.SynNum, Minus(synAck, 1)) EXCEPT !.synState = TRUE]
=============================================================================
