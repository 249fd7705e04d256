---------------------------- MODULE PacketOnWire ----------------------------
(***************************************************************************)
(* The packets a connection sends while its receive buffer goes through    *)
(* the states of ReceiveBufferSpec, as bytes: what the peer makes of them. *)
(***************************************************************************)
EXTENDS ReceiveBufferSpec

P == INSTANCE Packet

\* The list SelectiveAck hands to NewSelectiveAck: its loop ends at the last
\* packet that is pending.
SelectiveAckList(positions) ==
  LET last == CHOOSE i \in positions : \A j \in positions : j <= i
  IN  [k \in 1..(last + 1) |-> k - 1 \in positions]
Eack == IF SelectiveAck(rb) = Nil THEN Nil
        ELSE P!NewSelectiveAck(SelectiveAckList(SelectiveAck(rb)))

\* What statePacket, dataPacket and finPacket send: the numbers around both ends
\* of a uint16, the window and the acks of the buffer, a short or a long body.
Bodies == {<< >>, <<7>>, <<1, 0, 255>>}
Fresh == {P!Build(type, 65535, 66051, 1, Available(rb), seqNum, AckNum(rb), Eack, body) :
            type \in P!PacketTypes, seqNum \in {0, 256, 65535}, body \in Bodies}
Sensible(p) == p.Header.PacketType = 0 => p.Body # << >>

\* transmit again: the header keeps the extension it was sent with the first time,
\* the selective ack is that of now.
Again == {[p EXCEPT !.Header.Extension = 1 - @] : p \in Fresh}

\* What DecodePacket makes of a packet: the packet itself when its header announces
\* the selective ack that it carries.  Acks that are not announced become the first
\* bytes of the payload, and a payload that is too short for the extension announced
\* is refused.  Module Connection takes this for what arrives.
Understood(p) ==
  CASE (p.Header.Extension = 1) = (p.Eack # Nil) -> p
    [] p.Header.Extension = 1 /\ p.Eack = Nil    -> Nil
    [] p.Header.Extension = 0 /\ p.Eack # Nil ->
         [p EXCEPT !.Eack = Nil, !.Body = P!Extension(p.Eack) \o @]

\* Header, acks and payload of every packet survive Encode and DecodePacket, in as
\* many bytes as EncodedLen says; a packet that is sent again after the selective
\* ack came or went is misread in exactly the way Understood says.
OnTheWire ==
  /\ \A p \in Fresh : Sensible(p) =>
       /\ P!DecodePacket(P!Encode(p)) = p
       /\ Len(P!Encode(p)) = P!EncodedLen(p)
  /\ \A p \in Again : Sensible(p) /\ Len(p.Body) < 2 =>
       P!DecodePacket(P!Encode(p)) = Understood(p)
=============================================================================
