------------------------------- MODULE Packet -------------------------------
(***************************************************************************)
(* packet.go: the packets as the bytes that travel.  A byte is a number of *)
(* 0..255, a selective ack a sequence of words of 32 booleans.  An error   *)
(* of a decoder is Nil: DecodePacket's callers look at nothing else.       *)
(***************************************************************************)
EXTENDS Integers, Sequences

CONSTANT Nil        \* a nil pointer, or an error

Octets == 0..255

-----------------------------------------------------------------------------
(* The header: 20 bytes, its numbers big-endian.                           *)

HeaderSize == 20        \* MINIMAL_HEADER_SIZE

\* st_data, st_fin, st_state, st_reset, st_syn; Check refuses what is above.
PacketTypes == 0..4

\* binary.BigEndian.AppendUint16 and AppendUint32 with the conversion to their
\* type, and what Uint16 and Uint32 read back at position i.
AppendUint16(n) == <<(n \div 256) % 256, n % 256>>
AppendUint32(n) ==
  <<(n \div 16777216) % 256, (n \div 65536) % 256, (n \div 256) % 256, n % 256>>
Uint16(b, i) == 256 * b[i] + b[i + 1]
Uint32(b, i) == 16777216 * b[i] + 65536 * b[i + 1] + 256 * b[i + 2] + b[i + 3]

encodeTypeVer(h) == 16 * h.PacketType + h.Version

EncodeToBytes(h) ==
  <<encodeTypeVer(h), h.Extension>> \o AppendUint16(h.ConnectionId)
    \o AppendUint32(h.Timestamp) \o AppendUint32(h.TimestampDiff)
    \o AppendUint32(h.WndSize) \o AppendUint16(h.SeqNum) \o AppendUint16(h.AckNum)

DecodePacketHeader(b) ==
  IF Len(b) < HeaderSize \/ b[1] \div 16 \notin PacketTypes THEN Nil
  ELSE [PacketType |-> b[1] \div 16, Version |-> b[1] % 16, Extension |-> b[2],
        ConnectionId |-> Uint16(b, 3), Timestamp |-> Uint32(b, 5),
        TimestampDiff |-> Uint32(b, 9), WndSize |-> Uint32(b, 13),
        SeqNum |-> Uint16(b, 17), AckNum |-> Uint16(b, 19)]

-----------------------------------------------------------------------------
(* The selective ack: the first number of a word is the highest bit of its *)
(* first byte.                                                             *)

WordBits == 32          \* SELECTIVE_ACK_BITS

\* The list in words, the last one filled up with FALSE.
NewSelectiveAck(acked) ==
  [w \in 1..((Len(acked) + WordBits - 1) \div WordBits) |->
     [i \in 1..WordBits |-> LET k == WordBits * (w - 1) + i
                            IN  k <= Len(acked) /\ acked[k] = TRUE]]

Acked(s) ==
  [k \in 1..(WordBits * Len(s)) |->
     s[(k - 1) \div WordBits + 1][((k - 1) % WordBits) + 1]]

AckEncodedLen(s) == (Len(s) * WordBits) \div 8

\* 1 << (7 - j) for j = 0..7.
Weight == <<128, 64, 32, 16, 8, 4, 2, 1>>
Bit(word, i, j) == IF word[i + j] THEN Weight[j] ELSE 0
\* The byte made of the eight booleans after position i of a word.
ByteVal(word, i) ==
  Bit(word, i, 1) + Bit(word, i, 2) + Bit(word, i, 3) + Bit(word, i, 4)
    + Bit(word, i, 5) + Bit(word, i, 6) + Bit(word, i, 7) + Bit(word, i, 8)

EncodeAck(s) ==
  [k \in 1..(4 * Len(s)) |-> ByteVal(s[(k - 1) \div 4 + 1], 8 * ((k - 1) % 4))]

\* Mutant: the bits of a byte are taken from the lowest on.
DecodeLowFirst(data) ==
  IF Len(data) < 4 \/ Len(data) % 4 # 0 THEN Nil
  ELSE [w \in 1..(Len(data) \div 4) |->
          [i \in 1..WordBits |->
             (data[4 * (w - 1) + (i - 1) \div 8 + 1] \div Weight[8 - ((i - 1) % 8)]) % 2 = 1]]
DecodeSelectiveAck(data) ==
  IF Len(data) < 4 \/ Len(data) % 4 # 0 THEN Nil
  ELSE [w \in 1..(Len(data) \div 4) |->
          [i \in 1..WordBits |->
             (data[4 * (w - 1) + (i - 1) \div 8 + 1] \div Weight[((i - 1) % 8) + 1]) % 2 = 1]]

-----------------------------------------------------------------------------
(* The packet.                                                             *)

\* PacketBuilder, from NewPacketBuilder over its With... calls to Build.
Build(type, connID, ts, tsDiff, wnd, seqNum, ackNum, ack, payload) ==
  [Header |-> [PacketType |-> type, Version |-> 1, Extension |-> IF ack = Nil THEN 0 ELSE 1,
               ConnectionId |-> connID, Timestamp |-> ts, TimestampDiff |-> tsDiff,
               WndSize |-> wnd, SeqNum |-> seqNum, AckNum |-> ackNum],
   Eack |-> ack, Body |-> payload]

EncodedLen(p) ==
  HeaderSize + (IF p.Eack = Nil THEN 0 ELSE AckEncodedLen(p.Eack) + 2) + Len(p.Body)

\* The extension of a packet with a selective ack: no further one, the length as
\* a byte, the bits.
Extension(ack) ==
  IF ack = Nil THEN << >> ELSE <<0, Len(EncodeAck(ack)) % 256>> \o EncodeAck(ack)
Encode(p) == EncodeToBytes(p.Header) \o Extension(p.Eack) \o p.Body

\* DecodeRawExtensions: each extension names the type of the one after it, the
\* header that of the first; 0 ends the chain.
DecodeRawExtensions(firstExt, data) ==
  LET walk[index \in 0..Len(data)] == [ext \in Octets |->
        LET end  == index + 2 + data[index + 2]
            rest == walk[end][data[index + 1]]
        IN  IF ext = 0 THEN [extensions |-> << >>, len |-> index]
            ELSE IF Len(data) - index < 2 THEN Nil
            ELSE IF Len(data) < end \/ rest = Nil THEN Nil
            ELSE [rest EXCEPT !.extensions =
                    <<[extension |-> ext, payload |-> SubSeq(data, index + 3, end)]>> \o @]]
  IN  walk[0][firstExt]

\* The payload of the last selective ack among the extensions, empty for none.
AckPayload(extensions) ==
  LET acks == {i \in DOMAIN extensions : extensions[i].extension = 1}
      last == CHOOSE i \in acks : \A j \in acks : j <= i
  IN  IF acks = {} THEN << >> ELSE extensions[last].payload

DecodePacket(b) ==
  LET header  == DecodePacketHeader(b)
      raw     == DecodeRawExtensions(header.Extension, SubSeq(b, HeaderSize + 1, Len(b)))
      bits    == AckPayload(raw.extensions)
      payload == SubSeq(b, HeaderSize + raw.len + 1, Len(b))
  IN  IF header = Nil THEN Nil
      ELSE IF raw = Nil THEN Nil
      ELSE IF bits # << >> /\ DecodeSelectiveAck(bits) = Nil THEN Nil
      ELSE IF header.PacketType = 0 /\ payload = << >> THEN Nil
      ELSE [Header |-> header, Body |-> payload,
            Eack |-> IF bits = << >> THEN Nil ELSE DecodeSelectiveAck(bits)]
=============================================================================
