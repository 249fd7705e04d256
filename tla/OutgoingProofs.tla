--------------------------- MODULE OutgoingProofs ---------------------------
(***************************************************************************)
(* The bytes on their way out: the send buffer of send_buffer.go is the    *)
(* queue of module ByteQueue, for every size, every set of writes and      *)
(* every set of reads; the codec of packet.go for every header, every      *)
(* selective ack and every payload.                                        *)
(***************************************************************************)
EXTENDS SendBufferSpec, Packet, DataLemmas

\* The bytes that occur in what may be written.
Alphabet == UNION {Range(data) : data \in Chunks}

\* The chunks are byte sequences; only the first is partly read.
SendInv ==
  /\ sb \in [pending : Seq(Seq(Alphabet)), offset : Nat]
  /\ taken \in Seq(Alphabet)
  /\ IF sb.pending = << >> THEN sb.offset = 0 ELSE sb.offset <= Len(Head(sb.pending))

\* Whatever the application writes is a sequence of these bytes.
LEMMA ChunkType ==
  ASSUME NEW data \in Chunks
  PROVE  data \in Seq(Alphabet)
BY ChunksAssumption, SeqMonotonic DEF Alphabet

\* The queue is what remains of the joined chunks after the bytes already read.
LEMMA QueuedIs ==
  ASSUME SendInv
  PROVE  /\ Joined(sb.pending) \in Seq(Alphabet)
         /\ sb.offset \in 0..Len(Joined(sb.pending))
         /\ Queued = From(Joined(sb.pending), sb.offset)
         /\ Queued \in Seq(Alphabet)
         /\ Len(Queued) = Len(Joined(sb.pending)) - sb.offset
<1> DEFINE flat == Joined(sb.pending)
<1>1. sb.pending \in Seq(Seq(Alphabet)) /\ sb.offset \in Nat
  BY DEF SendInv
<1>2. flat \in Seq(Alphabet)
  BY <1>1, JoinedType
<1>3. sb.offset \in 0..Len(flat)
  <2>1. CASE sb.pending = << >>
    BY <2>1, JoinedEmpty DEF SendInv
  <2>2. CASE sb.pending # << >>
    <3>1. flat = Head(sb.pending) \o Joined(Tail(sb.pending))
      BY <1>1, <2>2, JoinedHead, Zenon
    <3>2. Head(sb.pending) \in Seq(Alphabet) /\ Joined(Tail(sb.pending)) \in Seq(Alphabet)
      BY <1>1, <2>2, HeadTailProperties, JoinedType, Zenon
    <3>3. Len(flat) = Len(Head(sb.pending)) + Len(Joined(Tail(sb.pending)))
      BY <3>1, <3>2, ConcatProperties
    <3>4. Len(Head(sb.pending)) \in Nat /\ Len(Joined(Tail(sb.pending))) \in Nat
      BY <3>2, LenProperties
    <3>5. sb.offset <= Len(Head(sb.pending))
      BY <2>2 DEF SendInv
    <3>6. sb.offset \in Nat
      BY <1>1
    <3> DEFINE lf == Len(flat)
               lh == Len(Head(sb.pending))
               lr == Len(Joined(Tail(sb.pending)))
               o == sb.offset
    <3>7. lf = lh + lr /\ lh \in Nat /\ lr \in Nat /\ o <= lh /\ o \in Nat
      BY <3>3, <3>4, <3>5, <3>6
    <3> HIDE DEF lf, lh, lr, o
    <3>8. o \in 0..lf
      BY <3>7
    <3> QED
      BY <3>8 DEF o, lf
  <2> QED
    BY <2>1, <2>2
<1>4. Queued = From(flat, sb.offset)
  BY DEF Queued, From
<1> HIDE DEF flat
<1>5. Queued \in Seq(Alphabet) /\ Len(Queued) = Len(flat) - sb.offset
  BY <1>2, <1>3, <1>4, FromProperties
<1> QED
  BY <1>2, <1>3, <1>4, <1>5 DEF flat

\* Write appends the longest prefix that fits to the queue.
LEMMA WriteStep ==
  ASSUME SendInv, NEW data \in Chunks, WriteChunk(data)
  PROVE  SendInv' /\ Q!Put(data)
<1> DEFINE flat == Joined(sb.pending)
           n == WriteLen(sb, data)
           d == SubSeq(data, 1, n)
<1>1. /\ sb.pending \in Seq(Seq(Alphabet)) /\ sb.offset \in Nat /\ taken \in Seq(Alphabet)
      /\ flat \in Seq(Alphabet) /\ sb.offset \in 0..Len(flat)
      /\ Queued = From(flat, sb.offset) /\ Queued \in Seq(Alphabet)
      /\ Len(Queued) = Len(flat) - sb.offset /\ Len(flat) \in Nat
  BY QueuedIs, LenProperties DEF SendInv
<1>2. data \in Seq(Alphabet) /\ Len(data) \in Nat
  BY ChunkType, LenProperties
<1> DEFINE room == BufferSize - Len(Queued)
<1>3. Available(sb) = room /\ room \in Nat
  <2>1. BufferSize + sb.offset - Len(flat) = room
    BY <1>1, BufferSizeAssumption
  <2> QED
    BY <1>1, <2>1, BufferSizeAssumption DEF Available, WriteChunk
<1>4. n = (IF Len(data) < room THEN Len(data) ELSE room) /\ n \in 0..Len(data)
  <2> HIDE DEF room
  <2> QED
    BY <1>2, <1>3 DEF WriteLen
<1>5. d \in Seq(Alphabet)
  <2> HIDE DEF n
  <2>1. 1 \in 1..(Len(data) + 1) /\ n \in (1 - 1)..Len(data)
    BY <1>2, <1>4
  <2> QED
    BY <1>2, <2>1, PrefixProperties
<1>6. sb' = [sb EXCEPT !.pending = Append(sb.pending, d)] /\ taken' = taken
  BY DEF WriteChunk, Write
<1>7. sb'.pending = Append(sb.pending, d) /\ sb'.offset = sb.offset
      /\ sb' = [pending |-> Append(sb.pending, d), offset |-> sb.offset]
  BY <1>6, Zenon DEF SendInv
<1> HIDE DEF d, n, room
<1>8. Append(sb.pending, d) \in Seq(Seq(Alphabet)) /\ Append(sb.pending, d) # << >>
  <2> DEFINE U == Seq(Alphabet)
  <2>1. sb.pending \in Seq(U) /\ d \in U
    BY <1>1, <1>5
  <2> HIDE DEF U
  <2>2. Append(sb.pending, d) \in Seq(U) /\ Append(sb.pending, d) # << >>
    BY <2>1, AppendProperties
  <2> QED
    BY <2>2 DEF U
<1>9. SendInv'
  <2>1. Head(Append(sb.pending, d)) = IF sb.pending = << >> THEN d ELSE Head(sb.pending)
    BY <1>1, HeadTailAppend
  <2>2. Len(d) \in Nat
    BY <1>5, LenProperties
  <2>3. sb.offset <= Len(Head(Append(sb.pending, d)))
    BY <1>1, <2>1, <2>2 DEF SendInv
  <2> QED
    BY <1>1, <1>6, <1>7, <1>8, <2>3, Zenon DEF SendInv
<1>10. Queued' = Queued \o d
  <2>1. Joined(Append(sb.pending, d)) = flat \o d
    BY <1>1, <1>5, JoinedAppend
  <2>2. Queued' = From(flat \o d, sb.offset)
    BY <1>7, <2>1 DEF Queued, From
  <2> HIDE DEF flat
  <2> QED
    BY <1>1, <1>5, <2>2, FromConcat, Zenon
<1> QED
  BY <1>4, <1>6, <1>9, <1>10 DEF Q!Put, d, room

\* Read takes bytes off the front of the queue, or none at all; dropping a chunk
\* that is used up leaves the queue as it is.
LEMMA ReadStep ==
  ASSUME SendInv, NEW n \in ReadSizes, ReadChunk(n)
  PROVE  /\ SendInv'
         /\ \/ \E m \in 1..Len(Queued) : Q!Take(m)
            \/ UNCHANGED <<Queued, taken>>
<1> DEFINE k == ReadLen(sb, n)
           head == Head(sb.pending)
           rest == Joined(Tail(sb.pending))
<1>1. /\ sb.pending \in Seq(Seq(Alphabet)) /\ sb.offset \in Nat /\ taken \in Seq(Alphabet)
      /\ Queued \in Seq(Alphabet)
  BY QueuedIs DEF SendInv
<1>2. CASE n = 0 \/ sb.pending = << >>
  <2>1. sb' = sb
    BY <1>2 DEF ReadChunk, Read, IsEmpty
  <2>2. ReadBytes(sb, n) = << >>
    <3>1. CASE sb.pending = << >>
      BY <3>1 DEF ReadBytes, IsEmpty
    <3>2. CASE sb.pending # << >> /\ n = 0
      <4>1. head \in Seq(Alphabet) /\ Len(head) \in Nat /\ sb.offset <= Len(head)
        BY <1>1, <3>2, HeadTailProperties, LenProperties DEF SendInv
      <4>2. k = 0
        BY <1>1, <3>2, <4>1 DEF ReadLen, IsEmpty
      <4>3. SubSeq(head, sb.offset + 1, sb.offset + k) = << >>
        BY <1>1, <4>2, SubSeqEmpty
      <4> QED
        BY <3>2, <4>3 DEF ReadBytes, IsEmpty
    <3> QED
      BY <1>2, <3>1, <3>2
  <2>3. taken' = taken
    BY <1>1, <2>2, ConcatEmptySeq DEF ReadChunk
  <2> QED
    BY <2>1, <2>3 DEF SendInv, Queued
<1>3. CASE n # 0 /\ sb.pending # << >>
  <2>1. /\ head \in Seq(Alphabet) /\ Len(head) \in Nat /\ sb.offset <= Len(head)
        /\ rest \in Seq(Alphabet) /\ Tail(sb.pending) \in Seq(Seq(Alphabet))
    BY <1>1, <1>3, HeadTailProperties, JoinedType, LenProperties, Zenon DEF SendInv
  <2>2. Joined(sb.pending) = head \o rest
    BY <1>1, <1>3, JoinedHead, Zenon
  <2>3. Queued = From(head \o rest, sb.offset)
    BY <2>2, QueuedIs
  <2>4. k \in 0..(Len(head) - sb.offset) /\ sb.offset \in 0..Len(head)
    BY <1>1, <1>3, <2>1, ReadSizesAssumption DEF ReadLen, IsEmpty
  <2> HIDE DEF k
  <2>5. /\ Len(head \o rest) = Len(head) + Len(rest) /\ Len(rest) \in Nat
        /\ head \o rest \in Seq(Alphabet)
    BY <2>1, ConcatProperties, LenProperties
  <2>6. sb.offset \in 0..Len(head \o rest) /\ k \in 0..(Len(head \o rest) - sb.offset)
    <3>1. Len(head) \in Nat /\ Len(rest) \in Nat /\ Len(head \o rest) = Len(head) + Len(rest)
      BY <2>1, <2>5
    <3> HIDE DEF head, rest
    <3> QED
      BY <2>4, <3>1
  <2>7. ReadBytes(sb, n) = SubSeq(Queued, 1, k)
    <3>1. ReadBytes(sb, n) = SubSeq(head, sb.offset + 1, sb.offset + k)
      BY <1>3, Zenon DEF ReadBytes, IsEmpty, k
    <3> HIDE DEF head, rest
    <3> QED
      BY <2>1, <2>3, <2>4, <3>1, PrefixOfFrom, Zenon
  <2>8. taken' = taken \o SubSeq(Queued, 1, k)
    BY <2>7 DEF ReadChunk
  <2>9. From(Queued, k) = From(head \o rest, sb.offset + k)
    <3> HIDE DEF head, rest
    <3> QED
      BY <2>3, <2>5, <2>6, FromFrom, Zenon
  <2>10. k \in 0..Len(Queued) /\ Len(Queued) \in Nat
    BY <2>3, <2>5, <2>6, FromProperties, LenProperties, ZenonT(30)
  <2>11. taken' \in Seq(Alphabet)
    <3>1. 1 \in 1..(Len(Queued) + 1) /\ k \in (1 - 1)..Len(Queued)
      BY <2>10
    <3>2. SubSeq(Queued, 1, k) \in Seq(Alphabet)
      BY <1>1, <3>1, PrefixProperties
    <3> QED
      BY <1>1, <2>8, <3>2, ConcatProperties
  <2>12. SendInv' /\ Queued' = From(Queued, k)
    <3>1. CASE sb.offset + k = Len(head)
      <4>1. sb' = [pending |-> Tail(sb.pending), offset |-> 0]
        BY <1>3, <3>1 DEF ReadChunk, Read, IsEmpty, k
      <4>2. SendInv'
        <5>1. Tail(sb.pending) # << >> => Len(Head(Tail(sb.pending))) \in Nat
          BY <2>1, HeadTailProperties, LenProperties
        <5> HIDE DEF head, rest
        <5> QED
          BY <2>1, <2>11, <4>1, <5>1 DEF SendInv
      <4>3. Queued' = SubSeq(rest, 1, Len(rest))
        BY <4>1 DEF Queued
      <4>4. SubSeq(rest, 1, Len(rest)) = rest
        BY <2>1, SubSeqFull
      <4>5. From(head \o rest, Len(head)) = rest
        BY <2>1, FromAll
      <4> QED
        BY <3>1, <4>2, <4>3, <4>4, <4>5, <2>9
    <3>2. CASE sb.offset + k # Len(head)
      <4>1. sb' = [sb EXCEPT !.offset = sb.offset + k]
        BY <1>3, <3>2 DEF ReadChunk, Read, IsEmpty, k
      <4>2. sb'.pending = sb.pending /\ sb'.offset = sb.offset + k
            /\ sb' = [pending |-> sb.pending, offset |-> sb.offset + k]
        BY <4>1 DEF SendInv
      <4>3. sb.offset + k \in Nat /\ sb.offset + k <= Len(head)
        BY <1>1, <2>1, <2>4
      <4>4. SendInv'
        BY <1>1, <1>3, <2>11, <4>2, <4>3 DEF SendInv
      <4>5. Queued' = From(head \o rest, sb.offset + k)
        BY <2>2, <4>2, Zenon DEF Queued, From
      <4> QED
        BY <4>4, <4>5, <2>9
    <3> QED
      BY <3>1, <3>2
  <2>13. CASE k = 0
    <3>1. taken' = taken
      BY <1>1, <2>8, <2>13, ConcatEmptySeq, SubSeqEmpty
    <3>2. From(Queued, 0) = Queued
      BY <1>1, SubSeqFull DEF From
    <3> QED
      BY <2>12, <2>13, <3>1, <3>2
  <2>14. CASE k # 0
    <3>1. k \in 1..Len(Queued)
      BY <2>10, <2>14
    <3>2. Q!Take(k)
      BY <2>8, <2>12 DEF Q!Take, From
    <3> QED
      BY <2>12, <3>1, <3>2
  <2> QED
    BY <2>13, <2>14
<1> QED
  BY <1>2, <1>3

\* The send buffer implements the bounded queue of bytes: neither the boundaries
\* between the chunks, nor partial reads, nor truncated and empty writes lose,
\* repeat or reorder a byte.
THEOREM SendBufferIsQueue == Spec => ImplementsByteQueue
<1>1. Init => SendInv /\ Q!Init
  BY JoinedEmpty, SubSeqEmpty DEF Init, SendInv, Q!Init, newSendBuffer, Queued
<1>2. SendInv /\ [Next]_vars => SendInv' /\ [Q!Next]_<<Queued, taken>>
  <2> SUFFICES ASSUME SendInv, [Next]_vars
               PROVE  SendInv' /\ [Q!Next]_<<Queued, taken>>
    OBVIOUS
  <2>1. CASE UNCHANGED vars
    BY <2>1 DEF vars, SendInv, Queued
  <2>2. ASSUME NEW data \in Chunks, WriteChunk(data)
        PROVE  SendInv' /\ Q!Put(data)
    BY <2>2, WriteStep
  <2>3. ASSUME NEW n \in ReadSizes, ReadChunk(n)
        PROVE  /\ SendInv'
               /\ \/ \E m \in 1..Len(Queued) : Q!Take(m)
                  \/ UNCHANGED <<Queued, taken>>
    BY <2>3, ReadStep
  <2> QED
    BY <2>1, <2>2, <2>3 DEF Next, Q!Next
<1> QED
  BY <1>1, <1>2, PTL DEF Spec, ImplementsByteQueue, Q!Spec

-----------------------------------------------------------------------------
(* The header.                                                             *)

Uint16s == {n \in Nat : n <= 65535}
Uint32s == {n \in Nat : n <= 4294967295}

\* The headers Build makes: what PacketHeaderV1's types hold.
Headers ==
  [PacketType : PacketTypes, Version : 0..15, Extension : Octets,
   ConnectionId : Uint16s, Timestamp : Uint32s, TimestampDiff : Uint32s,
   WndSize : Uint32s, SeqNum : Uint16s, AckNum : Uint16s]

\* A number shifted right by eight bits, and the byte that is lost.
LEMMA Shift ==
  ASSUME NEW n \in Nat
  PROVE  n \div 256 \in Nat /\ n % 256 \in Octets /\ n = 256 * (n \div 256) + (n % 256)
  BY SMT DEF Octets

\* Shifts of a number by 16 and by 24 bits are repeated shifts by eight.
LEMMA Shifts ==
  ASSUME NEW n \in Nat
  PROVE  /\ n \div 65536 = (n \div 256) \div 256
         /\ n \div 16777216 = ((n \div 256) \div 256) \div 256
  BY SMT

\* A byte is its own remainder.
LEMMA ByteMod == ASSUME NEW x \in Octets PROVE x % 256 = x
  BY SMT DEF Octets

\* AppendUint16 gives two bytes that Uint16 reads back.
LEMMA Short ==
  ASSUME NEW n \in Uint16s
  PROVE  n = 256 * ((n \div 256) % 256) + (n % 256)
  <1>1. n \in Nat /\ n <= 65535 BY SMT DEF Uint16s
  <1>2. n \div 256 \in Octets /\ n = 256 * (n \div 256) + (n % 256)
    BY SMT, <1>1, Shift DEF Octets
  <1> QED BY SMT, <1>2, ByteMod

\* AppendUint32 gives four bytes that Uint32 reads back.
LEMMA Long ==
  ASSUME NEW n \in Uint32s
  PROVE  n = 16777216 * ((n \div 16777216) % 256) + 65536 * ((n \div 65536) % 256)
               + 256 * ((n \div 256) % 256) + (n % 256)
  <1> DEFINE p == n \div 256
             q == p \div 256
             r == q \div 256
  <1>1. n \in Nat /\ n <= 4294967295 BY SMT DEF Uint32s
  <1>2. p \in Nat /\ p <= 16777215 /\ n % 256 \in Octets /\ n = 256 * p + (n % 256)
    BY SMT, <1>1, Shift DEF Octets
  <1> HIDE DEF p, q, r
  <1>3. q \in Nat /\ q <= 65535 /\ p % 256 \in Octets /\ p = 256 * q + (p % 256)
    BY SMT, <1>2, Shift DEF Octets, q
  <1>4. r \in Octets /\ q % 256 \in Octets /\ q = 256 * r + (q % 256)
    BY SMT, <1>3, Shift DEF Octets, r
  <1>5. n \div 65536 = q /\ n \div 16777216 = r BY SMT, <1>1, Shifts DEF p, q, r
  <1>6. r % 256 = r BY <1>4, ByteMod
  <1>7. n = 16777216 * (r % 256) + 65536 * (q % 256) + 256 * (p % 256) + (n % 256)
    BY SMT, <1>2, <1>3, <1>4, <1>6 DEF Octets
  <1> QED BY SMT, <1>5, <1>7 DEF p

\* encodeTypeVer packs the type and the version into one byte, from which
\* DecodePacketHeader takes both.
LEMMA TypeVer ==
  ASSUME NEW t \in PacketTypes, NEW v \in 0..15
  PROVE  (16 * t + v) \div 16 = t /\ (16 * t + v) % 16 = v
  BY SMT DEF PacketTypes

\* EncodeToBytes byte by byte.
LEMMA HeaderBytes ==
  ASSUME NEW h \in Headers
  PROVE  LET b == EncodeToBytes(h)
         IN  /\ Len(b) = 20
             /\ b[1] = encodeTypeVer(h) /\ b[2] = h.Extension
             /\ b[3] = (h.ConnectionId \div 256) % 256 /\ b[4] = h.ConnectionId % 256
             /\ b[5] = (h.Timestamp \div 16777216) % 256
             /\ b[6] = (h.Timestamp \div 65536) % 256
             /\ b[7] = (h.Timestamp \div 256) % 256 /\ b[8] = h.Timestamp % 256
             /\ b[9] = (h.TimestampDiff \div 16777216) % 256
             /\ b[10] = (h.TimestampDiff \div 65536) % 256
             /\ b[11] = (h.TimestampDiff \div 256) % 256 /\ b[12] = h.TimestampDiff % 256
             /\ b[13] = (h.WndSize \div 16777216) % 256
             /\ b[14] = (h.WndSize \div 65536) % 256
             /\ b[15] = (h.WndSize \div 256) % 256 /\ b[16] = h.WndSize % 256
             /\ b[17] = (h.SeqNum \div 256) % 256 /\ b[18] = h.SeqNum % 256
             /\ b[19] = (h.AckNum \div 256) % 256 /\ b[20] = h.AckNum % 256
  <1> DEFINE b == EncodeToBytes(h)
  <1>1. Len(b) = 20 /\ b[1] = encodeTypeVer(h) /\ b[2] = h.Extension
    BY SMT DEF EncodeToBytes, AppendUint16, AppendUint32
  <1>2. b[3] = (h.ConnectionId \div 256) % 256 /\ b[4] = h.ConnectionId % 256
    BY SMT DEF EncodeToBytes, AppendUint16, AppendUint32
  <1>3. /\ b[5] = (h.Timestamp \div 16777216) % 256
        /\ b[6] = (h.Timestamp \div 65536) % 256
        /\ b[7] = (h.Timestamp \div 256) % 256 /\ b[8] = h.Timestamp % 256
    BY SMT DEF EncodeToBytes, AppendUint16, AppendUint32
  <1>4. /\ b[9] = (h.TimestampDiff \div 16777216) % 256
        /\ b[10] = (h.TimestampDiff \div 65536) % 256
        /\ b[11] = (h.TimestampDiff \div 256) % 256 /\ b[12] = h.TimestampDiff % 256
    BY SMT DEF EncodeToBytes, AppendUint16, AppendUint32
  <1>5. /\ b[13] = (h.WndSize \div 16777216) % 256
        /\ b[14] = (h.WndSize \div 65536) % 256
        /\ b[15] = (h.WndSize \div 256) % 256 /\ b[16] = h.WndSize % 256
    BY SMT DEF EncodeToBytes, AppendUint16, AppendUint32
  <1>6. /\ b[17] = (h.SeqNum \div 256) % 256 /\ b[18] = h.SeqNum % 256
        /\ b[19] = (h.AckNum \div 256) % 256 /\ b[20] = h.AckNum % 256
    BY SMT DEF EncodeToBytes, AppendUint16, AppendUint32
  <1> HIDE DEF b
  <1>7. QED BY <1>1, <1>2, <1>3, <1>4, <1>5, <1>6 DEF b

\* DecodePacketHeader gives back every header that EncodeToBytes wrote: type and
\* version share a byte, and every number of 16 or 32 bits comes back whole.
THEOREM HeaderRoundTrip ==
  \A h \in Headers : DecodePacketHeader(EncodeToBytes(h)) = h
  <1> TAKE h \in Headers
  <1> DEFINE b == EncodeToBytes(h)
  <1>1. b[1] \div 16 = h.PacketType /\ b[1] % 16 = h.Version /\ b[2] = h.Extension
    <2>1. h.PacketType \in PacketTypes /\ h.Version \in 0..15 BY DEF Headers
    <2>2. b[1] = 16 * h.PacketType + h.Version /\ b[2] = h.Extension
      BY SMT, HeaderBytes DEF encodeTypeVer
    <2>3. b[1] \div 16 = (16 * h.PacketType + h.Version) \div 16 BY <2>2
    <2>4. b[1] % 16 = (16 * h.PacketType + h.Version) % 16 BY <2>2
    <2> QED BY <2>1, <2>2, <2>3, <2>4, TypeVer, Zenon
  <1>2. /\ Uint16(b, 3) = h.ConnectionId /\ Uint16(b, 17) = h.SeqNum
        /\ Uint16(b, 19) = h.AckNum
    BY SMT, HeaderBytes, Short DEF Headers, Uint16
  <1>3. /\ Uint32(b, 5) = h.Timestamp /\ Uint32(b, 9) = h.TimestampDiff
        /\ Uint32(b, 13) = h.WndSize
    BY SMT, HeaderBytes, Long DEF Headers, Uint32
  <1>4. Len(b) = 20 BY SMT, HeaderBytes
  <1>5. h = [PacketType |-> h.PacketType, Version |-> h.Version, Extension |-> h.Extension,
             ConnectionId |-> h.ConnectionId, Timestamp |-> h.Timestamp,
             TimestampDiff |-> h.TimestampDiff, WndSize |-> h.WndSize,
             SeqNum |-> h.SeqNum, AckNum |-> h.AckNum]
    BY SMT DEF Headers
  <1> QED
    BY SMT, <1>1, <1>2, <1>3, <1>4, <1>5 DEF DecodePacketHeader, HeaderSize, Headers

-----------------------------------------------------------------------------
(* The selective ack.                                                      *)

Words == [1..WordBits -> BOOLEAN]

\* The number with eight binary digits, and what it says that they are its digits.
ByteSum(a, b, c, d, e, f, g, h) ==
  128 * a + 64 * b + 32 * c + 16 * d + 8 * e + 4 * f + 2 * g + h
AreDigits(v, a, b, c, d, e, f, g, h) ==
  /\ (v \div 128) % 2 = a /\ (v \div 64) % 2 = b /\ (v \div 32) % 2 = c
  /\ (v \div 16) % 2 = d /\ (v \div 8) % 2 = e /\ (v \div 4) % 2 = f
  /\ (v \div 2) % 2 = g /\ (v \div 1) % 2 = h

\* Dividing by the weights that DecodeSelectiveAck tests brings out the digits.
LEMMA Digits ==
  ASSUME NEW a \in 0..1, NEW b \in 0..1, NEW c \in 0..1, NEW d \in 0..1,
         NEW e \in 0..1, NEW f \in 0..1, NEW g \in 0..1, NEW h \in 0..1
  PROVE  AreDigits(ByteSum(a, b, c, d, e, f, g, h), a, b, c, d, e, f, g, h)
  <1> DEFINE v == ByteSum(a, b, c, d, e, f, g, h)
  <1>1. v \div 128 = a BY SMT DEF ByteSum
  <1>2. v \div 64 = 2 * a + b BY SMT DEF ByteSum
  <1>3. v \div 32 = 2 * (2 * a + b) + c BY SMT DEF ByteSum
  <1>4. v \div 16 = 2 * (4 * a + 2 * b + c) + d BY SMT DEF ByteSum
  <1>5. v \div 8 = 2 * (8 * a + 4 * b + 2 * c + d) + e BY SMT DEF ByteSum
  <1>6. v \div 4 = 2 * (16 * a + 8 * b + 4 * c + 2 * d + e) + f BY SMT DEF ByteSum
  <1>7. v \div 2 = 2 * (32 * a + 16 * b + 8 * c + 4 * d + 2 * e + f) + g
    BY SMT DEF ByteSum
  <1>8. v \div 1 = 2 * (64 * a + 32 * b + 16 * c + 8 * d + 4 * e + 2 * f + g) + h
    BY SMT DEF ByteSum
  <1>9. \A m \in Nat, x \in 0..1 : (2 * m + x) % 2 = x BY SMT
  <1> HIDE DEF v
  <1>10. AreDigits(v, a, b, c, d, e, f, g, h)
    BY SMT, <1>1, <1>2, <1>3, <1>4, <1>5, <1>6, <1>7, <1>8, <1>9 DEF AreDigits
  <1> QED BY <1>10 DEF v

\* Bit j of the byte Encode makes of eight booleans is the j-th of them.
LEMMA ByteBits ==
  ASSUME NEW word \in Words, NEW i \in {0, 8, 16, 24}, NEW j \in 1..8
  PROVE  ((ByteVal(word, i) \div Weight[j]) % 2 = 1) = word[i + j]
  <1> DEFINE D(k) == IF word[i + k] THEN 1 ELSE 0
             v    == ByteVal(word, i)
  <1>1. \A k \in 1..8 : D(k) \in 0..1 /\ word[i + k] \in BOOLEAN /\ (D(k) = 1) = word[i + k]
    BY DEF Words, WordBits
  <1>2. v = ByteSum(D(1), D(2), D(3), D(4), D(5), D(6), D(7), D(8))
    BY SMT DEF ByteVal, Bit, Weight, ByteSum
  <1> HIDE DEF D, v
  <1>3. /\ D(1) \in 0..1 /\ D(2) \in 0..1 /\ D(3) \in 0..1 /\ D(4) \in 0..1
        /\ D(5) \in 0..1 /\ D(6) \in 0..1 /\ D(7) \in 0..1 /\ D(8) \in 0..1
    BY SMT, <1>1
  <1>4. AreDigits(v, D(1), D(2), D(3), D(4), D(5), D(6), D(7), D(8))
    BY <1>2, <1>3, Digits
  <1>5. (v \div Weight[j]) % 2 = D(j) BY SMT, <1>4 DEF Weight, AreDigits
  <1> QED BY <1>1, <1>5 DEF v

\* The number of words a list needs.
WordCount(n) == (n + WordBits - 1) \div WordBits

\* NewSelectiveAck makes whole words.
LEMMA AckWords ==
  ASSUME NEW acked \in Seq(BOOLEAN)
  PROVE  /\ WordCount(Len(acked)) \in Nat
         /\ NewSelectiveAck(acked) \in [1..WordCount(Len(acked)) -> Words]
         /\ NewSelectiveAck(acked) \in Seq(Words)
         /\ Len(NewSelectiveAck(acked)) = WordCount(Len(acked))
  <1>1. Len(acked) \in Nat BY LenProperties
  <1>2. WordCount(Len(acked)) \in Nat BY SMT, <1>1 DEF WordCount, WordBits
  <1>3. NewSelectiveAck(acked) \in [1..WordCount(Len(acked)) -> Words]
    BY DEF NewSelectiveAck, WordCount, Words
  <1> HIDE DEF NewSelectiveAck
  <1> QED BY <1>2, <1>3, IsASeq, LenProperties

\* DecodeSelectiveAck gives back every selective ack of at least one word that
\* Encode wrote, whatever its length.
LEMMA WordsRoundTrip ==
  ASSUME NEW n \in Nat \ {0}, NEW s \in [1..n -> Words]
  PROVE  DecodeSelectiveAck(EncodeAck(s)) = s
  <1> DEFINE d == EncodeAck(s)
  <1>1. s \in Seq(Words) /\ Len(s) = n BY IsASeq, LenProperties
  <1>2. d = [k \in 1..(4 * n) |-> ByteVal(s[(k - 1) \div 4 + 1], 8 * ((k - 1) % 4))]
    BY <1>1 DEF EncodeAck
  <1>3. Len(d) = 4 * n
    <2>1. 4 * n \in Nat BY SMT
    <2> QED BY <1>2, <2>1, SMT
  <1> HIDE DEF d
  <1>4. Len(d) >= 4 /\ Len(d) % 4 = 0 /\ Len(d) \div 4 = n BY SMT, <1>3
  <1>5. ASSUME NEW w \in 1..n, NEW i \in 1..WordBits
        PROVE  ((d[4 * (w - 1) + (i - 1) \div 8 + 1] \div Weight[((i - 1) % 8) + 1]) % 2 = 1)
                 = s[w][i]
    <2> DEFINE o == (i - 1) \div 8
               j == ((i - 1) % 8) + 1
               k == 4 * (w - 1) + o + 1
    <2>1. o \in 0..3 /\ j \in 1..8 /\ i = 8 * o + j BY SMT DEF WordBits
    <2> HIDE DEF o, j
    <2>2. k \in 1..(4 * n) /\ (k - 1) \div 4 + 1 = w /\ (k - 1) % 4 = o BY SMT, <2>1
    <2>3. d[k] = ByteVal(s[w], 8 * o) BY <1>2, <2>2, Zenon
    <2>4. s[w] \in Words /\ 8 * o \in {0, 8, 16, 24} BY SMT, <2>1
    <2>5. ((ByteVal(s[w], 8 * o) \div Weight[j]) % 2 = 1) = s[w][8 * o + j]
      BY <2>1, <2>4, ByteBits, Zenon
    <2> QED BY <2>1, <2>3, <2>5 DEF o, j
  <1>6. s = [w \in 1..n |-> [i \in 1..WordBits |-> s[w][i]]] BY Zenon DEF Words
  <1>7. DecodeSelectiveAck(d) =
          [w \in 1..n |-> [i \in 1..WordBits |->
             (d[4 * (w - 1) + (i - 1) \div 8 + 1] \div Weight[((i - 1) % 8) + 1]) % 2 = 1]]
    <2>1. ~(Len(d) < 4) /\ ~(Len(d) % 4 # 0) BY SMT, <1>3, <1>4
    <2> QED BY Zenon, <1>4, <2>1 DEF DecodeSelectiveAck
  <1>8. DecodeSelectiveAck(d) = [w \in 1..n |-> [i \in 1..WordBits |-> s[w][i]]]
    BY <1>5, <1>7
  <1> QED BY <1>6, <1>8, Zenon DEF d

\* The acks the peer reads are those of the list, at the same positions, followed by
\* FALSE: whatever SelectiveAck collected, no packet is taken for received that was
\* not.  Up to MAX_SELECTIVE_ACK_COUNT positions the length fits in its byte.
THEOREM SelectiveAckRoundTrip ==
  \A acked \in Seq(BOOLEAN) : acked # << >> =>
    LET s == NewSelectiveAck(acked)
    IN  /\ DecodeSelectiveAck(EncodeAck(s)) = s
        /\ \A k \in 1..(WordBits * Len(s)) : Acked(s)[k] = (k <= Len(acked) /\ acked[k])
        /\ Len(acked) <= 32 * 63 => Len(EncodeAck(s)) <= 255
  <1> SUFFICES ASSUME NEW acked \in Seq(BOOLEAN), acked # << >>
               PROVE  LET s == NewSelectiveAck(acked)
                      IN  /\ DecodeSelectiveAck(EncodeAck(s)) = s
                          /\ \A k \in 1..(WordBits * Len(s)) :
                               Acked(s)[k] = (k <= Len(acked) /\ acked[k])
                          /\ Len(acked) <= 32 * 63 => Len(EncodeAck(s)) <= 255
    OBVIOUS
  <1> DEFINE s == NewSelectiveAck(acked)
             n == WordCount(Len(acked))
  <1>1. Len(acked) \in Nat \ {0} BY LenProperties, EmptySeq
  <1>2. n \in Nat \ {0} BY SMT, <1>1 DEF WordCount, WordBits
  <1>3. s \in [1..n -> Words] /\ Len(s) = n BY AckWords
  <1>4. DecodeSelectiveAck(EncodeAck(s)) = s BY <1>2, <1>3, WordsRoundTrip
  <1>5. ASSUME NEW k \in 1..(WordBits * n)
        PROVE  Acked(s)[k] = (k <= Len(acked) /\ acked[k])
    <2> DEFINE w == (k - 1) \div WordBits + 1
               i == ((k - 1) % WordBits) + 1
    <2>1. w \in 1..n /\ i \in 1..WordBits /\ WordBits * (w - 1) + i = k
      BY SMT, <1>2 DEF WordBits
    <2>2. Acked(s)[k] = s[w][i] BY <1>3 DEF Acked
    <2> HIDE DEF w, i
    <2>3. s[w][i] = (k <= Len(acked) /\ acked[k] = TRUE)
      BY <2>1 DEF NewSelectiveAck, WordCount
    <2>4. k <= Len(acked) => acked[k] \in BOOLEAN
      BY SMT, <1>1, <1>2, ElementOfSeq DEF WordBits
    <2> QED BY <2>2, <2>3, <2>4
  <1>6. ASSUME Len(acked) <= 32 * 63 PROVE Len(EncodeAck(s)) <= 255
    <2>1. n <= 63 BY SMT, <1>1, <1>6 DEF WordCount, WordBits
    <2> HIDE DEF n, s
    <2>2. 4 * n \in Nat /\ 4 * n <= 255 BY SMT, <2>1, <1>2
    <2>3. Len(EncodeAck(s)) = 4 * n BY SMT, <1>3, <2>2 DEF EncodeAck
    <2> QED BY SMT, <2>2, <2>3
  <1> QED BY <1>3, <1>4, <1>5, <1>6

-----------------------------------------------------------------------------
(* The packet.                                                             *)

\* One turn of DecodeRawExtensions: what it makes of the extension of type ext at
\* index, when w is what it makes of the ones after.
Turn(w, data, index, ext) ==
  LET end  == index + 2 + data[index + 2]
      rest == w[end][data[index + 1]]
  IN  IF ext = 0 THEN [extensions |-> << >>, len |-> index]
      ELSE IF Len(data) - index < 2 THEN Nil
      ELSE IF Len(data) < end \/ rest = Nil THEN Nil
      ELSE [rest EXCEPT !.extensions =
              <<[extension |-> ext, payload |-> SubSeq(data, index + 3, end)]>> \o @]

\* w is what it makes of the extensions from n on.
Walks(w, data, n) ==
  w = [index \in n..Len(data) |-> [ext \in Octets |-> Turn(w, data, index, ext)]]

\* The loop ends: every extension takes two bytes at least.
LEMMA WalkExists == ASSUME NEW data \in Seq(Octets) PROVE \E w : Walks(w, data, 0)
  <1> DEFINE T == {n \in Nat : n <= Len(data) + 1 /\ \E w : Walks(w, data, n)}
  <1>1. Len(data) \in Nat BY LenProperties
  <1>2. Len(data) + 1 \in T
    <2> DEFINE w == [index \in {} |-> [ext \in Octets |-> 0]]
    <2>1. (Len(data) + 1)..Len(data) = {} BY <1>1
    <2>2. Walks(w, data, Len(data) + 1) BY <2>1 DEF Walks
    <2> QED BY <1>1, <2>2
  <1>3. PICK n \in T : \A k \in T : n <= k
    <2>1. T \subseteq Nat /\ T # {} BY <1>2
    <2> HIDE DEF T
    <2> QED BY <2>1, LeastElement, Zenon
  <1>4. CASE n = 0 BY <1>3, <1>4
  <1>5. CASE n # 0
    <2> DEFINE m == n - 1
    <2>1. n \in Nat /\ m \in Nat /\ m <= Len(data) /\ n = m + 1 BY <1>1, <1>3, <1>5
    <2> HIDE DEF m
    <2>2. PICK w : Walks(w, data, n) BY <1>3
    <2> DEFINE v == [index \in m..Len(data) |-> [ext \in Octets |-> Turn(w, data, index, ext)]]
    <2>3. \A index \in n..Len(data) : v[index] = w[index]
      <3>1. \A index \in n..Len(data) : index \in m..Len(data) BY <1>1, <2>1
      <3>2. \A index \in n..Len(data) : w[index] = [ext \in Octets |-> Turn(w, data, index, ext)]
        BY <2>2, Zenon DEF Walks
      <3> QED BY <3>1, <3>2, Zenon
    <2> HIDE DEF v
    <2>4. ASSUME NEW index \in m..Len(data), NEW ext \in Octets
          PROVE  Turn(v, data, index, ext) = Turn(w, data, index, ext)
      <3> DEFINE end == index + 2 + data[index + 2]
      <3>1. CASE ext = 0 BY <3>1, Zenon DEF Turn
      <3>2. CASE Len(data) - index < 2 BY <3>2, Zenon DEF Turn
      <3>3. CASE ~(Len(data) - index < 2) /\ Len(data) < end BY <3>3, Zenon DEF Turn
      <3>4. CASE ~(Len(data) - index < 2) /\ ~(Len(data) < end)
        <4>1. index \in Nat /\ index + 2 \in 1..Len(data) BY <1>1, <2>1, <3>4
        <4>2. data[index + 2] \in Octets BY <4>1, ElementOfSeq
        <4>3. end \in n..Len(data)
          <5> DEFINE long == data[index + 2]
          <5>1. end = index + 2 + long OBVIOUS
          <5>2. ~(Len(data) < end) BY <3>4
          <5>3. long \in Octets BY <4>2
          <5> HIDE DEF long, end
          <5>4. long \in Nat BY <5>3 DEF Octets
          <5> QED BY <1>1, <2>1, <4>1, <5>1, <5>2, <5>4
        <4>4. v[end] = w[end] BY <2>3, <4>3
        <4> QED BY <4>4, Zenon DEF Turn
      <3> QED BY <3>1, <3>2, <3>3, <3>4
    <2>5. v = [index \in m..Len(data) |-> [ext \in Octets |-> Turn(v, data, index, ext)]]
      BY <2>4 DEF v
    <2>6. m \in T BY <1>1, <2>1, <2>5 DEF Walks
    <2> QED BY <1>3, <2>1, <2>6
  <1> QED BY <1>4, <1>5

\* DecodeRawExtensions is such a walk.
LEMMA RawExtensionsWalk ==
  ASSUME NEW data \in Seq(Octets)
  PROVE  \E w : Walks(w, data, 0) /\ \A ext : DecodeRawExtensions(ext, data) = w[0][ext]
  <1> DEFINE w == CHOOSE f : Walks(f, data, 0)
  <1>1. Walks(w, data, 0) BY WalkExists, Zenon
  <1>2. \A ext : DecodeRawExtensions(ext, data) = w[0][ext]
    BY Zenon DEF DecodeRawExtensions, Walks, Turn
  <1> QED BY <1>1, <1>2

\* A byte of the encoded acks is a byte.
LEMMA ByteType ==
  ASSUME NEW word \in Words, NEW i \in {0, 8, 16, 24} PROVE ByteVal(word, i) \in Octets
  <1> DEFINE D(k) == IF word[i + k] THEN 1 ELSE 0
  <1>1. ByteVal(word, i) = ByteSum(D(1), D(2), D(3), D(4), D(5), D(6), D(7), D(8))
    BY SMT DEF ByteVal, Bit, Weight, ByteSum
  <1>2. \A k \in 1..8 : D(k) \in 0..1 OBVIOUS
  <1> HIDE DEF D
  <1> QED BY SMT, <1>1, <1>2 DEF ByteSum, Octets

\* The acks of so many words.
LEMMA EncodedAck ==
  ASSUME NEW s \in Seq(Words)
  PROVE  EncodeAck(s) \in Seq(Octets) /\ Len(EncodeAck(s)) = 4 * Len(s)
  <1> DEFINE n == Len(s)
  <1>1. n \in Nat BY LenProperties
  <1>2. ASSUME NEW k \in 1..(4 * n)
        PROVE  ByteVal(s[(k - 1) \div 4 + 1], 8 * ((k - 1) % 4)) \in Octets
    <2> DEFINE w == (k - 1) \div 4 + 1
               o == (k - 1) % 4
    <2>1. w \in 1..n /\ o \in 0..3 BY SMT, <1>1
    <2> HIDE DEF w, o
    <2>2. s[w] \in Words /\ 8 * o \in {0, 8, 16, 24} BY SMT, <2>1, ElementOfSeq
    <2> QED BY <2>2, ByteType DEF w, o
  <1>3. 4 * n \in Nat BY SMT, <1>1
  <1>4. EncodeAck(s) \in [1..(4 * n) -> Octets] BY <1>2, Zenon DEF EncodeAck
  <1> HIDE DEF n
  <1> QED BY <1>3, <1>4, IsASeq, LenProperties DEF n

\* A header is 20 bytes.
LEMMA HeaderType == ASSUME NEW h \in Headers PROVE EncodeToBytes(h) \in Seq(Octets)
  <1>1. \A n \in Nat : AppendUint16(n) \in Seq(Octets) BY Shift, Shifts DEF AppendUint16
  <1>2. \A n \in Nat : AppendUint32(n) \in Seq(Octets)
    BY SMT DEF AppendUint32, Octets
  <1>3. <<encodeTypeVer(h), h.Extension>> \in Seq(Octets)
    <2>1. h.PacketType \in PacketTypes /\ h.Version \in 0..15 /\ h.Extension \in Octets
      BY DEF Headers
    <2>2. encodeTypeVer(h) \in Octets BY SMT, <2>1 DEF encodeTypeVer, PacketTypes, Octets
    <2> QED BY <2>1, <2>2
  <1>4. /\ h.ConnectionId \in Nat /\ h.Timestamp \in Nat /\ h.TimestampDiff \in Nat
        /\ h.WndSize \in Nat /\ h.SeqNum \in Nat /\ h.AckNum \in Nat
    BY SMTT(30) DEF Headers, Uint16s, Uint32s
  <1> QED BY <1>1, <1>2, <1>3, <1>4, ConcatProperties, Zenon DEF EncodeToBytes

\* The packets, and what says that the header announces the acks.  The length of the
\* acks must fit in a byte.
Packets ==
  [Header : Headers, Body : Seq(Octets),
   Eack : {Nil} \cup {s \in Seq(Words) : Len(s) \in 1..63}]
Announced(p) == p.Header.Extension = IF p.Eack = Nil THEN 0 ELSE 1
Raw ==
  [extensions : Seq([extension : Octets, payload : Seq(Octets)]), len : Nat]
\* A nil pointer is not a value.
NilIsNone == Nil \notin Headers /\ Nil \notin Seq(Words) /\ Nil \notin Raw

\* The extension of a packet is empty, or two bytes and the acks.
LEMMA ExtensionBytes ==
  ASSUME NEW p \in Packets
  PROVE  /\ Extension(p.Eack) \in Seq(Octets)
         /\ p.Eack = Nil => Extension(p.Eack) = << >>
         /\ p.Eack # Nil =>
              LET enc == EncodeAck(p.Eack)
                  n   == Len(enc)
              IN  /\ n \in 4..252 /\ n = AckEncodedLen(p.Eack) /\ enc \in Seq(Octets)
                  /\ Extension(p.Eack) = <<0, n>> \o enc /\ Len(Extension(p.Eack)) = 2 + n
  <1> DEFINE s == p.Eack
             enc == EncodeAck(s)
             n == Len(enc)
  <1>1. CASE s = Nil BY <1>1 DEF Extension
  <1>2. CASE s # Nil
    <2>1. s \in Seq(Words) /\ Len(s) \in 1..63 BY <1>2 DEF Packets
    <2>2. enc \in Seq(Octets) /\ n = 4 * Len(s) BY <2>1, EncodedAck
    <2>3. Extension(s) = <<0, n % 256>> \o enc BY <1>2, Zenon DEF Extension
    <2>4. AckEncodedLen(s) = (Len(s) * 32) \div 8 BY DEF AckEncodedLen, WordBits
    <2> HIDE DEF s, enc, n
    <2>5. n \in 4..252 /\ n % 256 = n /\ n = (Len(s) * 32) \div 8
      <3> DEFINE k == Len(s)
      <3>1. k \in 1..63 /\ n = 4 * k BY <2>1, <2>2
      <3> HIDE DEF k
      <3>2. n \in 4..252 BY <3>1
      <3>3. n % 256 = n BY SMT, <3>2
      <3>4. n = (k * 32) \div 8 BY SMT, <3>1
      <3> QED BY <3>2, <3>3, <3>4 DEF k
    <2>6. <<0, n>> \o enc \in Seq(Octets) /\ Len(<<0, n>> \o enc) = 2 + n
      <3> DEFINE e == <<0, n>>
      <3>1. e \in Seq(Octets) /\ Len(e) = 2 BY <2>5 DEF Octets
      <3> HIDE DEF e
      <3>2. e \o enc \in Seq(Octets) /\ Len(e \o enc) = Len(e) + Len(enc)
        BY <2>2, <3>1, ConcatProperties, Zenon
      <3> QED BY <3>1, <3>2, Zenon DEF e, n
    <2> QED BY <1>2, <2>2, <2>3, <2>4, <2>5, <2>6, Zenon DEF s, enc, n
  <1> QED BY <1>1, <1>2, Zenon

Parts(S, h, e, y, b) ==
  h \in Seq(S) /\ e \in Seq(S) /\ y \in Seq(S) /\ b = (h \o e) \o y

\* Three pieces one after the other.
LEMMA ThreeParts ==
  ASSUME NEW S, NEW h, NEW e, NEW y, NEW b, Parts(S, h, e, y, b)
  PROVE  /\ b \in Seq(S) /\ Len(b) = Len(h) + Len(e) + Len(y)
         /\ e \o y \in Seq(S)
         /\ From(b, Len(h)) = e \o y /\ From(b, Len(h) + Len(e)) = y
         /\ \A i \in 1..Len(h) : b[i] = h[i]
         /\ SubSeq(b, Len(h) + 1, Len(h) + Len(e)) = e
  <1> USE DEF Parts
  <1> DEFINE g == h \o e
             d == e \o y
  <1>1. Len(h) \in Nat /\ Len(e) \in Nat /\ Len(y) \in Nat BY LenProperties
  <1>2. g \in Seq(S) /\ Len(g) = Len(h) + Len(e) /\ d \in Seq(S) BY ConcatProperties
  <1>3. b = h \o d /\ b = g \o y BY ConcatAssoc
  <1> HIDE DEF g, d
  <1>4. From(b, Len(h)) = d BY <1>2, <1>3, FromAll, Zenon
  <1>5. From(b, Len(g)) = y BY <1>2, <1>3, FromAll, Zenon
  <1>6. b \in Seq(S) /\ Len(b) = Len(g) + Len(y) BY <1>2, <1>3, ConcatProperties, Zenon
  <1>7. \A i \in 1..Len(h) : b[i] = h[i]
    <2>1. Len(d) \in Nat BY <1>2, LenProperties
    <2>2. \A i \in 1..(Len(h) + Len(d)) :
            (h \o d)[i] = IF i <= Len(h) THEN h[i] ELSE d[i - Len(h)]
      BY <1>2, ConcatProperties
    <2> DEFINE n == Len(h)
               m == Len(d)
    <2>3. \A i \in 1..n : i \in 1..(n + m) /\ i <= n
      <3>1. n \in Nat /\ m \in Nat BY <1>1, <2>1
      <3> HIDE DEF n, m
      <3> QED BY <3>1
    <2> QED BY <1>3, <2>2, <2>3, Zenon
  <1>8. SubSeq(b, Len(h) + 1, Len(h) + Len(e)) = e
    <2> DEFINE n == Len(h)
               k == Len(e)
               f == From(b, n)
    <2>1. \A i \in 1..k : d[i] = e[i]
      <3>1. \A i \in 1..(k + Len(y)) :
              (e \o y)[i] = IF i <= k THEN e[i] ELSE y[i - k]
        BY ConcatProperties
      <3> DEFINE m == Len(y)
      <3>2. \A i \in 1..k : i \in 1..(k + m) /\ i <= k
        <4>1. k \in Nat /\ m \in Nat BY <1>1
        <4> HIDE DEF k, m
        <4> QED BY <4>1
      <3> QED BY <3>1, <3>2, Zenon DEF d
    <2>2. n \in 0..Len(b) /\ n + k <= Len(b) /\ Len(b) \in Nat
      BY <1>1, <1>2, <1>6, LenProperties
    <2>3. \A i \in 1..(Len(b) - n) : f[i] = b[n + i] BY <1>6, <2>2, FromProperties, Zenon
    <2>4. \A i \in 1..k : b[n + i] = e[i]
      <3>1. \A i \in 1..k : i \in 1..(Len(b) - n) BY <1>1, <2>2
      <3> QED BY <1>4, <2>1, <2>3, <3>1, Zenon
    <2>5. e = [i \in 1..k |-> e[i]] BY LenProperties
    <2>6. SubSeq(b, n + 1, n + k) = [i \in 1..k |-> b[n + i]]
      <3>1. n \in Nat /\ k \in Nat BY <1>1
      <3> HIDE DEF n, k
      <3> QED BY <1>6, <2>2, <3>1
    <2> QED BY <2>4, <2>5, <2>6
  <1> QED BY <1>1, <1>2, <1>4, <1>5, <1>6, <1>7, <1>8 DEF d

\* A packet as header, extension and body, and its header alone.
LEMMA EncodedPacket ==
  ASSUME NEW p \in Packets, NilIsNone
  PROVE  LET b == Encode(p)
             e == Extension(p.Eack)
         IN  /\ b \in Seq(Octets)
             /\ Len(b) = HeaderSize + Len(e) + Len(p.Body)
             /\ From(b, HeaderSize) = e \o p.Body
             /\ From(b, HeaderSize + Len(e)) = p.Body
             /\ DecodePacketHeader(b) = p.Header
             /\ e \o p.Body \in Seq(Octets)
  <1> DEFINE h == EncodeToBytes(p.Header)
             e == Extension(p.Eack)
             y == p.Body
             b == Encode(p)
  <1>1. p.Header \in Headers /\ y \in Seq(Octets) BY DEF Packets
  <1>2. h \in Seq(Octets) /\ e \in Seq(Octets) BY <1>1, HeaderType, ExtensionBytes, Zenon
  <1>3. Len(h) = 20 BY <1>1, HeaderBytes
  <1>4. b = (h \o e) \o y BY DEF Encode
  <1> HIDE DEF h, e, y, b
  <1>5. Len(e) \in Nat /\ Len(y) \in Nat BY <1>1, <1>2, LenProperties
  <1>6. /\ b \in Seq(Octets) /\ Len(b) = Len(h) + Len(e) + Len(y) /\ e \o y \in Seq(Octets)
        /\ From(b, Len(h)) = e \o y /\ From(b, Len(h) + Len(e)) = y
        /\ \A i \in 1..Len(h) : b[i] = h[i]
    <2>1. Parts(Octets, h, e, y, b) BY <1>1, <1>2, <1>4 DEF Parts
    <2> QED BY <2>1, ThreeParts
  <1>7. DecodePacketHeader(b) = p.Header
    <2>1. DecodePacketHeader(h) = p.Header BY <1>1, HeaderRoundTrip DEF h
    <2>2. ~(Len(h) < 20) /\ ~(Len(b) < 20) BY <1>3, <1>5, <1>6
    <2>3. /\ b[1] = h[1] /\ b[2] = h[2] /\ b[3] = h[3] /\ b[4] = h[4] /\ b[5] = h[5]
          /\ b[6] = h[6] /\ b[7] = h[7] /\ b[8] = h[8] /\ b[9] = h[9] /\ b[10] = h[10]
      BY <1>3, <1>6
    <2>4. /\ b[11] = h[11] /\ b[12] = h[12] /\ b[13] = h[13] /\ b[14] = h[14] /\ b[15] = h[15]
          /\ b[16] = h[16] /\ b[17] = h[17] /\ b[18] = h[18] /\ b[19] = h[19] /\ b[20] = h[20]
      BY <1>3, <1>6
    <2>5. /\ Uint16(b, 3) = Uint16(h, 3) /\ Uint16(b, 17) = Uint16(h, 17)
          /\ Uint16(b, 19) = Uint16(h, 19) /\ Uint32(b, 5) = Uint32(h, 5)
          /\ Uint32(b, 9) = Uint32(h, 9) /\ Uint32(b, 13) = Uint32(h, 13)
      BY <2>3, <2>4 DEF Uint16, Uint32
    <2>6. DecodePacketHeader(b) = DecodePacketHeader(h)
      BY <2>2, <2>3, <2>5, Zenon DEF DecodePacketHeader, HeaderSize
    <2> QED BY <2>1, <2>6
  <1> QED BY <1>3, <1>6, <1>7, Zenon DEF b, e, y, HeaderSize

\* What DecodeRawExtensions returns for no extension, and for one of acks.
NoExtension == [extensions |-> << >>, len |-> 0]
OneExtension(enc) ==
  [extensions |-> <<[extension |-> 1, payload |-> enc]>>, len |-> 2 + Len(enc)]

Lead(e, enc) == Len(enc) \in 4..252 /\ Len(e) = 2 /\ e[1] = 0 /\ e[2] = Len(enc)
AckAt(e, enc, y, data) == Lead(e, enc) /\ Parts(Octets, e, enc, y, data)

\* Where the bytes of the acks lie in what follows the header.
LEMMA AckLayout ==
  ASSUME NEW e, NEW enc, NEW y, NEW data, AckAt(e, enc, y, data)
  PROVE  LET n == Len(enc)
         IN  /\ 2 + n \in 0..Len(data) /\ ~(Len(data) - 0 < 2) /\ ~(Len(data) < 2 + n)
             /\ data[1] = 0 /\ data[2] = n /\ SubSeq(data, 3, 2 + n) = enc
  <1> DEFINE n == Len(enc)
  <1>1. Parts(Octets, e, enc, y, data) BY Zenon DEF AckAt
  <1>2. n \in 4..252 /\ Len(e) = 2 /\ e[1] = 0 /\ e[2] = n BY Zenon DEF AckAt, Lead
  <1>3. 2 + 1 = 3 /\ n \in Nat
    <2>1. n \in 4..252 BY <1>2, Zenon
    <2> HIDE DEF n
    <2> QED BY <2>1, SMTT(30)
  <1>5. /\ Len(data) = Len(e) + Len(enc) + Len(y)
        /\ \A i \in 1..Len(e) : data[i] = e[i]
        /\ SubSeq(data, Len(e) + 1, Len(e) + Len(enc)) = enc
    BY <1>1, ThreeParts
  <1>6. Len(y) \in Nat BY <1>1, LenProperties, Zenon DEF Parts
  <1>7. Len(data) = 2 + n + Len(y) BY <1>2, <1>5, Zenon
  <1>8. data[1] = 0 /\ data[2] = n
    <2>1. 1 \in 1..Len(e) /\ 2 \in 1..Len(e) BY <1>2
    <2> QED BY <1>2, <1>5, <2>1, ZenonT(30)
  <1>9. SubSeq(data, 3, 2 + n) = enc
    <2>1. SubSeq(data, 2 + 1, 2 + n) = enc BY <1>2, <1>5, Zenon
    <2> QED BY <1>3, <2>1, Zenon
  <1>10. 2 + n \in 0..Len(data) /\ ~(Len(data) - 0 < 2) /\ ~(Len(data) < 2 + n)
    <2> DEFINE l == Len(data)
               k == Len(y)
    <2>1. l = 2 + n + k /\ k \in Nat BY <1>6, <1>7
    <2> HIDE DEF l, k, n
    <2>2. 2 + n \in 0..l /\ ~(l - 0 < 2) /\ ~(l < 2 + n) BY <1>2, <2>1
    <2> QED BY <2>2 DEF l
  <1> QED BY <1>8, <1>9, <1>10

\* With type 0 it looks at no byte; with type 1 it finds the acks of the packet, ends
\* there, and takes none of the body for an extension.
LEMMA DecodedExtensions ==
  ASSUME NEW p \in Packets, NilIsNone
  PROVE  LET data == Extension(p.Eack) \o p.Body
         IN  /\ DecodeRawExtensions(0, data) = NoExtension
             /\ p.Eack # Nil =>
                  DecodeRawExtensions(1, data) = OneExtension(EncodeAck(p.Eack))
  <1> DEFINE x == Extension(p.Eack)
             data == x \o p.Body
             enc == EncodeAck(p.Eack)
             n == Len(enc)
  <1>1. data \in Seq(Octets) BY EncodedPacket, Zenon
  <1>2. 0 \in 0..Len(data) /\ 0 \in Octets /\ 1 \in Octets
    <2>1. Len(data) \in Nat BY <1>1, LenProperties, Zenon
    <2> HIDE DEF data
    <2> QED BY <2>1 DEF Octets
  <1>3. PICK w : /\ Walks(w, data, 0)
                 /\ \A ext : DecodeRawExtensions(ext, data) = w[0][ext]
    BY <1>1, RawExtensionsWalk, Zenon
  <1>4. \A index \in 0..Len(data) : \A ext \in Octets : w[index][ext] = Turn(w, data, index, ext)
    BY <1>3, Zenon DEF Walks
  <1>5. \A index \in 0..Len(data) : w[index][0] = [extensions |-> << >>, len |-> index]
    BY <1>2, <1>4, Zenon DEF Turn
  <1>6. DecodeRawExtensions(0, data) = NoExtension BY <1>2, <1>3, <1>5, Zenon DEF NoExtension
  <1>7. ASSUME p.Eack # Nil PROVE DecodeRawExtensions(1, data) = OneExtension(enc)
    <2> DEFINE ack == [extension |-> 1, payload |-> enc]
    <2>1. n \in 4..252 /\ enc \in Seq(Octets) /\ x = <<0, n>> \o enc BY <1>7, ExtensionBytes
    <2>2. p.Body \in Seq(Octets) BY SMTT(30) DEF Packets
    <2> DEFINE e == <<0, n>>
    <2>3. data = (e \o enc) \o p.Body /\ n = Len(enc) BY <2>1, Zenon
    <2>5. Len(e) = 2 /\ e[1] = 0 /\ e[2] = n OBVIOUS
    <2> HIDE DEF x, data, n, enc
    <2>6. e \in Seq(Octets)
      <3>1. 0 \in Octets /\ n \in Octets BY <2>1, SMTT(30) DEF Octets
      <3> QED BY <3>1
    <2> HIDE DEF e
    <2>7. Parts(Octets, e, enc, p.Body, data) BY <2>1, <2>2, <2>3, <2>6, ZenonT(30) DEF Parts
    <2>8. AckAt(e, enc, p.Body, data) BY <2>1, <2>3, <2>5, <2>7, Zenon DEF AckAt, Lead
    <2>4. /\ 2 + n \in 0..Len(data) /\ ~(Len(data) - 0 < 2) /\ ~(Len(data) < 2 + n)
          /\ data[1] = 0 /\ data[2] = n /\ SubSeq(data, 3, 2 + n) = enc
      <3>1. LET k == Len(enc)
            IN  /\ 2 + k \in 0..Len(data) /\ ~(Len(data) - 0 < 2) /\ ~(Len(data) < 2 + k)
                /\ data[1] = 0 /\ data[2] = k /\ SubSeq(data, 3, 2 + k) = enc
        BY <2>8, AckLayout, Zenon
      <3>2. n = Len(enc) BY <2>3, Zenon
      <3> QED BY <3>1, <3>2, Zenon
    <2> DEFINE rest == w[2 + n][0]
    <2>9. rest = [extensions |-> << >>, len |-> 2 + n] BY <1>5, <2>4
    <2>10. rest # Nil
      <3>1. 2 + n \in Nat BY <2>1
      <3>2. rest \in Raw BY <2>9, <3>1 DEF Raw
      <3> QED BY <3>2 DEF NilIsNone
    <2>11. Turn(w, data, 0, 1) = [rest EXCEPT !.extensions = <<ack>> \o @]
      <3>1. 0 + 2 = 2 /\ 0 + 1 = 1 /\ 0 + 3 = 3 /\ 0 + 2 + n = 2 + n BY <2>1
      <3> HIDE DEF rest
      <3>3. /\ data[0 + 1] = 0 /\ 0 + 2 + data[0 + 2] = 2 + n
            /\ SubSeq(data, 0 + 3, 2 + n) = enc
        BY <2>4, <3>1
      <3>4. w[0 + 2 + data[0 + 2]][data[0 + 1]] = rest BY <3>3, Zenon DEF rest
      <3>5. 1 # 0 OBVIOUS
      <3> QED BY <2>4, <2>10, <3>3, <3>4, <3>5, Zenon DEF Turn
    <2>12. [rest EXCEPT !.extensions = <<ack>> \o @] = OneExtension(enc)
      <3>1. <<ack>> \o << >> = <<ack>> BY SMT
      <3> QED BY <2>9, <3>1 DEF OneExtension, n
    <2>13. DecodeRawExtensions(1, data) = Turn(w, data, 0, 1) BY <1>2, <1>3, <1>4, Zenon
    <2> QED BY <2>11, <2>12, <2>13, ZenonT(30)
  <1> QED BY <1>6, <1>7

\* The acks among the extensions.
LEMMA AckOfExtensions ==
  ASSUME NEW enc
  PROVE  /\ AckPayload(NoExtension.extensions) = << >>
         /\ AckPayload(OneExtension(enc).extensions) = enc
  <1>1. AckPayload(<< >>) = << >> BY DEF AckPayload
  <1> DEFINE e == <<[extension |-> 1, payload |-> enc]>>
  <1>2. {i \in DOMAIN e : e[i].extension = 1} = {1} OBVIOUS
  <1>3. (CHOOSE i \in {1} : \A j \in {1} : j <= i) = 1 OBVIOUS
  <1>4. AckPayload(e) = enc BY <1>2, <1>3 DEF AckPayload
  <1> QED BY <1>1, <1>4 DEF NoExtension, OneExtension

\* DecodePacket of the bytes of a packet, step by step.
LEMMA DecodeSteps ==
  ASSUME NEW p \in Packets, NilIsNone, NEW raw, raw \in Raw,
         raw = DecodeRawExtensions(p.Header.Extension, Extension(p.Eack) \o p.Body),
         NEW bits, bits = AckPayload(raw.extensions),
         NEW ack, ack = IF bits = << >> THEN Nil ELSE DecodeSelectiveAck(bits),
         bits # << >> => ack # Nil,
         NEW payload, payload = From(Encode(p), HeaderSize + raw.len),
         p.Header.PacketType = 0 => payload # << >>
  PROVE  DecodePacket(Encode(p)) = [Header |-> p.Header, Body |-> payload, Eack |-> ack]
  <1> DEFINE b == Encode(p)
             header == p.Header
  <1>1. header # Nil BY DEF Packets, NilIsNone
  <1>2. DecodePacketHeader(b) = header BY EncodedPacket, Zenon
  <1>3. SubSeq(b, HeaderSize + 1, Len(b)) = Extension(p.Eack) \o p.Body
    BY EncodedPacket, Zenon DEF From
  <1>4. raw # Nil BY DEF NilIsNone
  <1>5. SubSeq(b, HeaderSize + raw.len + 1, Len(b)) = payload
    <2>1. raw.len \in Nat BY DEF Raw
    <2>2. HeaderSize + raw.len + 1 = (HeaderSize + raw.len) + 1 BY <2>1 DEF HeaderSize
    <2> QED BY <2>2 DEF From
  <1>6. DecodeRawExtensions(header.Extension, SubSeq(b, HeaderSize + 1, Len(b))) = raw
    BY <1>3, Zenon
  <1> HIDE DEF b, header
  <1>7. ~(header.PacketType = 0 /\ payload = << >>) BY DEF header
  <1>8. ~(bits # << >> /\ DecodeSelectiveAck(bits) = Nil) OBVIOUS
  <1> QED BY <1>1, <1>2, <1>4, <1>5, <1>6, <1>7, <1>8, Zenon DEF DecodePacket, b, header

\* What the two answers of DecodeRawExtensions are.
LEMMA RawAnswers ==
  ASSUME NEW enc \in Seq(Octets) PROVE NoExtension \in Raw /\ OneExtension(enc) \in Raw
  <1> DEFINE X == [extension : Octets, payload : Seq(Octets)]
             x == [extension |-> 1, payload |-> enc]
  <1>1. x \in X BY DEF Octets
  <1>2. Len(enc) \in Nat BY LenProperties
  <1> HIDE DEF X, x
  <1>3. <<x>> \in Seq(X) /\ << >> \in Seq(X) BY <1>1
  <1>4. 2 + Len(enc) \in Nat BY <1>2
  <1> QED BY <1>3, <1>4 DEF NoExtension, OneExtension, Raw, X, x

\* What DecodePacket reads of the bytes Encode has written is the packet, for every
\* header, every selective ack of up to 63 words and every body, when the header says
\* what follows it and a data packet has a body; and Encode writes EncodedLen bytes.
THEOREM PacketRoundTrip ==
  ASSUME NilIsNone
  PROVE  \A p \in Packets :
           /\ Len(Encode(p)) = EncodedLen(p)
           /\ Announced(p) /\ (p.Header.PacketType = 0 => p.Body # << >>) =>
                DecodePacket(Encode(p)) = p
  <1> SUFFICES ASSUME NEW p \in Packets
               PROVE  /\ Len(Encode(p)) = EncodedLen(p)
                      /\ Announced(p) /\ (p.Header.PacketType = 0 => p.Body # << >>) =>
                           DecodePacket(Encode(p)) = p
    OBVIOUS
  <1> DEFINE s == p.Eack
             x == Extension(s)
             enc == EncodeAck(s)
  <1>1. /\ Len(Encode(p)) = HeaderSize + Len(x) + Len(p.Body)
        /\ From(Encode(p), HeaderSize + Len(x)) = p.Body
    BY EncodedPacket, Zenon
  <1>2. p = [Header |-> p.Header, Body |-> p.Body, Eack |-> p.Eack] BY DEF Packets
  <1>3. CASE s = Nil
    <2>1. Len(x) = 0
      <3>1. x = << >> BY <1>3, ExtensionBytes, Zenon
      <3> HIDE DEF x
      <3> QED BY <3>1
    <2>2. Len(Encode(p)) = EncodedLen(p) BY <1>1, <1>3, <2>1 DEF EncodedLen
    <2>3. ASSUME Announced(p), p.Header.PacketType = 0 => p.Body # << >>
          PROVE  DecodePacket(Encode(p)) = p
      <3>1. p.Header.Extension = 0 BY <1>3, <2>3 DEF Announced
      <3>2. DecodeRawExtensions(p.Header.Extension, x \o p.Body) = NoExtension
        BY <3>1, DecodedExtensions
      <3>3. NoExtension \in Raw /\ NoExtension.len = 0 /\ << >> = AckPayload(NoExtension.extensions)
        <4>1. << >> \in Seq(Octets) OBVIOUS
        <4> QED BY <4>1, RawAnswers, AckOfExtensions, Zenon DEF NoExtension
      <3>4. p.Body = From(Encode(p), HeaderSize + NoExtension.len) BY <1>1, <2>1, <3>3
      <3>5. Nil = IF << >> = << >> THEN Nil ELSE DecodeSelectiveAck(<< >>) OBVIOUS
      <3> HIDE DEF x, s
      <3>6. DecodePacket(Encode(p)) = [Header |-> p.Header, Body |-> p.Body, Eack |-> Nil]
        BY <2>3, <3>2, <3>3, <3>4, <3>5, DecodeSteps DEF x, s
      <3> QED BY <1>2, <1>3, <3>6 DEF s
    <2> QED BY <2>2, <2>3
  <1>4. CASE s # Nil
    <2> DEFINE n == Len(enc)
               raw == OneExtension(enc)
    <2>1. n \in 4..252 /\ n = AckEncodedLen(s) /\ enc \in Seq(Octets)
      BY <1>4, ExtensionBytes, Zenon
    <2>2. Len(x) = 2 + n BY <1>4, ExtensionBytes, Zenon
    <2>3. Len(Encode(p)) = EncodedLen(p)
      <3> HIDE DEF x, n
      <3> QED BY <1>1, <1>4, <2>1, <2>2 DEF EncodedLen
    <2>4. ASSUME Announced(p), p.Header.PacketType = 0 => p.Body # << >>
          PROVE  DecodePacket(Encode(p)) = p
      <3>1. p.Header.Extension = 1 BY <1>4, <2>4 DEF Announced
      <3>2. DecodeRawExtensions(p.Header.Extension, x \o p.Body) = raw
        BY <1>4, <3>1, DecodedExtensions
      <3>3. raw \in Raw /\ enc = AckPayload(raw.extensions)
        BY <2>1, RawAnswers, AckOfExtensions
      <3>4. raw.len = Len(x) BY <2>2 DEF OneExtension
      <3>5. p.Body = From(Encode(p), HeaderSize + raw.len) BY <1>1, <3>4
      <3>6. DecodeSelectiveAck(enc) = s
        <4>1. s \in {t \in Seq(Words) : Len(t) \in 1..63} BY <1>4 DEF Packets
        <4>2. s \in Seq(Words) /\ Len(s) \in Nat \ {0}
          <5> HIDE DEF s
          <5>1. s \in Seq(Words) /\ Len(s) \in 1..63 BY <4>1, Zenon
          <5> DEFINE k == Len(s)
          <5>2. k \in 1..63 BY <5>1
          <5> HIDE DEF k
          <5>3. k \in Nat \ {0} BY <5>2
          <5> QED BY <5>1, <5>3 DEF k
        <4> QED BY <4>2, LenProperties, WordsRoundTrip
      <3>7. enc # << >>
        <4> HIDE DEF enc
        <4>1. n \in 4..252 BY <2>1, Zenon
        <4>2. enc = << >> => n = 0 OBVIOUS
        <4> HIDE DEF n
        <4>3. n # 0 BY <4>1
        <4> QED BY <4>2, <4>3
      <3> HIDE DEF x, s, raw, enc
      <3>8. s = IF enc = << >> THEN Nil ELSE DecodeSelectiveAck(enc) BY <3>6, <3>7
      <3>9. DecodePacket(Encode(p)) = [Header |-> p.Header, Body |-> p.Body, Eack |-> s]
        BY <1>4, <2>4, <3>2, <3>3, <3>5, <3>8, DecodeSteps, SMTT(30) DEF x, s
      <3> QED BY <1>2, <3>9 DEF s
    <2> QED BY <2>3, <2>4
  <1> QED BY <1>3, <1>4

\* A packet whose header announces no extension while it carries acks, as
\* onTimeout makes it of a data packet sent before there was a gap to report (it sets
\* Eack and keeps the Extension of the first transmission): its peer finds no acks and
\* takes their bytes for the first ones of the body.
THEOREM UnannouncedAck ==
  ASSUME NilIsNone
  PROVE  \A p \in Packets : p.Header.Extension = 0 /\ p.Eack # Nil =>
           DecodePacket(Encode(p)) =
             [Header |-> p.Header, Body |-> Extension(p.Eack) \o p.Body, Eack |-> Nil]
  <1> SUFFICES ASSUME NEW p \in Packets, p.Header.Extension = 0, p.Eack # Nil
               PROVE  DecodePacket(Encode(p)) =
                        [Header |-> p.Header, Body |-> Extension(p.Eack) \o p.Body, Eack |-> Nil]
    BY Zenon
  <1> DEFINE x == Extension(p.Eack)
             enc == EncodeAck(p.Eack)
             y == x \o p.Body
  <1>1. DecodeRawExtensions(p.Header.Extension, x \o p.Body) = NoExtension
    BY DecodedExtensions
  <1>2. NoExtension \in Raw /\ NoExtension.len = 0 /\ << >> = AckPayload(NoExtension.extensions)
    <2>1. << >> \in Seq(Octets) OBVIOUS
    <2> QED BY <2>1, RawAnswers, AckOfExtensions, Zenon DEF NoExtension
  <1>3. y = From(Encode(p), HeaderSize + NoExtension.len)
    <2>1. HeaderSize + NoExtension.len = HeaderSize BY <1>2 DEF HeaderSize
    <2> QED BY <2>1, EncodedPacket, Zenon
  <1>4. y # << >>
    <2> DEFINE k == Len(enc)
               l == Len(p.Body)
    <2>1. k \in 4..252 /\ Len(x) = 2 + k /\ x \in Seq(Octets) BY ExtensionBytes, Zenon
    <2>2. p.Body \in Seq(Octets) BY DEF Packets
    <2> HIDE DEF x, enc
    <2>3. Len(y) = Len(x) + l /\ l \in Nat
      BY <2>1, <2>2, ConcatProperties, LenProperties, Zenon
    <2>4. Len(y) = (2 + k) + l BY <2>1, <2>3, Zenon
    <2> HIDE DEF y, k, l
    <2>5. (2 + k) + l # 0
      <3>1. k \in 4..252 /\ l \in Nat BY <2>1, <2>3, Zenon
      <3> QED BY <3>1
    <2>6. Len(y) # 0 BY <2>4, <2>5, Zenon
    <2> QED BY <2>6
  <1>5. Nil = IF << >> = << >> THEN Nil ELSE DecodeSelectiveAck(<< >>) OBVIOUS
  <1> HIDE DEF x, y
  <1>6. DecodePacket(Encode(p)) = [Header |-> p.Header, Body |-> y, Eack |-> Nil]
    BY <1>1, <1>2, <1>3, <1>4, <1>5, DecodeSteps DEF x
  <1> QED BY <1>6 DEF x, y
=============================================================================
