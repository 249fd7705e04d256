-------------------------- MODULE SentPacketsProofs --------------------------
(***************************************************************************)
(* Proofs, for every initial number, window, loss threshold and payload    *)
(* lengths, of what SentPacketsSpec promises, as long as fewer than one    *)
(* turn of the sequence numbers are in use: sentPackets and its controller *)
(* keep the same books, and acks, however late, say neither too much nor   *)
(* too little.                                                             *)
(***************************************************************************)
EXTENDS SentPacketsSpec, DataLemmas

-----------------------------------------------------------------------------
(* Numbers and places.                                                     *)

\* The number of place i.
Num(i) == Add(InitSeqNum, i)

\* Below one turn of the circle the remainder is one subtraction.
LEMMA SmallMod ==
  ASSUME NEW n \in Nat \ {0}, NEW a \in 0..(2 * n - 1)
  PROVE  a % n = IF a >= n THEN a - n ELSE a
OBVIOUS

\* SeqNumOf is the number of a place.
LEMMA NumberOfPlace ==
  ASSUME NEW s, s.initSeqNum = InitSeqNum, NEW i \in 0..(SeqSpace - 1)
  PROVE  SeqNumOf(s, i) = Num(i)
<1> DEFINE a == InitSeqNum + i
<1>1. a \in 0..(2 * SeqSpace - 1) /\ SeqSpace \in Nat \ {0}
  BY InitSeqNumAssumption, SeqSpaceAssumption DEF SeqNums
<1>2. a % SeqSpace = IF a >= SeqSpace THEN a - SeqSpace ELSE a
  <2> HIDE DEF a
  <2> QED
    BY <1>1, SmallMod
<1> QED
  <2>1. SeqNumOf(s, i) = a % SeqSpace
    BY DEF SeqNumOf
  <2>2. Num(i) = IF a >= SeqSpace THEN a - SeqSpace ELSE a
    BY InitSeqNumAssumption, SeqSpaceAssumption DEF Num, Add, SeqNums
  <2> HIDE DEF a
  <2> QED
    BY <1>2, <2>1, <2>2

\* SeqNumIndex finds the place of a number again.
LEMMA PlaceOfNumber ==
  ASSUME NEW s, s.initSeqNum = InitSeqNum, NEW i \in 1..(SeqSpace - 1)
  PROVE  Index(s, Num(i)) = i
BY InitSeqNumAssumption, SeqSpaceAssumption DEF SeqNums, Index, SeqNumIndex, Num, Add

\* The range test of onAck is a comparison of places.
LEMMA RangeOfPlaces ==
  ASSUME NEW s, s.initSeqNum = InitSeqNum, Len(s.packets) \in 0..(SeqSpace - 1),
         NEW k \in 0..(SeqSpace - 1)
  PROVE  SeqNumRangeContains(s, Num(k)) <=> k <= Len(s.packets)
<1>1. SeqNumOf(s, Len(s.packets)) = Num(Len(s.packets))
  BY NumberOfPlace
<1> DEFINE n == Len(s.packets)
<1> HIDE DEF n
<1>2. RangeContains(InitSeqNum, Num(n), Num(k)) <=> k <= n
  BY InitSeqNumAssumption, SeqSpaceAssumption DEF SeqNums, RangeContains, Num, Add, n
<1> QED
  BY <1>1, <1>2 DEF SeqNumRangeContains, n

\* The controller counts bytes in flight with the operators of this module.
LEMMA SameCount == \A tx, S : Ctrl!InFlight(tx, S) = InFlight(tx, S)
<1>1. \A len : Ctrl!Cells(len) = Cells(len)
  BY DEF Ctrl!Cells, Cells
<1>2. \A len : Ctrl!Bytes(len) = Bytes(len)
  BY <1>1, Zenon DEF Ctrl!Bytes, Bytes, Ctrl!Cardinality, Cardinality
<1> QED
  BY <1>2 DEF Ctrl!InFlight, InFlight
-----------------------------------------------------------------------------
(* A sentPackets record, its acknowledged places, and the two sets of books. *)

SentPacket == [packetType : {"st_data", "st_fin"}, data : Seq({0}), acked : BOOLEAN]
SentFields == {"packets", "initSeqNum", "lostPackets", "congestionCtrl"}
CtrlFields == {"timeout", "windowSizeBytes", "maxWindowSizeBytes", "transmissions"}

SentType(s) ==
  /\ DOMAIN s = SentFields
  /\ s.initSeqNum = InitSeqNum
  /\ s.packets \in Seq(SentPacket) /\ Len(s.packets) <= MaxPackets
  /\ DOMAIN s.congestionCtrl = CtrlFields

AckedOf(s) == {i \in DOMAIN s.packets : s.packets[i].acked}
NumsOf(S) == {Num(i) : i \in S}

Books(s) ==
  LET tx == s.congestionCtrl.transmissions
  IN  /\ DOMAIN tx = NumsOf(DOMAIN s.packets)
      /\ tx \in [DOMAIN tx -> packetRecord]
      /\ \A i \in DOMAIN s.packets :
           /\ tx[Num(i)].Acked = s.packets[i].acked
           /\ tx[Num(i)].SizeBytes = Len(s.packets[i].data)

Counted(s) ==
  LET tx == s.congestionCtrl.transmissions
  IN  s.congestionCtrl.windowSizeBytes = InFlight(tx, DOMAIN tx)

\* t has the packets of s, with the same data, and those of S acknowledged too.
AcksMore(s, t, S) ==
  /\ DOMAIN t.packets = DOMAIN s.packets
  /\ \A i \in DOMAIN s.packets :
       /\ t.packets[i].data = s.packets[i].data
       /\ t.packets[i].packetType = s.packets[i].packetType
       /\ t.packets[i].acked = (s.packets[i].acked \/ i \in S)

\* Places run from 1 to less than a turn of the circle.
LEMMA PlaceBounds ==
  ASSUME NEW s, SentType(s)
  PROVE  /\ Len(s.packets) \in 0..MaxPackets /\ MaxPackets \in Nat /\ MaxPackets < SeqSpace - 2
         /\ SeqSpace \in Nat /\ DOMAIN s.packets = 1..Len(s.packets)
         /\ \A i \in DOMAIN s.packets : i \in 1..MaxPackets /\ i \in 1..(SeqSpace - 1)
<1>1. Len(s.packets) \in Nat /\ DOMAIN s.packets = 1..Len(s.packets)
  BY LenProperties DEF SentType
<1>2. /\ Len(s.packets) <= MaxPackets /\ MaxPackets \in Nat /\ MaxPackets < SeqSpace - 2
      /\ SeqSpace \in Nat
  BY BoundAssumption, SeqSpaceAssumption DEF SentType
<1> HIDE DEF SentType
<1>3. \A i \in 1..Len(s.packets) : i \in 1..MaxPackets /\ i \in 1..(SeqSpace - 1)
  BY <1>1, <1>2
<1> QED
  BY <1>1, <1>2, <1>3

\* The numbers of places, as SeqNumOf gives them.
LEMMA NumsOfPlaces ==
  ASSUME NEW s, SentType(s), NEW S, S \subseteq DOMAIN s.packets
  PROVE  {SeqNumOf(s, i) : i \in S} = NumsOf(S)
<1>1. \A i \in S : i \in 0..(SeqSpace - 1)
  BY PlaceBounds
<1>2. s.initSeqNum = InitSeqNum
  BY DEF SentType
<1>3. \A i \in S : SeqNumOf(s, i) = Num(i)
  BY <1>1, <1>2, NumberOfPlace
<1> QED
  BY <1>3 DEF NumsOf

\* Two places have different numbers.
LEMMA NumsDiffer ==
  ASSUME NEW i \in 1..(SeqSpace - 1), NEW j \in 1..(SeqSpace - 1), Num(i) = Num(j)
  PROVE  i = j
BY InitSeqNumAssumption, SeqSpaceAssumption DEF SeqNums, Num, Add

\* The flag of every packet is a Boolean.
LEMMA AckedIsBoolean ==
  ASSUME NEW s, SentType(s)
  PROVE  \A i \in DOMAIN s.packets : s.packets[i].acked \in BOOLEAN
<1> DEFINE q == s.packets
<1>1. q \in Seq(SentPacket)
  BY DEF SentType
<1> HIDE DEF q
<1>2. \A i \in DOMAIN q : q[i] \in SentPacket
  <2> HIDE DEF SentPacket
  <2> QED
    BY <1>1
<1> QED
  BY <1>2 DEF SentPacket, q

\* Setting acked leaves the rest of a packet alone.
LEMMA MarkAcked ==
  ASSUME NEW p \in SentPacket, NEW v \in BOOLEAN, NEW q, q = [p EXCEPT !.acked = v]
  PROVE  /\ q \in SentPacket /\ q.data = p.data /\ q.packetType = p.packetType
         /\ q.acked = v
<1> DEFINE D == Seq({0})
<1>1. p \in [packetType : {"st_data", "st_fin"}, data : D, acked : BOOLEAN]
  BY DEF SentPacket
<1> HIDE DEF D
<1>2. /\ q \in [packetType : {"st_data", "st_fin"}, data : D, acked : BOOLEAN]
      /\ q.data = p.data /\ q.packetType = p.packetType /\ q.acked = v
  BY <1>1
<1> QED
  BY <1>2 DEF SentPacket, D

\* What the Ack calls do to the packets and to the list of lost ones.
LEMMA AckPackets ==
  ASSUME NEW s, SentType(s), NEW S, S \subseteq DOMAIN s.packets, NEW adj, NEW estimate
  PROVE  LET t == Ack(s, S, adj, estimate)
         IN  /\ SentType(t) /\ AcksMore(s, t, S)
             /\ t.lostPackets = s.lostPackets \ NumsOf(S)
             /\ t.congestionCtrl = Ctrl!OnAck(s.congestionCtrl, NumsOf(S), adj, estimate)
<1> DEFINE t == Ack(s, S, adj, estimate)
<1>1. {SeqNumOf(s, i) : i \in S} = NumsOf(S)
  BY NumsOfPlaces
<1>2. /\ DOMAIN t = SentFields /\ t.initSeqNum = InitSeqNum
      /\ t.packets = [i \in DOMAIN s.packets |->
                         IF i \in S THEN [s.packets[i] EXCEPT !.acked = TRUE] ELSE s.packets[i]]
      /\ t.lostPackets = s.lostPackets \ NumsOf(S)
      /\ t.congestionCtrl = Ctrl!OnAck(s.congestionCtrl, NumsOf(S), adj, estimate)
  <2>1. DOMAIN s = SentFields /\ s.initSeqNum = InitSeqNum
    BY DEF SentType
  <2>a. DOMAIN t = DOMAIN s
    BY <2>1 DEF Ack, SentFields
  <2>2. t.packets = [i \in DOMAIN s.packets |->
                       IF i \in S THEN [s.packets[i] EXCEPT !.acked = TRUE] ELSE s.packets[i]]
    BY <2>1 DEF Ack, SentFields
  <2>3. t.initSeqNum = s.initSeqNum
    BY <2>1 DEF Ack, SentFields
  <2>4. t.lostPackets = s.lostPackets \ {SeqNumOf(s, i) : i \in S}
    BY <2>1 DEF Ack, SentFields
  <2>5. t.congestionCtrl = Ctrl!OnAck(s.congestionCtrl, {SeqNumOf(s, i) : i \in S}, adj, estimate)
    BY <2>1 DEF Ack, SentFields
  <2> HIDE DEF t
  <2> QED
    BY <1>1, <2>1, <2>a, <2>2, <2>3, <2>4, <2>5, Zenon
<1> HIDE DEF t
<1>3. Len(s.packets) \in Nat /\ DOMAIN s.packets = 1..Len(s.packets)
  BY LenProperties DEF SentType
<1>4. \A i \in DOMAIN s.packets : s.packets[i] \in SentPacket
  BY <1>3 DEF SentType
<1>5. AcksMore(s, t, S) /\ \A i \in DOMAIN s.packets : t.packets[i] \in SentPacket
  <2>1. DOMAIN t.packets = DOMAIN s.packets
    BY <1>2
  <2>2. ASSUME NEW i \in DOMAIN s.packets
        PROVE  /\ t.packets[i] \in SentPacket
               /\ t.packets[i].data = s.packets[i].data
               /\ t.packets[i].packetType = s.packets[i].packetType
               /\ t.packets[i].acked = (s.packets[i].acked \/ i \in S)
    <3>1. CASE i \in S
      <4>1. t.packets[i] = [s.packets[i] EXCEPT !.acked = TRUE]
        BY <1>2, <3>1
      <4>2. /\ t.packets[i] \in SentPacket
            /\ t.packets[i].data = s.packets[i].data
            /\ t.packets[i].packetType = s.packets[i].packetType
            /\ t.packets[i].acked = TRUE
        BY <1>4, <4>1, MarkAcked, Zenon
      <4> QED
        BY <3>1, <4>2, Zenon
    <3>2. CASE i \notin S
      <4>1. t.packets[i] = s.packets[i]
        BY <1>2, <3>2
      <4>2. s.packets[i] \in SentPacket /\ s.packets[i].acked \in BOOLEAN
        BY <1>4 DEF SentPacket
      <4> QED
        BY <3>2, <4>1, <4>2
    <3> QED
      BY <3>1, <3>2
  <2> QED
    BY <2>1, <2>2 DEF AcksMore
<1>6. t.packets \in Seq(SentPacket) /\ Len(t.packets) = Len(s.packets)
  <2> DEFINE n == Len(s.packets)
             q == t.packets
  <2>1. n \in Nat /\ DOMAIN q = 1..n /\ \A i \in 1..n : q[i] \in SentPacket
    BY <1>3, <1>5 DEF AcksMore
  <2>2. q = [i \in 1..n |-> q[i]]
    BY <1>2, <1>3
  <2> HIDE DEF q, n, SentPacket
  <2> QED
    <3>1. [i \in 1..n |-> q[i]] \in Seq(SentPacket) /\ Len([i \in 1..n |-> q[i]]) = n
      BY <2>1
    <3>2. q \in Seq(SentPacket) /\ Len(q) = n
      BY <2>2, <3>1, Zenon
    <3> QED
      BY <3>2 DEF q, n
<1>7. DOMAIN t.congestionCtrl = CtrlFields
  BY <1>2 DEF SentType, CtrlFields, Ctrl!OnAck
<1> QED
  BY <1>2, <1>5, <1>6, <1>7 DEF t, SentType

\* The controller knows finitely many numbers.
LEMMA TransmissionsFinite ==
  ASSUME NEW s, SentType(s), Books(s)
  PROVE  IsFiniteSet(DOMAIN s.congestionCtrl.transmissions)
<1>1. DOMAIN s.congestionCtrl.transmissions \subseteq SeqNums
  <2>1. \A i \in DOMAIN s.packets : i \in 1..(SeqSpace - 1)
    BY PlaceBounds
  <2>2. \A i \in 1..(SeqSpace - 1) : Num(i) \in SeqNums
    BY InitSeqNumAssumption, SeqSpaceAssumption DEF SeqNums, Num, Add
  <2> QED
    BY <2>1, <2>2 DEF Books, NumsOf
<1>2. IsFiniteSet(SeqNums)
  <2>1. 0 \in Int /\ SeqSpace - 1 \in Int
    BY SeqSpaceAssumption
  <2> QED
    BY <2>1, FS_Interval DEF SeqNums
<1> QED
  BY <1>1, <1>2, FS_Subset

\* ... and to the controller: the bytes of the packets newly acknowledged, and
\* no others, are no longer in flight.
LEMMA AckBooks ==
  ASSUME NEW s, SentType(s), Books(s), Counted(s), NEW S, S \subseteq DOMAIN s.packets,
         NEW adj, NEW estimate
  PROVE  Books(Ack(s, S, adj, estimate)) /\ Counted(Ack(s, S, adj, estimate))
<1> DEFINE t == Ack(s, S, adj, estimate)
           N == NumsOf(S)
           tx == s.congestionCtrl.transmissions
           tt == t.congestionCtrl.transmissions
<1>1. /\ SentType(t) /\ AcksMore(s, t, S)
      /\ t.congestionCtrl = Ctrl!OnAck(s.congestionCtrl, N, adj, estimate)
  BY AckPackets
<1> HIDE DEF t
<1>2. /\ tt = [n \in DOMAIN tx |-> IF n \in {m \in N : ~tx[m].Acked}
                                   THEN [tx[n] EXCEPT !.Acked = TRUE] ELSE tx[n]]
      /\ t.congestionCtrl.windowSizeBytes =
           Ctrl!Uint32Minus(s.congestionCtrl.windowSizeBytes, Ctrl!InFlight(tx, N))
  BY <1>1 DEF Ctrl!OnAck, SentType, CtrlFields
<1>3. /\ DOMAIN tx = NumsOf(DOMAIN s.packets) /\ tx \in [DOMAIN tx -> packetRecord]
      /\ N \subseteq DOMAIN tx
  BY DEF Books, NumsOf
<1>4. IsFiniteSet(DOMAIN tx)
  BY TransmissionsFinite
<1>5. /\ DOMAIN tt = DOMAIN tx /\ tt \in [DOMAIN tt -> packetRecord]
      /\ \A n \in DOMAIN tx : tt[n].SizeBytes = tx[n].SizeBytes
      /\ \A n \in DOMAIN tx : tt[n].Acked = (tx[n].Acked \/ n \in N)
  <2>1. ASSUME NEW n \in DOMAIN tx
        PROVE  /\ tt[n] \in packetRecord /\ tt[n].SizeBytes = tx[n].SizeBytes
               /\ tt[n].Acked = (tx[n].Acked \/ n \in N)
    <3>1. tx[n] \in packetRecord /\ tx[n].Acked \in BOOLEAN
      BY <1>3 DEF packetRecord
    <3>2. tt[n] = IF n \in N /\ ~tx[n].Acked THEN [tx[n] EXCEPT !.Acked = TRUE] ELSE tx[n]
      BY <1>2
    <3> HIDE DEF tx, tt, N
    <3>3. CASE n \in N /\ ~tx[n].Acked
      <4>1. tt[n] = [tx[n] EXCEPT !.Acked = TRUE]
        BY <3>2, <3>3
      <4> QED
        BY <3>1, <3>3, <4>1, Zenon DEF packetRecord
    <3>4. CASE ~(n \in N /\ ~tx[n].Acked)
      <4>1. tt[n] = tx[n]
        BY <3>2, <3>4
      <4>2. tx[n].Acked = (tx[n].Acked \/ n \in N)
        BY <3>1, <3>4
      <4> QED
        BY <3>1, <4>1, <4>2
    <3> QED
      BY <3>3, <3>4
  <2>2. DOMAIN tt = DOMAIN tx
    BY <1>2
  <2>3. tt = [n \in DOMAIN tt |-> tt[n]]
    BY <1>2
  <2> HIDE DEF tx, tt, N
  <2> QED
    BY <2>1, <2>2, <2>3
<1>6. InFlight(tx, DOMAIN tx) = InFlight(tx, N) + InFlight(tt, DOMAIN tt)
  <2> HIDE DEF tx, tt, N
  <2>1. TxMap(tx)
    BY <1>3, <1>4 DEF TxMap
  <2> QED
    BY <1>3, <1>5, <2>1, InFlightAck
<1>7. InFlight(tx, N) \in Nat /\ InFlight(tt, DOMAIN tt) \in Nat
  <2> HIDE DEF tx, tt, N
  <2>1. TxMap(tx) /\ TxMap(tt)
    BY <1>3, <1>4, <1>5 DEF TxMap
  <2> QED
    BY <1>3, <2>1, FamilyLengths
<1>8. Counted(t)
  <2>1. s.congestionCtrl.windowSizeBytes = InFlight(tx, DOMAIN tx)
    BY DEF Counted
  <2>2. t.congestionCtrl.windowSizeBytes = InFlight(tt, DOMAIN tt)
    <3> HIDE DEF tx, tt, N
    <3> QED
      BY <1>2, <1>6, <1>7, <2>1, SameCount DEF Ctrl!Uint32Minus
  <2> QED
    BY <2>2 DEF Counted
<1>9. Books(t)
  <2>1. \A i \in DOMAIN s.packets : Num(i) \in DOMAIN tx /\ (Num(i) \in N <=> i \in S)
    <3>1. \A i \in DOMAIN s.packets : i \in 1..(SeqSpace - 1)
      BY PlaceBounds
    <3> QED
      BY <1>3, <3>1, NumsDiffer DEF NumsOf
  <2>2. DOMAIN tt = NumsOf(DOMAIN t.packets)
    BY <1>1, <1>3, <1>5 DEF AcksMore
  <2>3. ASSUME NEW i \in DOMAIN t.packets
        PROVE  /\ tt[Num(i)].Acked = t.packets[i].acked
               /\ tt[Num(i)].SizeBytes = Len(t.packets[i].data)
    <3>1. i \in DOMAIN s.packets
      BY <1>1 DEF AcksMore
    <3>2. /\ tx[Num(i)].Acked = s.packets[i].acked
          /\ tx[Num(i)].SizeBytes = Len(s.packets[i].data)
      BY <3>1 DEF Books
    <3>3. /\ t.packets[i].data = s.packets[i].data
          /\ t.packets[i].acked = (s.packets[i].acked \/ i \in S)
      BY <1>1, <3>1 DEF AcksMore
    <3> HIDE DEF tx, tt, N
    <3> QED
      BY <1>5, <2>1, <3>1, <3>2, <3>3, SMTT(30)
  <2> QED
    BY <1>5, <2>2, <2>3 DEF Books
<1> QED
  BY <1>8, <1>9 DEF t
-----------------------------------------------------------------------------
(* The acknowledged prefix, and the packets presumed lost.                 *)

\* A set of places that goes down to 1 is an interval.
LEMMA DownClosed ==
  ASSUME NEW n \in Nat, NEW P, P \subseteq 1..n, \A i \in P : \A j \in 1..i : j \in P
  PROVE  Cardinality(P) \in 0..n /\ P = 1..Cardinality(P)
<1> DEFINE T == {k \in Nat : k + 1 \notin P}
<1>1. T \subseteq Nat /\ n \in T
  OBVIOUS
<1>2. PICK m \in T : \A k \in T : m <= k
  BY <1>1, LeastElement, Zenon
<1>3. m \in 0..n /\ m + 1 \notin P
  BY <1>1, <1>2
<1>4. ASSUME NEW j \in 1..m PROVE j \in P
  <2>1. j - 1 \in Nat /\ ~(m <= j - 1) /\ (j - 1) + 1 = j
    BY <1>3
  <2>2. j - 1 \notin T
    BY <1>2, <2>1
  <2> QED
    BY <2>1, <2>2
<1>5. ASSUME NEW i \in P PROVE i \in 1..m
  <2>1. i \in 1..n /\ (i > m => m + 1 \in 1..i)
    BY <1>3
  <2> QED
    BY <1>3, <2>1
<1>6. P = 1..m
  BY <1>4, <1>5, Zenon
<1>7. Cardinality(1..m) = m
  <2>1. 1 \in Int /\ m \in Int /\ (1 > m => m = 0)
    BY <1>3
  <2>2. Cardinality(1..m) = IF 1 > m THEN 0 ELSE m - 1 + 1
    BY <2>1, FS_Interval
  <2> QED
    BY <1>3, <2>1, <2>2
<1> QED
  BY <1>3, <1>6, <1>7

\* Every place of the acknowledged prefix is acknowledged.
LEMMA PrefixIsAcked ==
  ASSUME NEW s, SentType(s)
  PROVE  AckedPrefix(s) \in 0..Len(s.packets) /\ 1..AckedPrefix(s) \subseteq AckedOf(s)
<1> DEFINE n == Len(s.packets)
           P == {i \in DOMAIN s.packets : \A j \in 1..i : s.packets[j].acked}
<1>1. n \in Nat /\ DOMAIN s.packets = 1..n
  BY PlaceBounds
<1>2. P \subseteq 1..n /\ \A i \in P : \A j \in 1..i : j \in P
  BY <1>1
<1>3. AckedPrefix(s) = Cardinality(P)
  BY DEF AckedPrefix
<1>4. P \subseteq AckedOf(s)
  BY <1>1 DEF AckedOf
<1> HIDE DEF P
<1>5. Cardinality(P) \in 0..n /\ P = 1..Cardinality(P)
  BY <1>1, <1>2, DownClosed, Zenon
<1> QED
  BY <1>3, <1>4, <1>5

\* The packets presumed lost are justified in a record s.
LostOK(s) ==
  \A n \in s.lostPackets : \E i \in DOMAIN s.packets \ AckedOf(s) :
    n = Num(i) /\ Cardinality({j \in AckedOf(s) : j > i}) >= LossThreshold

\* Acknowledgements take packets off the list and justify the others all the more.
LEMMA LostKept ==
  ASSUME NEW s, SentType(s), NEW S, NEW t, SentType(t), AcksMore(s, t, S),
         t.lostPackets = s.lostPackets \ NumsOf(S), LostOK(s)
  PROVE  LostOK(t)
<1> SUFFICES ASSUME NEW n \in t.lostPackets
             PROVE  \E i \in DOMAIN t.packets \ AckedOf(t) :
                      n = Num(i) /\ Cardinality({j \in AckedOf(t) : j > i}) >= LossThreshold
  BY DEF LostOK
<1>1. PICK i \in DOMAIN s.packets \ AckedOf(s) :
        n = Num(i) /\ Cardinality({j \in AckedOf(s) : j > i}) >= LossThreshold
  BY DEF LostOK
<1>2. i \in DOMAIN t.packets \ AckedOf(t)
  BY <1>1, Zenon DEF AcksMore, AckedOf, NumsOf
<1> DEFINE A == {j \in AckedOf(s) : j > i}
           B == {j \in AckedOf(t) : j > i}
<1>3. A \subseteq B /\ B \subseteq 1..Len(t.packets)
  BY PlaceBounds, Zenon DEF AcksMore, AckedOf
<1>4. IsFiniteSet(B)
  <2>1. 1 \in Int /\ Len(t.packets) \in Int
    BY PlaceBounds
  <2>2. IsFiniteSet(1..Len(t.packets))
    BY <2>1, FS_Interval
  <2> HIDE DEF B
  <2> QED
    BY <1>3, <2>2, FS_Subset, Zenon
<1> HIDE DEF A, B
<1>5. /\ Cardinality(A) <= Cardinality(B)
      /\ Cardinality(A) \in Nat /\ Cardinality(B) \in Nat
  BY <1>3, <1>4, FS_Subset, FS_CardinalityType, Zenon
<1>6. Cardinality(B) >= LossThreshold
  BY <1>1, <1>5, LossThresholdAssumption DEF A
<1> QED
  BY <1>1, <1>2, <1>6, Zenon DEF B

\* OnLost of the packets that DetectLostPackets finds narrows the window and
\* lists them; the books do not change.
LEMMA LostEffect ==
  ASSUME NEW s, SentType(s), LostOK(s)
  PROVE  LET t == OnLost(s, DetectLostPackets(s))
         IN  /\ SentType(t) /\ LostOK(t) /\ t.packets = s.packets
             /\ (Books(s) => Books(t)) /\ (Counted(s) => Counted(t))
<1> DEFINE L == DetectLostPackets(s)
           t == OnLost(s, L)
<1>1. L \subseteq DOMAIN s.packets
  BY DEF DetectLostPackets
<1>2. {SeqNumOf(s, i) : i \in L} = NumsOf(L)
  <2> HIDE DEF L
  <2> QED
    BY <1>1, NumsOfPlaces
<1> HIDE DEF L
<1>3. PICK w : t = [s EXCEPT !.lostPackets = @ \cup {SeqNumOf(s, i) : i \in L},
                             !.congestionCtrl.maxWindowSizeBytes = w]
  BY Zenon DEF OnLost
<1>4. /\ DOMAIN t = SentFields /\ t.packets = s.packets /\ t.initSeqNum = s.initSeqNum
      /\ t.lostPackets = s.lostPackets \cup {SeqNumOf(s, i) : i \in L}
      /\ DOMAIN t.congestionCtrl = CtrlFields
      /\ t.congestionCtrl.transmissions = s.congestionCtrl.transmissions
      /\ t.congestionCtrl.windowSizeBytes = s.congestionCtrl.windowSizeBytes
  <2> HIDE DEF t
  <2> QED
    BY <1>3 DEF SentType, SentFields, CtrlFields
<1> HIDE DEF t
<1>5. SentType(t)
  BY <1>4 DEF SentType
<1>6. (Books(s) => Books(t)) /\ (Counted(s) => Counted(t))
  BY <1>4 DEF Books, Counted
<1>7. ASSUME NEW n \in t.lostPackets
      PROVE  \E i \in DOMAIN t.packets \ AckedOf(t) :
               n = Num(i) /\ Cardinality({j \in AckedOf(t) : j > i}) >= LossThreshold
  <2>1. AckedOf(t) = AckedOf(s)
    BY <1>4 DEF AckedOf
  <2>2. CASE n \in s.lostPackets
    BY <1>4, <2>1, <2>2 DEF LostOK
  <2>3. CASE n \notin s.lostPackets
    <3>1. PICK i \in L : n = Num(i)
      BY <1>2, <1>4, <1>7, <2>3 DEF NumsOf
    <3>2. i \in DOMAIN s.packets \ AckedOf(s)
      BY <3>1 DEF L, DetectLostPackets, AckedOf
    <3>3. {j \in DOMAIN s.packets : j > i /\ s.packets[j].acked} = {j \in AckedOf(s) : j > i}
      BY DEF AckedOf
    <3>4. Cardinality({j \in AckedOf(s) : j > i}) >= LossThreshold
      BY <3>1, <3>3, Zenon DEF L, DetectLostPackets
    <3> QED
      BY <1>4, <2>1, <3>1, <3>2, <3>4, Zenon
  <2> QED
    BY <2>2, <2>3
<1> QED
  BY <1>4, <1>5, <1>6, <1>7, Zenon DEF LostOK, t, L
-----------------------------------------------------------------------------
(* Handling an ack.                                                        *)

Bits(sack) == IF sack = Nil THEN {} ELSE sack

\* Whoever says k and the bits of sack holds all that it says.
Truthful(k, sack, R) ==
  /\ 1..k \subseteq R
  /\ Bits(sack) \subseteq Nat /\ \A i \in Bits(sack) : k + 2 + i \in R

\* What k and the bits of sack say.
Covered(k, sack) == (1..k) \cup {k + 2 + i : i \in Bits(sack)}

\* The places OnSelectiveAck marks are k and the ones the bits name: the walk
\* over the bits is not cut short by a number that was never sent.
LEMMA SelectedAre ==
  ASSUME NEW s, SentType(s), NEW R, R \subseteq DOMAIN s.packets,
         NEW k \in 1..Len(s.packets), NEW sack, Truthful(k, sack, R)
  PROVE  SelectedPlaces(s, Num(k), sack) = {k} \cup {k + 2 + i : i \in Bits(sack)}
<1> DEFINE n == Len(s.packets)
<1>1. /\ n \in 0..MaxPackets /\ MaxPackets \in Nat /\ MaxPackets < SeqSpace - 2
      /\ SeqSpace \in Nat /\ DOMAIN s.packets = 1..n /\ s.initSeqNum = InitSeqNum
      /\ n \in 0..(SeqSpace - 1)
  BY PlaceBounds DEF SentType
<1>2. Index(s, Num(k)) = k
  <2>1. k \in 1..(SeqSpace - 1)
    BY <1>1
  <2> QED
    BY <1>1, <2>1, PlaceOfNumber
<1>3. ASSUME NEW b \in Bits(sack), NEW c \in 0..b
      PROVE  /\ Add(Num(k), 2 + c) = Num(k + 2 + c)
             /\ SeqNumRangeContains(s, Num(k + 2 + c))
             /\ Index(s, Num(k + 2 + c)) = k + 2 + c
  <2>1. b \in Nat /\ k + 2 + b \in 1..n
    BY <1>1 DEF Truthful
  <2>2. k + 2 + c \in 0..(SeqSpace - 1) /\ k + 2 + c \in 1..(SeqSpace - 1) /\ k + 2 + c <= n
    BY <1>1, <2>1
  <2>3. Add(Num(k), 2 + c) = Num(k + 2 + c)
    BY <1>1, <2>1, <2>2, InitSeqNumAssumption DEF Num, Add, SeqNums
  <2> QED
    BY <1>1, <2>2, <2>3, RangeOfPlaces, PlaceOfNumber
<1>4. \A b \in Bits(sack) : \A c \in 0..b : SeqNumRangeContains(s, Add(Num(k), 2 + c))
  BY <1>3
<1>5. \A b \in Bits(sack) : Index(s, Add(Num(k), 2 + b)) = k + 2 + b
  <2>1. \A b \in Bits(sack) : b \in 0..b
    BY DEF Truthful
  <2> QED
    BY <1>3, <2>1
<1>6. CASE sack = Nil
  BY <1>2, <1>6 DEF SelectedPlaces, Bits
<1>7. CASE sack # Nil
  <2>1. Bits(sack) = sack
    BY <1>7 DEF Bits
  <2>2. {b \in sack : \A c \in 0..b : SeqNumRangeContains(s, Add(Num(k), 2 + c))} = sack
    BY <1>4, <2>1
  <2>3. {Index(s, Add(Num(k), 2 + i)) : i \in sack} = {k + 2 + i : i \in sack}
    BY <1>5, <2>1
  <2>4. SelectedPlaces(s, Num(k), sack) =
          {k} \cup {Index(s, Add(Num(k), 2 + i)) : i \in
             {b \in sack : \A c \in 0..b : SeqNumRangeContains(s, Add(Num(k), 2 + c))}}
    BY <1>2, <1>7 DEF SelectedPlaces
  <2> QED
    BY <2>1, <2>2, <2>3, <2>4, Zenon
<1> QED
  BY <1>6, <1>7

\* What s needs to be and what an operation that acknowledges may do to it.
Sound(s) == SentType(s) /\ Books(s) /\ Counted(s) /\ LostOK(s)

\* The Ack calls for places that were sent.
LEMMA AckSound ==
  ASSUME NEW s, Sound(s), NEW S, S \subseteq DOMAIN s.packets, NEW adj, NEW estimate
  PROVE  /\ Sound(Ack(s, S, adj, estimate))
         /\ AcksMore(s, Ack(s, S, adj, estimate), S)
<1> DEFINE t == Ack(s, S, adj, estimate)
<1>1. SentType(s) /\ Books(s) /\ Counted(s) /\ LostOK(s)
  BY DEF Sound
<1>2. SentType(t) /\ AcksMore(s, t, S) /\ t.lostPackets = s.lostPackets \ NumsOf(S)
  BY <1>1, AckPackets
<1>3. Books(t) /\ Counted(t)
  BY <1>1, AckBooks
<1> HIDE DEF t
<1>4. LostOK(t)
  BY <1>1, <1>2, LostKept
<1> QED
  BY <1>2, <1>3, <1>4 DEF Sound, t

\* OnAckNum acknowledges everything the ack covers and nothing the peer lacks.
LEMMA OnAckNumEffect ==
  ASSUME NEW s, Sound(s), NEW R, R \subseteq DOMAIN s.packets,
         NEW k \in 1..Len(s.packets), NEW sack, Truthful(k, sack, R), NEW adj, NEW estimate
  PROVE  LET t == OnAckNum(s, Num(k), sack, adj, estimate)
         IN  /\ Sound(t)
             /\ \E S : S \subseteq R /\ AcksMore(s, t, S)
             /\ Covered(k, sack) \subseteq AckedOf(t)
<1> DEFINE t == OnAckNum(s, Num(k), sack, adj, estimate)
           selected == SelectedPlaces(s, Num(k), sack)
           s1 == Ack(s, selected, adj, estimate)
           prior == (AckedPrefix(s1) + 1)..(Index(s, Num(k)) - 1)
           S2 == selected \cup prior
           s2 == Ack(s, S2, adj, estimate)
<1>1. SentType(s) /\ s.initSeqNum = InitSeqNum
  BY DEF Sound, SentType
<1>2. /\ Len(s.packets) \in Nat /\ DOMAIN s.packets = 1..Len(s.packets) /\ k \in 1..(SeqSpace - 1)
  BY <1>1, PlaceBounds
<1>3. Index(s, Num(k)) = k
  BY <1>1, <1>2, PlaceOfNumber
<1>4. selected = {k} \cup {k + 2 + i : i \in Bits(sack)}
  BY <1>1, SelectedAre, SMTT(30)
<1>5. k \in R /\ 1..k \subseteq R
  BY <1>2 DEF Truthful
<1>6. selected \subseteq R
  BY <1>4, <1>5 DEF Truthful
<1> HIDE DEF selected
<1>7. Sound(s1) /\ AcksMore(s, s1, selected)
  BY <1>6, AckSound
<1>8. AckedPrefix(s1) \in 0..Len(s1.packets) /\ 1..AckedPrefix(s1) \subseteq AckedOf(s1)
  BY <1>7, PrefixIsAcked DEF Sound
<1>9. DOMAIN s1.packets = DOMAIN s.packets /\ Len(s1.packets) \in Nat
  BY <1>7, PlaceBounds DEF AcksMore, Sound
<1> HIDE DEF s1
<1>10. prior \subseteq R /\ S2 \subseteq R
  BY <1>3, <1>5, <1>6, <1>8, <1>9, <1>2, SMTT(30)
<1>11. Sound(s2) /\ AcksMore(s, s2, S2)
  <2> HIDE DEF S2
  <2> QED
    BY <1>10, AckSound
<1>12. CASE ~HasUnackedPackets(s1)
  <2>1. t = s1
    BY <1>12 DEF OnAckNum, s1, selected
  <2>2. Len(s1.packets) = Len(s.packets)
    <3>1. DOMAIN s1.packets = 1..Len(s1.packets)
      BY <1>7, PlaceBounds DEF Sound
    <3> QED
      BY <1>2, <1>9, <3>1
  <2>3. DOMAIN s.packets \subseteq AckedOf(s1)
    BY <1>2, <1>8, <1>9, <1>12, <2>2 DEF HasUnackedPackets
  <2>4. Covered(k, sack) \subseteq DOMAIN s.packets
    BY <1>5 DEF Covered, Truthful
  <2> QED
    BY <1>6, <1>7, <2>1, <2>3, <2>4, SMTT(30)
<1>13. CASE HasUnackedPackets(s1)
  <2> DEFINE u == OnLost(s2, DetectLostPackets(s2))
  <2>1. t = u
    BY <1>13 DEF OnAckNum, s1, selected
  <2> HIDE DEF s2
  <2>2. Sound(u) /\ u.packets = s2.packets
    BY <1>11, LostEffect DEF Sound
  <2> HIDE DEF u, t
  <2>3. AcksMore(s, u, S2) /\ AckedOf(u) = AckedOf(s2)
    BY <1>11, <2>2 DEF AcksMore, AckedOf
  <2>4. S2 \subseteq AckedOf(s2) /\ AckedOf(s1) \subseteq AckedOf(s2)
    <3>1. S2 \subseteq DOMAIN s.packets
      BY <1>10
    <3>2. selected \subseteq S2
      OBVIOUS
    <3> HIDE DEF S2
    <3> QED
      BY <1>7, <1>11, <3>1, <3>2, Zenon DEF AcksMore, AckedOf
  <2>5. 1..k \subseteq AckedOf(s2)
    <3> SUFFICES ASSUME NEW j \in 1..k PROVE j \in AckedOf(s2)
      OBVIOUS
    <3>1. CASE j <= AckedPrefix(s1)
      BY <1>2, <1>8, <1>9, <2>4, <3>1
    <3>2. CASE j = k
      BY <1>4, <2>4, <3>2
    <3>3. CASE ~(j <= AckedPrefix(s1)) /\ j # k
      <4>1. j \in prior
        BY <1>2, <1>3, <1>8, <1>9, <3>3
      <4> QED
        BY <2>4, <4>1
    <3> QED
      BY <3>1, <3>2, <3>3
  <2>6. {k + 2 + i : i \in Bits(sack)} \subseteq AckedOf(s2)
    BY <1>4, <2>4
  <2>7. Covered(k, sack) \subseteq AckedOf(u)
    BY <2>3, <2>5, <2>6 DEF Covered
  <2> QED
    BY <1>10, <2>1, <2>2, <2>3, <2>7 DEF t
<1> QED
  BY <1>12, <1>13
-----------------------------------------------------------------------------
(* Transmissions.                                                          *)

\* t differs from s at most in the window, the timeout and how often packets
\* were sent.
SameBooks(s, t) ==
  LET tx == s.congestionCtrl.transmissions
      tt == t.congestionCtrl.transmissions
  IN  /\ DOMAIN t = SentFields /\ t.initSeqNum = s.initSeqNum /\ t.packets = s.packets
      /\ t.lostPackets = s.lostPackets /\ DOMAIN t.congestionCtrl = CtrlFields
      /\ t.congestionCtrl.windowSizeBytes = s.congestionCtrl.windowSizeBytes
      /\ DOMAIN tt = DOMAIN tx /\ tt \in [DOMAIN tt -> packetRecord]
      /\ \A n \in DOMAIN tx : tt[n].SizeBytes = tx[n].SizeBytes /\ tt[n].Acked = tx[n].Acked

\* Such a change keeps everything.
LEMMA SameBooksSound ==
  ASSUME NEW s, Sound(s), NEW t, SameBooks(s, t)
  PROVE  Sound(t) /\ AckedOf(t) = AckedOf(s)
<1> DEFINE tx == s.congestionCtrl.transmissions
           tt == t.congestionCtrl.transmissions
<1>1. SentType(t) /\ AckedOf(t) = AckedOf(s)
  BY DEF Sound, SentType, SameBooks, AckedOf
<1>2. LostOK(t)
  BY <1>1, Zenon DEF Sound, LostOK, SameBooks
<1>3. Counted(t)
  <2>1. /\ DOMAIN tt = DOMAIN tx
        /\ \A n \in DOMAIN tx : tt[n].SizeBytes = tx[n].SizeBytes /\ tt[n].Acked = tx[n].Acked
    BY DEF SameBooks
  <2>2. InFlight(tt, DOMAIN tt) = InFlight(tx, DOMAIN tx)
    <3> HIDE DEF tx, tt
    <3> QED
      BY <2>1, InFlightSame
  <2> QED
    BY <2>2 DEF Sound, Counted, SameBooks
<1>4. Books(t)
  <2>1. \A i \in DOMAIN s.packets : Num(i) \in DOMAIN tx
    BY DEF Sound, Books, NumsOf
  <2> QED
    BY <2>1 DEF Sound, Books, SameBooks
<1> QED
  BY <1>1, <1>2, <1>3, <1>4 DEF Sound

\* A retransmission is one more transmission of a packet, and nothing else.
LEMMA RetransmitBooks ==
  ASSUME NEW s, Sound(s), NEW i \in DOMAIN s.packets, NEW packetType, NEW data
  PROVE  SameBooks(s, OnTransmit(s, Num(i), packetType, data))
<1> DEFINE t == OnTransmit(s, Num(i), packetType, data)
           cc == s.congestionCtrl
           tx == cc.transmissions
<1>1. /\ SentType(s) /\ DOMAIN s = SentFields /\ s.initSeqNum = InitSeqNum
      /\ DOMAIN cc = CtrlFields
      /\ tx \in [DOMAIN tx -> packetRecord] /\ Num(i) \in DOMAIN tx
  BY DEF Sound, SentType, Books, NumsOf
<1>2. IsRetransmission(s, Num(i))
  <2>1. i \in 1..(SeqSpace - 1) /\ i <= Len(s.packets)
    BY <1>1, PlaceBounds
  <2>2. Index(s, Num(i)) = i
    BY <1>1, <2>1, PlaceOfNumber
  <2> QED
    BY <2>1, <2>2 DEF IsRetransmission
<1>3. Ctrl!TransmitError(cc, Num(i), FALSE, Len(data)) = "none"
  BY <1>1 DEF Ctrl!TransmitError
<1>4. Ctrl!OnTransmit(cc, Num(i), FALSE, Len(data)) =
        [cc EXCEPT !.transmissions = [tx EXCEPT ![Num(i)].NumTransmissions = 2]]
  BY <1>3, Zenon DEF Ctrl!OnTransmit
<1>5. /\ DOMAIN t = SentFields /\ t.initSeqNum = s.initSeqNum /\ t.packets = s.packets
      /\ t.lostPackets = s.lostPackets
      /\ t.congestionCtrl = Ctrl!OnTransmit(cc, Num(i), FALSE, Len(data))
  BY <1>1, <1>2, Zenon DEF OnTransmit, SentFields
<1> HIDE DEF t
<1>6. /\ DOMAIN t.congestionCtrl = CtrlFields
      /\ t.congestionCtrl.windowSizeBytes = cc.windowSizeBytes
      /\ t.congestionCtrl.transmissions = [tx EXCEPT ![Num(i)].NumTransmissions = 2]
  BY <1>1, <1>4, <1>5, Zenon DEF CtrlFields
<1> DEFINE tt == [tx EXCEPT ![Num(i)].NumTransmissions = 2]
<1>7. /\ DOMAIN tt = DOMAIN tx /\ tt \in [DOMAIN tt -> packetRecord]
      /\ \A n \in DOMAIN tx : tt[n].SizeBytes = tx[n].SizeBytes /\ tt[n].Acked = tx[n].Acked
  <2> HIDE DEF tx
  <2> QED
    BY <1>1 DEF packetRecord
<1>8. SameBooks(s, t)
  <2> HIDE DEF tt
  <2> QED
    BY <1>5, <1>6, <1>7, Zenon DEF SameBooks, tt
<1> QED
  BY <1>8 DEF t

\* onTimeout's backoff changes the window and the timeout.
LEMMA BackoffBooks ==
  ASSUME NEW s, Sound(s)
  PROVE  SameBooks(s, OnTimeout(s)) /\ SameBooks(s, s)
<1>1. /\ DOMAIN s = SentFields /\ DOMAIN s.congestionCtrl = CtrlFields
      /\ s.congestionCtrl.transmissions \in
           [DOMAIN s.congestionCtrl.transmissions -> packetRecord]
  BY DEF Sound, SentType, Books
<1>2. SameBooks(s, s)
  BY <1>1 DEF SameBooks
<1> DEFINE t == OnTimeout(s)
<1>3. /\ DOMAIN t = SentFields /\ t.initSeqNum = s.initSeqNum /\ t.packets = s.packets
      /\ t.lostPackets = s.lostPackets /\ DOMAIN t.congestionCtrl = CtrlFields
      /\ t.congestionCtrl.windowSizeBytes = s.congestionCtrl.windowSizeBytes
      /\ t.congestionCtrl.transmissions = s.congestionCtrl.transmissions
  BY <1>1, Zenon DEF OnTimeout, Ctrl!OnTimeout, SentFields, CtrlFields
<1> HIDE DEF t
<1>4. SameBooks(s, t)
  BY <1>1, <1>3 DEF SameBooks
<1> QED
  BY <1>2, <1>4 DEF t

\* retransmitLostPackets counts the transmissions of the lost packets.
LEMMA RetransmitLostBooks ==
  ASSUME NEW s, Sound(s)
  PROVE  SameBooks(s, RetransmitLost(s))
<1> DEFINE t == RetransmitLost(s)
           tx == s.congestionCtrl.transmissions
           tt == [n \in DOMAIN tx |-> IF n \in s.lostPackets
                                      THEN [tx[n] EXCEPT !.NumTransmissions = 2] ELSE tx[n]]
<1>1. /\ DOMAIN s = SentFields /\ DOMAIN s.congestionCtrl = CtrlFields
      /\ tx \in [DOMAIN tx -> packetRecord]
  BY DEF Sound, SentType, Books
<1>2. /\ DOMAIN t = SentFields /\ t.initSeqNum = s.initSeqNum /\ t.packets = s.packets
      /\ t.lostPackets = s.lostPackets /\ DOMAIN t.congestionCtrl = CtrlFields
      /\ t.congestionCtrl.windowSizeBytes = s.congestionCtrl.windowSizeBytes
  BY <1>1 DEF RetransmitLost, SentFields, CtrlFields
<1>3. t.congestionCtrl.transmissions = tt
  BY <1>1 DEF RetransmitLost, SentFields, CtrlFields
<1> HIDE DEF t
<1>4. /\ DOMAIN tt = DOMAIN tx /\ tt \in [DOMAIN tt -> packetRecord]
      /\ \A n \in DOMAIN tx : tt[n].SizeBytes = tx[n].SizeBytes /\ tt[n].Acked = tx[n].Acked
  <2> HIDE DEF tx
  <2> QED
    BY <1>1 DEF packetRecord
<1>5. SameBooks(s, t)
  <2> HIDE DEF tt
  <2> QED
    BY <1>2, <1>3, <1>4 DEF SameBooks
<1> QED
  BY <1>5 DEF t

\* t has one packet more than s, not acknowledged; the others are untouched.
OnePacketMore(s, t) ==
  /\ SentType(t) /\ Books(t) /\ LostOK(t)
  /\ Len(t.packets) = Len(s.packets) + 1
  /\ \A i \in DOMAIN s.packets : i \in DOMAIN t.packets /\ t.packets[i] = s.packets[i]
  /\ AckedOf(t) = AckedOf(s)

\* A first transmission enters the packet in both books.  It counts as in flight
\* unless the controller finds no room for it, and then OnTransmit panics.
LEMMA TransmitBooks ==
  ASSUME NEW s, Sound(s), Len(s.packets) < MaxPackets,
         NEW packetType \in {"st_data", "st_fin"}, NEW data \in Seq({0})
  PROVE  LET t == OnTransmit(s, NextSeqNum(s), packetType, data)
         IN  /\ OnePacketMore(s, t)
             /\ ~TransmitPanics(s, NextSeqNum(s), data) => Counted(t)
<1> DEFINE n == Len(s.packets)
           num == Num(n + 1)
           cc == s.congestionCtrl
           tx == cc.transmissions
           new == [packetType |-> packetType, data |-> data, acked |-> FALSE]
           t == OnTransmit(s, NextSeqNum(s), packetType, data)
           err == Ctrl!TransmitError(cc, num, TRUE, Len(data))
<1>1. /\ SentType(s) /\ Books(s) /\ Counted(s) /\ LostOK(s) /\ DOMAIN s = SentFields
      /\ s.initSeqNum = InitSeqNum /\ DOMAIN cc = CtrlFields /\ s.packets \in Seq(SentPacket)
  BY DEF Sound, SentType
<1>2. /\ n \in Nat /\ n + 1 \in 1..(SeqSpace - 1) /\ n + 1 \in 0..(SeqSpace - 1)
      /\ n + 1 <= MaxPackets /\ DOMAIN s.packets = 1..n
      /\ \A i \in DOMAIN s.packets : i \in 1..(SeqSpace - 1)
  BY <1>1, PlaceBounds
<1>3. NextSeqNum(s) = num /\ Index(s, num) = n + 1
  BY <1>1, <1>2, NumberOfPlace, PlaceOfNumber, SMTT(30) DEF NextSeqNum
<1>4. ~IsRetransmission(s, num)
  BY <1>2, <1>3 DEF IsRetransmission
<1>5. num \notin DOMAIN tx
  <2>1. \A i \in DOMAIN s.packets : Num(i) # num
    BY <1>2, NumsDiffer
  <2> QED
    BY <1>1, <2>1 DEF Books, NumsOf
<1>6. Len(data) \in Nat
  BY LenProperties
<1> HIDE DEF num
<1>7. /\ DOMAIN t = SentFields /\ t.initSeqNum = InitSeqNum /\ t.lostPackets = s.lostPackets
      /\ t.packets = Append(s.packets, new)
      /\ t.congestionCtrl = Ctrl!OnTransmit(cc, num, TRUE, Len(data))
  BY <1>1, <1>3, <1>4, Zenon DEF OnTransmit, SentFields
<1>8. err \in {"InsufficientWindowSize", "none"}
  BY <1>5 DEF Ctrl!TransmitError
<1>9. ~TransmitPanics(s, NextSeqNum(s), data) => err = "none"
  BY <1>3, <1>4, Zenon DEF TransmitPanics
<1> HIDE DEF t
<1> DEFINE c == t.congestionCtrl
           tt == c.transmissions
           r == [SizeBytes |-> Len(data), NumTransmissions |-> 1, Acked |-> FALSE]
<1>10. c = [cc EXCEPT
              !.transmissions = [u \in DOMAIN tx \cup {num} |-> IF u = num THEN r ELSE tx[u]],
              !.windowSizeBytes = IF err = "none" THEN @ + Len(data) ELSE @]
  BY <1>7, <1>8, Zenon DEF Ctrl!OnTransmit
<1> HIDE DEF err
<1>11. /\ DOMAIN c = CtrlFields
       /\ tt = [u \in DOMAIN tx \cup {num} |-> IF u = num THEN r ELSE tx[u]]
       /\ err = "none" => c.windowSizeBytes = cc.windowSizeBytes + Len(data)
  <2> HIDE DEF c
  <2> QED
    BY <1>1, <1>10 DEF CtrlFields
<1>12. new \in SentPacket
  BY DEF SentPacket
<1>13. /\ t.packets \in Seq(SentPacket) /\ Len(t.packets) = n + 1 /\ t.packets[n + 1] = new
       /\ \A i \in 1..n : t.packets[i] = s.packets[i]
       /\ DOMAIN t.packets = 1..(n + 1)
  <2> HIDE DEF new, SentPacket
  <2>1. /\ t.packets \in Seq(SentPacket) /\ Len(t.packets) = n + 1 /\ t.packets[n + 1] = new
        /\ \A i \in 1..n : t.packets[i] = s.packets[i]
    BY <1>1, <1>7, <1>12, AppendProperties, SMTT(30)
  <2> QED
    BY <2>1, LenProperties
<1>14. SentType(t)
  BY <1>2, <1>7, <1>11, <1>13, Zenon DEF SentType
<1>15. AckedOf(t) = AckedOf(s)
  BY <1>2, <1>13, SMTT(30) DEF AckedOf
<1>16. LostOK(t)
  <2>1. DOMAIN s.packets \subseteq DOMAIN t.packets
    BY <1>2, <1>13
  <2> HIDE DEF n
  <2> QED
    BY <1>1, <1>7, <1>15, <2>1, Zenon DEF LostOK
<1>17. /\ DOMAIN tt = DOMAIN tx \cup {num} /\ tt \in [DOMAIN tt -> packetRecord]
       /\ tt[num] = r /\ \A u \in DOMAIN tx : tt[u] = tx[u]
  <2>1. tx \in [DOMAIN tx -> packetRecord] /\ r \in packetRecord
    BY <1>1, <1>6, SMTT(30) DEF Books, packetRecord
  <2> HIDE DEF tt, tx, r
  <2> QED
    BY <1>5, <1>11, <2>1, SMTT(30)
<1>18. Books(t)
  <2>1. DOMAIN tx = NumsOf(1..n)
    BY <1>1, <1>2 DEF Books
  <2>2. 1..(n + 1) = (1..n) \cup {n + 1}
    BY <1>2
  <2>3. DOMAIN tt = NumsOf(DOMAIN t.packets)
    BY <1>13, <1>17, <2>1, <2>2, SMTT(30) DEF NumsOf, num
  <2>4. ASSUME NEW i \in DOMAIN t.packets
        PROVE  /\ tt[Num(i)].Acked = t.packets[i].acked
               /\ tt[Num(i)].SizeBytes = Len(t.packets[i].data)
    <3>1. CASE i = n + 1
      <4>1. tt[Num(i)] = r /\ t.packets[i] = new
        BY <1>13, <1>17, <3>1, SMTT(30) DEF num
      <4> QED
        BY <4>1
    <3>2. CASE i # n + 1
      <4>1. i \in 1..n /\ i \in DOMAIN s.packets
        BY <1>2, <1>13, <3>2, SMTT(30)
      <4>2. t.packets[i] = s.packets[i] /\ tt[Num(i)] = tx[Num(i)]
        BY <1>13, <1>17, <2>1, <4>1, SMTT(30) DEF NumsOf
      <4> QED
        BY <1>1, <4>1, <4>2 DEF Books
    <3> QED
      BY <3>1, <3>2
  <2> QED
    BY <1>17, <2>3, <2>4, SMTT(30) DEF Books
<1>19. ASSUME err = "none" PROVE Counted(t)
  <2>1. IsFiniteSet(DOMAIN tx)
    BY <1>1, TransmissionsFinite
  <2>2. TxMap(tx)
    BY <1>1, <2>1 DEF Books, TxMap
  <2>3. OneMore(tt, tx, num, Len(data))
    <3> HIDE DEF tt, tx
    <3> QED
      BY <1>5, <1>6, <1>17, <2>2 DEF OneMore
  <2>4. InFlight(tt, DOMAIN tt) = InFlight(tx, DOMAIN tx) + Len(data)
    <3> HIDE DEF tt, tx
    <3> QED
      BY <2>3, InFlightAdd
  <2> QED
    BY <1>1, <1>11, <1>19, <2>4 DEF Counted
<1>20. /\ Len(t.packets) = Len(s.packets) + 1
       /\ \A i \in DOMAIN s.packets : i \in DOMAIN t.packets /\ t.packets[i] = s.packets[i]
  BY <1>2, <1>13
<1> QED
  BY <1>9, <1>14, <1>15, <1>16, <1>18, <1>19, <1>20, SMTT(30) DEF OnePacketMore, t
-----------------------------------------------------------------------------
(* The inductive invariant.                                                *)

\* The acks in the network say what the peer held when it sent them, and it
\* still does.
AcksTruthful ==
  \A a \in acks : \E k \in 0..MaxPackets : a.ackNum = Num(k) /\ Truthful(k, a.sack, recvd)

IInv ==
  /\ SentType(sp) /\ Books(sp) /\ LostOK(sp)
  /\ panicked \in BOOLEAN /\ (~panicked => Counted(sp))
  /\ recvd \subseteq DOMAIN sp.packets
  /\ AckedOf(sp) \subseteq recvd /\ heard \subseteq AckedOf(sp)
  /\ AcksTruthful

\* What a step may not do to the packets already sent.
Kept ==
  \A i \in Places : /\ i \in Places'
                    /\ sp'.packets[i].data = sp.packets[i].data
                    /\ sp'.packets[i].packetType = sp.packets[i].packetType
                    /\ sp.packets[i].acked => sp'.packets[i].acked

\* newSentPackets.
LEMMA InitIInv == Init => IInv
<1> SUFFICES ASSUME Init PROVE IInv
  OBVIOUS
<1>1. /\ DOMAIN sp = SentFields /\ sp.packets = << >> /\ sp.initSeqNum = InitSeqNum
      /\ sp.lostPackets = {} /\ sp.congestionCtrl = Ctrl!newDefaultController
  BY DEF Init, newSentPackets, SentFields
<1>2. /\ DOMAIN sp.congestionCtrl = CtrlFields /\ sp.congestionCtrl.transmissions = << >>
      /\ sp.congestionCtrl.windowSizeBytes = 0
  BY <1>1 DEF Ctrl!newDefaultController, CtrlFields
<1>3. DOMAIN sp.packets = {} /\ DOMAIN sp.congestionCtrl.transmissions = {}
  BY <1>1, <1>2
<1>4. SentType(sp)
  <2>1. << >> \in Seq(SentPacket) /\ Len(<< >>) = 0
    BY EmptySeq
  <2> QED
    BY <1>1, <1>2, <2>1, BoundAssumption, SMTT(30) DEF SentType
<1>5. Books(sp)
  BY <1>2, <1>3 DEF Books, NumsOf
<1>6. LostOK(sp)
  BY <1>1 DEF LostOK
<1>7. Counted(sp)
  <2> DEFINE tx == sp.congestionCtrl.transmissions
  <2>1. DOMAIN Family(tx, DOMAIN tx) = {}
    BY <1>3 DEF Family
  <2>2. InFlight(tx, DOMAIN tx) = 0
    <3> HIDE DEF tx
    <3> QED
      BY <2>1, BytesEmpty, Zenon DEF InFlight, Family
  <2> QED
    BY <1>2, <2>2 DEF Counted
<1>8. AckedOf(sp) = {}
  BY <1>3 DEF AckedOf
<1> QED
  BY <1>3, <1>4, <1>5, <1>6, <1>7, <1>8, Zenon DEF Init, IInv, AcksTruthful

\* The peer's side of the invariant survives a step that leaves the peer alone
\* and forgets no acknowledgement.
LEMMA PeerUntouched ==
  ASSUME IInv, UNCHANGED <<recvd, acks, heard>>, AckedOf(sp') = AckedOf(sp),
         DOMAIN sp.packets \subseteq DOMAIN sp'.packets
  PROVE  /\ recvd' \subseteq DOMAIN sp'.packets
         /\ AckedOf(sp') \subseteq recvd' /\ heard' \subseteq AckedOf(sp')
         /\ AcksTruthful'
<1>1. AcksTruthful'
  BY DEF IInv, AcksTruthful, Truthful, Num, Bits
<1> QED
  BY <1>1 DEF IInv

\* A first transmission, of data or of the FIN.
LEMMA SendStep ==
  ASSUME IInv, NEW packetType \in {"st_data", "st_fin"}, NEW data \in Seq({0}),
         SendNext(packetType, data)
  PROVE  IInv' /\ Kept
<1>1. Sound(sp) /\ Len(sp.packets) < MaxPackets
  BY DEF IInv, Sound, SendNext
<1>2. /\ OnePacketMore(sp, sp') /\ (~panicked' => Counted(sp'))
  BY <1>1, TransmitBooks DEF SendNext
<1>3. UNCHANGED <<recvd, acks, heard>> /\ panicked' \in BOOLEAN
  BY DEF SendNext, TransmitPanics
<1>4. AckedOf(sp') = AckedOf(sp) /\ DOMAIN sp.packets \subseteq DOMAIN sp'.packets
  BY <1>2 DEF OnePacketMore
<1>5. IInv'
  <2>1. /\ recvd' \subseteq DOMAIN sp'.packets
        /\ AckedOf(sp') \subseteq recvd' /\ heard' \subseteq AckedOf(sp') /\ AcksTruthful'
    BY <1>3, <1>4, PeerUntouched
  <2> QED
    BY <1>2, <1>3, <2>1 DEF IInv, OnePacketMore
<1>6. Kept
  BY <1>2 DEF Kept, Places, OnePacketMore
<1> QED
  BY <1>5, <1>6

\* A step that only counts transmissions.
LEMMA SameBooksStep ==
  ASSUME IInv, ~panicked, SameBooks(sp, sp'), panicked' \in BOOLEAN,
         UNCHANGED <<recvd, acks, heard>>
  PROVE  IInv' /\ Kept
<1>1. Sound(sp') /\ AckedOf(sp') = AckedOf(sp)
  BY SameBooksSound DEF IInv, Sound
<1>2. sp'.packets = sp.packets
  BY DEF SameBooks
<1>3. /\ recvd' \subseteq DOMAIN sp'.packets
      /\ AckedOf(sp') \subseteq recvd' /\ heard' \subseteq AckedOf(sp') /\ AcksTruthful'
  BY <1>1, <1>2, PeerUntouched, SMTT(30)
<1>4. Kept
  BY <1>2 DEF Kept, Places
<1> QED
  BY <1>1, <1>3, <1>4 DEF IInv, Sound

\* onTimeout.
LEMMA ExpireStep ==
  ASSUME IInv, NEW i \in Places, NEW backoff \in BOOLEAN, Expire(i, backoff)
  PROVE  IInv' /\ Kept
<1> DEFINE s == IF backoff THEN OnTimeout(sp) ELSE sp
           p == sp.packets[i]
<1>1. Sound(sp) /\ ~panicked
  BY DEF IInv, Sound, Expire
<1>2. SameBooks(sp, s)
  BY <1>1, BackoffBooks
<1>3. /\ sp' = OnTransmit(s, SeqNumOf(s, i), p.packetType, p.data)
      /\ UNCHANGED <<recvd, acks, heard>> /\ panicked' \in BOOLEAN
  BY DEF Expire, TransmitPanics
<1> HIDE DEF s, p
<1>4. Sound(s)
  BY <1>1, <1>2, SameBooksSound, SMTT(30)
<1>5. i \in DOMAIN s.packets
  BY <1>2 DEF SameBooks, Places
<1>6. SeqNumOf(s, i) = Num(i)
  <2>1. SentType(s) /\ s.initSeqNum = InitSeqNum
    BY <1>4 DEF Sound, SentType
  <2>2. i \in 0..(SeqSpace - 1)
    BY <1>5, <2>1, PlaceBounds
  <2> QED
    BY <2>1, <2>2, NumberOfPlace
<1>7. SameBooks(s, sp')
  BY <1>3, <1>4, <1>5, <1>6, RetransmitBooks, SMTT(30)
<1>8. SameBooks(sp, sp')
  BY <1>2, <1>7 DEF SameBooks
<1> QED
  BY <1>1, <1>3, <1>8, SameBooksStep, SMTT(30)

\* The peer receives a packet: what it said before stays true.
LEMMA ReceiveStep ==
  ASSUME IInv, NEW i \in Places, Receive(i)
  PROVE  IInv' /\ Kept
<1>1. /\ recvd' = recvd \cup {i} /\ UNCHANGED <<sp, panicked, acks, heard>>
  BY SMTT(30) DEF Receive
<1>2. AcksTruthful'
  BY <1>1 DEF IInv, AcksTruthful, Truthful, Num, Bits
<1>3. IInv'
  BY <1>1, <1>2 DEF IInv, Places
<1>4. Kept
  BY <1>1 DEF Kept, Places
<1> QED
  BY <1>3, <1>4

\* The peer acknowledges what it holds: the run from the first packet on by
\* number, the others by bits that start two after it.
LEMMA SendAckStep ==
  ASSUME IInv, SendAck
  PROVE  IInv' /\ Kept
<1> DEFINE n == Len(sp.packets)
           P == {i \in recvd : 1..i \subseteq recvd}
           k == InOrder
           beyond == {i \in recvd : i > k}
           sack == IF beyond = {} THEN Nil ELSE {i - k - 2 : i \in beyond}
           ack == [ackNum |-> Num(k), sack |-> sack]
<1>1. n \in 0..MaxPackets /\ MaxPackets \in Nat /\ recvd \subseteq 1..n
  BY PlaceBounds DEF IInv
<1>2. P \subseteq 1..n /\ \A i \in P : \A j \in 1..i : j \in P
  <2>1. ASSUME NEW i \in P, NEW j \in 1..i PROVE j \in P
    <3>1. i \in Nat /\ 1..i \subseteq recvd
      BY <1>1
    <3>2. 1..j \subseteq 1..i
      BY <3>1
    <3> QED
      BY <3>1, <3>2
  <2> QED
    BY <1>1, <2>1, Zenon
<1>3. k \in 0..n /\ P = 1..k
  <2> HIDE DEF P, n
  <2>a. n \in Nat
    BY <1>1
  <2>1. Cardinality(P) \in 0..n /\ P = 1..Cardinality(P)
    BY <1>2, <2>a, DownClosed, Zenon
  <2> QED
    BY <2>1 DEF InOrder, P
<1>4. /\ acks' = acks \cup {ack} /\ UNCHANGED <<sp, panicked, recvd, heard>>
  BY DEF SendAck, Num
<1> HIDE DEF k
<1>5. 1..k \subseteq recvd /\ k + 1 \notin recvd
  <2>1. k + 1 \notin P
    BY <1>3
  <2>2. 1..(k + 1) = (1..k) \cup {k + 1}
    BY <1>3
  <2> QED
    BY <1>3, <2>1, <2>2
<1>6. \A i \in beyond : i - k - 2 \in Nat /\ k + 2 + (i - k - 2) = i
  BY <1>1, <1>3, <1>5, SMTT(30)
<1>7. Bits(sack) \subseteq {i - k - 2 : i \in beyond}
  BY DEF Bits
<1>8. Truthful(k, sack, recvd)
  <2> HIDE DEF sack
  <2>1. \A b \in Bits(sack) : b \in Nat /\ k + 2 + b \in recvd
    <3> SUFFICES ASSUME NEW b \in Bits(sack) PROVE b \in Nat /\ k + 2 + b \in recvd
      OBVIOUS
    <3>1. PICK i \in beyond : b = i - k - 2
      BY <1>7
    <3> QED
      BY <1>6, <3>1
  <2> QED
    BY <1>5, <2>1 DEF Truthful
<1>9. k \in 0..MaxPackets
  BY <1>1, <1>3
<1>10. AcksTruthful'
  <2>1. ack.ackNum = Num(k) /\ ack.sack = sack
    OBVIOUS
  <2> HIDE DEF ack, sack
  <2>2. \A a \in acks \cup {ack} :
          \E j \in 0..MaxPackets : a.ackNum = Num(j) /\ Truthful(j, a.sack, recvd)
    BY <1>8, <1>9, <2>1, Zenon DEF IInv, AcksTruthful
  <2> QED
    BY <1>4, <2>2 DEF AcksTruthful, Truthful, Num, Bits
<1>11. IInv'
  BY <1>4, <1>10, SMTT(30) DEF IInv
<1>12. Kept
  BY <1>4 DEF Kept, Places
<1> QED
  BY <1>11, <1>12

\* An ack is lost.
LEMMA LoseAckStep ==
  ASSUME IInv, NEW a \in acks, LoseAck(a)
  PROVE  IInv' /\ Kept
<1>1. acks' \subseteq acks /\ UNCHANGED <<sp, panicked, recvd, heard>>
  BY DEF LoseAck
<1>2. AcksTruthful'
  BY <1>1 DEF IInv, AcksTruthful, Truthful, Num, Bits
<1>3. IInv'
  BY <1>1, <1>2 DEF IInv
<1>4. Kept
  BY <1>1 DEF Kept, Places
<1> QED
  BY <1>3, <1>4

\* An ack of the peer is in the range that onAck accepts.
LEMMA AckInRange ==
  ASSUME IInv, NEW k \in 0..MaxPackets, NEW sack, Truthful(k, sack, recvd)
  PROVE  /\ k <= Len(sp.packets) /\ k \in 0..(SeqSpace - 1)
         /\ OnAckError(sp, Num(k), sack) # "InvalidAckNum"
<1>1. /\ SentType(sp) /\ sp.initSeqNum = InitSeqNum
  BY DEF IInv, SentType
<1>2. /\ Len(sp.packets) \in 0..MaxPackets /\ MaxPackets \in Nat /\ MaxPackets < SeqSpace - 2
      /\ SeqSpace \in Nat /\ DOMAIN sp.packets = 1..Len(sp.packets)
  BY <1>1, PlaceBounds
<1>3. k <= Len(sp.packets) /\ k \in 0..(SeqSpace - 1) /\ Len(sp.packets) \in 0..(SeqSpace - 1)
  <2>1. k # 0 => k \in 1..Len(sp.packets)
    BY <1>2 DEF IInv, Truthful
  <2> QED
    BY <1>2, <2>1, SMTT(30)
<1>4. SeqNumRangeContains(sp, Num(k))
  BY <1>1, <1>3, RangeOfPlaces
<1>5. OnAckError(sp, Num(k), sack) # "InvalidAckNum"
  BY <1>4 DEF OnAckError
<1> QED
  BY <1>3, <1>5

\* onAck: nothing the ack says is lost, nothing else is acknowledged.
LEMMA OnAckEffect ==
  ASSUME IInv, ~panicked, NEW a \in acks, NEW adj, NEW estimate
  PROVE  LET s == OnAck(sp, a.ackNum, a.sack, adj, estimate)
         IN  /\ Sound(s)
             /\ \E S : S \subseteq recvd /\ AcksMore(sp, s, S)
             /\ Named(a) \subseteq AckedOf(s)
<1> DEFINE s == OnAck(sp, a.ackNum, a.sack, adj, estimate)
<1>1. PICK k \in 0..MaxPackets : a.ackNum = Num(k) /\ Truthful(k, a.sack, recvd)
  BY DEF IInv, AcksTruthful
<1>2. /\ k <= Len(sp.packets) /\ k \in 0..(SeqSpace - 1)
      /\ OnAckError(sp, Num(k), a.sack) # "InvalidAckNum"
  BY <1>1, AckInRange
<1>3. Sound(sp) /\ sp.initSeqNum = InitSeqNum /\ recvd \subseteq DOMAIN sp.packets
  BY DEF IInv, Sound, SentType
<1>4. CASE k = 0
  <2>1. Num(k) = InitSeqNum
    BY <1>4, InitSeqNumAssumption, SeqSpaceAssumption, SMTT(30) DEF Num, Add, SeqNums
  <2>2. s = sp /\ Named(a) = {}
    BY <1>1, <1>3, <2>1, SMTT(30) DEF OnAck, Named
  <2>3. AcksMore(sp, sp, {})
    <3>1. \A i \in DOMAIN sp.packets : sp.packets[i].acked \in BOOLEAN
      BY <1>3, AckedIsBoolean, SMTT(30) DEF Sound
    <3> QED
      BY <3>1, SMTT(30) DEF AcksMore
  <2> QED
    BY <1>3, <2>2, <2>3
<1>5. CASE k # 0
  <2>1. Num(k) # InitSeqNum
    BY <1>2, <1>5, InitSeqNumAssumption, SeqSpaceAssumption, SMTT(30) DEF Num, Add, SeqNums
  <2>2. s = OnAckNum(sp, Num(k), a.sack, adj, estimate)
    BY <1>1, <1>2, <1>3, <2>1, SMTT(30) DEF OnAck
  <2>3. k \in 1..Len(sp.packets) /\ k \in 1..(SeqSpace - 1)
    BY <1>1, <1>2, <1>5, <1>3, PlaceBounds, SMTT(30) DEF Sound
  <2>4. Index(sp, Num(k)) = k
    BY <1>3, <2>3, PlaceOfNumber, SMTT(30)
  <2>5. Named(a) = Covered(k, a.sack)
    BY <1>1, <2>1, <2>4, SMTT(30) DEF Named, Covered, Bits
  <2> HIDE DEF s
  <2>6. /\ Sound(s) /\ \E S : S \subseteq recvd /\ AcksMore(sp, s, S)
        /\ Covered(k, a.sack) \subseteq AckedOf(s)
    BY <1>1, <1>3, <2>2, <2>3, OnAckNumEffect, ZenonT(30)
  <2> QED
    BY <2>5, <2>6 DEF s
<1> QED
  BY <1>4, <1>5

\* processAck, and the retransmission of what is presumed lost.
LEMMA HandleAckStep ==
  ASSUME IInv, NEW a \in acks, NEW adj, NEW estimate, HandleAck(a, adj, estimate)
  PROVE  IInv' /\ Kept
<1> DEFINE s == OnAck(sp, a.ackNum, a.sack, adj, estimate)
<1>1. /\ ~panicked /\ sp' = RetransmitLost(s) /\ heard' = heard \cup Named(a)
      /\ UNCHANGED <<recvd, acks>> /\ panicked' \in BOOLEAN
  BY DEF HandleAck
<1>2. Sound(s) /\ Named(a) \subseteq AckedOf(s)
  BY <1>1, OnAckEffect, Zenon
<1>3. PICK S : S \subseteq recvd /\ AcksMore(sp, s, S)
  BY <1>1, OnAckEffect, ZenonT(30)
<1> HIDE DEF s
<1>4. SameBooks(s, sp')
  BY <1>1, <1>2, RetransmitLostBooks, SMTT(30)
<1>5. Sound(sp') /\ AckedOf(sp') = AckedOf(s) /\ sp'.packets = s.packets
  BY <1>2, <1>4, SameBooksSound, SMTT(30) DEF SameBooks
<1>6. AckedOf(s) = AckedOf(sp) \cup S
  BY <1>3, ZenonT(30) DEF AcksMore, AckedOf, IInv
<1>7. DOMAIN sp'.packets = DOMAIN sp.packets
  BY <1>3, <1>5, SMTT(30) DEF AcksMore
<1>8. AcksTruthful'
  BY <1>1 DEF IInv, AcksTruthful, Truthful, Num, Bits
<1>9. IInv'
  BY <1>1, <1>2, <1>3, <1>5, <1>6, <1>7, <1>8, SMTT(30) DEF IInv, Sound
<1>10. Kept
  BY <1>3, <1>5, ZenonT(30) DEF Kept, Places, AcksMore
<1> QED
  BY <1>9, <1>10, SMTT(30)

\* Every step keeps the invariant and rewrites no packet.
LEMMA NextStep ==
  ASSUME IInv, [Next]_vars
  PROVE  IInv' /\ Kept
<1>1. ASSUME NEW len \in DataLens, SendData(len) PROVE IInv' /\ Kept
  <2>1. Zeros(len) \in Seq({0})
    BY InputAssumption DEF Zeros
  <2> QED
    BY <1>1, <2>1, SendStep DEF SendData
<1>2. ASSUME SendFin PROVE IInv' /\ Kept
  <2>1. << >> \in Seq({0})
    OBVIOUS
  <2> QED
    BY <1>2, <2>1, SendStep, Zenon DEF SendFin
<1>3. CASE UNCHANGED vars
  <2>1. UNCHANGED <<sp, panicked, recvd, acks, heard>>
    BY <1>3 DEF vars
  <2>2. AcksTruthful'
    BY <2>1 DEF IInv, AcksTruthful, Truthful, Num, Bits
  <2>3. IInv'
    BY <2>1, <2>2 DEF IInv
  <2> QED
    BY <2>1, <2>3 DEF Kept, Places
<1> QED
  BY <1>1, <1>2, <1>3, ExpireStep, ReceiveStep, SendAckStep, LoseAckStep, HandleAckStep, SMTT(30)
  DEF Next
-----------------------------------------------------------------------------
(* What sentPackets promises.                                              *)

\* The invariant holds in every behaviour.
LEMMA AlwaysIInv == Spec => []IInv
<1>1. IInv /\ [Next]_vars => IInv'
  BY NextStep
<1> QED
  BY <1>1, InitIInv, PTL DEF Spec

\* For every configuration, sentPackets and its controller know the same packets
\* with the same lengths and the same acknowledgements, and windowSizeBytes is
\* what is unacknowledged, through retransmissions, losses and repeated acks.
THEOREM BooksTheorem == Spec => []BooksAgree
<1>1. IInv => BooksAgree
  <2> SUFFICES ASSUME IInv PROVE BooksAgree
    OBVIOUS
  <2>1. SentType(sp) /\ Books(sp) /\ sp.initSeqNum = InitSeqNum
    BY DEF IInv, SentType
  <2>2. {SeqNumOf(sp, i) : i \in Places} = NumsOf(DOMAIN sp.packets)
    BY <2>1, NumsOfPlaces DEF Places
  <2>3. \A i \in Places : SeqNumOf(sp, i) = Num(i)
    <3>1. \A i \in Places : i \in 0..(SeqSpace - 1)
      BY <2>1, PlaceBounds DEF Places
    <3> QED
      BY <2>1, <3>1, NumberOfPlace, SMTT(30)
  <2>4. ~panicked => sp.congestionCtrl.windowSizeBytes =
                       Ctrl!InFlight(sp.congestionCtrl.transmissions,
                                     DOMAIN sp.congestionCtrl.transmissions)
    BY SameCount, SMTT(30) DEF IInv, Counted
  <2> QED
    BY <2>1, <2>2, <2>3, <2>4, SMTT(30) DEF BooksAgree, Books, Places
<1> QED
  BY <1>1, AlwaysIInv, PTL

\* For every configuration, only unacknowledged packets with LossThreshold
\* acknowledged ones after them are presumed lost: DetectLostPackets lists no
\* other, and a late ack takes a packet off the list.
THEOREM LostTheorem == Spec => []LostJustified
<1>1. IInv => LostJustified
  <2> SUFFICES ASSUME IInv, NEW n \in sp.lostPackets
               PROVE  /\ Index(sp, n) \in Places \ Ackeds
                      /\ Cardinality({i \in Ackeds : i > Index(sp, n)}) >= LossThreshold
    BY DEF LostJustified
  <2>1. PICK i \in DOMAIN sp.packets \ AckedOf(sp) :
          n = Num(i) /\ Cardinality({j \in AckedOf(sp) : j > i}) >= LossThreshold
    BY Zenon DEF IInv, LostOK
  <2>2. Index(sp, n) = i
    <3>1. i \in 1..(SeqSpace - 1) /\ sp.initSeqNum = InitSeqNum
      BY PlaceBounds DEF IInv, SentType
    <3> QED
      BY <2>1, <3>1, PlaceOfNumber, SMTT(30)
  <2>3. AckedOf(sp) = Ackeds
    BY SMTT(30) DEF AckedOf, Ackeds, Places
  <2> QED
    BY <2>1, <2>2, <2>3, SMTT(30) DEF Places
<1> QED
  BY <1>1, AlwaysIInv, PTL

\* For every configuration, whatever is lost, repeated or reordered, no packet is
\* taken for delivered that the peer does not have.
THEOREM AckedTheorem == Spec => []AckedWereReceived
<1>1. IInv => AckedWereReceived
  BY SMTT(30) DEF IInv, AckedWereReceived, AckedOf, Ackeds, Places
<1> QED
  BY <1>1, AlwaysIInv, PTL

\* For every configuration, what an ack covers is acknowledged from the moment
\* onAck has handled it, whichever way OnAckNum returned.
THEOREM HeardTheorem == Spec => []HeardIsAcked
<1>1. IInv => HeardIsAcked
  BY SMTT(30) DEF IInv, HeardIsAcked, AckedOf, Ackeds, Places
<1> QED
  BY <1>1, AlwaysIInv, PTL

\* For every configuration, no ack the peer has sent, however old, is one that
\* onAck answers with the error that resets the connection.
THEOREM StaleAckTheorem == Spec => []StaleAckNeverResets
<1>1. IInv => StaleAckNeverResets
  BY AckInRange DEF IInv, AcksTruthful, StaleAckNeverResets
<1> QED
  BY <1>1, AlwaysIInv, PTL

\* For every configuration, no step takes back an acknowledgement or changes what
\* a packet carries.
THEOREM SentForeverTheorem == Spec => SentForever
<1>1. IInv /\ [Next]_vars => IInv' /\ [Kept]_vars
  BY NextStep
<1>2. Spec => [][Kept]_vars
  BY <1>1, InitIInv, PTL DEF Spec
<1> QED
  BY <1>2 DEF SentForever, Kept
=============================================================================
