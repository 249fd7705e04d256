------------------------- MODULE ReceiveBufferProofs -------------------------
(***************************************************************************)
(* Proofs, for every buffer size, sequence space, initial number and       *)
(* packet lengths, of what ReceiveBufferSpec promises: space, the drain    *)
(* loop, no packet taken twice, the selective ack, and the stream read.    *)
(***************************************************************************)
EXTENDS ReceiveBufferSpec, DataLemmas

\* uint16 addition stays in range.
LEMMA AddType ==
  ASSUME NEW a \in SeqNums, NEW b \in 0..SeqSpace
  PROVE  Add(a, b) \in SeqNums
BY SeqSpaceAssumption DEF Add, SeqNums

\* The number after n more packets, counted from either end.
LEMMA AddShift ==
  ASSUME NEW a \in SeqNums, NEW k \in SeqNums, NEW n \in SeqNums
  PROVE  Add(Add(a, Add(k, n)), 1) = Add(Add(Add(a, k), 1), n)
BY SeqSpaceAssumption DEF Add, SeqNums

\* Every set of 16-bit sequence numbers is finite.
LEMMA SeqNumsFinite ==
  ASSUME NEW D, D \subseteq SeqNums
  PROVE  IsFiniteSet(D)
<1>1. 0 \in Int /\ SeqSpace - 1 \in Int
  BY SeqSpaceAssumption
<1>2. IsFiniteSet(0..(SeqSpace - 1))
  BY <1>1, FS_Interval
<1> QED
  BY <1>2, FS_Subset, Zenon DEF SeqNums

\* RunLength is the distance to the first number that is missing.
LEMMA RunLengthIsFirstGap ==
  ASSUME NEW p, NEW next \in SeqNums
  PROVE  /\ RunLength(p, next) \in 0..SeqSpace
         /\ \A i \in 0..(RunLength(p, next) - 1) : Add(next, i) \in DOMAIN p
         /\ RunLength(p, next) # SeqSpace => Add(next, RunLength(p, next)) \notin DOMAIN p
<1> DEFINE G == Gaps(p, next)
<1>1. G \subseteq Nat /\ SeqSpace \in G
  BY SeqSpaceAssumption DEF Gaps
<1>2. \E n \in G : \A m \in G : n <= m
  BY <1>1, LeastElement
<1>3. RunLength(p, next) \in G /\ \A m \in G : RunLength(p, next) <= m
  BY <1>2 DEF RunLength
<1>4. \A i \in 0..(RunLength(p, next) - 1) : i \notin G
  BY <1>1, <1>3
<1> QED
  BY <1>3, <1>4, SeqSpaceAssumption DEF Gaps

-----------------------------------------------------------------------------
(* Payload maps: adding a payload, and splitting a map in two.             *)

PayloadMap(p) == DOMAIN p \subseteq SeqNums /\ \A s \in DOMAIN p : Len(p[s]) \in Nat

\* The bytes held out of order are a natural number.
LEMMA HeldType ==
  ASSUME NEW p, PayloadMap(p)
  PROVE  Lengths([s \in DOMAIN p |-> Len(p[s])]) /\ Held(p) \in Nat
<1>1. Lengths([s \in DOMAIN p |-> Len(p[s])])
  BY SeqNumsFinite DEF PayloadMap, Lengths
<1> QED
  BY <1>1, BytesType DEF Held

\* The bytes held are the sum over two disjoint halves of the pending map.
LEMMA HeldSplit ==
  ASSUME NEW p, PayloadMap(p), NEW A, NEW B,
         A \cup B = DOMAIN p, A \cap B = {}
  PROVE  Held(p) = Held([s \in A |-> p[s]]) + Held([s \in B |-> p[s]])
<1> DEFINE len == [s \in DOMAIN p |-> Len(p[s])]
           pa == [s \in A |-> p[s]]
           pb == [s \in B |-> p[s]]
           a == [s \in DOMAIN pa |-> Len(pa[s])]
           b == [s \in DOMAIN pb |-> Len(pb[s])]
<1>1. Lengths(len)
  BY HeldType
<1>2. /\ DOMAIN a \cup DOMAIN b = DOMAIN len
      /\ DOMAIN a \cap DOMAIN b = {}
      /\ \A s \in DOMAIN a : a[s] = len[s]
      /\ \A s \in DOMAIN b : b[s] = len[s]
  OBVIOUS
<1> HIDE DEF len, a, b
<1>3. Bytes(len) = Bytes(a) + Bytes(b)
  BY <1>1, <1>2, BytesSplit
<1> QED
  BY <1>3 DEF Held, len, a, b

\* Storing a payload under a new number adds its length to the bytes held.
LEMMA HeldAdd ==
  ASSUME NEW p, PayloadMap(p), NEW seqNum \in SeqNums \ DOMAIN p,
         NEW data, Len(data) \in Nat, NEW q,
         q = [s \in DOMAIN p \cup {seqNum} |-> IF s = seqNum THEN data ELSE p[s]]
  PROVE  PayloadMap(q) /\ Held(q) = Held(p) + Len(data)
<1>1. PayloadMap(q)
  BY DEF PayloadMap
<1>2. Held(q) = Held([s \in DOMAIN p |-> q[s]]) + Held([s \in {seqNum} |-> q[s]])
  BY <1>1, HeldSplit
<1>3. [s \in DOMAIN p |-> Len([t \in DOMAIN p |-> q[t]][s])] = [s \in DOMAIN p |-> Len(p[s])]
  OBVIOUS
<1>4. Held([s \in DOMAIN p |-> q[s]]) = Held(p)
  BY <1>3 DEF Held
<1>5. Held([s \in {seqNum} |-> q[s]]) = Len(data)
  <2> DEFINE one == [s \in {seqNum} |-> q[s]]
             len == [s \in DOMAIN one |-> Len(one[s])]
  <2>1. DOMAIN len = {seqNum} /\ len[seqNum] = Len(data)
    OBVIOUS
  <2> HIDE DEF len
  <2>2. Bytes(len) = Len(data)
    BY <2>1, BytesSingle
  <2> QED
    BY <2>2 DEF Held, len
<1> QED
  BY <1>1, <1>2, <1>4, <1>5
-----------------------------------------------------------------------------
(* The drain loop.                                                         *)

Fields == {"buf", "offset", "pending", "initSeqNum", "consumed"}

\* What the loop does to a buffer into whose pending map p one payload was
\* just put: space is moved, not created, and the next number is missing.
LEMMA DrainEffect ==
  ASSUME NEW b, DOMAIN b = Fields, b.offset \in Nat, b.consumed \in SeqNums,
         b.initSeqNum \in SeqNums, NEW p, PayloadMap(p)
  PROVE  LET d == Drain(b, p)
             n == RunLength(p, Add(AckNum(b), 1))
         IN  /\ DOMAIN d = Fields
             /\ d.offset \in Nat
             /\ d.consumed = Add(b.consumed, n)
             /\ d.consumed \in SeqNums
             /\ d.initSeqNum = b.initSeqNum
             /\ PayloadMap(d.pending)
             /\ d.offset + Held(d.pending) = b.offset + Held(p)
             /\ Add(AckNum(d), 1) \notin DOMAIN d.pending
<1> DEFINE next == Add(AckNum(b), 1)
           n == RunLength(p, next)
           taken == {Add(next, i) : i \in 0..(n - 1)}
           rest == DOMAIN p \ taken
           d == Drain(b, p)
<1>1. 1 \in 0..SeqSpace /\ b.consumed \in 0..SeqSpace
  BY SeqSpaceAssumption DEF SeqNums
<1>2. AckNum(b) \in SeqNums
  BY <1>1, AddType DEF AckNum
<1>3. next \in SeqNums
  BY <1>1, <1>2, AddType
<1>4. /\ n \in 0..SeqSpace
      /\ \A i \in 0..(n - 1) : Add(next, i) \in DOMAIN p
      /\ n # SeqSpace => Add(next, n) \notin DOMAIN p
  BY <1>3, RunLengthIsFirstGap
<1> HIDE DEF next, n
<1>5. /\ DOMAIN d = Fields
      /\ d.offset = b.offset + Held([s \in DOMAIN p \cap taken |-> p[s]])
      /\ d.pending = [s \in rest |-> p[s]]
      /\ d.consumed = Add(b.consumed, n)
      /\ d.initSeqNum = b.initSeqNum
  BY DEF Drain, next, n, Fields
<1>6. d.consumed \in SeqNums
  BY <1>4, <1>5, AddType
<1>7. PayloadMap(d.pending) /\ PayloadMap([s \in DOMAIN p \cap taken |-> p[s]])
  BY <1>5 DEF PayloadMap
<1>8. /\ Held(d.pending) \in Nat
      /\ Held([s \in DOMAIN p \cap taken |-> p[s]]) \in Nat
  BY <1>7, HeldType, Zenon
<1>9. Held(p) = Held([s \in DOMAIN p \cap taken |-> p[s]]) + Held(d.pending)
  <2>1. (DOMAIN p \cap taken) \cup rest = DOMAIN p /\ (DOMAIN p \cap taken) \cap rest = {}
    BY Zenon
  <2> HIDE DEF taken, rest
  <2> QED
    BY <2>1, <1>5, HeldSplit
<1>10. d.offset \in Nat /\ d.offset + Held(d.pending) = b.offset + Held(p)
  BY <1>5, <1>8, <1>9
<1>11. Add(AckNum(d), 1) \notin DOMAIN d.pending
  <2>1. CASE n = SeqSpace
    <3>1. \A s \in SeqNums : Minus(s, next) \in 0..(n - 1) /\ Add(next, Minus(s, next)) = s
      BY <1>3, <2>1, SeqSpaceAssumption DEF Add, Minus, SeqNums
    <3>2. rest = {}
      BY <3>1 DEF PayloadMap
    <3> QED
      BY <3>2, <1>5
  <2>2. CASE n # SeqSpace
    <3>1. n \in SeqNums
      BY <1>4, <2>2, SeqSpaceAssumption DEF SeqNums
    <3>2. Add(AckNum(d), 1) = Add(next, n)
      BY <3>1, <1>5, AddShift DEF AckNum, next
    <3> QED
      BY <3>2, <1>4, <1>5, <2>2
  <2> QED
    BY <2>1, <2>2
<1> QED
  BY <1>5, <1>6, <1>7, <1>10, <1>11 DEF next, n

-----------------------------------------------------------------------------
(* Space and progress of the drain, as one inductive invariant.            *)

IInv == TypeOK /\ CapacityRespected /\ DrainComplete

\* newReceiveBuffer establishes the invariant.
LEMMA InitIInv == Init => IInv
<1> SUFFICES ASSUME Init PROVE IInv
  OBVIOUS
<1>1. /\ DOMAIN rb = Fields /\ rb.offset = 0 /\ rb.consumed = 0
      /\ rb.initSeqNum = InitSeqNum /\ rb.pending = << >>
  BY DEF Init, newReceiveBuffer, Fields
<1>2. DOMAIN rb.pending = {}
  BY <1>1
<1>3. TypeOK
  BY <1>1, <1>2, SeqSpaceAssumption DEF TypeOK, Fields, SeqNums
<1>4. Held(rb.pending) = 0
  <2> DEFINE len == [s \in DOMAIN rb.pending |-> Len(rb.pending[s])]
  <2>1. DOMAIN len = {}
    BY <1>2
  <2> HIDE DEF len
  <2>2. Bytes(len) = 0
    BY <2>1, BytesEmpty
  <2> QED
    BY <2>2 DEF Held, len
<1> QED
  BY <1>1, <1>2, <1>3, <1>4, BufferSizeAssumption
     DEF IInv, CapacityRespected, DrainComplete

\* Write, drain of the in-order run included, keeps the invariant.
LEMMA ReceiveIInv ==
  ASSUME IInv, NEW k \in 1..Packets, Receive(k)
  PROVE  IInv'
<1> DEFINE seqNum == Add(InitSeqNum, k)
           data == Payload(k)
           q == [s \in DOMAIN rb.pending \cup {seqNum} |->
                    IF s = seqNum THEN data ELSE rb.pending[s]]
<1>1. seqNum \in SeqNums
  BY InitSeqNumAssumption, PacketsAssumption, SeqSpaceAssumption, AddType
<1>2. Len(data) \in Nat
  BY PayloadLenAssumption DEF Payload
<1>3. PayloadMap(rb.pending)
  BY DEF IInv, TypeOK, PayloadMap
<1> HIDE DEF seqNum, data
<1>4. CASE rb' = rb
  BY <1>4 DEF IInv, TypeOK, CapacityRespected, DrainComplete
<1>5. CASE ~WasWritten(rb, seqNum) /\ ~(Len(data) > Available(rb)) /\ rb' = Drain(rb, q)
  <2>1. seqNum \in SeqNums \ DOMAIN rb.pending
    BY <1>1, <1>5 DEF WasWritten
  <2>2. PayloadMap(q) /\ Held(q) = Held(rb.pending) + Len(data)
    BY <2>1, <1>2, <1>3, HeldAdd
  <2>3. Held(rb.pending) \in Nat
    BY <1>3, HeldType, Zenon
  <2> HIDE DEF q
  <2>4. rb.offset + Held(q) <= BufferSize
    BY <1>2, <1>5, <2>2, <2>3, BufferSizeAssumption DEF Available, IInv, TypeOK
  <2>5. /\ DOMAIN rb = Fields /\ rb.offset \in Nat /\ rb.consumed \in SeqNums
        /\ rb.initSeqNum = InitSeqNum /\ rb.initSeqNum \in SeqNums
    BY InitSeqNumAssumption DEF IInv, TypeOK, Fields
  <2> DEFINE d == Drain(rb, q)
  <2>6. /\ DOMAIN d = Fields /\ d.offset \in Nat /\ d.consumed \in SeqNums
        /\ d.initSeqNum = rb.initSeqNum /\ PayloadMap(d.pending)
        /\ d.offset + Held(d.pending) = rb.offset + Held(q)
        /\ Add(AckNum(d), 1) \notin DOMAIN d.pending
    BY <2>2, <2>5, DrainEffect, Zenon
  <2>7. rb' = d
    BY <1>5
  <2> HIDE DEF d
  <2> QED
    BY <2>4, <2>5, <2>6, <2>7
       DEF IInv, TypeOK, CapacityRespected, DrainComplete, PayloadMap, Fields
<1> QED
  BY <1>4, <1>5 DEF Receive, Write, WriteFails, seqNum, data

\* Read keeps the invariant.
LEMMA ReadIInv ==
  ASSUME IInv, NEW n \in ReadSizes, ReadNext(n)
  PROVE  IInv'
<1>1. /\ rb'.offset = rb.offset - ReadLen(rb, n) /\ rb'.pending = rb.pending
      /\ rb'.consumed = rb.consumed /\ rb'.initSeqNum = rb.initSeqNum
      /\ DOMAIN rb' = DOMAIN rb
  BY DEF ReadNext, Read, IInv, TypeOK
<1>2. ReadLen(rb, n) \in 0..rb.offset
  BY ReadSizesAssumption DEF ReadLen, IInv, TypeOK
<1>3. rb.offset \in Nat /\ rb'.offset \in 0..rb.offset
  BY <1>1, <1>2 DEF IInv, TypeOK
<1>4. Held(rb.pending) \in Nat
  BY HeldType, Zenon DEF IInv, TypeOK, PayloadMap
<1>5. CapacityRespected'
  BY <1>1, <1>3, <1>4, BufferSizeAssumption DEF IInv, CapacityRespected
<1>6. DrainComplete'
  BY <1>1 DEF IInv, DrainComplete, AckNum
<1> QED
  BY <1>1, <1>3, <1>5, <1>6 DEF IInv, TypeOK

\* The bytes Write keeps, in order and out of order, never exceed the buffer, and
\* the packet AckNum waits for is never left in pending, whatever arrives in
\* whatever order and however often.
THEOREM BufferInvariant == Spec => [](TypeOK /\ CapacityRespected /\ DrainComplete)
<1>1. Init => IInv
  BY InitIInv
<1>2. IInv /\ [Next]_vars => IInv'
  <2> SUFFICES ASSUME IInv, [Next]_vars PROVE IInv'
    OBVIOUS
  <2>1. CASE UNCHANGED vars
    BY <2>1 DEF vars, IInv, TypeOK, CapacityRespected, DrainComplete
  <2>2. ASSUME NEW k \in 1..Packets, Receive(k) PROVE IInv'
    BY <2>2, ReceiveIInv
  <2>3. ASSUME NEW n \in ReadSizes, ReadNext(n) PROVE IInv'
    BY <2>3, ReadIInv
  <2> QED
    BY <2>1, <2>2, <2>3 DEF Next
<1>3. IInv => TypeOK /\ CapacityRespected /\ DrainComplete
  BY DEF IInv
<1> QED
  BY <1>1, <1>2, <1>3, PTL DEF Spec

\* In particular the drain loop of Write never stops short: a packet that AckNum
\* waits for, and whose copies WasWritten would refuse, does not stay in pending.
THEOREM DrainNeverStalls == Spec => []DrainComplete
BY BufferInvariant, PTL
-----------------------------------------------------------------------------
(* No packet is taken twice.                                               *)

\* Below one turn of the circle the range test is a comparison of distances.
LEMMA RangeIsDistance ==
  ASSUME NEW start \in SeqNums, NEW c \in SeqNums, NEW s \in SeqNums
  PROVE  RangeContains(start, Add(start, c), s) <=> Minus(s, start) <= c
BY SeqSpaceAssumption DEF RangeContains, Add, Minus, SeqNums

\* The numbers from the (consumed + 1)st packet on.
Later(c) == {Add(InitSeqNum, j) : j \in (c + 1)..Packets}

\* consumed counts packets without wrapping, and only later ones are pending.
NumInv == rb.consumed \in 0..Packets /\ DOMAIN rb.pending \subseteq Later(rb.consumed)

\* One accepted packet: the drain moves consumed past exactly the numbers it
\* takes out of pending.
LEMMA DrainNumbers ==
  ASSUME IInv, NumInv, NEW k \in 1..Packets, NEW q, PayloadMap(q),
         ~WasWritten(rb, Add(InitSeqNum, k)),
         DOMAIN q = DOMAIN rb.pending \cup {Add(InitSeqNum, k)}
  PROVE  LET d == Drain(rb, q)
             next == Add(AckNum(rb), 1)
             n == RunLength(q, next)
         IN  /\ d.initSeqNum = InitSeqNum
             /\ d.consumed \in rb.consumed..Packets
             /\ DOMAIN d.pending \subseteq Later(d.consumed)
             /\ \A s \in DOMAIN q : s \in DOMAIN d.pending \/ Minus(s, InitSeqNum) <= d.consumed
             /\ n \in 0..(Packets - rb.consumed) /\ d.consumed = rb.consumed + n
             /\ \A i \in 0..(n - 1) : Add(next, i) = Add(InitSeqNum, rb.consumed + 1 + i)
<1> DEFINE d == Drain(rb, q)
           next == Add(AckNum(rb), 1)
           n == RunLength(q, next)
           taken == {Add(next, i) : i \in 0..(n - 1)}
           c == rb.consumed
<1>1. /\ DOMAIN rb = Fields /\ rb.offset \in Nat /\ c \in SeqNums
      /\ rb.initSeqNum = InitSeqNum /\ InitSeqNum \in SeqNums /\ c \in 0..Packets
      /\ Packets \in Nat /\ Packets < SeqSpace /\ SeqSpace \in Nat /\ SeqSpace >= 4
  BY InitSeqNumAssumption, PacketsAssumption, SeqSpaceAssumption
     DEF IInv, TypeOK, Fields, NumInv
<1>2. /\ d.consumed = Add(c, n) /\ d.initSeqNum = InitSeqNum
      /\ DOMAIN d.pending = DOMAIN q \ taken
  BY <1>1 DEF Drain, Fields
<1>3. Add(InitSeqNum, k) \in SeqNums /\ Minus(Add(InitSeqNum, k), InitSeqNum) = k
  BY <1>1 DEF Add, Minus, SeqNums
<1>4. k > c
  BY <1>1, <1>3, RangeIsDistance DEF WasWritten, AckNum
<1>5. DOMAIN q \subseteq Later(c)
  BY <1>1, <1>4 DEF NumInv, Later
<1>6. next \in SeqNums /\ \A i \in 0..(SeqSpace - c - 1) : Add(next, i) = Add(InitSeqNum, c + 1 + i)
  BY <1>1 DEF Add, AckNum, SeqNums
<1>7. n \in 0..SeqSpace /\ \A i \in 0..(n - 1) : Add(next, i) \in DOMAIN q
  BY <1>6, RunLengthIsFirstGap
<1> HIDE DEF next, n, d
<1>8. n <= Packets - c
  <2> SUFFICES ASSUME n > Packets - c PROVE FALSE
    BY <1>1, <1>7
  <2>1. Packets - c \in 0..(n - 1) /\ Packets - c \in 0..(SeqSpace - c - 1)
    BY <1>1, <1>7
  <2>2. Add(InitSeqNum, Packets + 1) \in Later(c)
    BY <1>1, <1>5, <1>6, <1>7, <2>1
  <2>3. \A j \in (c + 1)..Packets : Add(InitSeqNum, j) # Add(InitSeqNum, Packets + 1)
    BY <1>1 DEF Add, SeqNums
  <2> QED
    BY <2>2, <2>3 DEF Later
<1>9. d.consumed = c + n /\ d.consumed \in c..Packets
  BY <1>1, <1>2, <1>7, <1>8 DEF Add
<1>10. \A j \in (c + 1)..(c + n) : Add(InitSeqNum, j) \in taken
  <2> SUFFICES ASSUME NEW j \in (c + 1)..(c + n) PROVE Add(InitSeqNum, j) \in taken
    OBVIOUS
  <2>1. j - c - 1 \in 0..(n - 1) /\ j - c - 1 \in 0..(SeqSpace - c - 1) /\ c + 1 + (j - c - 1) = j
    BY <1>1, <1>7, <1>8
  <2> QED
    BY <2>1, <1>6
<1>11. DOMAIN d.pending \subseteq Later(d.consumed)
  BY <1>1, <1>2, <1>5, <1>7, <1>9, <1>10 DEF Later
<1>12. ASSUME NEW s \in DOMAIN q, s \notin DOMAIN d.pending
       PROVE  Minus(s, InitSeqNum) <= d.consumed
  <2>1. PICK i \in 0..(n - 1) : s = Add(next, i)
    BY <1>2, <1>12
  <2>2. i \in 0..(SeqSpace - c - 1)
    BY <1>1, <1>7, <1>8, <2>1
  <2>3. s = Add(InitSeqNum, c + 1 + i) /\ c + 1 + i <= d.consumed /\ c + 1 + i \in 1..Packets
    BY <1>1, <1>6, <1>7, <1>8, <1>9, <2>1, <2>2
  <2>4. \A j \in 1..Packets : Minus(Add(InitSeqNum, j), InitSeqNum) = j
    BY <1>1 DEF Add, Minus, SeqNums
  <2> QED
    BY <2>3, <2>4
<1>13. /\ n \in 0..(Packets - c)
       /\ \A i \in 0..(n - 1) : Add(next, i) = Add(InitSeqNum, c + 1 + i)
  BY <1>1, <1>6, <1>7, <1>8
<1> QED
  BY <1>2, <1>9, <1>11, <1>12, <1>13 DEF d, n, next

\* Write never makes a number that was written look unwritten.
LEMMA ReceiveNumbers ==
  ASSUME IInv, NumInv, NEW k \in 1..Packets, Receive(k)
  PROVE  /\ NumInv'
         /\ \A s \in SeqNums : WasWritten(rb, s) => WasWritten(rb', s)
<1> DEFINE seqNum == Add(InitSeqNum, k)
           q == [s \in DOMAIN rb.pending \cup {seqNum} |->
                    IF s = seqNum THEN Payload(k) ELSE rb.pending[s]]
           d == Drain(rb, q)
<1>1. CASE rb' = rb
  BY <1>1 DEF NumInv
<1>2. CASE ~WasWritten(rb, seqNum) /\ rb' = d
  <2>1. PayloadMap(q)
    <3>1. seqNum \in SeqNums
      BY InitSeqNumAssumption, PacketsAssumption, SeqSpaceAssumption, AddType
    <3>2. Len(Payload(k)) \in Nat
      BY PayloadLenAssumption DEF Payload
    <3> QED
      BY <3>1, <3>2 DEF PayloadMap, IInv, TypeOK
  <2>2. DOMAIN q = DOMAIN rb.pending \cup {seqNum}
    OBVIOUS
  <2>3. /\ d.initSeqNum = InitSeqNum
        /\ d.consumed \in rb.consumed..Packets
        /\ DOMAIN d.pending \subseteq Later(d.consumed)
        /\ \A s \in DOMAIN q : s \in DOMAIN d.pending \/ Minus(s, InitSeqNum) <= d.consumed
    <3> HIDE DEF q
    <3> QED
      BY <1>2, <2>1, <2>2, DrainNumbers, Zenon
  <2>4. NumInv'
    <3>1. rb.consumed \in Nat /\ Packets \in Nat
      BY PacketsAssumption DEF NumInv
    <3> HIDE DEF d
    <3> QED
      BY <1>2, <2>3, <3>1 DEF NumInv
  <2>5. ASSUME NEW s \in SeqNums, WasWritten(rb, s) PROVE WasWritten(d, s)
    <3>1. /\ rb.consumed \in SeqNums /\ d.consumed \in SeqNums /\ InitSeqNum \in SeqNums
          /\ rb.initSeqNum = InitSeqNum /\ rb.consumed <= d.consumed
          /\ Minus(s, InitSeqNum) \in Int
      BY <2>3, InitSeqNumAssumption, PacketsAssumption, SeqSpaceAssumption
         DEF IInv, TypeOK, NumInv, SeqNums, Minus
    <3> HIDE DEF d, q
    <3>2. s \in DOMAIN rb.pending \/ Minus(s, InitSeqNum) <= rb.consumed
      BY <2>5, <3>1, RangeIsDistance DEF WasWritten, AckNum
    <3>3. s \in DOMAIN d.pending \/ Minus(s, InitSeqNum) <= d.consumed
      BY <2>2, <2>3, <3>1, <3>2 DEF SeqNums
    <3> QED
      BY <2>3, <3>1, <3>3, RangeIsDistance DEF WasWritten, AckNum
  <2> QED
    BY <1>2, <2>4, <2>5
<1> QED
  BY <1>1, <1>2 DEF Receive, Write

\* Both invariants hold initially.
LEMMA InitNumbers == Init => IInv /\ NumInv
<1>1. Init => NumInv
  BY PacketsAssumption DEF Init, newReceiveBuffer, NumInv
<1> QED
  BY <1>1, InitIInv

\* Every step of Write or Read keeps both invariants and what was accepted.
LEMMA StepNumbers ==
  ASSUME IInv, NumInv, [Next]_vars
  PROVE  IInv' /\ NumInv' /\ \A s \in SeqNums : WasWritten(rb, s) => WasWritten(rb', s)
<1> DEFINE Goal == IInv' /\ NumInv' /\ \A s \in SeqNums : WasWritten(rb, s) => WasWritten(rb', s)
<1>1. CASE UNCHANGED vars
  BY <1>1 DEF vars, IInv, NumInv, TypeOK, CapacityRespected, DrainComplete
<1>2. ASSUME NEW k \in 1..Packets, Receive(k) PROVE Goal
  BY <1>2, ReceiveIInv, ReceiveNumbers
<1>3. ASSUME NEW n \in ReadSizes, ReadNext(n) PROVE Goal
  <2>1. /\ rb'.pending = rb.pending /\ rb'.consumed = rb.consumed
        /\ rb'.initSeqNum = rb.initSeqNum
    BY <1>3 DEF ReadNext, Read, IInv, TypeOK
  <2>2. IInv'
    BY <1>3, ReadIInv
  <2> QED
    BY <2>1, <2>2 DEF NumInv, WasWritten, AckNum
<1> QED
  BY <1>1, <1>2, <1>3 DEF Next

\* Once accepted, a packet stays accepted: a late or repeated copy of it can
\* never be put into the stream a second time.
THEOREM NeverForgotten == Spec => AcceptedForever
<1> DEFINE J == IInv /\ NumInv
<1>1. Init => J
  BY InitNumbers
<1>2. J /\ [Next]_vars => J' /\ [\A s \in SeqNums : WasWritten(rb, s) => WasWritten(rb', s)]_vars
  BY StepNumbers
<1> QED
  BY <1>1, <1>2, PTL DEF Spec, AcceptedForever

-----------------------------------------------------------------------------
(* What the selective ack tells the sender.                                *)

\* A pending packet is at least two past AckNum, so a bit stands for it.
LEMMA PendingHasBit ==
  ASSUME IInv, NumInv, Packets <= MaxSelectiveAckCount + 1, NEW s \in DOMAIN rb.pending
  PROVE  \E i \in 0..(MaxSelectiveAckCount - 1) : i < SeqSpace /\ s = Add(Add(AckNum(rb), 2), i)
<1> DEFINE c == rb.consumed
<1>1. /\ c \in 0..Packets /\ rb.initSeqNum = InitSeqNum /\ InitSeqNum \in SeqNums
      /\ Packets \in Nat /\ Packets < SeqSpace /\ MaxSelectiveAckCount \in Nat
  BY InitSeqNumAssumption, PacketsAssumption, SelectiveAckAssumption DEF IInv, TypeOK, NumInv
<1>2. PICK j \in (c + 1)..Packets : s = Add(InitSeqNum, j)
  BY DEF NumInv, Later
<1>3. j # c + 1
  <2>1. Add(AckNum(rb), 1) = Add(InitSeqNum, c + 1)
    BY <1>1, <1>2, SeqSpaceAssumption DEF Add, AckNum, SeqNums
  <2> QED
    BY <1>2, <2>1 DEF IInv, DrainComplete
<1>4. j - c - 2 \in 0..(MaxSelectiveAckCount - 1) /\ j - c - 2 < SeqSpace
  BY <1>1, <1>2, <1>3, SeqSpaceAssumption
<1>5. Add(Add(AckNum(rb), 2), j - c - 2) = Add(InitSeqNum, j)
  BY <1>1, <1>2, <1>3, SeqSpaceAssumption DEF Add, AckNum, SeqNums
<1> QED
  BY <1>2, <1>4, <1>5

\* When the peer's packets in flight fit under the bits, SelectiveAck names
\* exactly the packets that wait for a missing one.
THEOREM SelectiveAckIsExact ==
  ASSUME Packets <= MaxSelectiveAckCount + 1
  PROVE  Spec => []SelectiveAckExact
<1> DEFINE J == IInv /\ NumInv
<1>1. Init => J
  BY InitNumbers
<1>2. J /\ [Next]_vars => J'
  BY StepNumbers
<1>3. J => SelectiveAckExact
  <2> SUFFICES ASSUME IInv, NumInv, DOMAIN rb.pending # {}
               PROVE  {Add(Add(AckNum(rb), 2), i) : i \in SelectiveAck(rb)} = DOMAIN rb.pending
    BY DEF SelectiveAckExact, SelectiveAck
  <2>1. \A s \in DOMAIN rb.pending : \E i \in SelectiveAck(rb) : s = Add(Add(AckNum(rb), 2), i)
    BY PendingHasBit DEF SelectiveAck
  <2> QED
    BY <2>1 DEF SelectiveAck
<1> QED
  BY <1>1, <1>2, <1>3, PTL DEF Spec

-----------------------------------------------------------------------------
(* The drained run: its bytes as a sequence, and their number.             *)

\* The payloads of the n numbers from next on, and these numbers.
Run(p, next, n) == [i \in 1..n |-> p[Add(next, i - 1)]]
RunNums(next, n) == {Add(next, i) : i \in 0..(n - 1)}

\* The m numbers from next on are those of payloads in p.
IsRun(S, p, next, m) ==
  /\ \A s \in DOMAIN p : p[s] \in Seq(S)
  /\ next \in SeqNums /\ m \in 0..SeqSpace
  /\ \A i \in 0..(m - 1) : Add(next, i) \in DOMAIN p

\* A run and its last packet.
LEMMA RunStep ==
  ASSUME NEW S, NEW p, NEW next, NEW m, IsRun(S, p, next, m), m # 0
  PROVE  /\ Run(p, next, m - 1) \in Seq(Seq(S))
         /\ Run(p, next, m) \in Seq(Seq(S))
         /\ Run(p, next, m) = Append(Run(p, next, m - 1), p[Add(next, m - 1)])
<1> DEFINE U == Seq(S)
           a == Run(p, next, m - 1)
           b == Run(p, next, m)
           x == p[Add(next, m - 1)]
<1>1. m - 1 \in Nat /\ m \in Nat /\ m - 1 \in 0..(m - 1) /\ \A i \in 1..m : i - 1 \in 0..(m - 1)
  BY SeqSpaceAssumption DEF IsRun
<1>2. \A i \in 1..m : p[Add(next, i - 1)] \in U
  BY <1>1 DEF IsRun
<1> HIDE DEF U
<1>3. a \in Seq(U) /\ b \in Seq(U) /\ Len(a) = m - 1 /\ Len(b) = m /\ x \in U
  BY <1>1, <1>2 DEF Run
<1>4. b = Append(a, x)
  <2>1. /\ Append(a, x) \in Seq(U) /\ Len(Append(a, x)) = m
        /\ \A i \in 1..(m - 1) : Append(a, x)[i] = a[i]
        /\ Append(a, x)[m] = x
    <3> HIDE DEF a, x
    <3>1. Len(a) + 1 = m
      BY <1>1, <1>3
    <3> QED
      BY <1>3, <3>1, AppendProperties
  <2>2. \A i \in 1..m : b[i] = Append(a, x)[i]
    <3> SUFFICES ASSUME NEW i \in 1..m PROVE b[i] = Append(a, x)[i]
      BY Zenon
    <3>1. CASE i = m
      BY <2>1, <3>1 DEF Run
    <3>2. CASE i # m
      <4>1. i \in 1..(m - 1)
        BY <1>1, <3>2
      <4>2. b[i] = a[i]
        BY <4>1 DEF Run
      <4> HIDE DEF a, b, x
      <4> QED
        BY <2>1, <4>1, <4>2
    <3> QED
      BY <3>1, <3>2, Zenon
  <2> HIDE DEF a, b, x
  <2> QED
    BY <1>3, <2>1, <2>2, SeqEqual
<1> QED
  BY <1>3, <1>4 DEF U

\* The numbers of a run and the last of them.
LEMMA RunNumsStep ==
  ASSUME NEW next \in SeqNums, NEW m \in 1..SeqSpace
  PROVE  RunNums(next, m) = RunNums(next, m - 1) \cup {Add(next, m - 1)}
<1>1. 0..(m - 1) = (0..(m - 1 - 1)) \cup {m - 1}
  BY SeqSpaceAssumption
<1> QED
  BY <1>1 DEF RunNums

\* Below one turn of the circle the last number is a new one.
LEMMA RunNumsNew ==
  ASSUME NEW next \in SeqNums, NEW m \in 1..SeqSpace
  PROVE  Add(next, m - 1) \notin RunNums(next, m - 1)
<1>1. \A i \in 0..(m - 1 - 1) : Add(next, i) # Add(next, m - 1)
  BY SeqSpaceAssumption DEF Add, SeqNums
<1> QED
  BY <1>1 DEF RunNums

\* The bytes of a run are as many as the space its packets took in pending.
RunCounted(S, p, next, m) ==
  /\ Joined(Run(p, next, m)) \in Seq(S)
  /\ Len(Joined(Run(p, next, m))) = Held([s \in RunNums(next, m) |-> p[s]])

\* The last packet of a run adds its bytes to both counts.
LEMMA RunCountedStep ==
  ASSUME NEW S, NEW p, PayloadMap(p), NEW next \in SeqNums, NEW m \in 1..SeqSpace,
         IsRun(S, p, next, m), RunCounted(S, p, next, m - 1)
  PROVE  RunCounted(S, p, next, m)
<1> DEFINE k == Add(next, m - 1)
           x == p[k]
           nums == RunNums(next, m - 1)
           old == [s \in nums |-> p[s]]
           new == [s \in nums \cup {k} |-> p[s]]
<1>a. /\ Run(p, next, m - 1) \in Seq(Seq(S))
      /\ Run(p, next, m) \in Seq(Seq(S))
      /\ Run(p, next, m) = Append(Run(p, next, m - 1), p[Add(next, m - 1)])
  BY SeqSpaceAssumption, RunStep
<1>b. RunNums(next, m) = RunNums(next, m - 1) \cup {Add(next, m - 1)}
  BY RunNumsStep
<1>1. /\ Run(p, next, m - 1) \in Seq(Seq(S))
      /\ Run(p, next, m) = Append(Run(p, next, m - 1), x)
      /\ RunNums(next, m) = nums \cup {k}
      /\ k \notin nums
  BY <1>a, <1>b, RunNumsNew
<1>2. k \in DOMAIN p /\ nums \subseteq DOMAIN p
  <2>1. m \in Nat /\ m - 1 \in 0..(m - 1) /\ \A i \in 0..(m - 1 - 1) : i \in 0..(m - 1)
    BY SeqSpaceAssumption
  <2> QED
    BY <2>1 DEF RunNums, IsRun
<1> HIDE DEF k, nums
<1>3. x \in Seq(S) /\ Len(x) \in Nat
  BY <1>2, LenProperties DEF IsRun
<1>4. Joined(Run(p, next, m)) = Joined(Run(p, next, m - 1)) \o x
  BY <1>1, <1>3, JoinedAppend, Zenon
<1>5. /\ Joined(Run(p, next, m)) \in Seq(S)
      /\ Len(Joined(Run(p, next, m))) = Len(Joined(Run(p, next, m - 1))) + Len(x)
  BY <1>3, <1>4, ConcatProperties DEF RunCounted
<1>6. PayloadMap(old) /\ k \in SeqNums \ DOMAIN old
  BY <1>1, <1>2 DEF PayloadMap
<1>7. new = [s \in DOMAIN old \cup {k} |-> IF s = k THEN x ELSE old[s]]
  BY <1>1
<1>8. Held(new) = Held(old) + Len(x)
  <2> DEFINE q == [s \in DOMAIN old \cup {k} |-> IF s = k THEN x ELSE old[s]]
  <2> HIDE DEF old, new, x
  <2>1. Held(q) = Held(old) + Len(x)
    BY <1>3, <1>6, HeldAdd
  <2> QED
    BY <1>7, <2>1, Zenon
<1> QED
  BY <1>1, <1>5, <1>8, Zenon DEF RunCounted, nums

\* It holds of every run: by the shortest for which it would not.
LEMMA RunBytes ==
  ASSUME NEW S, NEW p, PayloadMap(p), NEW next \in SeqNums, NEW n \in 0..SeqSpace,
         IsRun(S, p, next, n)
  PROVE  RunCounted(S, p, next, n)
<1> DEFINE T == {m \in 0..n : ~RunCounted(S, p, next, m)}
<1>0. n \in 0..n
  BY SeqSpaceAssumption
<1> SUFFICES ASSUME T # {} PROVE FALSE
  BY <1>0, Zenon
<1>1. T \subseteq Nat
  BY SeqSpaceAssumption
<1>2. PICK m \in T : \A k \in T : m <= k
  BY <1>1, LeastElement, Zenon
<1>3. /\ m \in 0..n /\ ~RunCounted(S, p, next, m) /\ n \in Nat /\ n <= SeqSpace
      /\ SeqSpace \in Nat
  BY <1>2, SeqSpaceAssumption
<1>4. CASE m = 0
  <2>1. Run(p, next, 0) = << >> /\ RunNums(next, 0) = {}
    BY DEF Run, RunNums
  <2>2. Held([s \in {} |-> p[s]]) = 0
    <3> DEFINE len == [s \in DOMAIN [t \in {} |-> p[t]] |-> Len([t \in {} |-> p[t]][s])]
    <3>1. DOMAIN len = {}
      OBVIOUS
    <3> HIDE DEF len
    <3>2. Bytes(len) = 0
      BY <3>1, BytesEmpty
    <3> QED
      BY <3>2 DEF Held, len
  <2>3. << >> \in Seq(S) /\ Len(<< >>) = 0
    BY EmptySeq
  <2> QED
    BY <1>3, <1>4, <2>1, <2>2, <2>3, JoinedEmpty, Zenon DEF RunCounted
<1>5. CASE m # 0
  <2>1. m \in 1..SeqSpace /\ m - 1 \in 0..n /\ ~(m <= m - 1)
    BY <1>3, <1>5
  <2>2. IsRun(S, p, next, m)
    BY <1>3 DEF IsRun
  <2>3. RunCounted(S, p, next, m - 1)
    BY <1>2, <2>1
  <2> QED
    BY <1>3, <2>1, <2>2, <2>3, RunCountedStep
<1> QED
  BY <1>4, <1>5
-----------------------------------------------------------------------------
(* The stream that is read.                                                *)

StreamByte == Nat \X Nat

\* The payloads of the first m packets.
Sent(m) == [k \in 1..m |-> Payload(k)]

\* What is kept for later is what was sent, and offset counts the bytes in order.
StreamInv ==
  /\ rb.buf \in Seq(StreamByte) /\ read \in Seq(StreamByte)
  /\ Len(rb.buf) = rb.offset
  /\ \A j \in 1..Packets :
       Add(InitSeqNum, j) \in DOMAIN rb.pending => rb.pending[Add(InitSeqNum, j)] = Payload(j)
  /\ InOrderExactlyOnce

\* A payload is a sequence of bytes.
LEMMA PayloadType ==
  ASSUME NEW k \in 1..Packets
  PROVE  Payload(k) \in Seq(StreamByte)
<1>1. PayloadLen[k] \in Nat /\ k \in Nat
  BY PayloadLenAssumption, PacketsAssumption
<1>2. \A i \in 1..PayloadLen[k] : <<k, i>> \in StreamByte
  BY <1>1 DEF StreamByte
<1> HIDE DEF StreamByte
<1> QED
  BY <1>1, <1>2 DEF Payload

\* Two packets have different numbers.
LEMMA NumbersDiffer ==
  ASSUME NEW j \in 1..Packets, NEW k \in 1..Packets, Add(InitSeqNum, j) = Add(InitSeqNum, k)
  PROVE  j = k
BY InitSeqNumAssumption, PacketsAssumption, SeqSpaceAssumption DEF Add, SeqNums

\* The packets taken before and the run that follows them.
LEMMA SentRun ==
  ASSUME NEW c \in 0..Packets, NEW n \in 0..(Packets - c), NEW run,
         run = [i \in 1..n |-> Payload(c + i)]
  PROVE  /\ Sent(c) \in Seq(Seq(StreamByte)) /\ run \in Seq(Seq(StreamByte))
         /\ Sent(c + n) = Sent(c) \o run
<1> DEFINE U == Seq(StreamByte)
           a == Sent(c)
           b == Sent(c + n)
<1>1. c \in Nat /\ n \in Nat /\ c + n \in Nat /\ Packets \in Nat /\ c + n <= Packets
  BY PacketsAssumption
<1>2. /\ \A i \in 1..(c + n) : Payload(i) \in U
      /\ \A i \in 1..n : c + i \in 1..(c + n)
  <2>1. \A i \in 1..(c + n) : i \in 1..Packets
    BY <1>1
  <2>2. \A i \in 1..(c + n) : Payload(i) \in U
    BY <2>1, PayloadType
  <2> QED
    BY <1>1, <2>2
<1> HIDE DEF U
<1>3. a \in Seq(U) /\ b \in Seq(U) /\ run \in Seq(U) /\ Len(a) = c /\ Len(b) = c + n /\ Len(run) = n
  BY <1>1, <1>2 DEF Sent
<1>4. /\ a \o run \in Seq(U) /\ Len(a \o run) = c + n
      /\ \A i \in 1..(c + n) : (a \o run)[i] = IF i <= c THEN a[i] ELSE run[i - c]
  <2> HIDE DEF a
  <2> QED
    BY <1>3, ConcatProperties
<1>5. \A i \in 1..(c + n) : b[i] = IF i <= c THEN a[i] ELSE run[i - c]
  <2> SUFFICES ASSUME NEW i \in 1..(c + n) PROVE b[i] = IF i <= c THEN a[i] ELSE run[i - c]
    OBVIOUS
  <2>1. CASE i <= c
    BY <1>1, <2>1 DEF Sent
  <2>2. CASE ~(i <= c)
    <3>1. i - c \in 1..n /\ c + (i - c) = i
      BY <1>1, <2>2
    <3> QED
      BY <2>2, <3>1 DEF Sent
  <2> QED
    BY <2>1, <2>2
<1>6. b = a \o run
  <2> HIDE DEF a, b
  <2> QED
    BY <1>3, <1>4, <1>5, SeqEqual
<1> QED
  BY <1>3, <1>6, Zenon DEF U

\* The payload of an accepted packet, and what the loop then moves into buf.
LEMMA DrainStream ==
  ASSUME IInv, NumInv, StreamInv, NEW k \in 1..Packets, NEW q,
         ~WasWritten(rb, Add(InitSeqNum, k)),
         q = [s \in DOMAIN rb.pending \cup {Add(InitSeqNum, k)} |->
                IF s = Add(InitSeqNum, k) THEN Payload(k) ELSE rb.pending[s]],
         rb' = Drain(rb, q), read' = read
  PROVE  StreamInv'
<1> DEFINE c == rb.consumed
           next == Add(AckNum(rb), 1)
           n == RunLength(q, next)
           run == Run(q, next, n)
<1>1. DOMAIN q = DOMAIN rb.pending \cup {Add(InitSeqNum, k)}
  OBVIOUS
<1>2. \A j \in 1..Packets : Add(InitSeqNum, j) \in DOMAIN q => q[Add(InitSeqNum, j)] = Payload(j)
  BY NumbersDiffer DEF StreamInv
<1>3. \A s \in DOMAIN q : \E j \in 1..Packets : s = Add(InitSeqNum, j)
  BY <1>1, PacketsAssumption DEF NumInv, Later
<1>4. \A s \in DOMAIN q : s \in SeqNums /\ q[s] \in Seq(StreamByte)
  <2>1. \A j \in 1..Packets : Add(InitSeqNum, j) \in SeqNums
    BY InitSeqNumAssumption, PacketsAssumption, SeqSpaceAssumption, AddType
  <2> SUFFICES ASSUME NEW s \in DOMAIN q PROVE s \in SeqNums /\ q[s] \in Seq(StreamByte)
    BY Zenon
  <2>2. PICK j \in 1..Packets : s = Add(InitSeqNum, j)
    BY <1>3
  <2>3. q[s] = Payload(j)
    BY <1>2, <2>2
  <2> QED
    BY <2>1, <2>2, <2>3, PayloadType, Zenon
<1>5. PayloadMap(q)
  BY <1>4, LenProperties, ZenonT(30) DEF PayloadMap
<1>6. /\ rb'.consumed = c + n /\ n \in 0..(Packets - c)
      /\ \A i \in 0..(n - 1) : Add(next, i) = Add(InitSeqNum, c + 1 + i)
  BY <1>1, <1>5, DrainNumbers
<1>7. next \in SeqNums /\ c \in 0..Packets /\ c \in Nat /\ Packets \in Nat /\ n \in Nat
  <2>1. AckNum(rb) \in SeqNums
    BY InitSeqNumAssumption, SeqSpaceAssumption, AddType DEF IInv, TypeOK, AckNum, SeqNums
  <2>2. 1 \in 0..SeqSpace
    BY SeqSpaceAssumption
  <2> QED
    BY <1>6, <2>1, <2>2, AddType, PacketsAssumption DEF NumInv
<1>8. n \in 0..SeqSpace /\ \A i \in 0..(n - 1) : Add(next, i) \in DOMAIN q
  BY <1>7, RunLengthIsFirstGap
<1>9. DOMAIN q \cap RunNums(next, n) = RunNums(next, n)
  BY <1>8, Zenon DEF RunNums
<1>10. /\ rb'.buf = rb.buf \o Joined(run)
       /\ rb'.offset = rb.offset + Held([s \in DOMAIN q \cap RunNums(next, n) |-> q[s]])
       /\ rb'.pending = [s \in DOMAIN q \ RunNums(next, n) |-> q[s]]
  <2>1. DOMAIN rb = Fields
    BY DEF IInv, TypeOK, Fields
  <2> QED
    BY <2>1 DEF Drain, Run, RunNums, Fields
<1> HIDE DEF next, n
<1>11. IsRun(StreamByte, q, next, n)
  BY <1>4, <1>7, <1>8, Zenon DEF IsRun
<1>12. /\ Joined(run) \in Seq(StreamByte)
       /\ Len(Joined(run)) = Held([s \in RunNums(next, n) |-> q[s]])
  <2>1. RunCounted(StreamByte, q, next, n)
    BY <1>5, <1>7, <1>8, <1>11, RunBytes, Zenon
  <2> QED
    BY <2>1 DEF RunCounted
<1>13. run = [i \in 1..n |-> Payload(c + i)]
  <2> SUFFICES ASSUME NEW i \in 1..n PROVE q[Add(next, i - 1)] = Payload(c + i)
    BY Zenon DEF Run
  <2>1. i - 1 \in 0..(n - 1) /\ c + 1 + (i - 1) = c + i /\ c + i \in 1..Packets
    BY <1>6, <1>7
  <2> QED
    BY <1>2, <1>6, <1>8, <2>1, Zenon
<1>14. /\ Sent(c) \in Seq(Seq(StreamByte)) /\ run \in Seq(Seq(StreamByte))
       /\ Sent(c + n) = Sent(c) \o run
  BY <1>6, <1>7, <1>13, SentRun, Zenon
<1> HIDE DEF run, c
<1>15. Joined(Sent(c + n)) = Joined(Sent(c)) \o Joined(run)
  BY <1>14, JoinedConcat, Zenon
<1>16. read \in Seq(StreamByte) /\ rb.buf \in Seq(StreamByte) /\ Len(rb.buf) = rb.offset
  BY DEF StreamInv
<1>17. read \o (rb.buf \o Joined(run)) = (read \o rb.buf) \o Joined(run)
  <2> DEFINE a == rb.buf
             f == Joined(run)
  <2>1. a \in Seq(StreamByte) /\ f \in Seq(StreamByte)
    BY <1>12, <1>16
  <2> HIDE DEF a, f
  <2>2. read \o (a \o f) = (read \o a) \o f
    BY <1>16, <2>1, ConcatAssoc, SMTT(30)
  <2> QED
    BY <2>2 DEF a, f
<1>18. InOrderExactlyOnce'
  <2>1. read \o rb.buf = Joined(Sent(c))
    BY DEF StreamInv, InOrderExactlyOnce, Sent, c
  <2>2. read' \o rb'.buf = Joined(Sent(rb'.consumed))
    BY <1>6, <1>10, <1>15, <1>17, <2>1, ZenonT(30)
  <2> QED
    BY <2>2, Zenon DEF InOrderExactlyOnce, Sent, Payload
<1>19. rb'.buf \in Seq(StreamByte) /\ Len(rb'.buf) = rb'.offset
  <2> DEFINE a == rb.buf
             f == Joined(run)
  <2>1. a \in Seq(StreamByte) /\ f \in Seq(StreamByte)
    BY <1>12, <1>16
  <2>2. a \o f \in Seq(StreamByte) /\ Len(a \o f) = Len(a) + Len(f)
    <3> HIDE DEF a, f
    <3> QED
      BY <2>1, ConcatProperties
  <2>3. rb'.offset = rb.offset + Held([s \in RunNums(next, n) |-> q[s]])
    BY <1>9, <1>10, Zenon
  <2> QED
    BY <1>10, <1>12, <1>16, <2>2, <2>3, Zenon
<1>20. \A j \in 1..Packets : Add(InitSeqNum, j) \in DOMAIN rb'.pending =>
         rb'.pending[Add(InitSeqNum, j)] = Payload(j)
  BY <1>2, <1>10, Zenon
<1> QED
  BY <1>16, <1>18, <1>19, <1>20, Zenon DEF StreamInv

\* A read moves bytes from the front of buf to the end of what was read.
LEMMA ReadStream ==
  ASSUME IInv, StreamInv, NEW n \in ReadSizes, ReadNext(n)
  PROVE  StreamInv'
<1> DEFINE k == ReadLen(rb, n)
<1>1. /\ rb'.offset = rb.offset - k /\ rb'.pending = rb.pending /\ rb'.consumed = rb.consumed
      /\ rb'.buf = From(rb.buf, k) /\ read' = read \o SubSeq(rb.buf, 1, k)
  BY Zenon DEF ReadNext, Read, ReadBytes, IInv, TypeOK, From
<1>2. k \in 0..rb.offset
  BY ReadSizesAssumption DEF ReadLen, IInv, TypeOK
<1> HIDE DEF k
<1>3. /\ rb.buf \in Seq(StreamByte) /\ read \in Seq(StreamByte) /\ Len(rb.buf) = rb.offset
      /\ k \in 0..Len(rb.buf) /\ Len(rb.buf) \in Nat
  BY <1>2, LenProperties DEF StreamInv
<1>4. From(rb.buf, k) \in Seq(StreamByte) /\ Len(From(rb.buf, k)) = Len(rb.buf) - k
  BY <1>3, FromProperties, Zenon
<1>5. SubSeq(rb.buf, 1, k) \in Seq(StreamByte)
  BY <1>3, PrefixProperties
<1>6. SubSeq(rb.buf, 1, k) \o From(rb.buf, k) = rb.buf
  BY <1>3, PrefixFrom, Zenon
<1>7. (read \o SubSeq(rb.buf, 1, k)) \o From(rb.buf, k) = read \o rb.buf
  <2> DEFINE a == SubSeq(rb.buf, 1, k)
             f == From(rb.buf, k)
  <2>1. a \in Seq(StreamByte) /\ f \in Seq(StreamByte)
    BY <1>4, <1>5
  <2> HIDE DEF a, f
  <2>2. (read \o a) \o f = read \o (a \o f)
    BY <1>3, <2>1, ConcatAssoc, SMTT(30)
  <2> QED
    BY <1>6, <2>2, Zenon DEF a, f
<1>8. InOrderExactlyOnce'
  BY <1>1, <1>7, Zenon DEF StreamInv, InOrderExactlyOnce, Payload
<1>9. read' \in Seq(StreamByte)
  BY <1>1, <1>3, <1>5, ConcatProperties
<1> QED
  BY <1>1, <1>3, <1>4, <1>8, <1>9 DEF StreamInv

\* Whatever the order and the copies in which packets arrive, the bytes read and
\* the bytes ready to be read are the sender's, in order, each once.
THEOREM StreamInOrder == Spec => []InOrderExactlyOnce
<1> DEFINE J == IInv /\ NumInv /\ StreamInv
<1>1. Init => J
  <2> SUFFICES ASSUME Init PROVE StreamInv
    BY InitNumbers
  <2>1. rb = newReceiveBuffer(InitSeqNum) /\ read = << >>
    BY DEF Init
  <2>3. Joined([k \in 1..0 |-> Payload(k)]) = << >>
    <3>1. [k \in 1..0 |-> Payload(k)] = << >>
      OBVIOUS
    <3> QED
      BY <3>1, JoinedEmpty
  <2>4. << >> \in Seq(StreamByte) /\ Len(<< >>) = 0 /\ << >> \o << >> = << >>
    OBVIOUS
  <2> QED
    BY <2>1, <2>3, <2>4 DEF newReceiveBuffer, StreamInv, InOrderExactlyOnce
<1>2. J /\ [Next]_vars => J'
  <2> SUFFICES ASSUME IInv, NumInv, StreamInv, [Next]_vars PROVE J'
    OBVIOUS
  <2>1. CASE UNCHANGED vars
    BY <2>1 DEF vars, IInv, NumInv, TypeOK, CapacityRespected, DrainComplete, StreamInv,
                InOrderExactlyOnce
  <2>a. IInv' /\ NumInv'
    BY StepNumbers
  <2>2. ASSUME NEW k \in 1..Packets, Receive(k) PROVE J'
    <3>2. read' = read
      BY <2>2 DEF Receive
    <3>3. CASE rb' = rb
      BY <2>a, <3>2, <3>3 DEF StreamInv, InOrderExactlyOnce
    <3>4. CASE rb' # rb
      <4> DEFINE q == [s \in DOMAIN rb.pending \cup {Add(InitSeqNum, k)} |->
                         IF s = Add(InitSeqNum, k) THEN Payload(k) ELSE rb.pending[s]]
      <4>1. ~WasWritten(rb, Add(InitSeqNum, k)) /\ rb' = Drain(rb, q)
        BY <2>2, <3>4 DEF Receive, Write
      <4>2. StreamInv'
        BY <3>2, <4>1, DrainStream
      <4> QED
        BY <2>a, <4>2
    <3> QED
      BY <3>3, <3>4
  <2>3. ASSUME NEW n \in ReadSizes, ReadNext(n) PROVE J'
    BY <2>a, <2>3, ReadStream
  <2> QED
    BY <2>1, <2>2, <2>3 DEF Next
<1>3. J => InOrderExactlyOnce
  BY DEF StreamInv
<1> QED
  BY <1>1, <1>2, <1>3, PTL DEF Spec
=============================================================================
