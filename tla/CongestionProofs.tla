-------------------------- MODULE CongestionProofs --------------------------
(***************************************************************************)
(* What each operation of the congestion controller does to a controller   *)
(* whose books are in order, and that the books are in order in every      *)
(* behaviour of CongestionSpec and of EstimatorsSpec: for every packet     *)
(* size, window increment and timeout range.  The base delay of            *)
(* EstimatorsSpec is the least of the recent delays.                       *)
(***************************************************************************)
EXTENDS EstimatorsSpec, DataLemmas

-----------------------------------------------------------------------------
(* The clamps of the window and of the timeout.                            *)

\* applyMaxWindowSizeAdjustment keeps the window at its least size or above.
LEMMA AdjustmentFloor ==
  ASSUME NEW max \in Nat, max >= minWindowSizeBytes, NEW adj \in Int, NEW calls \in Nat
  PROVE  /\ applyMaxWindowSizeAdjustment(max, adj, calls) \in Nat
         /\ applyMaxWindowSizeAdjustment(max, adj, calls) >= minWindowSizeBytes
<1>1. calls * MaxWindowSizeIncBytes \in Nat
  BY ControllerAssumption
<1>2. minWindowSizeBytes \in Nat
  BY ControllerAssumption DEF minWindowSizeBytes
<1> QED
  BY <1>1, <1>2 DEF applyMaxWindowSizeAdjustment

\* applyTimeoutAdjustment lands between the smallest and the largest timeout.
LEMMA TimeoutClamp ==
  ASSUME NEW estimate \in Nat
  PROVE  /\ applyTimeoutAdjustment(estimate) \in Nat
         /\ MinTimeout <= applyTimeoutAdjustment(estimate)
         /\ applyTimeoutAdjustment(estimate) <= MaxTimeout
BY ControllerAssumption DEF applyTimeoutAdjustment

-----------------------------------------------------------------------------
(* The controller's invariant, as a predicate of its record, and its       *)
(* preservation by every operation.                                        *)

CtrlFields == {"timeout", "windowSizeBytes", "maxWindowSizeBytes", "transmissions"}

CtrlType(c) ==
  /\ DOMAIN c = CtrlFields
  /\ c.timeout \in Nat /\ c.windowSizeBytes \in Nat /\ c.maxWindowSizeBytes \in Nat
  /\ TxMap(c.transmissions)

\* The count is exact, the window has its floor, the timeout its range.
CtrlInv(c) ==
  /\ CtrlType(c)
  /\ c.windowSizeBytes = InFlight(c.transmissions, DOMAIN c.transmissions)
  /\ c.maxWindowSizeBytes >= minWindowSizeBytes
  /\ MinTimeout <= c.timeout /\ c.timeout <= MaxTimeout

\* newDefaultController establishes the controller invariant.
LEMMA NewControllerInv == CtrlInv(newDefaultController)
<1> DEFINE c == newDefaultController
<1>1. /\ DOMAIN c = CtrlFields /\ c.timeout = InitialTimeout /\ c.windowSizeBytes = 0
      /\ c.maxWindowSizeBytes = minWindowSizeBytes /\ c.transmissions = << >>
  BY DEF newDefaultController, CtrlFields, minWindowSizeBytes
<1>2. DOMAIN c.transmissions = {}
  BY <1>1
<1>3. TxMap(c.transmissions)
  BY <1>1, <1>2, FS_EmptySet DEF TxMap
<1>4. InFlight(c.transmissions, DOMAIN c.transmissions) = 0
  <2>1. DOMAIN Family(c.transmissions, DOMAIN c.transmissions) = {}
    BY <1>2 DEF Family
  <2>2. Bytes(Family(c.transmissions, DOMAIN c.transmissions)) = 0
    BY <2>1, BytesEmpty
  <2> QED
    BY <2>2, <1>3, FamilyLengths
<1>5. minWindowSizeBytes \in Nat
  BY ControllerAssumption DEF minWindowSizeBytes
<1> HIDE DEF c
<1>6. CtrlInv(c)
  BY <1>1, <1>3, <1>4, <1>5, ControllerAssumption DEF CtrlInv, CtrlType
<1> QED
  BY <1>6 DEF c

\* A first transmission that the controller admits.
LEMMA TransmitInv ==
  ASSUME NEW c, CtrlInv(c), NEW s, s \notin DOMAIN c.transmissions, NEW len \in Nat,
         TransmitError(c, s, TRUE, len) = "none"
  PROVE  LET d == OnTransmit(c, s, TRUE, len)
         IN  /\ CtrlInv(d)
             /\ DOMAIN d.transmissions = DOMAIN c.transmissions \cup {s}
             /\ d.windowSizeBytes <= d.maxWindowSizeBytes
<1> DEFINE d == OnTransmit(c, s, TRUE, len)
           tx == c.transmissions
           t == d.transmissions
<1>1. /\ DOMAIN d = CtrlFields /\ d.timeout = c.timeout
      /\ d.maxWindowSizeBytes = c.maxWindowSizeBytes
      /\ d.windowSizeBytes = c.windowSizeBytes + len
      /\ t = [u \in DOMAIN tx \cup {s} |->
                IF u = s THEN [SizeBytes |-> len, NumTransmissions |-> 1, Acked |-> FALSE]
                         ELSE tx[u]]
  BY Zenon DEF OnTransmit, CtrlInv, CtrlType, CtrlFields
<1>2. c.windowSizeBytes + len <= c.maxWindowSizeBytes
  BY DEF TransmitError
<1>3. TxMap(tx) /\ c.windowSizeBytes \in Nat /\ c.maxWindowSizeBytes \in Nat /\ c.timeout \in Nat
  BY DEF CtrlInv, CtrlType
<1> HIDE DEF d
<1>4. /\ DOMAIN t = DOMAIN tx \cup {s} /\ \A u \in DOMAIN tx : t[u] = tx[u]
      /\ t[s].SizeBytes = len /\ t[s].Acked = FALSE /\ t \in [DOMAIN t -> packetRecord]
  BY <1>1, <1>3 DEF TxMap, packetRecord
<1>5. InFlight(t, DOMAIN t) = InFlight(tx, DOMAIN tx) + len
  <2>1. s \notin DOMAIN tx
    BY DEF tx
  <2> HIDE DEF t, tx
  <2>2. OneMore(t, tx, s, len)
    BY <1>3, <1>4, <2>1 DEF OneMore
  <2> QED
    BY <2>2, InFlightAdd
<1>6. TxMap(t)
  BY <1>3, <1>4, FS_AddElement DEF TxMap
<1>7. CtrlInv(d)
  BY <1>1, <1>3, <1>5, <1>6 DEF CtrlInv, CtrlType
<1> QED
  BY <1>1, <1>2, <1>4, <1>7, Zenon DEF d

\* OnTransmit of a retransmission keeps the controller invariant.
LEMMA RetransmitInv ==
  ASSUME NEW c, CtrlInv(c), NEW s \in DOMAIN c.transmissions, NEW len
  PROVE  LET d == OnTransmit(c, s, FALSE, len)
         IN  /\ CtrlInv(d)
             /\ DOMAIN d.transmissions = DOMAIN c.transmissions
             /\ d.windowSizeBytes = c.windowSizeBytes
             /\ TransmitError(c, s, FALSE, len) = "none"
<1> DEFINE d == OnTransmit(c, s, FALSE, len)
           tx == c.transmissions
           t == d.transmissions
<1>1. TransmitError(c, s, FALSE, len) = "none"
  BY DEF TransmitError
<1>2. TxMap(tx)
  BY DEF CtrlInv, CtrlType
<1>3. /\ DOMAIN d = CtrlFields /\ d.timeout = c.timeout
      /\ d.maxWindowSizeBytes = c.maxWindowSizeBytes
      /\ d.windowSizeBytes = c.windowSizeBytes
      /\ t = [tx EXCEPT ![s].NumTransmissions = 2]
  BY <1>1, Zenon DEF OnTransmit, CtrlInv, CtrlType, CtrlFields
<1> HIDE DEF d
<1>4. /\ DOMAIN t = DOMAIN tx /\ t \in [DOMAIN t -> packetRecord]
      /\ \A u \in DOMAIN tx : t[u].SizeBytes = tx[u].SizeBytes /\ t[u].Acked = tx[u].Acked
  BY <1>2, <1>3 DEF TxMap, packetRecord
<1>5. InFlight(t, DOMAIN t) = InFlight(tx, DOMAIN tx)
  BY <1>4, InFlightSame
<1>6. TxMap(t)
  BY <1>2, <1>4 DEF TxMap
<1>7. CtrlInv(d)
  BY <1>3, <1>5, <1>6 DEF CtrlInv, CtrlType
<1> QED
  BY <1>1, <1>3, <1>4, <1>7, Zenon DEF d

\* Marking a record acknowledged changes nothing else in it.
LEMMA AckedRecord ==
  ASSUME NEW r \in packetRecord
  PROVE  LET a == [r EXCEPT !.Acked = TRUE]
         IN  a \in packetRecord /\ a.SizeBytes = r.SizeBytes /\ a.Acked = TRUE
BY Zenon DEF packetRecord

Ackable(c, S, adj, estimate) ==
  CtrlInv(c) /\ S \subseteq DOMAIN c.transmissions /\ adj \in Int /\ estimate \in Nat

\* OnAck keeps the controller invariant.
LEMMA AckInv ==
  ASSUME NEW c, NEW S, NEW adj, NEW estimate, Ackable(c, S, adj, estimate)
  PROVE  LET d == OnAck(c, S, adj, estimate)
         IN  /\ CtrlInv(d)
             /\ DOMAIN d.transmissions = DOMAIN c.transmissions
             /\ d.windowSizeBytes <= c.windowSizeBytes
             /\ \A u \in DOMAIN c.transmissions :
                  d.transmissions[u].Acked = (c.transmissions[u].Acked \/ u \in S)
<1> USE DEF Ackable
<1> DEFINE d == OnAck(c, S, adj, estimate)
           tx == c.transmissions
           t == d.transmissions
           newly == {u \in S : ~tx[u].Acked}
<1>1. /\ TxMap(tx) /\ c.windowSizeBytes \in Nat /\ c.maxWindowSizeBytes \in Nat
      /\ c.timeout \in Nat /\ DOMAIN c = CtrlFields
  BY DEF CtrlInv, CtrlType
<1>2. /\ DOMAIN d = CtrlFields
      /\ t = [u \in DOMAIN tx |-> IF u \in newly THEN [tx[u] EXCEPT !.Acked = TRUE] ELSE tx[u]]
      /\ d.windowSizeBytes = Uint32Minus(c.windowSizeBytes, InFlight(tx, S))
  BY <1>1 DEF OnAck, CtrlFields
<1>3. /\ \/ d.maxWindowSizeBytes = c.maxWindowSizeBytes
         \/ d.maxWindowSizeBytes =
              applyMaxWindowSizeAdjustment(c.maxWindowSizeBytes, adj, Cardinality(newly))
      /\ d.timeout = c.timeout \/ d.timeout = applyTimeoutAdjustment(estimate)
  BY <1>1 DEF OnAck, CtrlFields
<1> HIDE DEF d
<1>4. DOMAIN t = DOMAIN tx /\ t \in [DOMAIN t -> packetRecord]
  <2>1. \A u \in DOMAIN tx : /\ tx[u] \in packetRecord
                              /\ [tx[u] EXCEPT !.Acked = TRUE] \in packetRecord
    BY <1>1, AckedRecord DEF TxMap
  <2> QED
    BY <1>2, <2>1
<1>5. ASSUME NEW u \in DOMAIN tx
      PROVE  t[u].SizeBytes = tx[u].SizeBytes /\ t[u].Acked = (tx[u].Acked \/ u \in S)
  <2>1. tx[u] \in packetRecord
    BY <1>1 DEF TxMap
  <2>2. CASE u \in newly
    <3>1. t[u] = [tx[u] EXCEPT !.Acked = TRUE] /\ u \in S
      BY <1>2, <2>2
    <3> QED
      BY <2>1, <3>1, AckedRecord, Zenon
  <2>3. CASE u \notin newly
    BY <1>2, <2>1, <2>3, Zenon DEF packetRecord
  <2> QED
    BY <2>2, <2>3
<1>6. InFlight(tx, DOMAIN tx) = InFlight(tx, S) + InFlight(t, DOMAIN t)
  BY <1>1, <1>4, <1>5, InFlightAck
<1>7. TxMap(t)
  BY <1>1, <1>4 DEF TxMap
<1>8. InFlight(tx, S) \in Nat /\ InFlight(t, DOMAIN t) \in Nat
  BY <1>1, <1>7, FamilyLengths
<1>9. d.windowSizeBytes = InFlight(t, DOMAIN t) /\ d.windowSizeBytes <= c.windowSizeBytes
  BY <1>1, <1>2, <1>6, <1>8 DEF Uint32Minus, CtrlInv
<1>10. Cardinality(newly) \in Nat
  <2>1. newly \in SUBSET DOMAIN tx
    OBVIOUS
  <2> QED
    BY <1>1, <2>1, FS_Subset, FS_CardinalityType DEF TxMap
<1>11. d.maxWindowSizeBytes \in Nat /\ d.maxWindowSizeBytes >= minWindowSizeBytes
  BY <1>1, <1>3, <1>10, AdjustmentFloor, Zenon DEF CtrlInv
<1>12. d.timeout \in Nat /\ MinTimeout <= d.timeout /\ d.timeout <= MaxTimeout
  BY <1>1, <1>3, TimeoutClamp DEF CtrlInv
<1>13. CtrlInv(d)
  BY <1>2, <1>7, <1>8, <1>9, <1>11, <1>12 DEF CtrlInv, CtrlType
<1> QED
  BY <1>4, <1>5, <1>9, <1>13 DEF d

\* Losses and timeouts narrow the window, no further than the floor, and
\* leave the count alone.
LEMMA LostInv ==
  ASSUME NEW c, CtrlInv(c), NEW s
  PROVE  LET d == OnLostPacket(c, s, TRUE)
         IN  /\ CtrlInv(d)
             /\ d.transmissions = c.transmissions
             /\ d.windowSizeBytes = c.windowSizeBytes
<1> DEFINE d == OnLostPacket(c, s, TRUE)
           half == c.maxWindowSizeBytes \div 2
<1>1. /\ DOMAIN c = CtrlFields /\ c.maxWindowSizeBytes \in Nat /\ minWindowSizeBytes \in Nat
      /\ half \in Nat
  BY ControllerAssumption DEF CtrlInv, CtrlType, minWindowSizeBytes
<1>2. /\ DOMAIN d = CtrlFields
      /\ d.transmissions = c.transmissions
      /\ d.windowSizeBytes = c.windowSizeBytes
      /\ d.timeout = c.timeout
      /\ d.maxWindowSizeBytes =
           (IF half < minWindowSizeBytes THEN minWindowSizeBytes ELSE half)
  BY <1>1 DEF OnLostPacket, lostWindow, CtrlFields
<1> HIDE DEF d, half
<1>3. CtrlInv(d)
  BY <1>1, <1>2 DEF CtrlInv, CtrlType
<1> QED
  BY <1>2, <1>3, Zenon DEF d

\* OnTimeout keeps the controller invariant.
LEMMA TimeoutInv ==
  ASSUME NEW c, CtrlInv(c)
  PROVE  LET d == OnTimeout(c)
         IN  /\ CtrlInv(d)
             /\ d.transmissions = c.transmissions
             /\ d.windowSizeBytes = c.windowSizeBytes
<1> DEFINE d == OnTimeout(c)
<1>1. DOMAIN c = CtrlFields /\ c.timeout \in Nat /\ minWindowSizeBytes \in Nat
  BY ControllerAssumption DEF CtrlInv, CtrlType, minWindowSizeBytes
<1>2. /\ DOMAIN d = CtrlFields
      /\ d.transmissions = c.transmissions
      /\ d.windowSizeBytes = c.windowSizeBytes
      /\ d.maxWindowSizeBytes = minWindowSizeBytes
      /\ d.timeout = (IF c.timeout * 2 < MaxTimeout THEN c.timeout * 2 ELSE MaxTimeout)
  BY <1>1 DEF OnTimeout, CtrlFields
<1> HIDE DEF d
<1>3. d.timeout \in Nat /\ MinTimeout <= d.timeout /\ d.timeout <= MaxTimeout
  BY <1>1, <1>2, ControllerAssumption DEF CtrlInv
<1>4. CtrlInv(d)
  BY <1>1, <1>2, <1>3 DEF CtrlInv, CtrlType
<1> QED
  BY <1>2, <1>4 DEF d

-----------------------------------------------------------------------------
(* The specification.                                                      *)

\* Until OnTransmit has failed the controller's invariant holds; afterwards
\* only its type and bounds matter, since nothing runs any more.
IInv ==
  /\ TypeOK
  /\ ~panicked => CtrlInv(cc)
  /\ cc.maxWindowSizeBytes >= minWindowSizeBytes
  /\ TimeoutBounded

\* The packet numbers of the environment keep the transmission map finite.
LEMMA FiniteTransmissions == TypeOK => CtrlType(cc)
BY EnvironmentAssumption, FS_Subset DEF TypeOK, CtrlType, CtrlFields, TxMap

\* A step after which the controller's invariant holds and no panic happened.
LEMMA GoodStep ==
  ASSUME CtrlInv(cc'), DOMAIN cc'.transmissions \subseteq PacketNums, panicked' = FALSE
  PROVE  IInv'
BY Zenon DEF IInv, TypeOK, CtrlInv, CtrlType, CtrlFields, TxMap, TimeoutBounded

\* A first transmission (OnTransmit) keeps the invariant and is admitted only within the window.
LEMMA TransmitStep ==
  ASSUME IInv, NEW s \in PacketNums, NEW len \in Sizes, Transmit(s, len)
  PROVE  IInv' /\ (cc'.windowSizeBytes > cc.windowSizeBytes =>
                     cc'.windowSizeBytes <= cc'.maxWindowSizeBytes)
<1> DEFINE d == OnTransmit(cc, s, TRUE, len)
<1>1. /\ CtrlInv(cc) /\ s \notin DOMAIN cc.transmissions /\ len \in Nat /\ cc' = d
      /\ DOMAIN cc.transmissions \subseteq PacketNums
      /\ panicked' = (TransmitError(cc, s, TRUE, len) # "none")
  BY EnvironmentAssumption DEF IInv, TypeOK, Transmit
<1>2. CASE TransmitError(cc, s, TRUE, len) = "none"
  <2>1. /\ CtrlInv(d) /\ DOMAIN d.transmissions = DOMAIN cc.transmissions \cup {s}
        /\ d.windowSizeBytes <= d.maxWindowSizeBytes
    BY <1>1, <1>2, TransmitInv, Zenon
  <2>2. CtrlInv(cc') /\ DOMAIN cc'.transmissions \subseteq PacketNums /\ panicked' = FALSE
    BY <1>1, <1>2, <2>1, Zenon
  <2> QED
    BY <1>1, <2>1, <2>2, GoodStep, Zenon
<1>3. CASE TransmitError(cc, s, TRUE, len) # "none"
  <2>1. TransmitError(cc, s, TRUE, len) = "InsufficientWindowSize"
    BY <1>1, <1>3 DEF TransmitError
  <2>2. /\ DOMAIN cc' = CtrlFields /\ cc'.timeout = cc.timeout
        /\ cc'.maxWindowSizeBytes = cc.maxWindowSizeBytes
        /\ cc'.windowSizeBytes = cc.windowSizeBytes
        /\ cc'.transmissions =
             [u \in DOMAIN cc.transmissions \cup {s} |->
                IF u = s THEN [SizeBytes |-> len, NumTransmissions |-> 1, Acked |-> FALSE]
                         ELSE cc.transmissions[u]]
    BY <1>1, <2>1, Zenon DEF OnTransmit, CtrlInv, CtrlType, CtrlFields
  <2>3. CtrlType(cc)
    BY <1>1 DEF CtrlInv
  <2>4. /\ DOMAIN cc'.transmissions \subseteq PacketNums
        /\ cc'.transmissions \in [DOMAIN cc'.transmissions -> packetRecord]
    <3> DEFINE tx == cc.transmissions
               new == [SizeBytes |-> len, NumTransmissions |-> 1, Acked |-> FALSE]
    <3>1. new \in packetRecord
      BY <1>1 DEF packetRecord
    <3>2. tx \in [DOMAIN tx -> packetRecord] /\ DOMAIN tx \subseteq PacketNums
      BY <1>1, <2>3 DEF CtrlType, TxMap
    <3>3. cc'.transmissions = [u \in DOMAIN tx \cup {s} |-> IF u = s THEN new ELSE tx[u]]
      BY <2>2
    <3> HIDE DEF tx, new
    <3> QED
      BY <3>1, <3>2, <3>3
  <2>5. panicked' = TRUE
    BY <1>1, <1>3, Zenon
  <2>6. TypeOK'
    BY <2>2, <2>3, <2>4, <2>5, Zenon DEF TypeOK, CtrlType, CtrlFields
  <2>7. cc'.maxWindowSizeBytes >= minWindowSizeBytes /\ TimeoutBounded'
    BY <2>2 DEF IInv, TimeoutBounded
  <2>8. ~(cc'.windowSizeBytes > cc.windowSizeBytes)
    BY <2>2, <2>3 DEF CtrlType
  <2> QED
    BY <2>5, <2>6, <2>7, <2>8 DEF IInv, minWindowSizeBytes
<1> QED
  BY <1>2, <1>3, Zenon

\* A retransmission (OnTransmit of a known number) adds nothing to the window in use.
LEMMA RetransmitStep ==
  ASSUME IInv, NEW s \in PacketNums, Retransmit(s)
  PROVE  IInv' /\ cc'.windowSizeBytes = cc.windowSizeBytes
<1> DEFINE len == cc.transmissions[s].SizeBytes
           d == OnTransmit(cc, s, FALSE, len)
<1>1. /\ CtrlInv(cc) /\ s \in DOMAIN cc.transmissions /\ cc' = d
      /\ DOMAIN cc.transmissions \subseteq PacketNums
      /\ panicked' = (TransmitError(cc, s, FALSE, len) # "none")
  BY DEF IInv, TypeOK, Retransmit
<1>2. /\ CtrlInv(d) /\ DOMAIN d.transmissions = DOMAIN cc.transmissions
      /\ d.windowSizeBytes = cc.windowSizeBytes
      /\ TransmitError(cc, s, FALSE, len) = "none"
  BY <1>1, RetransmitInv, Zenon
<1>3. CtrlInv(cc') /\ DOMAIN cc'.transmissions \subseteq PacketNums /\ panicked' = FALSE
  BY <1>1, <1>2, Zenon
<1> QED
  BY <1>1, <1>2, <1>3, GoodStep, Zenon

\* An acknowledgement (OnAck) keeps the invariant and never adds to the window in use.
LEMMA AckStep ==
  ASSUME IInv, NEW s \in PacketNums, NEW delay \in Nat, NEW base \in Nat,
         NEW estimate \in Nat, Ack(s, delay, base, estimate)
  PROVE  IInv' /\ cc'.windowSizeBytes <= cc.windowSizeBytes
<1>1. /\ CtrlInv(cc) /\ {s} \subseteq DOMAIN cc.transmissions /\ estimate \in Nat
      /\ DOMAIN cc.transmissions \subseteq PacketNums /\ panicked' = FALSE
      /\ s \in DOMAIN cc.transmissions
  BY DEF IInv, TypeOK, Ack
<1> DEFINE size == cc.transmissions[s].SizeBytes
<1>2. PICK adj \in computeMaxWindowSizeAdjustment(cc, base, delay, size) :
         cc' = OnAck(cc, {s}, adj, estimate)
  BY DEF Ack
<1>3. adj \in Int
  <2>1. /\ size \in Nat /\ cc.windowSizeBytes \in Nat /\ cc.maxWindowSizeBytes \in Nat
        /\ MaxWindowSizeIncBytes \in Nat /\ TargetDelayMicros \in Nat \ {0}
    BY <1>1, ControllerAssumption DEF CtrlInv, CtrlType, TxMap, packetRecord
  <2>2. CASE cc.windowSizeBytes = 0
    BY <1>2, <2>1, <2>2 DEF computeMaxWindowSizeAdjustment
  <2>3. CASE cc.windowSizeBytes # 0
    <3> DEFINE num == MaxWindowSizeIncBytes * (TargetDelayMicros - (delay - base)) * size
               den == TargetDelayMicros * cc.windowSizeBytes
    <3>1. num \in Int
      BY <2>1
    <3>2. den \in Nat /\ den > 0
      BY <2>1, <2>3
    <3>3. adj = Trunc(num, den)
      BY <1>2, <2>3 DEF computeMaxWindowSizeAdjustment
    <3> HIDE DEF num, den
    <3> QED
      BY <3>1, <3>2, <3>3 DEF Trunc
  <2> QED
    BY <2>2, <2>3
<1> DEFINE S == {s}
           d == OnAck(cc, S, adj, estimate)
<1> HIDE DEF S
<1>4. /\ CtrlInv(d) /\ DOMAIN d.transmissions = DOMAIN cc.transmissions
      /\ d.windowSizeBytes <= cc.windowSizeBytes
  <2>1. Ackable(cc, S, adj, estimate)
    BY <1>1, <1>3 DEF Ackable, S
  <2> QED
    BY <2>1, AckInv
<1>5. cc' = d
  BY <1>2 DEF S
<1>6. CtrlInv(cc') /\ DOMAIN cc'.transmissions \subseteq PacketNums
  BY <1>1, <1>4, <1>5
<1> QED
  BY <1>1, <1>4, <1>5, <1>6, GoodStep, Zenon

\* OnLostPacket and OnTimeout keep the invariant and leave the window in use alone.
LEMMA LossStep ==
  ASSUME IInv, Timeout \/ \E s \in PacketNums : Lost(s)
  PROVE  IInv' /\ cc'.windowSizeBytes = cc.windowSizeBytes
<1>1. CtrlInv(cc) /\ DOMAIN cc.transmissions \subseteq PacketNums /\ panicked' = FALSE
  BY Zenon DEF IInv, TypeOK, Timeout, Lost
<1>2. /\ CtrlInv(cc') /\ cc'.transmissions = cc.transmissions
      /\ cc'.windowSizeBytes = cc.windowSizeBytes
  <2>1. CASE Timeout
    BY <1>1, <2>1, TimeoutInv DEF Timeout
  <2>2. ASSUME NEW s \in PacketNums, Lost(s)
        PROVE  /\ CtrlInv(cc') /\ cc'.transmissions = cc.transmissions
               /\ cc'.windowSizeBytes = cc.windowSizeBytes
    BY <1>1, <2>2, LostInv, Zenon DEF Lost
  <2> QED
    BY <2>1, <2>2
<1> QED
  BY <1>1, <1>2, GoodStep, Zenon

\* A fresh controller satisfies the invariant.
LEMMA InitIInv == Init => IInv
<1> SUFFICES ASSUME Init PROVE IInv
  OBVIOUS
<1>1. CtrlInv(cc) /\ panicked = FALSE
  BY NewControllerInv DEF Init
<1>2. DOMAIN cc.transmissions \subseteq PacketNums
  BY DEF Init, newDefaultController
<1> QED
  BY <1>1, <1>2, Zenon DEF IInv, TypeOK, CtrlInv, CtrlType, CtrlFields, TxMap, TimeoutBounded

\* The action part of AdmissionRespected.
Admission ==
  cc'.windowSizeBytes > cc.windowSizeBytes => cc'.windowSizeBytes <= cc'.maxWindowSizeBytes

\* An acknowledgement respects it, whatever the estimators say.
LEMMA AckAdmission ==
  ASSUME IInv, NEW s \in PacketNums, NEW delay \in Nat, NEW base \in Nat,
         NEW estimate \in Nat, Ack(s, delay, base, estimate)
  PROVE  IInv' /\ Admission
<1>1. IInv' /\ cc'.windowSizeBytes <= cc.windowSizeBytes
  BY AckStep
<1>2. cc.windowSizeBytes \in Nat /\ cc'.windowSizeBytes \in Nat
  BY <1>1 DEF IInv, TypeOK
<1> QED
  BY <1>1, <1>2 DEF Admission

\* Every step keeps the invariant and respects the admission rule.
LEMMA NextStep ==
  ASSUME IInv, [Next]_vars
  PROVE  IInv' /\ [Admission]_vars
<1>0. cc.windowSizeBytes \in Nat
  BY DEF IInv, TypeOK
<1>1. CASE UNCHANGED vars
  BY <1>1 DEF vars, IInv, TypeOK, CtrlInv, CtrlType, TimeoutBounded
<1>2. ASSUME NEW s \in PacketNums, NEW len \in Sizes, Transmit(s, len)
      PROVE  IInv' /\ Admission
  BY <1>2, TransmitStep DEF Admission
<1>3. ASSUME NEW s \in PacketNums, Retransmit(s)
      PROVE  IInv' /\ Admission
  BY <1>0, <1>3, RetransmitStep DEF Admission
<1>4. ASSUME NEW s \in PacketNums, NEW delay \in Delays, NEW base \in Delays,
             NEW estimate \in Estimates, Ack(s, delay, base, estimate)
      PROVE  IInv' /\ Admission
  BY <1>4, AckAdmission, EnvironmentAssumption
<1>5. ASSUME Timeout \/ \E s \in PacketNums : Lost(s)
      PROVE  IInv' /\ Admission
  BY <1>0, <1>5, LossStep DEF Admission
<1> QED
  BY <1>1, <1>2, <1>3, <1>4, <1>5 DEF Next

\* What the invariant says of the properties.
LEMMA IInvIsEnough == IInv => TypeOK /\ WindowIsInFlight /\ IdleSenderCanSend /\ TimeoutBounded
<1> SUFFICES ASSUME IInv PROVE WindowIsInFlight /\ IdleSenderCanSend
  BY DEF IInv
<1>1. WindowIsInFlight
  BY DEF IInv, CtrlInv, WindowIsInFlight
<1>2. IdleSenderCanSend
  BY ControllerAssumption
     DEF IInv, TypeOK, IdleSenderCanSend, BytesAvailableInWindow, minWindowSizeBytes
<1> QED
  BY <1>1, <1>2

\* For every configuration: windowSizeBytes is exactly the bytes in flight, an
\* idle sender may always send a full packet, the timeout keeps its range.
THEOREM WindowAccounting ==
  Spec => [](TypeOK /\ WindowIsInFlight /\ IdleSenderCanSend /\ TimeoutBounded)
<1>1. IInv /\ [Next]_vars => IInv'
  BY NextStep
<1> QED
  BY <1>1, IInvIsEnough, InitIInv, PTL DEF Spec

\* In particular no run of losses and timeouts starves a sender that has nothing
\* in flight: BytesAvailableInWindow leaves it a full packet.
THEOREM WindowNeverStarves == Spec => []IdleSenderCanSend
BY WindowAccounting, PTL

\* For every configuration: bytes only go in flight within the window.
THEOREM AdmissionTheorem == Spec => AdmissionRespected
<1>1. IInv /\ [Next]_vars => IInv' /\ [Admission]_vars
  BY NextStep
<1>2. Spec => [][Admission]_vars
  BY <1>1, InitIInv, PTL DEF Spec
<1> QED
  BY <1>2 DEF AdmissionRespected, Admission

-----------------------------------------------------------------------------
(* The estimators.                                                         *)

\* A Duration divided by a number of nanoseconds.
LEMMA QuotientType ==
  ASSUME NEW x \in Int, NEW n \in Nat \ {0} PROVE Quotient(x, n) \in Int
BY DEF Quotient

\* OnAck's estimates are never negative.
LEMMA SampleType ==
  ASSUME NEW e, e.rtt \in Nat, e.rttVarianceMicros \in Nat, NEW packetRTT \in Nat
  PROVE  LET f == Sample(e, packetRTT)
         IN  f.rtt \in Nat /\ f.rttVarianceMicros \in Nat
<1> DEFINE r == Micros(e.rtt)
           p == Micros(packetRTT)
           m == Millis(e.rtt)
<1>1. Kilo \in Nat /\ Kilo > 0 /\ Kilo * Kilo \in Nat /\ Kilo * Kilo > 0
  BY EstimatorsAssumption
<1>2. r \in Int /\ p \in Int /\ m \in Int
  <2> DEFINE k == Kilo * Kilo
  <2>1. k \in Nat /\ k > 0 /\ m = e.rtt \div k
    BY <1>1 DEF Millis
  <2> HIDE DEF k
  <2>2. e.rtt \div k \in Int
    BY <2>1
  <2> QED
    BY <1>1, <2>1, <2>2 DEF Micros
<1> HIDE DEF r, p, m
<1> DEFINE mean == computeRTTAdjustment(r, p)
           variance == computeRTTVarianceAdjustment(r, e.rttVarianceMicros, p)
<1>3. mean \in Int
  BY <1>2, QuotientType DEF computeRTTAdjustment
<1>4. variance \in Int
  <2>1. Distance(r, p) - e.rttVarianceMicros \in Int
    BY <1>2 DEF Distance
  <2> QED
    BY <2>1, QuotientType DEF computeRTTVarianceAdjustment
<1>5. Sample(e, packetRTT) = [rtt |-> AtLeastZero(m + mean),
                              rttVarianceMicros |-> AtLeastZero(e.rttVarianceMicros + variance)]
  BY Zenon DEF Sample, r, p, m
<1> HIDE DEF mean, variance
<1> QED
  BY <1>2, <1>3, <1>4, <1>5 DEF AtLeastZero

\* What the heap keeps of a delay.
Remembered(h) == [Value |-> h.value, Deadline |-> h.at + DelayWindow]

\* Every delay on the heap was heard, and one heard within DelayWindow is on it.
DelayInv ==
  /\ now \in Nat
  /\ \A h \in heard : h.value \in Nat /\ h.at \in Nat
  /\ delays \subseteq {Remembered(h) : h \in heard}
  /\ \A h \in heard : now - h.at <= DelayWindow => Remembered(h) \in delays
  /\ est.rtt \in Nat /\ est.rttVarianceMicros \in Nat

\* The top of the heap is one of the least delays.
LEMMA TopIsLeast ==
  ASSUME NEW S, S # {}, \A d \in S : d.Value \in Nat
  PROVE  Top(S) \in S /\ \A e \in S : Top(S).Value <= e.Value
<1> DEFINE V == {d.Value : d \in S}
<1>1. PICK v \in V : \A y \in V : v <= y
  <2>1. V \subseteq Nat /\ V # {}
    OBVIOUS
  <2> HIDE DEF V
  <2> QED
    BY <2>1, LeastElement, Zenon
<1>2. \E d \in S : \A e \in S : d.Value <= e.Value
  BY <1>1
<1> QED
  BY <1>2, Zenon DEF Top

\* BaseDelay is the least of the recent delays.
LEMMA DelayInvIsEnough == DelayInv => BaseIsRecentLeast
<1> SUFFICES ASSUME DelayInv PROVE BaseIsRecentLeast
  OBVIOUS
<1> DEFINE recent == {h.value : h \in {g \in heard : now - g.at <= DelayWindow}}
           left == Popped(delays, now)
<1>1. now \in Nat /\ DelayWindow \in Nat /\ \A h \in heard : h.value \in Nat /\ h.at \in Nat
  BY EstimatorsAssumption DEF DelayInv
<1>2. ASSUME NEW d \in delays
      PROVE  /\ d.Value \in Nat
             /\ ~(now > d.Deadline) => d.Value \in recent
  <2>1. PICK h \in heard : d = Remembered(h)
    BY DEF DelayInv
  <2>2. d.Value = h.value /\ d.Deadline = h.at + DelayWindow
    BY <2>1 DEF Remembered
  <2> QED
    BY <1>1, <2>2
<1>3. ASSUME NEW v \in recent
      PROVE  \E d \in left : d.Value = v
  <2>1. PICK h \in heard : now - h.at <= DelayWindow /\ v = h.value
    OBVIOUS
  <2> DEFINE d == Remembered(h)
  <2>2. d \in delays /\ d.Value = v /\ d.Deadline = h.at + DelayWindow
    BY <2>1 DEF DelayInv, Remembered
  <2> HIDE DEF d
  <2>3. ~(now > d.Deadline) /\ d.Value <= d.Value
    BY <1>1, <2>1, <2>2
  <2> QED
    BY <2>2, <2>3, Zenon DEF Popped
<1>4. ASSUME NEW d \in left
      PROVE  d.Value \in Nat /\ \E e \in left : e.Value <= d.Value /\ e.Value \in recent
  <2>1. PICK e \in delays : d \in delays /\ e.Value <= d.Value /\ ~(now > e.Deadline)
    BY DEF Popped
  <2>2. e.Value <= e.Value
    BY <1>2
  <2>3. e \in left
    BY <2>1, <2>2, Zenon DEF Popped
  <2> QED
    BY <1>2, <2>1, <2>3, Zenon
<1> HIDE DEF left, recent
<1>5. CASE left = {}
  <2>1. recent = {} /\ BaseDelay(delays, now) = 0
    BY <1>3, <1>5, Zenon DEF BaseDelay, left
  <2> QED
    BY <2>1, Zenon DEF BaseIsRecentLeast, recent
<1>6. CASE left # {}
  <2> DEFINE t == Top(left)
  <2>1. t \in left /\ \A e \in left : t.Value <= e.Value
    BY <1>4, <1>6, TopIsLeast
  <2>2. BaseDelay(delays, now) = t.Value
    BY <1>6, Zenon DEF BaseDelay, left
  <2> HIDE DEF t
  <2>3. PICK e \in left : e.Value <= t.Value /\ e.Value \in recent
    BY <1>4, <2>1
  <2>4. t.Value = e.Value
    BY <1>4, <2>1, <2>3
  <2>5. \A v \in recent : t.Value <= v
    BY <1>3, <2>1
  <2> QED
    BY <2>2, <2>3, <2>4, <2>5 DEF BaseIsRecentLeast, recent
<1> QED
  BY <1>5, <1>6

\* A fresh accumulator.
LEMMA InitDelayInv == EstInit => DelayInv
BY DEF EstInit, DelayInv, newEstimate

\* OnAck keeps both invariants.
LEMMA EstAckStep ==
  ASSUME IInv, DelayInv, NEW s \in PacketNums, NEW delay \in Delays, NEW rtt \in RTTs,
         EstAck(s, delay, rtt)
  PROVE  IInv' /\ Admission /\ DelayInv'
<1> DEFINE fresh  == s \in DOMAIN cc.transmissions /\ ~cc.transmissions[s].Acked
           pushed == Push(delays, delay, now)
           next   == IF fresh /\ cc.transmissions[s].NumTransmissions = 1
                     THEN Sample(est, rtt) ELSE est
           base   == IF fresh THEN BaseDelay(pushed, now) ELSE delay
           new    == [value |-> delay, at |-> now]
<1>1. /\ Ack(s, delay, base, EstimatedTimeout(next)) /\ est' = next
      /\ delays' = (IF fresh THEN Popped(pushed, now) ELSE delays)
      /\ heard' = (IF fresh THEN heard \cup {new} ELSE heard)
      /\ now' = now
  BY Zenon DEF EstAck
<1>2. delay \in Nat /\ rtt \in Nat /\ now \in Nat /\ DelayWindow \in Nat
  BY EnvironmentAssumption, TripsAssumption, EstimatorsAssumption DEF DelayInv
<1>3. next.rtt \in Nat /\ next.rttVarianceMicros \in Nat
  BY <1>2, SampleType DEF DelayInv
<1>4. EstimatedTimeout(next) \in Nat
  BY <1>3 DEF EstimatedTimeout
<1>5. /\ new.value = delay /\ new.at = now
      /\ pushed = delays \cup {Remembered(new)}
  BY DEF Push, Remembered
<1> HIDE DEF fresh, pushed, next, new
<1>6. pushed \subseteq {Remembered(h) : h \in heard \cup {new}}
  BY <1>5 DEF DelayInv
<1>7. \A h \in heard \cup {new} : h.value \in Nat /\ h.at \in Nat
  BY <1>2, <1>5 DEF DelayInv
<1>8. base \in Nat
  <2> DEFINE left == Popped(pushed, now)
  <2>1. \A d \in left : d.Value \in Nat
    BY <1>6, <1>7 DEF Popped, Remembered
  <2> HIDE DEF left
  <2>2. left # {} => Top(left).Value \in Nat
    BY <2>1, TopIsLeast
  <2> QED
    BY <1>2, <2>2 DEF BaseDelay, left
<1>9. IInv' /\ Admission
  BY <1>1, <1>2, <1>4, <1>8, AckAdmission
<1>10. est'.rtt \in Nat /\ est'.rttVarianceMicros \in Nat /\ now' \in Nat
  BY <1>1, <1>2, <1>3
<1>11. CASE fresh
  <2>1. delays' \subseteq {Remembered(h) : h \in heard'}
    BY <1>1, <1>6, <1>11 DEF Popped
  <2>2. ASSUME NEW h \in heard', now' - h.at <= DelayWindow
        PROVE  Remembered(h) \in delays'
    <3> DEFINE d == Remembered(h)
    <3>1. h \in heard \cup {new}
      BY <1>1, <1>11
    <3>2. d \in pushed /\ d.Value = h.value /\ d.Deadline = h.at + DelayWindow
      BY <1>1, <1>5, <2>2, <3>1 DEF DelayInv, Remembered
    <3> HIDE DEF d
    <3>3. ~(now > d.Deadline) /\ d.Value <= d.Value
      BY <1>1, <1>2, <1>7, <2>2, <3>1, <3>2
    <3>4. d \in Popped(pushed, now)
      BY <3>2, <3>3, Zenon DEF Popped
    <3> QED
      BY <1>1, <1>11, <3>4 DEF d
  <2>3. \A h \in heard' : h.value \in Nat /\ h.at \in Nat
    BY <1>1, <1>7, <1>11
  <2> QED
    BY <1>2, <1>9, <1>10, <2>1, <2>2, <2>3 DEF DelayInv
<1>12. CASE ~fresh
  <2>1. UNCHANGED <<delays, heard, now>>
    BY <1>1, <1>12, Zenon
  <2> QED
    BY <1>9, <1>10, <2>1 DEF DelayInv
<1> QED
  BY <1>11, <1>12

\* Every step of the controller with its estimators keeps both invariants.
LEMMA EstNextStep ==
  ASSUME IInv, DelayInv, [EstNext]_allVars
  PROVE  IInv' /\ DelayInv' /\ [Admission]_vars
<1>1. ASSUME UNCHANGED <<est, delays, now, heard>> PROVE DelayInv'
  BY <1>1 DEF DelayInv
<1>2. CASE UNCHANGED allVars
  <2>1. UNCHANGED vars /\ UNCHANGED <<est, delays, now, heard>>
    BY <1>2 DEF allVars
  <2> QED
    BY <1>1, <2>1, NextStep
<1>3. CASE Next /\ UNCHANGED <<est, delays, now, heard>>
  BY <1>1, <1>3, NextStep
<1>4. ASSUME NEW s \in PacketNums, NEW delay \in Delays, NEW rtt \in RTTs, EstAck(s, delay, rtt)
      PROVE  IInv' /\ DelayInv' /\ [Admission]_vars
  BY <1>4, EstAckStep
<1>5. CASE Pass
  <2>1. UNCHANGED vars /\ now' = now + 1 /\ UNCHANGED <<est, delays, heard>>
    BY <1>5 DEF Pass
  <2>2. IInv' /\ [Admission]_vars
    BY <2>1, NextStep
  <2>3. DelayInv'
    BY <2>1, EstimatorsAssumption DEF DelayInv
  <2> QED
    BY <2>2, <2>3
<1> QED
  BY <1>2, <1>3, <1>4, <1>5, Zenon DEF EstNext, Next

\* The base delay that OnAck compares a delay with is the least of those heard
\* within DelayWindow, for every sequence of delays, whatever BaseDelay has popped.
THEOREM BaseDelayIsLeast == EstSpec => []BaseIsRecentLeast
<1>1. EstInit => IInv /\ DelayInv
  BY InitIInv, InitDelayInv DEF EstInit
<1>2. IInv /\ DelayInv /\ [EstNext]_allVars => (IInv /\ DelayInv)'
  BY EstNextStep
<1> QED
  BY <1>1, <1>2, DelayInvIsEnough, PTL DEF EstSpec

\* With the base delay and the timeout that the estimators compute, the books of the
\* controller are in order as well, and bytes only go in flight within the window.
THEOREM EstimatorsKeepBooks ==
  EstSpec => /\ [](WindowIsInFlight /\ IdleSenderCanSend /\ TimeoutBounded)
             /\ AdmissionRespected
<1>1. EstInit => IInv /\ DelayInv
  BY InitIInv, InitDelayInv DEF EstInit
<1>2. IInv /\ DelayInv /\ [EstNext]_allVars => (IInv /\ DelayInv)' /\ [Admission]_vars
  BY EstNextStep
<1>3. EstSpec => [](WindowIsInFlight /\ IdleSenderCanSend /\ TimeoutBounded)
  BY <1>1, <1>2, IInvIsEnough, PTL DEF EstSpec
<1>4. EstSpec => [][Admission]_vars
  BY <1>1, <1>2, PTL DEF EstSpec
<1> QED
  BY <1>3, <1>4 DEF AdmissionRespected, Admission
=============================================================================
