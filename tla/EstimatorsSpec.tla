--------------------------- MODULE EstimatorsSpec ---------------------------
(***************************************************************************)
(* The controller of CongestionSpec with its estimators: the base delay    *)
(* and the estimate of the timeout that CongestionSpec leaves open are     *)
(* computed from the acks that came before, while time passes.             *)
(***************************************************************************)
EXTENDS CongestionSpec, Estimators

CONSTANTS RTTs,        \* round-trip times that are measured
          MaxNow       \* bound: the time

ASSUME TripsAssumption == RTTs \subseteq Nat

VARIABLES est,         \* rtt and rttVarianceMicros
          delays,      \* delayAcc
          now,
          heard        \* history: every delay that was taken in, and when

allVars == <<vars, est, delays, now, heard>>

EstInit == Init /\ est = newEstimate /\ delays = {} /\ now = 0 /\ heard = {}

\* OnAck: the delay is pushed before the base delay is asked for, and an RTT is
\* taken from a packet that was sent once.  A repeated ack leaves all as it is.
EstAck(s, delay, rtt) ==
  LET fresh  == s \in DOMAIN cc.transmissions /\ ~cc.transmissions[s].Acked
      pushed == Push(delays, delay, now)
      next   == IF fresh /\ cc.transmissions[s].NumTransmissions = 1 THEN Sample(est, rtt) ELSE est
      base   == IF fresh THEN BaseDelay(pushed, now) ELSE delay
  IN  /\ Ack(s, delay, base, EstimatedTimeout(next))
      /\ est' = next
      /\ delays' = IF fresh THEN Popped(pushed, now) ELSE delays
      /\ heard' = IF fresh THEN heard \cup {[value |-> delay, at |-> now]} ELSE heard
      /\ UNCHANGED now

Pass ==
  /\ now < MaxNow
  /\ now' = now + 1
  /\ UNCHANGED <<vars, est, delays, heard>>

EstNext ==
  \/ \E s \in PacketNums :
       \/ \E len \in Sizes : Transmit(s, len) /\ UNCHANGED <<est, delays, now, heard>>
       \/ Retransmit(s) /\ UNCHANGED <<est, delays, now, heard>>
       \/ \E delay \in Delays, rtt \in RTTs : EstAck(s, delay, rtt)
       \/ Lost(s) /\ UNCHANGED <<est, delays, now, heard>>
  \/ Timeout /\ UNCHANGED <<est, delays, now, heard>>
  \/ Pass

EstSpec == EstInit /\ [][EstNext]_allVars

\* The base delay is the least of the delays heard within the last DelayWindow, no
\* matter which older and smaller ones BaseDelay has found on top of the heap or has
\* left below it: an old minimum does not outlive its window, and none that still
\* counts is popped with the old ones.
BaseIsRecentLeast ==
  LET recent == {h.value : h \in {g \in heard : now - g.at <= DelayWindow}}
      base   == BaseDelay(delays, now)
  IN  IF recent = {} THEN base = 0
      ELSE base \in recent /\ \A v \in recent : base <= v

\* While every round trip takes the same time, the timeout that OnAck computes is no
\* shorter than it, so that a packet is not sent again before its ack can be here.
\* It holds where a nanosecond and a microsecond are the same (Kilo = 1), and the code
\* assigns microseconds to rtt and adds them to it as nanoseconds (Kilo > 1).
TimeoutCoversTrip ==
  \A rtt \in RTTs : RTTs = {rtt} /\ est # newEstimate =>
     rtt <= cc.timeout \/ cc.timeout = MaxTimeout
=============================================================================
