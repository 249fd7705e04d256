--------------------------- MODULE Transmissions ---------------------------
(***************************************************************************)
(* The records the congestion controller keeps of the packets sent, by     *)
(* sequence number, and the bytes of them that are in flight.              *)
(***************************************************************************)
EXTENDS ByteCount

\* NumTransmissions is kept up to 2: the code only asks whether it is 1.
packetRecord == [SizeBytes : Nat, NumTransmissions : 1..2, Acked : BOOLEAN]

\* The bytes of the transmissions S that are not acknowledged yet.
InFlight(tx, S) ==
  Bytes([s \in {u \in S : ~tx[u].Acked} |-> tx[s].SizeBytes])
=============================================================================
