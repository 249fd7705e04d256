------------------------------ MODULE ByteQueue ------------------------------
(***************************************************************************)
(* What a send buffer promises: a bounded queue of bytes.  A write adds    *)
(* the longest prefix that fits at one end, a read takes some bytes off    *)
(* the other.                                                              *)
(***************************************************************************)
EXTENDS Integers, Sequences

CONSTANTS Capacity,
          Inputs     \* the byte sequences that may be written

VARIABLES queue, taken   \* taken: history of the bytes taken, in order

Init == queue = << >> /\ taken = << >>

Put(data) ==
  LET room == Capacity - Len(queue)
      n    == IF Len(data) < room THEN Len(data) ELSE room
  IN  queue' = queue \o SubSeq(data, 1, n) /\ UNCHANGED taken

Take(n) ==
  /\ queue' = SubSeq(queue, n + 1, Len(queue))
  /\ taken' = taken \o SubSeq(queue, 1, n)

Next == (\E data \in Inputs : Put(data)) \/ (\E n \in 1..Len(queue) : Take(n))

Spec == Init /\ [][Next]_<<queue, taken>>
=============================================================================
