------------------------------- MODULE SeqNum -------------------------------
(***************************************************************************)
(* Sequence-number arithmetic: the wrapping uint16 additions used all over *)
(* the code, the circular range of seq.go and the mapping from a sequence  *)
(* number to a slot of sentPackets.packets.                                *)
(***************************************************************************)
EXTENDS Integers

CONSTANT SeqSpace        \* 2^16 in the code, small in the instances TLC checks

ASSUME SeqSpaceAssumption == SeqSpace \in Nat /\ SeqSpace >= 4

SeqNums == 0..(SeqSpace - 1)

\* a + b and a - b of two uint16.
Add(a, b) == IF a + b >= SeqSpace THEN a + b - SeqSpace ELSE a + b
Minus(a, b) == IF a >= b THEN a - b ELSE a - b + SeqSpace

\* (&circularRangeInclusive{start, end}).Contains(item)
RangeContains(start, end, item) ==
  IF end >= start THEN item >= start /\ item <= end
                  ELSE item >= start \/ item <= end

\* sentPackets.SeqNumIndex: the 0-based slot of seqNum, when the first number
\* used is initSeqNum + 1.
SeqNumIndex(initSeqNum, seqNum) ==
  IF seqNum > initSeqNum THEN seqNum - initSeqNum - 1
                         ELSE (SeqSpace - 1) - initSeqNum + seqNum
=============================================================================
