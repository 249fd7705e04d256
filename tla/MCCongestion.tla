---------------------------- MODULE MCCongestion ----------------------------
EXTENDS EstimatorsSpec, TLC

\* The controller never compares sequence numbers.
NumSymmetry == Permutations(PacketNums)
=============================================================================
