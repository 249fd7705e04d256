------------------------------ MODULE MCStream ------------------------------
(* An instance of StreamSpec for TLC. *)
EXTENDS StreamSpec

CONSTANTS w1, w2

MCWriters == {w1, w2}
=============================================================================
