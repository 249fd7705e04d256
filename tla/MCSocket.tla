------------------------------ MODULE MCSocket ------------------------------
(* Instances of SocketSpec for TLC. *)
EXTENDS SocketSpec, TLC

CONSTANTS c1, g1, a1, a2

MCConnects == {c1}
MCGenerated == {g1}
MCAccepts == {a1, a2}

\* Connect and ConnectWithCid use the same id, which wraps around: their ids are 7
\* and 0, those of the accepts, which may replace each other, 1 and 2.
MCLowerOf == (c1 :> 7) @@ (a1 :> 1) @@ (a2 :> 1)
MCGenIds == {7}
=============================================================================
