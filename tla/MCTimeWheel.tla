---------------------------- MODULE MCTimeWheel ----------------------------
(* Instances of TimeWheelSpec for TLC. *)
EXTENDS TimeWheelSpec

CONSTANTS syn, p1

MCKeys == {syn, p1}

\* In a wheel of 4 slots of 2 units: less than a tick, between two ticks, one unit
\* short of a turn, and more than a turn.
MCTimeouts == {1, 5, 7, 9}

\* For the backoff: a wheel of 8 slots, as in the code.
MCNoTimeouts == {0}
=============================================================================
