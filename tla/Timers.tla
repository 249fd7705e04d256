------------------------------- MODULE Timers -------------------------------
(***************************************************************************)
(* What a connection relies on when it puts its packets into a time wheel: *)
(* a set of timers that count ticks down, each of which fires in the tick  *)
(* its delay asked for.  A delay too long for the wheel may end early;     *)
(* none ends late.                                                         *)
(***************************************************************************)
EXTENDS Integers, Sequences

CONSTANTS SlotNum, Interval

VARIABLES calls,      \* the calls put, retain and remove that are under way
          timers      \* the armed timers and the ticks each one still has

vars == <<calls, timers>>

Init == timers = {}

\* The user of the timers begins some calls.
Request == calls = <<>> /\ UNCHANGED timers

TicksFor(delay) == IF delay < SlotNum * Interval THEN {delay \div Interval}
                   ELSE 0..(delay \div Interval)

Called(op) == calls # <<>> /\ Head(calls).op = op /\ calls' = Tail(calls)

Put ==
  /\ Called("put")
  /\ \E key \in Head(calls).keys, left \in TicksFor(Head(calls).delay) :
        timers' = timers \cup {[key |-> key, left |-> left]}

Retain ==
  /\ Called("retain")
  /\ timers' = {t \in timers : t.key \notin Head(calls).keys}

\* A key that was armed more than once keeps its other timers.
Remove ==
  /\ Called("remove")
  /\ LET named == {t \in timers : t.key \in Head(calls).keys}
     IN  IF named = {} THEN UNCHANGED timers ELSE \E t \in named : timers' = timers \ {t}

Fire == \E t \in timers : t.left = 0 /\ timers' = timers \ {t} /\ UNCHANGED calls

\* A tick ends only when everything that was due has fired.
Tick ==
  /\ \A t \in timers : t.left > 0
  /\ timers' = {[t EXCEPT !.left = @ - 1] : t \in timers}
  /\ UNCHANGED calls

Next == Request \/ Put \/ Retain \/ Remove \/ Fire \/ Tick

Spec == Init /\ [][Next]_vars
=============================================================================
