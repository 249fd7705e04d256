----------------------------- MODULE TimeWheel -----------------------------
(***************************************************************************)
(* delay_set.go: the slots of a time wheel and what its methods do to      *)
(* them.  Times are multiples of a unit of which an interval has Interval. *)
(***************************************************************************)
EXTENDS Integers, FiniteSets

CONSTANTS Keys,       \* what the entries are stored under
          SlotNum,    \* the number of slots, 8 or 20 in the code
          Interval    \* the time between two ticks

ASSUME SlotNumAssumption == SlotNum \in Nat \ {0}
ASSUME IntervalAssumption == Interval \in Nat \ {0}

Slots == 0..(SlotNum - 1)
maxDelay == SlotNum * Interval

newTimeWheel == [slots |-> [i \in Slots |-> {}], current |-> 0]

\* After how many further ticks the slot is swept that put chooses.  A delay of
\* maxDelay is a full turn: it ends where it began.
\* Mutant: the delay is rounded up to a tick the ticker has not reached.
SlotsAheadRoundedUp(delay) == ((delay + Interval) \div Interval) % SlotNum
SlotsAhead(delay) ==
  ((IF delay > maxDelay THEN maxDelay ELSE delay) \div Interval) % SlotNum

SlotOf(wheel, ahead) == (wheel.current + ahead) % SlotNum

\* An entry of the same key in another slot stays where it is.
put(wheel, key, delay) ==
  [wheel EXCEPT !.slots[SlotOf(wheel, SlotsAhead(delay))] = @ \cup {key}]

retain(wheel, removed) ==
  [wheel EXCEPT !.slots = [i \in Slots |-> wheel.slots[i] \ removed]]

\* Only the first slot that has the key loses it.
remove(wheel, key) ==
  LET has == {i \in Slots : key \in wheel.slots[i]}
  IN  IF has = {} THEN wheel
      ELSE [wheel EXCEPT !.slots[CHOOSE i \in has : \A j \in has : i <= j] = @ \ {key}]

\* One turn of run's loop over the current slot, and what follows the loop.
takeOut(wheel, key) == [wheel EXCEPT !.slots[wheel.current] = @ \ {key}]
advance(wheel) == [wheel EXCEPT !.current = (@ + 1) % SlotNum]
=============================================================================
