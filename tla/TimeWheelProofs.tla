-------------------------- MODULE TimeWheelProofs --------------------------
(***************************************************************************)
(* The time wheel of delay_set.go implements the countdown timers of       *)
(* module Timers, for every number of slots, interval, set of packets and  *)
(* set of timeouts.                                                        *)
(***************************************************************************)
EXTENDS TimeWheelSpec, FiniteSetTheorems, WellFoundedInduction, TLAPS

(* Counting modulo the number of slots. *)

\* A number below n is its own remainder.
LEMMA ModBelow == ASSUME NEW n \in Nat \ {0}, NEW x \in 0..(n - 1) PROVE x % n = x
  OBVIOUS

\* Between n and 2 n the remainder is what exceeds n.
LEMMA ModAbove == ASSUME NEW n \in Nat \ {0}, NEW x \in n..(2 * n - 1) PROVE x % n = x - n
  OBVIOUS

\* A difference of two slots that is negative comes back a turn later.
LEMMA ModNegative == ASSUME NEW n \in Nat \ {0}, NEW x \in (1 - n)..(-1) PROVE x % n = x + n
  OBVIOUS

\* The remainder of any integer is a slot's number.
LEMMA ModRange == ASSUME NEW n \in Nat \ {0}, NEW x \in Int PROVE x % n \in 0..(n - 1)
  OBVIOUS

\* The slot that lies a ticks ahead of the pointer, and back.
Ahead(c, a) == (c + a) % SlotNum
Behind(i, c) == (i - c) % SlotNum

\* The slot put chooses, a ticks ahead of the pointer, is a ticks away from it.
LEMMA AheadBehind ==
  ASSUME NEW c \in Slots, NEW a \in Slots
  PROVE  Ahead(c, a) \in Slots /\ Behind(Ahead(c, a), c) = a
<1>1. CASE c + a < SlotNum
  <2>1. Ahead(c, a) = c + a  BY <1>1, ModBelow, SlotNumAssumption DEF Ahead, Slots
  <2>2. QED  BY <1>1, <2>1, ModBelow, SlotNumAssumption DEF Behind, Slots
<1>2. CASE c + a >= SlotNum
  <2>1. Ahead(c, a) = c + a - SlotNum  BY <1>2, ModAbove, SlotNumAssumption DEF Ahead, Slots
  <2>2. CASE a = 0  BY <1>2, <2>2, SlotNumAssumption DEF Slots
  <2>3. CASE a # 0
    <3>1. Behind(Ahead(c, a), c) = (a - SlotNum) % SlotNum
      BY <2>1, SlotNumAssumption DEF Behind, Slots
    <3>2. a - SlotNum \in (1 - SlotNum)..(-1)  BY <2>3, SlotNumAssumption DEF Slots
    <3>3. QED  BY <1>2, <2>1, <3>1, <3>2, ModNegative, SlotNumAssumption DEF Slots
  <2>4. QED  BY <2>2, <2>3
<1>3. QED  BY <1>1, <1>2, SlotNumAssumption DEF Slots

\* How far a slot is away, without the remainder.
LEMMA BehindValue ==
  ASSUME NEW i \in Slots, NEW c \in Slots
  PROVE  Behind(i, c) = IF i >= c THEN i - c ELSE i - c + SlotNum
<1>1. CASE i >= c  BY <1>1, ModBelow, SlotNumAssumption DEF Behind, Slots
<1>2. CASE i < c
  <2>1. i - c \in (1 - SlotNum)..(-1)  BY <1>2, SlotNumAssumption DEF Slots
  <2>2. QED  BY <1>2, <2>1, ModNegative, SlotNumAssumption DEF Behind, Slots
<1>3. QED  BY <1>1, <1>2, SlotNumAssumption DEF Slots

\* Two slots are never the same number of ticks away.
LEMMA BehindInjective ==
  ASSUME NEW i \in Slots, NEW j \in Slots, NEW c \in Slots, Behind(i, c) = Behind(j, c)
  PROVE  i = j
  BY BehindValue, SlotNumAssumption DEF Slots

\* When the pointer advances, every slot but the one it leaves is a tick nearer.
LEMMA BehindAdvance ==
  ASSUME NEW i \in Slots, NEW c \in Slots, i # c
  PROVE  /\ Ahead(c, 1) \in Slots
         /\ Behind(i, c) \in 1..(SlotNum - 1)
         /\ Behind(i, Ahead(c, 1)) = Behind(i, c) - 1
<1>1. Ahead(c, 1) = IF c = SlotNum - 1 THEN 0 ELSE c + 1
  <2>1. CASE c = SlotNum - 1
    <3>1. c + 1 \in SlotNum..(2 * SlotNum - 1)  BY <2>1, SlotNumAssumption DEF Slots
    <3>2. QED  BY <2>1, <3>1, ModAbove, SlotNumAssumption DEF Ahead, Slots
  <2>2. CASE c # SlotNum - 1  BY <2>2, ModBelow, SlotNumAssumption DEF Ahead, Slots
  <2>3. QED  BY <2>1, <2>2
<1>2. Ahead(c, 1) \in Slots  BY <1>1, SlotNumAssumption DEF Slots
<1>3. Behind(i, c) = IF i >= c THEN i - c ELSE i - c + SlotNum  BY BehindValue
<1>4. Behind(i, Ahead(c, 1)) = IF i >= Ahead(c, 1) THEN i - Ahead(c, 1)
                               ELSE i - Ahead(c, 1) + SlotNum
  BY <1>2, BehindValue
<1>5. QED  BY <1>1, <1>2, <1>3, <1>4, SlotNumAssumption DEF Slots

\* No tick away is only the slot under the pointer, which run sweeps next.
LEMMA BehindSelf == ASSUME NEW i \in Slots, NEW c \in Slots, Behind(i, c) = 0 PROVE i = c
  BY BehindValue, SlotNumAssumption DEF Slots

-----------------------------------------------------------------------------
(* The slot that put chooses. *)

\* What put's division by the interval leaves over is less than an interval.
LEMMA DivBounds ==
  ASSUME NEW d \in Nat, NEW q \in Nat \ {0}
  PROVE  d \div q \in Nat /\ (d \div q) * q <= d /\ d < (d \div q) * q + q
  OBVIOUS

\* maxDelay is one turn of the wheel.
LEMMA TurnDiv == maxDelay \in Nat /\ maxDelay \div Interval = SlotNum
<1>1. maxDelay \in Nat  BY SlotNumAssumption, IntervalAssumption DEF maxDelay
<1>2. QED  BY <1>1, DivBounds, SlotNumAssumption, IntervalAssumption DEF maxDelay

\* A delay put does not cut is less than a turn of slots away.
LEMMA ShortDelay ==
  ASSUME NEW d \in Nat, d < maxDelay
  PROVE  d \div Interval \in Slots
<1> DEFINE q == d \div Interval
<1>1. q \in Nat /\ q * Interval <= d  BY DivBounds, IntervalAssumption
<1>2. q * Interval < SlotNum * Interval
  BY <1>1, SlotNumAssumption, IntervalAssumption DEF maxDelay
<1>3. q < SlotNum
  <2> HIDE DEF q
  <2> QED  BY <1>1, <1>2, SlotNumAssumption, IntervalAssumption
<1>4. QED  BY <1>1, <1>3, SlotNumAssumption DEF Slots

\* put never chooses a slot that is swept after the delay has passed, and chooses
\* the very tick of every delay shorter than a turn.
LEMMA SlotsAheadPromise ==
  ASSUME NEW d \in Nat
  PROVE  SlotsAhead(d) \in Slots /\ SlotsAhead(d) \in T!TicksFor(d)
<1>1. CASE d < maxDelay
  <2>1. SlotsAhead(d) = (d \div Interval) % SlotNum  BY <1>1, TurnDiv DEF SlotsAhead
  <2>2. SlotsAhead(d) = d \div Interval
    BY <2>1, <1>1, ShortDelay, ModBelow, SlotNumAssumption DEF Slots
  <2>3. QED  BY <1>1, <2>2, ShortDelay DEF T!TicksFor, maxDelay
<1>2. CASE ~(d < maxDelay)
  <2>1. SlotsAhead(d) = SlotNum % SlotNum
    <3>1. CASE d > maxDelay  BY <3>1, TurnDiv DEF SlotsAhead
    <3>2. CASE d = maxDelay  BY <3>2, TurnDiv DEF SlotsAhead
    <3>3. QED  BY <1>2, <3>1, <3>2, TurnDiv
  <2>2. SlotsAhead(d) = 0  BY <2>1, ModAbove, SlotNumAssumption
  <2>3. d \div Interval \in Nat  BY DivBounds, IntervalAssumption
  <2>4. QED  BY <1>2, <2>2, <2>3, SlotNumAssumption DEF T!TicksFor, maxDelay, Slots
<1>3. QED  BY <1>1, <1>2

-----------------------------------------------------------------------------
(* What the methods do to the timers. *)

Wheels == [slots : [Slots -> SUBSET Keys], current : Slots]

Timer(key, left) == [key |-> key, left |-> left]

\* An entry of a slot is a timer with as many ticks left as the slot is away.
LEMMA TimersMember ==
  ASSUME NEW w \in Wheels, NEW t
  PROVE  t \in TimersOf(w) <=>
           \E i \in Slots : \E key \in w.slots[i] : t = Timer(key, Behind(i, w.current))
  BY DEF TimersOf, Timer, Behind, Wheels

\* put adds one timer, and keeps those the key has already.
LEMMA PutTimers ==
  ASSUME NEW w \in Wheels, NEW key \in Keys, NEW d \in Nat
  PROVE  /\ put(w, key, d) \in Wheels
         /\ TimersOf(put(w, key, d)) = TimersOf(w) \cup {Timer(key, SlotsAhead(d))}
<1> DEFINE a == SlotsAhead(d)
           j == Ahead(w.current, a)
           p == put(w, key, d)
<1>1. a \in Slots  BY SlotsAheadPromise
<1>2. j \in Slots /\ Behind(j, w.current) = a  BY <1>1, AheadBehind DEF Wheels
<1>3. p = [w EXCEPT !.slots[j] = @ \cup {key}]  BY DEF put, SlotOf, Ahead
<1> HIDE DEF a, j, p
<1>4. p \in Wheels /\ p.current = w.current  BY <1>2, <1>3 DEF Wheels
<1>5. \A i \in Slots : p.slots[i] = IF i = j THEN w.slots[i] \cup {key} ELSE w.slots[i]
  BY <1>2, <1>3, Zenon DEF Wheels
<1>6. ASSUME NEW t PROVE t \in TimersOf(p) <=> t \in TimersOf(w) \cup {Timer(key, a)}
  <2>1. t \in TimersOf(p) <=>
          \E i \in Slots : \E k \in p.slots[i] : t = Timer(k, Behind(i, w.current))
    BY <1>4, TimersMember
  <2>2. t \in TimersOf(w) <=>
          \E i \in Slots : \E k \in w.slots[i] : t = Timer(k, Behind(i, w.current))
    BY TimersMember
  <2>3. QED  BY <1>2, <1>5, <2>1, <2>2, Zenon
<1>7. QED  BY <1>4, <1>6 DEF a, p

\* retain takes away every timer of the keys, whatever slots they are in.
LEMMA RetainTimers ==
  ASSUME NEW w \in Wheels, NEW keys \in SUBSET Keys
  PROVE  /\ retain(w, keys) \in Wheels
         /\ TimersOf(retain(w, keys)) = {t \in TimersOf(w) : t.key \notin keys}
<1> DEFINE p == retain(w, keys)
<1>1. p \in Wheels /\ p.current = w.current  BY DEF retain, Wheels
<1>2. \A i \in Slots : p.slots[i] = w.slots[i] \ keys  BY DEF retain, Wheels
<1> HIDE DEF p
<1>3. ASSUME NEW t PROVE t \in TimersOf(p) <=> t \in TimersOf(w) /\ t.key \notin keys
  BY <1>1, <1>2, TimersMember DEF Timer
<1>4. QED  BY <1>1, <1>3 DEF p

\* Taking one entry out of a slot takes one timer away.
TakenFrom(w, j, key) == [w EXCEPT !.slots[j] = @ \ {key}]

\* An entry that run takes out of the current slot, or remove out of another, is
\* one timer less.
LEMMA TakeTimers ==
  ASSUME NEW w \in Wheels, NEW j \in Slots, NEW key \in w.slots[j]
  PROVE  /\ TakenFrom(w, j, key) \in Wheels
         /\ Timer(key, Behind(j, w.current)) \in TimersOf(w)
         /\ TimersOf(TakenFrom(w, j, key)) = TimersOf(w) \ {Timer(key, Behind(j, w.current))}
<1> DEFINE p == TakenFrom(w, j, key)
<1>1. p \in Wheels /\ p.current = w.current  BY DEF Wheels, TakenFrom
<1>2. \A i \in Slots : p.slots[i] = IF i = j THEN w.slots[i] \ {key} ELSE w.slots[i]
  BY DEF Wheels, TakenFrom
<1>3. ASSUME NEW i \in Slots, NEW k \in w.slots[i]
      PROVE  Timer(k, Behind(i, w.current)) = Timer(key, Behind(j, w.current))
               <=> i = j /\ k = key
  BY BehindInjective DEF Timer, Wheels
<1> HIDE DEF p
<1>4. ASSUME NEW t
      PROVE  t \in TimersOf(p) <=> t \in TimersOf(w) \ {Timer(key, Behind(j, w.current))}
  <2>1. t \in TimersOf(p) <=>
          \E i \in Slots : \E k \in p.slots[i] : t = Timer(k, Behind(i, w.current))
    BY <1>1, TimersMember
  <2>2. t \in TimersOf(w) <=>
          \E i \in Slots : \E k \in w.slots[i] : t = Timer(k, Behind(i, w.current))
    BY TimersMember
  <2>3. QED  BY <1>2, <1>3, <2>1, <2>2, Zenon
<1>5. Timer(key, Behind(j, w.current)) \in TimersOf(w)  BY TimersMember
<1>6. QED  BY <1>1, <1>4, <1>5 DEF p

\* The loop of remove meets a first slot that holds the key.
LEMMA LeastSlot ==
  ASSUME NEW S, S \subseteq Slots, S # {}
  PROVE  \E x \in S : \A y \in S : x <= y
<1>1. S \subseteq Nat  BY SlotNumAssumption DEF Slots
<1>2. PICK x \in S : \A y \in S : ~(<<y, x>> \in OpToRel(<, Nat))
  BY <1>1, WFMin, NatLessThanWellFounded, Zenon
<1>3. \A y \in S : ~(y < x)  BY <1>1, <1>2, Zenon DEF OpToRel
<1>4. QED  BY <1>1, <1>3

\* remove takes away one timer of the key, and none if there is none.
LEMMA RemoveTimers ==
  ASSUME NEW w \in Wheels, NEW key \in Keys
  PROVE  /\ remove(w, key) \in Wheels
         /\ LET named == {t \in TimersOf(w) : t.key \in {key}}
            IN  IF named = {} THEN TimersOf(remove(w, key)) = TimersOf(w)
                ELSE \E t \in named : TimersOf(remove(w, key)) = TimersOf(w) \ {t}
<1> DEFINE has == {i \in Slots : key \in w.slots[i]}
           named == {t \in TimersOf(w) : t.key \in {key}}
<1>1. CASE has = {}
  <2>1. remove(w, key) = w  BY <1>1 DEF remove
  <2>2. named = {}  BY <1>1, TimersMember DEF Timer
  <2>3. QED  BY <2>1, <2>2
<1>2. CASE has # {}
  <2> DEFINE j == CHOOSE i \in has : \A l \in has : i <= l
  <2>1. j \in has
    <3> HIDE DEF has
    <3>1. has \subseteq Slots  BY DEF has
    <3>2. QED  BY <1>2, <3>1, LeastSlot
  <2>2. remove(w, key) = TakenFrom(w, j, key)  BY <1>2 DEF remove, TakenFrom
  <2> HIDE DEF j
  <2>3. j \in Slots /\ key \in w.slots[j]  BY <2>1
  <2>4. /\ remove(w, key) \in Wheels
        /\ Timer(key, Behind(j, w.current)) \in TimersOf(w)
        /\ TimersOf(remove(w, key)) = TimersOf(w) \ {Timer(key, Behind(j, w.current))}
    BY <2>2, <2>3, TakeTimers
  <2>5. Timer(key, Behind(j, w.current)) \in named  BY <2>4 DEF Timer
  <2>6. QED  BY <2>4, <2>5
<1>3. QED  BY <1>1, <1>2

\* When run has emptied the current slot and advances, every timer has a tick less.
LEMMA AdvanceTimers ==
  ASSUME NEW w \in Wheels, w.slots[w.current] = {}
  PROVE  /\ advance(w) \in Wheels
         /\ \A t \in TimersOf(w) : t.left > 0
         /\ TimersOf(advance(w)) = {[t EXCEPT !.left = @ - 1] : t \in TimersOf(w)}
<1> DEFINE c == w.current
           p == advance(w)
<1>1. c \in Slots  BY DEF Wheels
<1>2. p.slots = w.slots /\ p.current = Ahead(c, 1) /\ p = [slots |-> w.slots, current |-> Ahead(c, 1)]
  BY DEF advance, Ahead, Wheels
<1>3. Ahead(c, 1) \in Slots
  <2>1. c + 1 \in Int  BY <1>1, SlotNumAssumption DEF Slots
  <2>2. QED  BY <2>1, ModRange, SlotNumAssumption DEF Ahead, Slots
<1>4. p \in Wheels  BY <1>2, <1>3 DEF Wheels
<1>5. ASSUME NEW i \in Slots, NEW key \in w.slots[i]
      PROVE  Behind(i, c) \in 1..(SlotNum - 1) /\ Behind(i, Ahead(c, 1)) = Behind(i, c) - 1
  BY <1>1, BehindAdvance
<1> HIDE DEF p, c
<1>6. \A t \in TimersOf(w) : t.left > 0  BY <1>5, TimersMember, SlotNumAssumption DEF Timer, c
<1>7. ASSUME NEW t
      PROVE  t \in TimersOf(p) <=> \E u \in TimersOf(w) : t = [u EXCEPT !.left = @ - 1]
  <2>1. ASSUME NEW i \in Slots, NEW key \in w.slots[i]
        PROVE  [Timer(key, Behind(i, c)) EXCEPT !.left = @ - 1] = Timer(key, Behind(i, Ahead(c, 1)))
    BY <1>5 DEF Timer
  <2>2. t \in TimersOf(p) <=>
          \E i \in Slots : \E key \in w.slots[i] : t = Timer(key, Behind(i, Ahead(c, 1)))
    BY <1>2, <1>4, TimersMember
  <2>3. \A u : u \in TimersOf(w) <=>
          \E i \in Slots : \E key \in w.slots[i] : u = Timer(key, Behind(i, c))
    BY TimersMember DEF c
  <2>4. QED  BY <2>1, <2>2, <2>3
<1>8. QED  BY <1>4, <1>6, <1>7 DEF p

-----------------------------------------------------------------------------
(* The invariant and the refinement. *)

Calls == {c \in [op : {"put", "retain", "remove"}, keys : SUBSET Keys, delay : Nat] :
            c.op # "retain" => \E key \in Keys : c.keys = {key}}

\* The wheel is a wheel, and what travels between the goroutine of the wheel and
\* the event loop are keys and calls with delays that put accepts.
WheelInv ==
  /\ wheel \in Wheels
  /\ handing \subseteq Keys /\ sent \subseteq Keys
  /\ unackTimeoutCh \in Seq(Keys)
  /\ attempts \in Nat
  /\ loop \in Seq(Calls)

\* The calls the event loop makes are calls on the wheel.
LEMMA CallTypes ==
  ASSUME NEW key \in Keys, NEW keys \in SUBSET Keys, NEW delay \in Nat
  PROVE  {PutCall(key, delay), RetainCall(keys), RemoveCall(key)} \subseteq Calls
  BY DEF PutCall, RetainCall, RemoveCall, Calls

\* The first timeout of a SYN is a number of time units.
LEMMA InitialTimeoutType == InitialTimeout \in Nat
<1>1. SlotNum * Interval \in Nat  BY SlotNumAssumption, IntervalAssumption
<1>2. QED  BY <1>1 DEF InitialTimeout

\* The wheel newTimeWheel makes satisfies the invariant.
LEMMA InitInv == Init => WheelInv
<1> SUFFICES ASSUME Init PROVE WheelInv  OBVIOUS
<1>1. wheel \in Wheels  BY SlotNumAssumption DEF Init, newTimeWheel, Wheels, Slots
<1>2. loop \in Seq(Calls)
  <2>1. PutCall(SYN, InitialTimeout) \in Calls
    BY CallTypes, InitialTimeoutType, KeysAssumption
  <2>2. loop = <<PutCall(SYN, InitialTimeout)>> \/ loop = <<>>  BY DEF Init
  <2>3. <<>> \in Seq(Calls) /\ \A c \in Calls : <<c>> \in Seq(Calls)  OBVIOUS
  <2>4. QED  BY <2>1, <2>2, <2>3, Zenon
<1>3. QED  BY <1>1, <1>2 DEF Init, WheelInv

\* A step of the goroutine of the wheel.
LEMMA RunStepInv ==
  ASSUME WheelInv, RunStep
  PROVE  WheelInv' /\ (T!Fire \/ T!Tick \/ UNCHANGED <<loop, TimersOf(wheel)>>)
<1>1. CASE Lock  BY <1>1 DEF Lock, WheelInv, loopVars
<1>2. ASSUME NEW key \in Keys, Expire(key) PROVE WheelInv' /\ T!Fire
  <2>1. wheel \in Wheels /\ wheel.current \in Slots /\ key \in wheel.slots[wheel.current]
    BY <1>2 DEF Expire, WheelInv, Wheels
  <2>2. wheel' = TakenFrom(wheel, wheel.current, key)
    BY <1>2 DEF Expire, takeOut, TakenFrom
  <2>3. /\ wheel' \in Wheels
        /\ Timer(key, Behind(wheel.current, wheel.current)) \in TimersOf(wheel)
        /\ TimersOf(wheel') = TimersOf(wheel) \ {Timer(key, Behind(wheel.current, wheel.current))}
    BY <2>1, <2>2, TakeTimers
  <2>4. Behind(wheel.current, wheel.current) = 0
    BY <2>1, BehindValue, SlotNumAssumption DEF Slots
  <2>5. loop' = loop  BY <1>2 DEF Expire, loopVars
  <2>6. T!Fire
    <3>1. Timer(key, 0).left = 0  BY DEF Timer
    <3>2. QED  BY <2>3, <2>4, <2>5, <3>1 DEF T!Fire
  <2>7. WheelInv'  BY <1>2, <2>3, <2>5 DEF Expire, WheelInv, loopVars
  <2>8. QED  BY <2>6, <2>7
<1>3. CASE HandOver
  <2>1. PICK key \in handing : unackTimeoutCh' = Append(unackTimeoutCh, key)
    BY <1>3 DEF HandOver
  <2>2. unackTimeoutCh' \in Seq(Keys)  BY <2>1 DEF WheelInv
  <2>3. QED  BY <1>3, <2>2 DEF HandOver, WheelInv, loopVars
<1>4. CASE GiveUp  BY <1>4 DEF GiveUp, WheelInv, loopVars
<1>5. CASE Unlock
  <2>1. wheel \in Wheels /\ wheel.slots[wheel.current] = {} /\ wheel' = advance(wheel) /\ loop' = loop
    BY <1>5 DEF Unlock, WheelInv, loopVars
  <2>2. T!Tick  BY <2>1, AdvanceTimers DEF T!Tick
  <2>3. WheelInv'  BY <1>5, <2>1, AdvanceTimers DEF Unlock, WheelInv, loopVars
  <2>4. QED  BY <2>2, <2>3
<1>6. CASE Exit  BY <1>6 DEF Exit, WheelInv, loopVars
<1>7. QED  BY <1>1, <1>2, <1>3, <1>4, <1>5, <1>6 DEF RunStep

\* A call of the event loop on the wheel.
LEMMA CallInv ==
  ASSUME WheelInv, Call
  PROVE  WheelInv' /\ (T!Put \/ T!Retain \/ T!Remove)
<1> DEFINE c == Head(loop)
           key == CHOOSE k \in c.keys : TRUE
<1>1. loop \in Seq(Calls) /\ loop # <<>> /\ loop' = Tail(loop) /\ wheel \in Wheels
  BY DEF Call, WheelInv
<1>2. c \in Calls /\ loop' \in Seq(Calls)  BY <1>1
<1>3. wheel' = CASE c.op = "put" -> put(wheel, key, c.delay)
                 [] c.op = "retain" -> retain(wheel, c.keys)
                 [] c.op = "remove" -> remove(wheel, key)
  BY DEF Call
<1> HIDE DEF c
<1>4. c.keys \subseteq Keys /\ c.delay \in Nat /\ c.op \in {"put", "retain", "remove"}
  BY <1>2 DEF Calls
<1>5. c.op # "retain" => key \in Keys /\ c.keys = {key}  BY <1>2, SMTT(30) DEF Calls
<1> HIDE DEF key
<1>6. CASE c.op = "put"
  <2>1. wheel' = put(wheel, key, c.delay)  BY <1>3, <1>6
  <2>2. /\ wheel' \in Wheels
        /\ TimersOf(wheel') = TimersOf(wheel) \cup {Timer(key, SlotsAhead(c.delay))}
    BY <1>1, <1>4, <1>5, <1>6, <2>1, PutTimers
  <2>3. T!Put
    <3>1. key \in c.keys /\ SlotsAhead(c.delay) \in T!TicksFor(c.delay)
      BY <1>4, <1>5, <1>6, SlotsAheadPromise
    <3>2. QED  BY <1>1, <1>6, <2>2, <3>1 DEF T!Put, T!Called, Timer, c
  <2>4. QED  BY <1>2, <2>2, <2>3, Zenon DEF Call, WheelInv
<1>7. CASE c.op = "retain"
  <2>1. wheel' = retain(wheel, c.keys)  BY <1>3, <1>7
  <2>2. wheel' \in Wheels /\ TimersOf(wheel') = {t \in TimersOf(wheel) : t.key \notin c.keys}
    BY <1>1, <1>4, <2>1, RetainTimers
  <2>3. T!Retain  BY <1>1, <1>7, <2>2 DEF T!Retain, T!Called, c
  <2>4. QED  BY <1>2, <2>2, <2>3, Zenon DEF Call, WheelInv
<1>8. CASE c.op = "remove"
  <2>1. wheel' = remove(wheel, key)  BY <1>3, <1>8
  <2> DEFINE named == {t \in TimersOf(wheel) : t.key \in c.keys}
  <2>2. /\ wheel' \in Wheels
        /\ IF named = {} THEN TimersOf(wheel') = TimersOf(wheel)
           ELSE \E t \in named : TimersOf(wheel') = TimersOf(wheel) \ {t}
    BY <1>1, <1>5, <1>8, <2>1, RemoveTimers
  <2>3. T!Remove  BY <1>1, <1>8, <2>2 DEF T!Remove, T!Called, c
  <2>4. QED  BY <1>2, <2>2, <2>3, Zenon DEF Call, WheelInv
<1>9. QED  BY <1>4, <1>6, <1>7, <1>8

\* A step of the event loop that begins calls, or of its environment.
LEMMA OtherInv ==
  ASSUME WheelInv,
         \/ Ticker \/ Connected \/ CtxDone \/ Closed \/ Cancel \/ Over
         \/ \E key \in Keys, timeout \in Timeouts : Transmit(key, timeout)
         \/ \E full, selected \in SUBSET sent : Acked(full, selected)
         \/ \E timeout \in Timeouts : TimedOut(timeout)
  PROVE  WheelInv' /\ (T!Request \/ UNCHANGED <<loop, TimersOf(wheel)>>)
<1> USE DEF WheelInv, loopVars, wheelVars
<1>1. CASE Ticker  BY <1>1 DEF Ticker
<1>2. CASE Connected  BY <1>2 DEF Connected
<1>3. CASE CtxDone  BY <1>3 DEF CtxDone, End
<1>4. CASE Closed  BY <1>4 DEF Closed, End
<1>5. CASE Cancel  BY <1>5 DEF Cancel
<1>6. CASE Over  BY <1>6 DEF Over, vars
<1>7. ASSUME NEW key \in Keys, NEW timeout \in Timeouts, Transmit(key, timeout)
      PROVE  WheelInv' /\ T!Request
  <2>1. PutCall(key, timeout) \in Calls  BY CallTypes, TimeoutsAssumption, Zenon
  <2>2. QED  BY <1>7, <2>1 DEF Transmit, Idle, T!Request
<1>8. ASSUME NEW full \in SUBSET sent, NEW selected \in SUBSET sent, Acked(full, selected)
      PROVE  WheelInv' /\ T!Request
  <2>1. Cardinality(selected) \in Nat
    BY FS_Subset, FS_CardinalityType, KeysAssumption
  <2>2. PICK order \in Bijection(1..Cardinality(selected), selected) :
           loop' = <<RetainCall(full)>> \o [i \in 1..Cardinality(selected) |-> RemoveCall(order[i])]
    BY <1>8, Zenon DEF Acked
  <2>3. \A i \in 1..Cardinality(selected) : order[i] \in Keys  BY <2>2 DEF Bijection, Injection
  <2>4. RetainCall(full) \in Calls /\ \A key \in Keys : RemoveCall(key) \in Calls
    <3>1. 0 \in Nat  OBVIOUS
    <3>2. QED  BY <3>1, CallTypes, KeysAssumption, Zenon
  <2>5. [i \in 1..Cardinality(selected) |-> RemoveCall(order[i])] \in Seq(Calls)
    BY <2>1, <2>3, <2>4
  <2>6. loop' \in Seq(Calls)  BY <2>2, <2>4, <2>5
  <2>7. QED  BY <1>8, <2>6 DEF Acked, Idle, T!Request
<1>9. ASSUME NEW timeout \in Timeouts, TimedOut(timeout) PROVE WheelInv' /\ T!Request
  <2>1. unackTimeoutCh' \in Seq(Keys) /\ Head(unackTimeoutCh) \in Keys  BY <1>9 DEF TimedOut
  <2>2. loop' \in Seq(Calls) /\ attempts' \in Nat
    <3>1. \/ UNCHANGED <<attempts, loop>>
          \/ /\ attempts < MaxConnAttempts /\ attempts' = attempts + 1
             /\ loop' = <<PutCall(SYN, RetryDelay(attempts'))>>
          \/ /\ attempts' = attempts
             /\ loop' = <<>> \/ loop' = <<PutCall(Head(unackTimeoutCh), timeout)>>
      BY <1>9, Zenon DEF TimedOut, End
    <3>2. <<>> \in Seq(Calls) /\ \A c \in Calls : <<c>> \in Seq(Calls)  OBVIOUS
    <3>3. PutCall(Head(unackTimeoutCh), timeout) \in Calls
      BY <2>1, CallTypes, TimeoutsAssumption, Zenon
    <3>4. ASSUME attempts < MaxConnAttempts, attempts' = attempts + 1
          PROVE  PutCall(SYN, RetryDelay(attempts')) \in Calls
      <4>1. RetryDelay(attempts') \in Nat
        BY <3>4, RetryDelayAssumption, BoundsAssumption
      <4>2. QED  BY <4>1, CallTypes, KeysAssumption
    <3>5. loop' \in Seq(Calls)
      <4>1. CASE UNCHANGED <<attempts, loop>>  BY <4>1
      <4>2. CASE /\ attempts < MaxConnAttempts /\ attempts' = attempts + 1
                 /\ loop' = <<PutCall(SYN, RetryDelay(attempts'))>>
        BY <3>2, <3>4, <4>2, Zenon
      <4>3. CASE loop' = <<>> \/ loop' = <<PutCall(Head(unackTimeoutCh), timeout)>>
        BY <3>2, <3>3, <4>3, Zenon
      <4>4. QED  BY <3>1, <4>1, <4>2, <4>3, Zenon
    <3>6. attempts' \in Nat
      <4>1. attempts' = attempts \/ attempts' = attempts + 1  BY <3>1, Zenon
      <4>2. QED  BY <4>1
    <3>7. QED  BY <3>5, <3>6
  <2>3. QED  BY <1>9, <2>1, <2>2 DEF TimedOut, Idle, T!Request
<1>10. QED  BY <1>1, <1>2, <1>3, <1>4, <1>5, <1>6, <1>7, <1>8, <1>9

\* Every step of the wheel and of its user is a step of the countdown timers or
\* leaves them alone.
LEMMA StepInv ==
  ASSUME WheelInv, [Next]_vars
  PROVE  WheelInv' /\ [T!Next]_(T!vars)
<1>1. CASE RunStep  BY <1>1, RunStepInv DEF T!Next, T!vars
<1>2. CASE Call  BY <1>2, CallInv DEF T!Next
<1>3. CASE ~RunStep /\ ~Call /\ Next  BY <1>3, OtherInv DEF Next, T!Next, T!vars
<1>4. CASE UNCHANGED vars
  BY <1>4 DEF vars, wheelVars, loopVars, WheelInv, T!vars
<1>5. QED  BY <1>1, <1>2, <1>3, <1>4

\* The time wheel, with its goroutine, its mutex and the event loop that uses it,
\* implements a set of countdown timers: whatever the interval, the number of slots
\* and the timeouts, no entry of the wheel is lost, and none fires after its delay.
THEOREM WheelImplementsTimers == Spec => ImplementsTimers
<1>1. Init => T!Init
  <2> SUFFICES ASSUME Init PROVE TimersOf(wheel) = {}  BY DEF T!Init
  <2>1. \A i \in Slots : wheel.slots[i] = {}  BY DEF Init, newTimeWheel
  <2>2. QED  BY <2>1 DEF TimersOf
<1>2. Init => WheelInv  BY InitInv
<1>3. WheelInv /\ [Next]_vars => WheelInv' /\ [T!Next]_(T!vars)  BY StepInv
<1>4. QED  BY <1>1, <1>2, <1>3, PTL DEF Spec, ImplementsTimers, T!Spec
=============================================================================
