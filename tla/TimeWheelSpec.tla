--------------------------- MODULE TimeWheelSpec ---------------------------
(***************************************************************************)
(* The retransmission timers of one connection: the time wheel of          *)
(* delay_set.go with its goroutine and mutex, the channel unackTimeoutCh,  *)
(* and the event loop of conn.go that arms the timers, disarms them and    *)
(* takes the expired ones.  The mutex is held across steps only by run,    *)
(* from the tick to the advance; a method of the wheel is one step, taken  *)
(* while run does not hold it.                                             *)
(***************************************************************************)
EXTENDS TimeWheel, Sequences, Functions

CONSTANTS SYN,              \* the key of the SYN, a member of Keys
          Timeouts,         \* what SentPackets.Timeout() may return
          MaxConnAttempts,
          Cap,              \* the capacity of unackTimeoutCh, 1000 in the code
          MaxResent,        \* bound: fast retransmissions
          MaxAcks           \* bound: acknowledgements that disarm something

ASSUME KeysAssumption == IsFiniteSet(Keys) /\ SYN \in Keys
ASSUME TimeoutsAssumption == Timeouts \subseteq Nat
ASSUME BoundsAssumption == {Cap, MaxConnAttempts, MaxResent, MaxAcks} \subseteq Nat

VARIABLES wheel,
          tick,             \* a tick is waiting in ticker.C
          stopped,          \* the channel stopped is closed
          run,              \* what the goroutine run is doing
          handing,          \* the entry it has taken out and is handing over, if any
          unackTimeoutCh,
          ctx,              \* the context of the stream is "live" or "done"
          phase,            \* the connection's state
          attempts,
          loop,             \* the calls on the wheel the event loop is in
          sent,             \* the packets that were transmitted
          resent, acks,
          synWait,          \* ticks the SYN's timer has been armed for
          gaps              \* history: the waits of the SYN's timers so far

wheelVars == <<wheel, tick, stopped, run, handing, unackTimeoutCh>>
loopVars == <<phase, attempts, loop, sent, resent, acks>>
vars == <<wheelVars, ctx, loopVars, synWait, gaps>>

\* newConnection: the wheel turns once in twice the initial timeout.
InitialTimeout == (SlotNum * Interval) \div 2

\* The delay before the next attempt: 1.5 to the power of the attempts, cut to
\* a whole number of initial timeouts.
RetryDelay(n) == InitialTimeout * (3 ^ n \div 2 ^ n)

ASSUME RetryDelayAssumption == \A n \in 1..MaxConnAttempts : RetryDelay(n) \in Nat

PutCall(key, delay) == [op |-> "put", keys |-> {key}, delay |-> delay]
RetainCall(keys) == [op |-> "retain", keys |-> keys, delay |-> 0]
RemoveCall(key) == [op |-> "remove", keys |-> {key}, delay |-> 0]

\* The start of eventLoop, on the side that connects and on the side that accepts.
Init ==
  /\ wheel = newTimeWheel
  /\ tick = FALSE /\ stopped = FALSE /\ run = "waiting" /\ handing = {}
  /\ unackTimeoutCh = <<>> /\ ctx = "live"
  /\ \/ phase = "connecting" /\ attempts = 1 /\ loop = <<PutCall(SYN, InitialTimeout)>>
     \/ phase = "connected" /\ attempts = 0 /\ loop = <<>>
  /\ sent = {} /\ resent = 0 /\ acks = 0
  /\ synWait = 0 /\ gaps = <<>>

-----------------------------------------------------------------------------
(* The goroutine of the wheel. *)

\* The ticker drops a tick that finds the channel occupied.
Ticker ==
  /\ ~stopped /\ ~tick
  /\ tick' = TRUE
  /\ UNCHANGED <<wheel, stopped, run, handing, unackTimeoutCh, ctx, loopVars, synWait, gaps>>

Armed(key) == \E i \in Slots : key \in wheel.slots[i]

Lock ==
  /\ run = "waiting" /\ tick
  /\ tick' = FALSE /\ run' = "sweeping"
  /\ synWait' = IF Armed(SYN) THEN synWait + 1 ELSE synWait
  /\ UNCHANGED <<wheel, stopped, handing, unackTimeoutCh, ctx, loopVars, gaps>>

Expire(key) ==
  /\ run = "sweeping" /\ handing = {} /\ key \in wheel.slots[wheel.current]
  /\ wheel' = takeOut(wheel, key)
  /\ handing' = {key}
  /\ IF key = SYN THEN gaps' = Append(gaps, synWait) /\ synWait' = 0
                  ELSE UNCHANGED <<gaps, synWait>>
  /\ UNCHANGED <<tick, stopped, run, unackTimeoutCh, ctx, loopVars>>

\* handleExpiration: the select of newConnection's closure.
\* Mutant: the channel counts as full one entry too soon.
RoomForTwo(ch) == Len(ch) + 1 < Cap
Room(ch) == Len(ch) < Cap

HandOver ==
  /\ handing # {} /\ Room(unackTimeoutCh)
  /\ \E key \in handing : unackTimeoutCh' = Append(unackTimeoutCh, key)
  /\ handing' = {}
  /\ UNCHANGED <<wheel, tick, stopped, run, ctx, loopVars, synWait, gaps>>

GiveUp ==
  /\ handing # {} /\ ctx = "done"
  /\ handing' = {}
  /\ UNCHANGED <<wheel, tick, stopped, run, unackTimeoutCh, ctx, loopVars, synWait, gaps>>

Unlock ==
  /\ run = "sweeping" /\ handing = {} /\ wheel.slots[wheel.current] = {}
  /\ wheel' = advance(wheel) /\ run' = "waiting"
  /\ UNCHANGED <<tick, stopped, handing, unackTimeoutCh, ctx, loopVars, synWait, gaps>>

Exit ==
  /\ run = "waiting" /\ stopped
  /\ run' = "exited"
  /\ UNCHANGED <<wheel, tick, stopped, handing, unackTimeoutCh, ctx, loopVars, synWait, gaps>>

RunStep == Lock \/ (\E key \in Keys : Expire(key)) \/ HandOver \/ GiveUp \/ Unlock \/ Exit

-----------------------------------------------------------------------------
(* The event loop of the connection. *)

\* A method of the wheel, once the mutex is free.
Call ==
  /\ loop # <<>> /\ run \in {"waiting", "exited"}
  /\ LET c == Head(loop)
         key == CHOOSE k \in c.keys : TRUE
     IN  wheel' = CASE c.op = "put" -> put(wheel, key, c.delay)
                    [] c.op = "retain" -> retain(wheel, c.keys)
                    [] c.op = "remove" -> remove(wheel, key)
  /\ loop' = Tail(loop)
  /\ UNCHANGED <<tick, stopped, run, handing, unackTimeoutCh, ctx, phase, attempts, sent,
                 resent, acks, synWait, gaps>>

Idle == loop = <<>> /\ phase # "ended"

\* onState: the SYN is answered.  Its timer is left to run.
Connected ==
  /\ Idle /\ phase = "connecting"
  /\ phase' = "connected"
  /\ UNCHANGED <<wheelVars, ctx, attempts, loop, sent, resent, acks, synWait, gaps>>

\* transmit, for a new packet and for one that three later ones overtook.
Transmit(key, timeout) ==
  /\ Idle /\ phase = "connected" /\ key # SYN
  /\ key \in sent => resent < MaxResent
  /\ loop' = <<PutCall(key, timeout)>>
  /\ sent' = sent \cup {key}
  /\ resent' = IF key \in sent THEN resent + 1 ELSE resent
  /\ UNCHANGED <<wheelVars, ctx, phase, attempts, acks, synWait, gaps>>

\* processAck: which packets the two parts of an acknowledgement name is the
\* business of module SentPackets.
Acked(full, selected) ==
  /\ Idle /\ phase = "connected" /\ acks < MaxAcks
  /\ \E order \in Bijection(1..Cardinality(selected), selected) :
        loop' = <<RetainCall(full)>> \o [i \in 1..Cardinality(selected) |-> RemoveCall(order[i])]
  /\ acks' = acks + 1
  /\ UNCHANGED <<wheelVars, ctx, phase, attempts, sent, resent, synWait, gaps>>

\* The loop returns: its deferred call stops the wheel.
\* Mutant: without the deferred call.
EndWithoutStop ==
  /\ phase' = "ended"
  /\ UNCHANGED <<stopped, attempts, loop>>
End ==
  /\ phase' = "ended" /\ stopped' = TRUE
  /\ UNCHANGED <<attempts, loop>>

\* onTimeout
TimedOut(timeout) ==
  /\ Idle /\ unackTimeoutCh # <<>>
  /\ unackTimeoutCh' = Tail(unackTimeoutCh)
  /\ LET key == Head(unackTimeoutCh) IN
     \/ /\ phase = "connecting" /\ attempts >= MaxConnAttempts
        /\ End
     \/ /\ phase = "connecting" /\ attempts < MaxConnAttempts
        /\ attempts' = attempts + 1
        /\ loop' = <<PutCall(SYN, RetryDelay(attempts'))>>
        /\ UNCHANGED <<phase, stopped>>
     \/ /\ phase = "connected"
        /\ loop' = IF key = SYN THEN <<>> ELSE <<PutCall(key, timeout)>>
        /\ UNCHANGED <<phase, attempts, stopped>>
  /\ UNCHANGED <<wheel, tick, run, handing, ctx, sent, resent, acks, synWait, gaps>>

\* The select chose ctx.Done.
CtxDone ==
  /\ Idle /\ ctx = "done"
  /\ End
  /\ UNCHANGED <<wheel, tick, run, handing, unackTimeoutCh, ctx, sent, resent, acks, synWait, gaps>>

\* The connection closed for another reason: a FIN, a reset, an idle peer.
Closed ==
  /\ Idle
  /\ End
  /\ UNCHANGED <<wheel, tick, run, handing, unackTimeoutCh, ctx, sent, resent, acks, synWait, gaps>>

Cancel ==
  /\ ctx = "live"
  /\ ctx' = "done"
  /\ UNCHANGED <<wheelVars, loopVars, synWait, gaps>>

\* Both goroutines have returned.
Over == phase = "ended" /\ run = "exited" /\ UNCHANGED vars

Next ==
  \/ Ticker
  \/ RunStep
  \/ Call
  \/ Connected
  \/ \E key \in Keys, timeout \in Timeouts : Transmit(key, timeout)
  \/ \E full, selected \in SUBSET sent : full \cap selected = {} /\ Acked(full, selected)
  \/ \E timeout \in Timeouts : TimedOut(timeout)
  \/ CtxDone
  \/ Closed
  \/ Cancel
  \/ Over

Spec == Init /\ [][Next]_vars

\* The ticker ticks and the scheduler runs every goroutine that can run.  A Go
\* mutex hands itself to a waiter that it has kept waiting, and a select that
\* again and again finds ctx.Done ready chooses it at some time.
FairSpec == Spec /\ WF_vars(Ticker) /\ WF_vars(RunStep) /\ SF_vars(Call) /\ SF_vars(CtxDone)

-----------------------------------------------------------------------------
(* Properties. *)

\* The entries of a wheel, each with the ticks it still has to wait.
TimersOf(w) ==
  UNION {{[key |-> key, left |-> (i - w.current) % SlotNum] : key \in w.slots[i]} : i \in Slots}

T == INSTANCE Timers WITH calls <- loop, timers <- TimersOf(wheel)

\* The wheel of delay_set.go is a set of countdown timers: an entry that is put
\* into it stays armed until it is disarmed or fires, fires in the tick its delay
\* asked for or, where the delay is longer than a turn of the wheel, no later, and
\* no tick passes it by, however puts, retains and removes fall between the ticks.
ImplementsTimers == T!Spec

\* The handler of newConnection waits for room in unackTimeoutCh while run holds
\* the mutex.
Standoff == handing # {} /\ Len(unackTimeoutCh) = Cap /\ ctx = "live"

\* A put, retain or remove of the event loop returns, unless run, which holds the
\* mutex, is forever left with a full unackTimeoutCh that only this loop empties.
WheelCallsReturn == (loop # <<>>) ~> (loop = <<>> \/ []Standoff)

\* Once the context of a stream is done, the event loop returns and so does the
\* goroutine of its wheel, even when the two were waiting for each other.  A loop
\* that waits in processReads watches no context: that wait is Jam of StreamSpec.
CancelEndsAll == (ctx = "done") ~> (phase = "ended" /\ run = "exited")

\* "Double previous timeout for exponential backoff on each attempt": no SYN is
\* sent again after a shorter wait than the one before it.
BackoffGrows == \A i \in 1..(Len(gaps) - 1) : gaps[i] <= gaps[i + 1]
=============================================================================
