# Verification of utp-go

utp-go is a Go implementation of µTP (BEP 29): reliable, ordered, congestion
controlled byte streams over UDP. This directory holds TLA+ modules that model its
protocol core, its timers, its streams and its socket, the TLC configurations that check
them on small instances, and proofs of the most important properties for instances of
every size.

## The system

| part | code | state | operations |
|---|---|---|---|
| sequence numbers | `seq.go` | – | wrapping uint16 arithmetic, circular ranges |
| receive buffer | `recv_buffer.go` | in-order bytes, `pending` out-of-order payloads, `consumed` | `Write` with its drain loop, `Read`, `Available`, `AckNum`, `WasWritten`, `SelectiveAck` |
| send buffer | `send_buffer.go` | queue of chunks, offset into the first | `Write`, `Read`, `Available` |
| congestion controller | `congestion.go` | window, bytes in flight, timeout, record per packet, RTT estimate, heap of delays | `OnTransmit`, `OnAck`, `OnLostPacket`, `OnTimeout`, `Push`, `BaseDelay` |
| sent packets | `sent_packet.go` | every packet sent, the lost ones, a controller | `OnTransmit`, `OnAck`, `OnTimeout`, queries |
| connection | `conn.go` | state, closing record, the four above, timers, channels | one handler per case of the event loop's select |
| packets | `packet.go` | – | `Build`, `Encode`, `DecodePacket` |
| time wheel | `delay_set.go` | slots of keys, a goroutine that ticks | `put`, `remove`, `retain`, expiry |
| stream | `stream.go` | channels, shutdown flag | `Write`, `ReadToEOF`, `Close` |
| socket | `utp_socket.go`, `cid.go` | connections by id, waiting accepts, incoming SYNs | routing, `Accept`, `Connect`, `Close` |
| the rest | `event.go`, `sync_map.go`, `delay_map.go`, `utp_utils.go`, `global.go`, `native/` | – | records, a locked map, unused or unrelated code |

Every connection is one goroutine: its event loop selects over packets from the socket,
queued writes, the `readable` and `writable` wake-up channels, timeouts from the time wheel,
an idle timer and the context. After each event it looks at the stream's shutdown flag,
and leaves once the connection is closed. The stream's callers, the wheel's goroutine and
the socket's read and write loops run next to it.

What is hard here, and is listed line by line under `hazards` in `PROJECT.json`: packets and
acks that are lost, repeated, late or reordered; timers that race acks; retransmissions that
combine old headers with new state; FINs of both sides crossing data; a window that shrinks
below what is in flight; unsigned counters at zero; 16-bit numbers that wrap; errors that
leave a handler halfway; goroutines that wait for each other through a mutex, a full
channel or an event nobody sends; and things that must eventually happen on a quiet
connection.

## Modules

A component has up to four modules: the operators (pure functions on the record that stands
for the Go struct, one per method), a `...Spec` that drives them through the calls its users
can make, an `MC...` for TLC, and a `...Proofs`. `Connection` uses the operator modules of
the buffers and of the sent packets as they are, so what is checked of a component is
checked of the definitions the connection runs on.

| module | models | notes |
|---|---|---|
| `SeqNum` | `seq.go` | the width of the circle is `SeqSpace` (65536 in the code) |
| `ByteCount` | – | the sum of a finite family of lengths, defined as a cardinality, so that proofs need no recursion; the bytes of a sequence of chunks (`Joined`), as a recursive function, since that is what the prover can unfold |
| `ReceiveBuffer`, `ReceiveBufferSpec` | `recv_buffer.go` | `consumed` counts packets; `pending` is a function on sequence numbers; the drain loop is the length of the run that starts at the next expected number |
| `SendBuffer`, `SendBufferSpec` | `send_buffer.go` | a `Write` is what `UtpStream.Write` hands over, cut to the free space as `processWrites` does |
| `ByteQueue` | – | the abstract specification of the send buffer: a bounded FIFO queue of bytes |
| `Transmissions` | `packetRecord` of `congestion.go` | the controller's records and the bytes of them in flight |
| `Congestion`, `CongestionSpec` | `congestion.go` | base delay and RTT estimate are inputs; the adjustment of the window is integer arithmetic with the code's roundings, and any integer where the code converts NaN |
| `Estimators`, `EstimatorsSpec` | `congestion.go`, from `computeRTTAdjustment` on | computes these two inputs from the acks while time passes; a step of it is a step of `CongestionSpec`. What the loop of `BaseDelay` leaves on the heap is written as a set: the delays at or above a fresh one. `Kilo` stands for the 1000 between two units of time, so that the code's mix of them stays visible |
| `SentPackets`, `SentPacketsSpec` | `sent_packet.go` | holds a controller (`Ctrl == INSTANCE Congestion`); the peer of the specification acknowledges what it holds |
| `Packet` | `packet.go` | header, bit mask of the selective ack and extensions as sequences of bytes; `DecodePacket` with its refusals |
| `PacketOnWire` | `packet.go` with `SelectiveAck` of `recv_buffer.go` | every packet a connection may send in a state of `ReceiveBufferSpec`, and what its peer makes of the bytes |
| `Connection` | `conn.go` | a record per connection, a handler per operator |
| `ConnectionSpec` | event loop of `conn.go`, `stream.go` | two connections, their applications, timers and a network |
| `TimeWheel`, `TimeWheelSpec` | `delay_set.go`, the timers of `conn.go` | the wheel, its goroutine and mutex, `unackTimeoutCh`, and the event loop that arms, disarms and takes |
| `Timers` | – | the abstract specification of the wheel: countdown timers |
| `StreamSpec` | `stream.go`, `processReads`, `processWrites` and the select of `conn.go` | the callers of one stream against its event loop, with bounded channels and both contexts |
| `Socket`, `SocketSpec` | `cid.go`, `utp_socket.go` | connection ids and lookup; the socket's three loops, its tables, its calls and `Close` |

### ConnectionSpec

`conn[e]` is the connection of side `e` (`"A"` connects, `"B"` accepts). An action of
`ConnectionSpec` is one turn of an event loop: the case of the select that was taken
(`Incoming`, `HandleWrite`, `HandleReadable`, `HandleWritable`, `TimedOut`, `IdleTimeout`,
`Cancel`), and then all that the loop does after it (`afterSelect`: shutdown, answering
pending writes, leaving). Only the event loop touches the connection's record, so a turn is
atomic with respect to it; what other goroutines do between turns are actions of their own:
`Write` and `StreamClose` (the application), `Tick` and `PrematureTick` (the wheel),
`Unregister` (the socket's write loop), `Lose` and `Duplicate` (the network).

What is abstracted:

- The network is a set of packets per side: delivery is in any order. A packet emitted twice
  with the same content while the first is still under way is one packet; `Duplicate`
  delivers a packet and keeps it.
- The select prefers stream events. Since the network delays packets at will, the
  preference excludes no order of events and is not modelled.
- The time wheel is the set of packets whose timer runs. `Tick` expires all of them when
  nothing is under way (a timeout is longer than a round trip); `PrematureTick` expires one
  at any moment, `MaxPremature` times. An ack stops every timer of what it acknowledges. The
  slots, and the entry of a packet that stays in a second slot when a selective ack removes
  the first, are in `TimeWheelSpec`.
- The reader takes every result as soon as `processReads` offers it; `delivered` and `readEnd`
  record what it got. Readers that are slow or give up are in `StreamSpec`.
- `Encode` followed by `DecodePacket` is the identity on a packet whose extension flag fits its
  selective ack. Otherwise bytes move between selective ack and body as in the code; the
  selective ack's bytes are then one byte, 0, that no application writes. That the bytes of
  `packet.go` behave so is what `OnTheWire` checks. A packet that announces a selective ack and
  has none is refused, which is exact for bodies of one byte, as in the instances: two bytes
  or more could be read as an extension, which is in `Packet`.
- Timestamps, RTT and delays do not appear; the window does not grow (`OnAck` adjusts it by
  0) and shrinks on losses and timeouts.
- Lengths of payloads are small; a byte is a number.

### TimeWheelSpec

The mutex is held over several steps only by `run`, from a tick to the advance of the pointer,
because the handler that `newConnection` passes may block on `unackTimeoutCh` in between
(`handing`); `put`, `retain` and `remove` are one step each (`Call`), possible while `run` does not hold
it. `loop` is the calls on the wheel that the event loop is in the middle of: it takes
nothing from `unackTimeoutCh` before they are done. The keys are the SYN and a data packet
that may be put again while an earlier entry of it is still in another slot. A loop that waits
in `processReads`, where it watches no context, is in `StreamSpec` and not here.

### StreamSpec

`loop` says whether the event loop is at its select, waits in `processReads` for room in `reads`
(from the `readable` case, or from `onPacket` on the way to the close), or has returned. The
reader, two calls of `Write` and `Close` each go through their own selects; a call may give
up when its own context is done (writers) or `streamCtx` is. Of the connection there is what
decides who waits for whom: which of the peer's packets have come, what is unacknowledged,
and how many writes the send buffer holds. Timeouts of packets (`unackTimeoutCh`), and the wait for
the wheel's mutex that comes with them, are in `TimeWheelSpec` and not here.

### SocketSpec

The read loop, the event loop (`handleIncomingBuf`, `handleNewAcceptWithCidEvent`), the write
loop, the calls `ConnectWithCid`, `Connect` and `AcceptWithCid`, and `Close`. A connection is seen from
outside: it takes an event from its channel, becomes connected, and ends by itself or by a
shutdown event, posting a shutdown event to the write loop, or by its context, without one.
It may also wait in `processReads` for a reader (`blocked`), from the `readable` case of its select
(`Blocks`) or with the FIN it has just taken (`Waits`); it then takes nothing from its channel and
does not look at its context until a reader comes (`Unblocks`), which nothing obliges one to do.

The look-up of an id and its entry in `conns` are steps of their own, since no lock spans the two:
`ConnectWithCid` and `Register` for the call of that name, `GenerateCid`, `EnterCid` and `Connect`, which enters
the channel a second time, for `Connect`. Between them another call may find the same id free.
The history variable `contended` collects the ids with which that has happened; on them the second
entry replaces the first, and a connection may run that no packet reaches (`SharedId` below).

The hash of an id is the pair of its numbers for a single peer. Ids that are in use are
assumed to be two or more apart (`ApartAssumption`): the application chooses them, and
`GenerateCid` draws them at random and checks only that the very id is free. With adjacent
ids a packet does reach the wrong connection.

## Runs

Passing runs:

| run | instance | states | shows |
|---|---|---|---|
| `receive_buffer` | 12 packets with numbers 12 to 15 and 0 to 7 of 16, room for 7 bytes | 4 634 | the buffer never holds more than its size; the next expected packet is never stuck; the bytes come out once, in order; selective acks are exact, and their bytes are decoded as they were meant; an accepted packet is a duplicate for ever |
| `send_buffer` | room for 4 bytes, reads of 0, 1, 3 | 188 296 | chunks with an offset implement `ByteQueue` |
| `congestion` | 4 packets of 0 or 2 bytes, two delays, two round-trip times, time 0 to 2 | 415 456 | bytes in flight, the floor of the window, admission; the base delay is the least of the delays of the window of time |
| `sent_packets` | 5 packets from number 7 of 8, 2 acks in the network | 338 586 | stale, repeated and reordered acks never acknowledge what the peer misses, never reset the connection, and nothing they say is lost |
| `one_way` | A writes 2 bytes and closes; one packet lost, one duplicated, one timer early | 464 104 | what is read is a prefix of what was written; clean ends are complete; a missing packet has a timer |
| `one_way_live` | the same with one lost packet, under fairness | 4 777 | everything written is delivered, and a close whose FIN is out completes |
| `both_ways` | both write and close, one idle timeout, one cancelled context | 1 254 411 | a clean end still means that all confirmed bytes came; timers are not lost; nothing is delivered after the end |
| `time_wheel` | 4 slots of 2 units, the SYN and one packet, `unackTimeoutCh` of 2, under fairness | 143 872 | the wheel implements `Timers`; calls on it return, or the two goroutines are in a standoff that only the context ends; the context ends both |
| `socket` | any two of: a `ConnectWithCid` and a `Connect` with one id, two `AcceptWithCid` with another; 8 ids, channels of one place, 2 packets, under fairness | 208 425 | a connection whose loop has not ended is the one registered under its id, unless two calls found the id free at the same time; an accept and its SYN never miss each other; packets reach the connection they are for; ids of closed connections become free; `Close` returns unless it meets the full channel of a loop that has ended, waits for a reader or has not begun |
| `stream` | two calls of `Write`, `ReadToEOF`, `Close`, one chunk and the FIN, channels of one place, under fairness | 80 557 | the end is reported after all data; a `Write` is answered once; `Close` returns unless the loop waits for a reader that is not there, and after it all calls return |

The bounds make the interesting cases happen: the numbers wrap in every run that has them;
the receive buffer is smaller than what arrives, and what is missing spreads over two bytes
of a selective ack; a window of one or two packets makes every loss and timeout bite;
`LossThreshold` is small enough for fast retransmission; `MaxConnAttempts` lets a SYN be
retried; channels of one or two places are full after one or two steps, as those of 100 or
1000 places are after many. One fault of each kind already leads to every path of the
handlers, because the answers of the other side multiply it. The state machines of
the components have no bound on the number of steps except the number of packets (and
`MaxTaken`, the bytes read, in `send_buffer`, `MaxNow`, the time, in `congestion`,
`MaxResent` and `MaxAcks` in `time_wheel`, and `MaxCalls` in `socket`, where two calls already
use one id after each other and at the same time, and replace each other's accept). Deadlock is checked where the system cannot
stop. It may where a panic ends the process, where both sides have closed, and where all
calls of a stream or a socket have returned.

Each property is also checked to be sensitive: the operators marked `Mutant` each plant
a plausible bug in one definition, and TLC finds the property violated with it.

Violation runs state what a comment, an assertion or a test of the repository says, and TLC
shows how the code gets to a state where it is not so:

| run | what happens |
|---|---|
| `stale_extension` | a retransmission announces no selective ack but carries one; its bytes become data (`conn.go:671`) |
| `early_close` | the peer's FIN closes a connection with confirmed bytes in its send buffer (`conn.go:821`) |

### Further configurations

These are run by hand, `tlc -config X.cfg M`, and each ends with a counterexample:

| configuration, module | property | what the code says | what happens |
|---|---|---|---|
| `SentPacketsPanic`, `MCSentPackets` | `TransmitNeverPanics` | the panics of `sent_packet.go:153` and `:180` mark what must not occur | after a loss or timeout narrows the window below what is in flight, the FIN's `OnTransmit` is refused by the controller and panics |
| `LostSynState`, `MCConnection` | `ConnectSurvivesLoss` | `TestDataValidWhenResendingSynStateResponse` (`integrated/stream_test.go:347`) expects the connection to come about | a retransmitted SYN is not answered when the first answer was lost (`conn.go:763`) |
| `IdleClose`, `MCConnection` | `CloseIsNoticed` | "Timeout closing stream" (`integrated/stream_test.go:127`) is a failure of the test | `Close` on a quiet connection waits for the idle timeout (`stream.go:147`) |
| `Backoff`, `MCTimeWheel` | `BackoffGrows` | "Double previous timeout for exponential backoff on each attempt" (`conn.go:638`) | 1.5 to the power of 2 is cut to 2, and two initial timeouts are one turn of the wheel, so the second wait ends at the next tick |
| `SharedId`, `MCSocket` | `AlwaysReachable` | a second call with an id in use gets "connection ID unavailable" (`utp_socket.go:578`) | two calls look the id up before either enters it (`utp_socket.go:576` and `:466`); the later entry replaces the earlier, whose connection runs on and is unreachable |
| `RttUnits`, `MCCongestion` | `TimeoutCoversTrip` | estimates "in microseconds" (`congestion.go:278`) | a number of microseconds becomes a `Duration`, which counts nanoseconds (`congestion.go:204`): the timeout is the minimum however long packets take. With `Kilo = 1` the property holds |

### Other disagreements

Met while modelling, followed by the models, and without a property of their own:

- The ack of the last outstanding packet is answered with an error after it was applied, and
  logged as an unknown number; its timers keep running (`sent_packet.go:244`).
- A reset after our FIN counts as a clean close even when the peer timed out before it got
  the data (`conn.go:1042`).
- After an idle timeout or a reset no result reaches the reader, since `eof()` is true of a
  closed connection (`conn.go:351`), and a `Write` still in the queue is not answered; both
  wait for `Close` or their context.
- When `unackTimeoutCh` is full the wheel's goroutine holds the mutex, and the event loop may
  wait for it in `put`; only cancelling the context frees them (`Standoff`).
- `Connect` reports "connection timed out" on success, because `onState` closes `connectedCh`
  instead of sending on it (`conn.go:928`, `utp_socket.go:556`). A loop that ends otherwise
  while it connects never signals, and `ConnectWithCid` never returns (`utp_socket.go:595`).
- A stream that ends by its context posts no shutdown event: its entry stays in `conns`, and
  `UtpSocket.Close` blocks when its channel is full (`CloseStuck`). It blocks as well at the full
  channel of a loop that waits in `processReads` for an application that has stopped reading.
- An accept that expires, or is replaced by another for the same id, gets no answer.
- `peerTsDiff` subtracts the packet's `TimestampDiff` where its `Timestamp` is meant
  (`conn.go:716`), so the delay reported to the peer is always one second.
- `Accept` without an id dereferences the id it does not have (`utp_socket.go:609`).

These facts also limit what the passing runs can claim: `one_way` keeps selective acks on one
direction, where `stale_extension` cannot occur, and `both_ways` does not claim
`DeliveredIsPrefix` or `CleanCloseIsComplete`; `one_way_live` excludes the loss of the answer to
the SYN, and its close is about a FIN that is out; the liveness properties of the wheel, the
stream and the socket name the wait that the code does not resolve (`Standoff`, `Jam`,
`CloseStuck`) and claim that there is no other among what their module models: `Standoff` is not
part of `StreamSpec`, nor `Jam` of `TimeWheelSpec`, and a stream can meet either. Both look like a
`blocked` connection to `SocketSpec`.

### Fairness

Of `ConnectionSpec`: `FairSpec` supposes what the code's scheduling gives: a packet that is
not lost is delivered (the socket's read loop never stops), each ready case of a select that is entered again and
again is taken (Go chooses among ready cases at random), the wheel's goroutine ticks, and
the socket's write loop drains its channel. Applications owe nothing: `Write` and `StreamClose`
have no fairness, nor have faults. Each conjunct is weak fairness of an action for both sides
together, with the guard written out in place of `ENABLED`, which TLC evaluates
very slowly on these actions.

Of `TimeWheelSpec`: the ticker ticks and `run` proceeds (weak fairness). A call on the wheel is strongly
fair, since a waiting `Lock` of Go's mutex is not passed over for ever while `run` takes and
releases it, and so is the case of the context in a select that is entered again and again.

Of `SocketSpec`: weak fairness of the socket's loops, `Close`, and the loops of connections together,
where a connection takes what is in its channel and ends when its shutdown was ordered;
packets, calls, readers and the end of a connection by itself are not owed.

Of `StreamSpec`: the loop proceeds within `processReads`, takes a write that waits again and again, notices its context, and falls idle when nothing comes; `Close` and `Write` proceed once
what they wait for is there; a reader takes a result that is offered again and again. No
call is obliged to begin, and no reader to come back for more.

## Proofs

Checked by TLAPS, for every value of the constants that satisfies the named assumptions.
Of the 40 properties that the passing runs check, 22 are theorems.

**Data** (`DataLemmas`). Lemmas about the operators the models count and join bytes with.
`Bytes(len)` is the number of cells `{<<i, n>> : n \in 1..len[i]}`, so adding or removing an item
is a disjoint union. What a recursive function computes cannot be proved with the library's induction
theorems, whose parameter is an operator; where it is needed (`Joined`, the chain of
extensions) the proof takes the least argument at which the function would fail
(`LeastElement`) and shows that there is none.

**Receive buffer** (`ReceiveBufferProofs`; assumptions: `SeqSpace`, `BufferSize`, lengths and read
sizes are natural numbers, and fewer packets than `SeqSpace` are in play).

- `BufferInvariant`: `Spec => [](TypeOK /\ CapacityRespected /\ DrainComplete)`. Capacity is not
  inductive by itself: draining moves bytes from `pending` to `buf`, so one must know that
  `pending` is a finite map of payloads whose bytes add up (`HeldSplit`, `HeldAdd`), that
  the drained run is exactly the numbers up to the first gap (`RunLengthIsFirstGap`, from
  `LeastElement`), and that what is moved is what is removed (`DrainEffect`). `IInv` states
  the types this needs together with the two properties. `DrainNeverStalls` is its last part.
- `NeverForgotten`: `Spec => AcceptedForever`. Needs in addition that `consumed` has not gone once
  around the circle (`NumInv`), and that membership in the circular range from the initial
  number to `AckNum` is a comparison of distances (`RangeIsDistance`).
- `SelectiveAckIsExact`: `Spec => []SelectiveAckExact`, as long as there are at most
  `MaxSelectiveAckCount + 1` packets. The bits of the code reach no further, so without the
  restriction only one half would hold: what is named is held.
- `StreamInOrder`: `Spec => []InOrderExactlyOnce`. `StreamInv` says in addition that what lies in `pending`
  under number `InitSeqNum + k` is the payload of packet `k`; then the bytes of a drained run are
  those of the next packets (`SentRun`), and as many as `offset` grows by (`RunBytes`).

**Send buffer** (`OutgoingProofs`; assumptions: the size is a natural number, writes are sequences).

- `SendBufferIsQueue`: `Spec => ImplementsByteQueue`. The queue is the joined chunks from the offset
  on. `SendInv` says that only the first chunk is partly read, and that an empty list of
  chunks has offset 0; without it a chunk that is read to its end would free its space twice.

**Packets** (`OutgoingProofs`; assumption: nil is not a value, `NilIsNone`).

- `HeaderRoundTrip`: `DecodePacketHeader` inverts `EncodeToBytes` on every header.
- `SelectiveAckRoundTrip`: the same for selective acks of any number of words.
- `PacketRoundTrip`: `DecodePacket` inverts `Encode` on every packet whose header announces the selective
  ack it carries, for selective acks of 1 to 63 words (252 bytes: the length has one byte) and
  bodies of any length. The chain of extensions ends because each takes two bytes at least
  (`WalkExists`).
- `UnannouncedAck`: a packet with a selective ack that its header does not announce is decoded
  without one, and its body begins with the bytes of the ack. This is what `ConnectionSpec`
  assumes of such packets, and what the run `stale_extension` comes down to.

**Congestion controller** (`CongestionProofs`; assumptions: the configured sizes and timeouts are
natural numbers in the order the code's defaults have, inputs are natural numbers, `Kilo` is not 0).

- `WindowAccounting`: `Spec => [](TypeOK /\ WindowIsInFlight /\ IdleSenderCanSend /\ TimeoutBounded)`.
  The inductive invariant adds the controller's own invariant `CtrlInv` (while no panic has
  happened the map of records is finite and `windowSizeBytes` is the sum over the
  unacknowledged ones) and the floor of the window. Each method has a lemma; the sums
  change by `InFlightAdd` and `InFlightAck`. `WindowNeverStarves` is the part about the idle sender.
- `AdmissionTheorem`: `Spec => AdmissionRespected`, from the same invariant.
- `BaseDelayIsLeast`: `EstSpec => []BaseIsRecentLeast`. `DelayInv` says that every delay on the heap was
  heard, and that one heard within the window of time is still on it: `BaseDelay` pops only
  what has expired, and leaves an expired delay only below a fresh one that is smaller.
- `EstimatorsKeepBooks`: the books and the admission hold under `EstSpec`, too, where base delay and
  timeout are computed from the acks and not chosen.

**Sent packets** (`SentPacketsProofs`; assumptions: the packets stay below one turn of the
sequence numbers, `BoundAssumption`; windows, lengths and estimates are natural numbers).

- `BooksTheorem`, `LostTheorem`, `AckedTheorem`, `HeardTheorem`, `StaleAckTheorem`, `SentForeverTheorem`: all six
  properties of the run. They share one inductive invariant, `IInv`: the list of packets and the controller's
  records agree number by number (`Books`); a packet on the list of lost ones is
  unacknowledged and has `LossThreshold` acknowledged ones after it (`LostOK`); what is
  acknowledged was received; and every ack under way is one that the peer could have sent of
  what it has now (`AcksTruthful`), which is what makes old acks harmless. `Counted`, that
  `windowSizeBytes` is what is unacknowledged, holds until a panic. `NextStep` proves the
  invariant and the action property together, handler by handler.

**Time wheel** (`TimeWheelProofs`; assumptions: the wheel has slots and an interval, finitely many
keys, timeouts are natural numbers).

- `WheelImplementsTimers`: `Spec => ImplementsTimers`, with an entry in slot `i` standing for a timer
  that has `(i - current) % SlotNum` ticks left. Each method of the wheel has a lemma on what it
  does to that set (`PutTimers`, `RetainTimers`, `RemoveTimers`, `TakeTimers`, `AdvanceTimers`). The advance is
  the crux: it takes one off every remainder because the slot that would wrap is empty, which
  `run` sees to, holding the mutex. `SlotsAheadPromise` is about the slot that `put` chooses. The
  inductive invariant `WheelInv` is about types: what the goroutines pass on are keys, and calls
  whose delays `put` accepts.

**Socket** (`SocketProofs`; assumptions: more than three ids, ids in use two or more apart).

- `RoutingIsExact`: of the three candidates a packet gives rise to, the first that is registered is
  the connection the packet is for, if that is registered, and none is otherwise.
- `SocketRoutes`: `Spec => []RoutedToOwner`. `RouteInv` adds that the entry of an id is a stream of that id,
  and that an accept waits under the id it was called with.
- `MeetingsAreMade`: `Spec => []NoMissedMeeting`, which is inductive as it stands.
- `RunningReached`: `Spec => []RunningIsReachable`, without a lock around look-up and entry. `ReachInv` says
  of every id that is not contended (`IdInv`): whoever holds it, having entered it or running
  under it, is the one in `conns`; at most one call is between look-up and entry, and the id is
  then still free; a shutdown event that waits for the write loop is the only one for its id and finds an ended
  stream there. So a removal by id alone never hits a later connection, and what two calls do to
  a contended id harms no other.

**Stream** (`StreamProofs`; assumptions: channels have at least one place).

- `EofMeansAll`: `Spec => []EofIsComplete`. `ReadInv` says that what was read and what waits in `reads` are
  together the beginning of the chunks followed by ends, and as many as the loop has taken
  from the receive buffer: calls that give up, and a `processReads` that waits in the middle,
  lose and repeat nothing.
- `WritesAnsweredOnce`: `Spec => []AnsweredOnce`. `WriteInv` says where an unanswered `Write` is: not offered
  yet, in the channel, or in `pendingWrites`, in one of them and once. Each handler is shown
  to take a `Write` out of `pendingWrites` when it answers it.

Only model-checked:

- Liveness (`WrittenIsDelivered`, `FinCompletes`, `WheelCallsReturn`, `CancelEndsAll`, `CloseCompletes`,
  `ClosedIsForgotten`, `CloseReturns`, `CallsReturn`): the prover does not reason about fairness.
- `OnTheWire`: what it says of packets is proved for all of them by `PacketRoundTrip` and
  `UnannouncedAck`; that the packets of every state of the receive buffer are among those, and that a
  body too short for the extension announced is refused, is checked by TLC.
- The invariants of `ConnectionSpec` and `NothingAfterEnd`. `DeliveredIsPrefix` and `CleanCloseIsComplete`
  do not hold for every value of the constants (`stale_extension` and `early_close` are values at
  which they fail), so a theorem needs the hypothesis under which they do; and all of
  them need an invariant that ties both connections to every packet in the network.

## Not modelled

- Timestamps and `peerTsDiff` of `conn.go`: the delays and round-trip times that the controller is
  told are inputs.
- The peer's window together with a slow reader: the reader of `ConnectionSpec` is prompt, and
  `StreamSpec` has no peer; both at once leave TLC's reach.
- The capacity of `socketEvents`, a million places.
- `Accept` without an id, which cannot work (see above); UDP reads and writes, and a
  permanent read error.
- `SentPackets` across a full turn of the sequence circle: the list of all packets sent is never
  trimmed (`sent_packet.go:396`), and a turn of even a small circle has too many states.
- `Len` of the wheel and `Next` of a range, which only tests use; `delay_map.go`, which nothing uses;
  `utp_utils.go`, `global.go`, which hold no state of the protocol; the cgo demo.

## Plan

1. A slow reader and the reopening of a closed window, with a smaller model of the
   sender than `Connection`.
2. `SentPackets` across a full turn of the sequence circle.
3. Proofs about `ConnectionSpec`: `DeliveredIsPrefix` and `CleanEndIsComplete` for transfers in one
   direction, on top of the theorems about the buffers and the sent packets.
