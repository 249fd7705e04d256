----------------------------- MODULE SocketSpec -----------------------------
(***************************************************************************)
(* One UtpSocket: its read, event and write loops, the map of connections, *)
(* the accepts that wait for a SYN and the SYNs that wait for an accept,   *)
(* the calls of the application, and Close.  A connection is what          *)
(* ConnectionSpec makes of it seen from outside: it takes events from its  *)
(* channel, becomes connected, and ends.                                   *)
(***************************************************************************)
EXTENDS Socket, Sequences, FiniteSets, Functions

CONSTANTS Connects,         \* calls of ConnectWithCid
          Generated,        \* calls of Connect
          Accepts,          \* calls of AcceptWithCid
          lowerOf,          \* the ids that Connects and Accepts are called with
          GenIds,           \* the ids GenerateCid may draw
          StreamCap,        \* the capacity of streamEvents, 1000 in the code
          MaxCalls,         \* bound: calls that are made
          MaxPackets        \* bound: packets that arrive

Calls == Connects \cup Generated \cup Accepts

AllCids == {InitiatorCid(lowerOf[c]) : c \in Connects} \cup {InitiatorCid(lower) : lower \in GenIds}
           \cup {AcceptorCid(lowerOf[c]) : c \in Accepts}

ASSUME CallsAssumption == Connects \cap Generated = {} /\ (Connects \cup Generated) \cap Accepts = {}
ASSUME LowerAssumption == \A c \in Connects \cup Accepts : lowerOf[c] \in Ids
ASSUME GenIdsAssumption == GenIds \subseteq Ids
\* Ids that were drawn at random are taken to be two or more apart.
ASSUME ApartAssumption == Apart(AllCids)

VARIABLES conns,            \* cid -> the stream whose channel is registered
          awaiting,         \* cid -> the accept that waits for its SYN
          incoming,         \* the cids of the SYNs nobody has accepted yet
          acceptsCh, incomingBuf, socketEvents,
          eventLoop,        \* the socket's event loop: running or returned
          sock,             \* where Close is: open, cancelled, sending, closed
          toSend,           \* the channels Close has yet to send to
          api,              \* how far every call is
          stream,           \* the connection every call has made
          packets,
          contended         \* history: the ids that two calls have found free at a time

queues == <<acceptsCh, incomingBuf, socketEvents>>
history == <<packets, contended>>
vars == <<conns, awaiting, incoming, queues, eventLoop, sock, toSend, api, stream, history>>

NewUtpStream(phase, cid, under) ==
  [phase |-> phase, cid |-> cid, under |-> under, ch |-> <<>>, shutdown |-> FALSE]

NoStream == NewUtpStream("none", AcceptorCid(0), "call")

Init ==
  /\ conns = <<>> /\ awaiting = <<>> /\ incoming = {}
  /\ acceptsCh = <<>> /\ incomingBuf = <<>> /\ socketEvents = <<>>
  /\ eventLoop = "running" /\ sock = "open" /\ toSend = {}
  /\ api = [c \in Calls |-> "idle"]
  /\ stream = [c \in Calls |-> NoStream]
  /\ packets = 0 /\ contended = {}

\* sendShutdownEventToConns holds connsMutex for reading while it sends.
LockFree == sock # "sending"

PutKey(map, key, value) == [k \in DOMAIN map \cup {key} |-> IF k = key THEN value ELSE map[k]]
RemoveKey(map, key) == Restrict(map, DOMAIN map \ {key})

\* The event loop of a connection has begun and has not ended.
Live(c) == stream[c].phase \in {"connecting", "connected", "blocked"}
\* It gets round to its select, and does not wait for a reader.
Runs(c) == Live(c) /\ stream[c].phase # "blocked"

-----------------------------------------------------------------------------
(* The calls of the application. *)

Begins(c) == api[c] = "idle" /\ Cardinality({d \in Calls : api[d] # "idle"}) < MaxCalls

\* A call has found its id free and goes on with it.  What follows is not under the
\* lock of the look-up: another call may find the id free as well.
FoundFree(c, cid) ==
  /\ api' = [api EXCEPT ![c] = "checked"]
  /\ stream' = [stream EXCEPT ![c].cid = cid]
  /\ contended' = IF \E d \in Calls : api[d] = "checked" /\ stream[d].cid = cid
                  THEN contended \cup {cid} ELSE contended

\* ConnectWithCid, up to the check.
\* Mutant: without the check.
ConnectUnchecked(c) ==
  /\ Begins(c) /\ FoundFree(c, InitiatorCid(lowerOf[c]))
  /\ UNCHANGED <<conns, awaiting, incoming, queues, eventLoop, sock, toSend, packets>>
ConnectWithCid(c) ==
  /\ Begins(c)
  /\ \/ /\ InitiatorCid(lowerOf[c]) \in DOMAIN conns
        /\ api' = [api EXCEPT ![c] = "returned"] /\ UNCHANGED <<stream, contended>>
     \/ /\ InitiatorCid(lowerOf[c]) \notin DOMAIN conns
        /\ FoundFree(c, InitiatorCid(lowerOf[c]))
  /\ UNCHANGED <<conns, awaiting, incoming, queues, eventLoop, sock, toSend, packets>>

\* Connect: GenerateCid draws until it has an id that is not registered.
GenerateCid(c) ==
  /\ Begins(c)
  /\ \E lower \in GenIds :
       InitiatorCid(lower) \notin DOMAIN conns /\ FoundFree(c, InitiatorCid(lower))
  /\ UNCHANGED <<conns, awaiting, incoming, queues, eventLoop, sock, toSend, packets>>

PutConnStream(c) == LockFree /\ conns' = PutKey(conns, stream[c].cid, c)

\* GenerateCid enters the channel of the stream that is yet to be made.
EnterCid(c) ==
  /\ api[c] = "checked" /\ PutConnStream(c)
  /\ api' = [api EXCEPT ![c] = "entered"]
  /\ UNCHANGED <<awaiting, incoming, queues, eventLoop, sock, toSend, stream, history>>

\* The entry, and the stream that sends the SYN.  Its channel keeps what it has got.
OpenStream(c) ==
  /\ PutConnStream(c)
  /\ stream' = [stream EXCEPT ![c].phase = "connecting"]
  /\ api' = [api EXCEPT ![c] = "waiting"]
  /\ UNCHANGED <<awaiting, incoming, queues, eventLoop, sock, toSend, history>>

\* The rest of ConnectWithCid, and of Connect, which enters the channel once more.
Register(c) == api[c] = "checked" /\ OpenStream(c)
Connect(c) == api[c] = "entered" /\ OpenStream(c)

\* AcceptWithCid
AcceptWithCid(c) ==
  /\ Begins(c)
  /\ \/ acceptsCh' = Append(acceptsCh, c) /\ api' = [api EXCEPT ![c] = "waiting"]
     \/ sock # "open" /\ api' = [api EXCEPT ![c] = "returned"] /\ UNCHANGED acceptsCh
  /\ UNCHANGED <<conns, awaiting, incoming, incomingBuf, socketEvents, eventLoop, sock, toSend,
                 stream, history>>

\* The context of a call may be done at any time.  Connect and AcceptWithCid then
\* return; ConnectWithCid waits for the connection's signal alone.
GivesUp(c) ==
  /\ c \in Generated \cup Accepts /\ api[c] = "waiting"
  /\ api' = [api EXCEPT ![c] = "returned"]
  /\ UNCHANGED <<conns, awaiting, incoming, queues, eventLoop, sock, toSend, stream, history>>

-----------------------------------------------------------------------------
(* The read loop and the event loop. *)

\* The peer answers a connection that has sent its SYN, and connects to the ids that
\* are accepted here.
PeerPackets ==
  LET started == {c \in Connects \cup Generated : stream[c].phase # "none"}
  IN  UNION {PacketsTo(cid) : cid \in {stream[c].cid : c \in started}
                                      \cup {AcceptorCid(lowerOf[c]) : c \in Accepts}}

\* readLoop.  A read that was under way when the context was cancelled might as well
\* have come before.
Read(p) ==
  /\ sock = "open" /\ packets < MaxPackets
  /\ incomingBuf' = Append(incomingBuf, p)
  /\ packets' = packets + 1
  /\ UNCHANGED <<conns, awaiting, incoming, acceptsCh, socketEvents, eventLoop, sock, toSend, api,
                 stream, contended>>

\* A channel that is full loses the packet.
SendTo(c, p) ==
  IF Len(stream[c].ch) < StreamCap THEN stream' = [stream EXCEPT ![c].ch = Append(@, p)]
  ELSE UNCHANGED stream

\* A call that still waits is answered.
Answered(c) == api' = [api EXCEPT ![c] = IF @ = "waiting" THEN "returned" ELSE @]

\* handleIncomingBuf.  A connection that is accepted signals as soon as it starts,
\* and awaitConnected passes the signal on.  A packet without a connection that is
\* no SYN is answered by a reset, which leaves the socket as it is.
HandleIncomingBuf ==
  /\ eventLoop = "running" /\ incomingBuf # <<>>
  /\ incomingBuf' = Tail(incomingBuf)
  /\ LET p == Head(incomingBuf)
         cid == CidFromPacket(p, "RecvId")
     IN
     \/ /\ Matches(DOMAIN conns, p) # {}
        /\ SendTo(conns[FirstMatch(DOMAIN conns, p)], p)
        /\ UNCHANGED <<conns, awaiting, incoming, api>>
     \/ /\ Matches(DOMAIN conns, p) = {} /\ p.type # "syn"
        /\ UNCHANGED <<conns, awaiting, incoming, stream, api>>
     \/ /\ Matches(DOMAIN conns, p) = {} /\ p.type = "syn" /\ cid \in DOMAIN awaiting
        /\ LockFree
        /\ awaiting' = RemoveKey(awaiting, cid)
        /\ conns' = PutKey(conns, cid, awaiting[cid])
        /\ stream' = [stream EXCEPT ![awaiting[cid]] = NewUtpStream("connected", cid, "socket")]
        /\ Answered(awaiting[cid])
        /\ UNCHANGED incoming
     \/ /\ Matches(DOMAIN conns, p) = {} /\ p.type = "syn" /\ cid \notin DOMAIN awaiting
        /\ incoming' = incoming \cup {cid}
        /\ UNCHANGED <<conns, awaiting, stream, api>>
  /\ UNCHANGED <<acceptsCh, socketEvents, eventLoop, sock, toSend, history>>

\* handleNewAcceptWithCidEvent
\* Mutant: the SYNs that came before the accept are not looked at.
AcceptOnlyLater(c, cid) ==
  /\ awaiting' = PutKey(awaiting, cid, c)
  /\ UNCHANGED <<conns, incoming, api, stream>>
NewAcceptWithCid(c, cid) ==
  \/ /\ cid \in incoming /\ cid \notin DOMAIN conns
     /\ LockFree
     /\ incoming' = incoming \ {cid}
     /\ conns' = PutKey(conns, cid, c)
     /\ stream' = [stream EXCEPT ![c] = NewUtpStream("connected", cid, "call")]
     /\ Answered(c)
     /\ UNCHANGED awaiting
  \/ /\ cid \in incoming /\ cid \in DOMAIN conns
     /\ incoming' = incoming \ {cid}
     /\ Answered(c)
     /\ UNCHANGED <<conns, awaiting, stream>>
  \/ /\ cid \notin incoming
     /\ awaiting' = PutKey(awaiting, cid, c)
     /\ UNCHANGED <<conns, incoming, api, stream>>

\* The loop turns to the accepts when no packet waits.
HandleNewAcceptWithCidEvent ==
  /\ eventLoop = "running" /\ incomingBuf = <<>> /\ acceptsCh # <<>>
  /\ acceptsCh' = Tail(acceptsCh)
  /\ NewAcceptWithCid(Head(acceptsCh), AcceptorCid(lowerOf[Head(acceptsCh)]))
  /\ UNCHANGED <<incomingBuf, socketEvents, eventLoop, sock, toSend, history>>

EventLoopReturns ==
  /\ eventLoop = "running" /\ incomingBuf = <<>> /\ sock # "open"
  /\ eventLoop' = "returned"
  /\ UNCHANGED <<conns, awaiting, incoming, queues, sock, toSend, api, stream, history>>

\* The wheels of awaiting and incomingConns, until Close stops them.
Expires ==
  /\ sock # "closed"
  /\ \/ \E cid \in DOMAIN awaiting : awaiting' = RemoveKey(awaiting, cid) /\ UNCHANGED incoming
     \/ \E cid \in incoming : incoming' = incoming \ {cid} /\ UNCHANGED awaiting
  /\ UNCHANGED <<conns, queues, eventLoop, sock, toSend, api, stream, history>>

-----------------------------------------------------------------------------
(* The connections, and the write loop. *)

\* The event loop of a connection returns after it has told the socket.
Ended(c, s) ==
  /\ stream' = [stream EXCEPT ![c] = [s EXCEPT !.phase = "ended"]]
  /\ socketEvents' = Append(socketEvents, s.cid)

\* processReads, when reads is full: a FIN that completes the data is handed over as
\* it is taken.
Waits(phase, type) == IF phase = "connected" /\ type # "syn" THEN {"blocked"} ELSE {}

Takes(c) ==
  /\ Runs(c) /\ stream[c].ch # <<>>
  /\ LET s == [stream[c] EXCEPT !.ch = Tail(@)]
         e == Head(stream[c].ch)
     IN  \/ /\ e.type = "reset" \/ (e.type = "shutdown" /\ s.phase = "connecting")
            /\ Ended(c, s) /\ UNCHANGED api
         \/ /\ e.type = "shutdown" /\ s.phase = "connected"
            /\ stream' = [stream EXCEPT ![c] = [s EXCEPT !.shutdown = TRUE]]
            /\ UNCHANGED <<api, socketEvents>>
         \/ /\ e.type \notin {"reset", "shutdown"}
            /\ \E phase \in {"connected"} \cup Waits(s.phase, e.type) :
                 stream' = [stream EXCEPT ![c] = [s EXCEPT !.phase = phase]]
            /\ Answered(c) /\ UNCHANGED socketEvents
  /\ UNCHANGED <<conns, awaiting, incoming, acceptsCh, incomingBuf, eventLoop, sock, toSend, history>>

\* The readable case of the select, and reads is full.  Its turn comes when no event
\* waits.
Blocks(c) ==
  /\ stream[c].phase = "connected" /\ stream[c].ch = <<>>
  /\ stream' = [stream EXCEPT ![c].phase = "blocked"]
  /\ UNCHANGED <<conns, awaiting, incoming, queues, eventLoop, sock, toSend, api, history>>

\* A reader has come.
Unblocks(c) ==
  /\ stream[c].phase = "blocked"
  /\ stream' = [stream EXCEPT ![c].phase = "connected"]
  /\ UNCHANGED <<conns, awaiting, incoming, queues, eventLoop, sock, toSend, api, history>>

\* onTimeout: the last attempt to connect has failed, and the call is told.
AttemptsExhausted(c) ==
  /\ stream[c].phase = "connecting"
  /\ Ended(c, stream[c]) /\ Answered(c)
  /\ UNCHANGED <<conns, awaiting, incoming, acceptsCh, incomingBuf, eventLoop, sock, toSend, history>>

\* A FIN on both sides, an error or an idle peer.
Closes(c) ==
  /\ Runs(c)
  /\ Ended(c, stream[c])
  /\ UNCHANGED <<conns, awaiting, incoming, acceptsCh, incomingBuf, eventLoop, sock, toSend, api,
                 history>>

\* The context of the stream is done: the loop returns and the socket is not told.
StopsByCtx(c) ==
  /\ Runs(c) /\ (stream[c].under = "socket" => sock # "open")
  /\ stream' = [stream EXCEPT ![c].phase = "stopped"]
  /\ UNCHANGED <<conns, awaiting, incoming, queues, eventLoop, sock, toSend, api, history>>

\* Mutant: the write loop passes over the events that carry no packet.
WriteOnly == socketEvents' = Tail(socketEvents) /\ UNCHANGED conns
RemoveConnStream ==
  /\ socketEvents' = Tail(socketEvents)
  /\ conns' = RemoveKey(conns, Head(socketEvents))

WriteLoop ==
  /\ socketEvents # <<>> /\ LockFree
  /\ RemoveConnStream
  /\ UNCHANGED <<awaiting, incoming, acceptsCh, incomingBuf, eventLoop, sock, toSend, api, stream,
                 history>>

-----------------------------------------------------------------------------
(* Close. *)

CloseCancels ==
  /\ sock = "open"
  /\ sock' = "cancelled"
  /\ UNCHANGED <<conns, awaiting, incoming, queues, eventLoop, toSend, api, stream, history>>

CloseLocks ==
  /\ sock = "cancelled"
  /\ sock' = "sending" /\ toSend' = Range(conns)
  /\ UNCHANGED <<conns, awaiting, incoming, queues, eventLoop, api, stream, history>>

\* The send waits for room.
\* Mutant: it waits for a reader.
HasReader(c) == Live(c) /\ Len(stream[c].ch) < StreamCap
HasRoom(c) == Len(stream[c].ch) < StreamCap

CloseSends(c) ==
  /\ sock = "sending" /\ c \in toSend /\ HasRoom(c)
  /\ stream' = [stream EXCEPT ![c].ch = Append(@, [type |-> "shutdown", for |-> stream[c].cid])]
  /\ toSend' = toSend \ {c}
  /\ UNCHANGED <<conns, awaiting, incoming, queues, eventLoop, sock, api, history>>

CloseReturns ==
  /\ sock = "sending" /\ toSend = {}
  /\ sock' = "closed"
  /\ UNCHANGED <<conns, awaiting, incoming, queues, eventLoop, toSend, api, stream, history>>

-----------------------------------------------------------------------------
EventLoop == HandleIncomingBuf \/ HandleNewAcceptWithCidEvent \/ EventLoopReturns
CloseStep == CloseLocks \/ (\E c \in Calls : CloseSends(c)) \/ CloseReturns

Next ==
  \/ \E c \in Connects : ConnectWithCid(c) \/ Register(c)
  \/ \E c \in Generated : GenerateCid(c) \/ EnterCid(c) \/ Connect(c)
  \/ \E c \in Accepts : AcceptWithCid(c)
  \/ \E c \in Calls : GivesUp(c)
  \/ \E p \in PeerPackets : Read(p)
  \/ EventLoop
  \/ Expires
  \/ \E c \in Calls : \/ Takes(c) \/ Blocks(c) \/ Unblocks(c)
                      \/ AttemptsExhausted(c) \/ Closes(c) \/ StopsByCtx(c)
  \/ WriteLoop
  \/ CloseCancels
  \/ CloseStep

Spec == Init /\ [][Next]_vars

\* The goroutines of the socket and of its connections do not all stand still while
\* one of them can run.  A connection that is told to shut down ends, by its FIN or
\* by the idle timeout.
Goroutines ==
  \/ EventLoop \/ WriteLoop \/ CloseStep
  \/ \E c \in Calls : Takes(c) \/ (stream[c].shutdown /\ Closes(c))

FairSpec == Spec /\ WF_vars(Goroutines)

-----------------------------------------------------------------------------
(* Properties. *)

\* Every connection whose event loop has not ended is the one that is registered
\* under its id: packets and the shutdown event of Close reach it, however ids are
\* used again while the shutdown events of earlier connections are still queued.
\* Excepted are the ids that two calls found free at the same time, between the
\* look-up and the entry of ConnectWithCid, or of GenerateCid: there the second entry
\* replaces the first.
RunningIsReachable ==
  \A c \in Calls : Live(c) /\ stream[c].cid \notin contended =>
    stream[c].cid \in DOMAIN conns /\ conns[stream[c].cid] = c

\* The same without the exception, which the two critical sections do not provide
\* (checked, and violated, with SharedId.cfg).
AlwaysReachable ==
  \A c \in Calls : Live(c) => stream[c].cid \in DOMAIN conns /\ conns[stream[c].cid] = c

\* An accept and a SYN for the same id never both wait: whichever handler of the
\* event loop comes second finds the other.
NoMissedMeeting == DOMAIN awaiting \cap incoming = {}

\* The three candidates that handleIncomingBuf tries lead every packet to the
\* connection its sender meant, as long as ids in use are two or more apart.
RoutedToOwner ==
  \A c \in Calls : \A i \in DOMAIN stream[c].ch : stream[c].ch[i].for = stream[c].cid

\* Close waits for room in the channel of a connection whose loop takes nothing: it
\* has ended, it waits for a reader, or Connect has entered the channel and not begun
\* the loop.
CloseStuck ==
  sock = "sending" /\ \E c \in toSend : ~Runs(c) /\ Len(stream[c].ch) = StreamCap

\* UtpSocket.Close returns, unless it is stuck for ever at a full channel that nobody
\* reads: a connection that is registered and has ended, or whose application has
\* stopped reading.  A loop that still runs makes room for the shutdown event.
CloseCompletes == (sock = "cancelled") ~> (sock = "closed" \/ []CloseStuck)

\* The id of a connection that closed becomes free again: removeConnStream comes for
\* its entry, unless Close is stuck and keeps the lock.
ClosedIsForgotten ==
  \A c \in Calls :
    (stream[c].phase = "ended" /\ c \in Range(conns)) ~> (c \notin Range(conns) \/ []CloseStuck)
=============================================================================
