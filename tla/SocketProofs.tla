---------------------------- MODULE SocketProofs ----------------------------
(***************************************************************************)
(* For every id space, every set of calls and every capacity: no packet    *)
(* and no shutdown event ever waits in the channel of a connection it was  *)
(* not meant for, an accept and a SYN for the same id never both wait, and *)
(* a connection whose loop has not ended is the one registered under its   *)
(* id, if no two calls found that id free at the same time.                *)
(***************************************************************************)
EXTENDS SocketSpec, TLAPS

\* Counting up and down are inverse, also where the ids wrap around.
LEMMA NextPrev ==
  \A id \in Ids : Next1(id) \in Ids /\ Prev1(id) \in Ids /\ Prev1(Next1(id)) = id
                  /\ Next1(Prev1(id)) = id /\ Next1(Next1(id)) # id
  BY IdSpaceAssumption DEF Ids, Next1, Prev1

\* A pair of ids is that of a side that connects, or of a side that accepts.
Cids == {InitiatorCid(lower) : lower \in Ids} \cup {AcceptorCid(lower) : lower \in Ids}

\* Every candidate has the number of the packet for one of its two.
LEMMA CandidateHasId ==
  ASSUME NEW p, p.id \in Ids, NEW i \in 1..3
  PROVE  LET cid == CidFromPacket(p, CidTypes[i]) IN p.id \in {cid.send, cid.recv}
  <1>1. CASE i = 1  BY <1>1 DEF CidFromPacket, CidTypes, NewConnectionId
  <1>2. CASE i = 2  BY <1>2 DEF CidFromPacket, CidTypes, NewConnectionId
  <1>3. CASE i = 3
    <2>1. CASE p.type = "syn"  BY <1>3, <2>1 DEF CidFromPacket, CidTypes, NewConnectionId
    <2>2. CASE p.type # "syn"  BY <1>3, <2>2 DEF CidFromPacket, CidTypes, NewConnectionId
    <2>3. QED  BY <2>1, <2>2
  <1>4. QED  BY <1>1, <1>2, <1>3

\* A packet has one of the two numbers of the connection it is for, and that
\* connection is one of the candidates.
LEMMA PacketHasCandidate ==
  ASSUME NEW cid \in Cids, NEW p \in PacketsTo(cid)
  PROVE  /\ p.for = cid /\ p.id \in Ids /\ p.id \in {cid.send, cid.recv}
         /\ \E i \in 1..3 : CidFromPacket(p, CidTypes[i]) = cid
  <1>1. CASE cid = InitiatorCid(cid.recv)
    <2>1. p = [type |-> "state", id |-> cid.recv, for |-> cid]
          \/ p = [type |-> "reset", id |-> cid.send, for |-> cid]
      BY <1>1 DEF PacketsTo
    <2>2. PICK lower \in Ids : cid = InitiatorCid(lower)
      <3>1. CASE \E lower \in Ids : cid = InitiatorCid(lower)  BY <3>1
      <3>2. CASE \E lower \in Ids : cid = AcceptorCid(lower)
        <4>1. PICK lower \in Ids : cid = AcceptorCid(lower)  BY <3>2
        <4>2. cid.recv = Next1(lower) /\ cid.send = lower
          BY <4>1 DEF AcceptorCid, NewConnectionId
        <4>3. cid.send = Next1(cid.recv)  BY <1>1 DEF InitiatorCid, NewConnectionId
        <4>4. QED  BY <4>2, <4>3, NextPrev
      <3>3. QED  BY <3>1, <3>2 DEF Cids
    <2>3. cid.recv = lower /\ cid.send = Next1(lower) /\ cid = NewConnectionId(lower, Next1(lower))
      BY <2>2 DEF InitiatorCid, NewConnectionId
    <2>4. CASE p = [type |-> "state", id |-> cid.recv, for |-> cid]
      <3>1. CidFromPacket(p, CidTypes[2]) = cid
        BY <2>3, <2>4 DEF CidFromPacket, CidTypes
      <3>2. QED  BY <2>3, <2>4, <3>1, NextPrev
    <2>5. CASE p = [type |-> "reset", id |-> cid.send, for |-> cid]
      <3>1. Prev1(p.id) = lower  BY <2>3, <2>5, NextPrev
      <3>2. CidFromPacket(p, CidTypes[1]) = cid
        BY <2>3, <2>5, <3>1 DEF CidFromPacket, CidTypes
      <3>3. QED  BY <2>3, <2>5, <3>2, NextPrev
    <2>6. QED  BY <2>1, <2>4, <2>5
  <1>2. CASE cid # InitiatorCid(cid.recv)
    <2>1. p = [type |-> "syn", id |-> cid.send, for |-> cid]
          \/ p = [type |-> "data", id |-> cid.recv, for |-> cid]
      BY <1>2 DEF PacketsTo
    <2>2. PICK lower \in Ids : cid = AcceptorCid(lower)
      BY <1>2 DEF Cids, InitiatorCid, NewConnectionId
    <2>3. cid.send = lower /\ cid.recv = Next1(lower) /\ cid = NewConnectionId(Next1(lower), lower)
      BY <2>2 DEF AcceptorCid, NewConnectionId
    <2>4. CASE p = [type |-> "syn", id |-> cid.send, for |-> cid]
      <3>1. CidFromPacket(p, CidTypes[3]) = cid
        BY <2>3, <2>4 DEF CidFromPacket, CidTypes
      <3>2. QED  BY <2>3, <2>4, <3>1, NextPrev
    <2>5. CASE p = [type |-> "data", id |-> cid.recv, for |-> cid]
      <3>1. Prev1(p.id) = lower  BY <2>3, <2>5, NextPrev
      <3>2. CidFromPacket(p, CidTypes[3]) = cid
        BY <2>3, <2>5, <3>1 DEF CidFromPacket, CidTypes
      <3>3. QED  BY <2>3, <2>5, <3>2, NextPrev
    <2>6. QED  BY <2>1, <2>4, <2>5
  <1>3. QED  BY <1>1, <1>2

\* The candidate that is found is one of the three, and registered.
LEMMA FirstMatchFound ==
  ASSUME NEW registered, NEW p, Matches(registered, p) # {}
  PROVE  \E i \in 1..3 : /\ FirstMatch(registered, p) = CidFromPacket(p, CidTypes[i])
                         /\ FirstMatch(registered, p) \in registered
  <1> DEFINE M == Matches(registered, p)
  <1>1. M \subseteq 1..3  BY DEF Matches
  <1>2. \E i \in M : \A j \in M : i <= j
    <2>1. CASE 1 \in M  BY <2>1, <1>1
    <2>2. CASE 1 \notin M /\ 2 \in M  BY <2>2, <1>1
    <2>3. CASE 1 \notin M /\ 2 \notin M  BY <2>3, <1>1
    <2>4. QED  BY <2>1, <2>2, <2>3
  <1> DEFINE first == CHOOSE i \in M : \A j \in M : i <= j
  <1>3. first \in M  BY <1>2
  <1>4. FirstMatch(registered, p) = CidFromPacket(p, CidTypes[first])  BY DEF FirstMatch
  <1>5. CidFromPacket(p, CidTypes[first]) \in registered  BY <1>3 DEF Matches
  <1>6. QED  BY <1>1, <1>3, <1>4, <1>5

\* handleIncomingBuf finds the connection a packet is for if it is registered, and
\* none if it is not: for every id space and every set of ids that are two apart.
THEOREM RoutingIsExact ==
  ASSUME NEW cids \in SUBSET Cids, Apart(cids), NEW registered \in SUBSET cids,
         NEW cid \in cids, NEW p \in PacketsTo(cid)
  PROVE  /\ Matches(registered, p) # {} <=> cid \in registered
         /\ Matches(registered, p) # {} => FirstMatch(registered, p) = cid
  <1>1. p.id \in Ids /\ p.id \in {cid.send, cid.recv}  BY PacketHasCandidate
  <1>2. PICK k \in 1..3 : CidFromPacket(p, CidTypes[k]) = cid  BY PacketHasCandidate
  <1>3. ASSUME NEW i \in 1..3, CidFromPacket(p, CidTypes[i]) \in registered
        PROVE  CidFromPacket(p, CidTypes[i]) = cid
    <2> DEFINE other == CidFromPacket(p, CidTypes[i])
    <2>1. p.id \in {other.send, other.recv}  BY <1>1, CandidateHasId
    <2>2. other \in cids  BY <1>3
    <2> HIDE DEF other
    <2>3. other = cid  BY <1>1, <2>1, <2>2, Zenon DEF Apart
    <2>4. QED  BY <2>3 DEF other
  <1>4. Matches(registered, p) # {} => FirstMatch(registered, p) = cid /\ cid \in registered
    BY <1>3, FirstMatchFound
  <1>5. cid \in registered => k \in Matches(registered, p)  BY <1>2 DEF Matches
  <1>6. QED  BY <1>4, <1>5

-----------------------------------------------------------------------------
\* The ids of the calls are pairs of ids.
LEMMA AllCidsAreCids == AllCids \subseteq Cids
  BY LowerAssumption, GenIdsAssumption DEF AllCids, Cids

Packets == UNION {PacketsTo(cid) : cid \in AllCids}

Events == Packets \cup [type : {"shutdown"}, for : Cids]

Phases == {"none", "connecting", "connected", "blocked", "ended", "stopped"}
Unders == {"call", "socket"}
Progress == {"idle", "checked", "entered", "waiting", "returned"}

Streams == [phase : Phases, cid : Cids, under : Unders, ch : Seq(Events), shutdown : BOOLEAN]

\* The ids of the calls that connect.
Dialled == {cid \in AllCids : \E lower \in Ids : cid = InitiatorCid(lower)}

\* The calls that have entered nothing yet, and those between the look-up of their
\* id and the start of their connection.
Fresh == {c \in Connects \cup Generated : api[c] \in {"idle", "checked"}}
Pending == {c \in Calls : api[c] \in {"checked", "entered"}}

\* Whom an entry of conns belongs to: a stream that has its id.
EntryOf(cid, c) ==
  /\ c \in Calls \ Fresh /\ cid \in AllCids
  /\ stream[c].cid = cid
  /\ c \in Accepts => cid = AcceptorCid(lowerOf[c])

Entries == \A cid \in DOMAIN conns : EntryOf(cid, conns[cid])

StreamInv ==
  /\ stream \in [Calls -> Streams]
  /\ \A c \in Calls : stream[c].phase # "none" => stream[c].cid \in AllCids
  /\ \A c \in Pending : /\ c \in Connects \cup Generated
                        /\ stream[c].phase = "none" /\ stream[c].cid \in Dialled
  /\ \A c \in Fresh : stream[c].phase = "none" /\ stream[c].ch = <<>>
  /\ Entries
  /\ RoutedToOwner

RouteInv ==
  /\ api \in [Calls -> Progress]
  /\ StreamInv
  /\ acceptsCh \in Seq(Accepts)
  /\ incomingBuf \in Seq(Packets)
  /\ toSend \subseteq Calls \ Fresh
  /\ \A cid \in DOMAIN awaiting : awaiting[cid] \in Accepts /\ cid = AcceptorCid(lowerOf[awaiting[cid]])

\* A new stream is one of the streams, and nothing waits in its channel.
LEMMA NewStream ==
  ASSUME NEW phase \in Phases, NEW cid \in Cids, NEW under \in Unders
  PROVE  LET s == NewUtpStream(phase, cid, under)
         IN  s \in Streams /\ s.cid = cid /\ s.ch = <<>> /\ s.phase = phase
  BY DEF NewUtpStream, Streams

\* The invariant holds at the start.
LEMMA InitRouteInv == Init => RouteInv
  <1>1. AcceptorCid(0) \in Cids  BY IdSpaceAssumption DEF Cids, Ids
  <1>2. NoStream \in Streams /\ NoStream.phase = "none" /\ NoStream.ch = <<>>
    BY <1>1 DEF NoStream, NewUtpStream, Streams, Phases, Unders
  <1>3. SUFFICES ASSUME Init PROVE RouteInv  OBVIOUS
  <1>4. /\ api \in [Calls -> Progress] /\ toSend = {} /\ Pending = {}
        /\ acceptsCh \in Seq(Accepts) /\ incomingBuf \in Seq(Packets)
    <2>1. api \in [Calls -> Progress] /\ toSend = {}  BY <1>3, SMT DEF Init, Progress
    <2>2. acceptsCh = <<>> /\ incomingBuf = <<>>  BY <1>3 DEF Init
    <2>3. Pending = {}  BY <1>3 DEF Init, Pending
    <2>4. QED  BY <2>1, <2>2, <2>3
  <1>5. stream \in [Calls -> Streams] /\ \A c \in Calls : stream[c] = NoStream
    BY <1>2, <1>3 DEF Init
  <1>6. DOMAIN conns = {} /\ DOMAIN awaiting = {}  BY <1>3 DEF Init
  <1>7. RoutedToOwner  BY <1>2, <1>5 DEF RoutedToOwner
  <1>8. Fresh \subseteq Calls  BY DEF Fresh, Calls
  <1>9. StreamInv  BY <1>2, <1>4, <1>5, <1>6, <1>7, <1>8, Zenon DEF StreamInv, Entries
  <1>10. QED  BY <1>4, <1>6, <1>9, Zenon DEF RouteInv

\* An accept that makes a stream: it is registered for its owner.
LEMMA OpenKeeps ==
  ASSUME StreamInv, NEW c \in Accepts, NEW under \in Unders,
         Fresh' \subseteq Fresh, Pending' \subseteq Pending,
         conns' = PutKey(conns, AcceptorCid(lowerOf[c]), c),
         stream' = [stream EXCEPT ![c] = NewUtpStream("connected", AcceptorCid(lowerOf[c]), under)]
  PROVE  StreamInv'
  <1> DEFINE cid == AcceptorCid(lowerOf[c])
             s == NewUtpStream("connected", cid, under)
  <1>1. c \in Calls /\ c \notin Connects \cup Generated /\ c \notin Fresh /\ cid \in AllCids
    BY CallsAssumption DEF Calls, Fresh, AllCids
  <1>2. s \in Streams /\ s.cid = cid /\ s.ch = <<>>
    BY <1>1, NewStream, AllCidsAreCids DEF Phases
  <1>3. stream' = [stream EXCEPT ![c] = s]  OBVIOUS
  <1> HIDE DEF s
  <1>4. /\ stream' \in [Calls -> Streams] /\ stream'[c] = s
        /\ \A d \in Calls \ {c} : stream'[d] = stream[d]
    BY <1>1, <1>2, <1>3 DEF StreamInv
  <1>5. \A d \in Calls : stream'[d].phase # "none" => stream'[d].cid \in AllCids
    BY <1>1, <1>2, <1>4 DEF StreamInv
  <1>6. c \notin Pending' /\ Pending \subseteq Calls /\ Fresh \subseteq Calls
    BY <1>1 DEF StreamInv, Pending, Fresh, Calls
  <1>7. Entries'
    <2>1. SUFFICES ASSUME NEW k \in DOMAIN conns' PROVE EntryOf(k, conns[k])'
      BY DEF Entries
    <2>2. CASE k = cid
      <3>1. conns'[k] = c  BY <2>1, <2>2 DEF PutKey
      <3>2. QED  BY <1>1, <1>2, <1>4, <2>2, <3>1 DEF EntryOf
    <2>3. CASE k # cid
      <3>1. k \in DOMAIN conns /\ conns'[k] = conns[k]  BY <2>1, <2>3 DEF PutKey
      <3>2. EntryOf(k, conns[k])  BY <3>1 DEF StreamInv, Entries
      <3>3. conns[k] \in Calls \ {c}  BY <2>3, <3>2 DEF EntryOf
      <3>4. QED  BY <1>4, <3>1, <3>2, <3>3 DEF EntryOf
    <2>4. QED  BY <2>2, <2>3
  <1>8. RoutedToOwner'
    <2>1. SUFFICES ASSUME NEW d \in Calls, NEW i \in DOMAIN stream'[d].ch
                   PROVE  stream'[d].ch[i].for = stream'[d].cid
      BY DEF RoutedToOwner
    <2>2. d # c  BY <1>2, <1>4, <2>1
    <2>3. QED  BY <1>4, <2>1, <2>2 DEF StreamInv, RoutedToOwner
  <1>9. QED  BY <1>1, <1>4, <1>5, <1>6, <1>7, <1>8 DEF StreamInv

\* A step that enters nothing and leaves the ids of the streams alone.
LEMMA ChangeKeeps ==
  ASSUME StreamInv, NEW c \in Calls \ Fresh, NEW s \in Streams,
         s.cid = stream[c].cid, s.phase # "none" => s.cid \in AllCids,
         s.phase = stream[c].phase \/ stream[c].phase # "none",
         \A i \in DOMAIN s.ch : s.ch[i].for = s.cid,
         Fresh' \subseteq Fresh, Pending' \subseteq Pending, UNCHANGED conns,
         stream' = [stream EXCEPT ![c] = s]
  PROVE  StreamInv'
  <1>1. /\ stream' \in [Calls -> Streams] /\ stream'[c] = s
        /\ \A d \in Calls \ {c} : stream'[d] = stream[d]
    BY DEF StreamInv
  <1>2. \A d \in Calls : stream'[d].cid = stream[d].cid  BY <1>1
  <1>3. \A d \in Calls : stream'[d].phase # "none" => stream'[d].cid \in AllCids
    BY <1>1 DEF StreamInv
  <1>4. \A d \in Pending' : /\ d \in Connects \cup Generated
                            /\ stream'[d].phase = "none" /\ stream'[d].cid \in Dialled
    BY <1>1, <1>2 DEF StreamInv, Pending
  <1>5. \A d \in Fresh' : stream'[d].phase = "none" /\ stream'[d].ch = <<>>
    BY <1>1 DEF StreamInv, Fresh, Calls
  <1>6. Entries'  BY <1>2, Zenon DEF StreamInv, Entries, EntryOf
  <1>7. RoutedToOwner'
    <2>1. SUFFICES ASSUME NEW d \in Calls, NEW i \in DOMAIN stream'[d].ch
                   PROVE  stream'[d].ch[i].for = stream'[d].cid
      BY DEF RoutedToOwner
    <2>2. CASE d = c  BY <1>1, <2>1, <2>2
    <2>3. CASE d # c  BY <1>1, <2>1, <2>3 DEF StreamInv, RoutedToOwner
    <2>4. QED  BY <2>2, <2>3
  <1>8. QED  BY <1>1, <1>3, <1>4, <1>5, <1>6, <1>7 DEF StreamInv

\* A packet that handleIncomingBuf passes on is meant for the stream that gets it.
LEMMA SendToKeeps ==
  ASSUME StreamInv, NEW p \in Packets, Matches(DOMAIN conns, p) # {},
         SendTo(conns[FirstMatch(DOMAIN conns, p)], p), UNCHANGED <<conns, api>>
  PROVE  StreamInv'
  <1>1. PICK cid \in AllCids : p \in PacketsTo(cid)  BY DEF Packets
  <1>2. DOMAIN conns \in SUBSET AllCids  BY DEF StreamInv, Entries, EntryOf
  <1>3. cid \in DOMAIN conns /\ FirstMatch(DOMAIN conns, p) = cid
    BY <1>1, <1>2, RoutingIsExact, AllCidsAreCids, ApartAssumption
  <1>4. p.for = cid  BY <1>1, PacketHasCandidate, AllCidsAreCids
  <1> DEFINE c == conns[cid]
  <1>5. c \in Calls \ Fresh /\ stream[c].cid = cid  BY <1>3 DEF StreamInv, Entries, EntryOf
  <1>6. SendTo(c, p)  BY <1>3
  <1> HIDE DEF c
  <1>7. stream[c] \in Streams  BY <1>5 DEF StreamInv
  <1>8. Fresh' = Fresh /\ Pending' = Pending  BY DEF Fresh, Pending
  <1>9. CASE UNCHANGED stream
    BY <1>8, <1>9, Zenon DEF StreamInv, Entries, EntryOf, RoutedToOwner
  <1>10. CASE stream' = [stream EXCEPT ![c].ch = Append(@, p)]
    <2> DEFINE s == [stream[c] EXCEPT !.ch = Append(@, p)]
    <2>1. /\ s \in Streams /\ s.cid = cid /\ s.ch = Append(stream[c].ch, p)
          /\ s.phase = stream[c].phase
      <3> DEFINE ch == Append(stream[c].ch, p)
      <3>1. p \in Events /\ stream[c].ch \in Seq(Events)  BY <1>7 DEF Streams, Events
      <3>2. ch \in Seq(Events)  BY <3>1
      <3> HIDE DEF ch
      <3>3. s = [stream[c] EXCEPT !.ch = ch]  BY DEF ch
      <3>4. s \in Streams /\ s.cid = cid /\ s.ch = ch /\ s.phase = stream[c].phase
        BY <1>5, <1>7, <3>2, <3>3, SMTT(30) DEF Streams
      <3>5. QED  BY <3>4 DEF ch
    <2>2. stream' = [stream EXCEPT ![c] = s]  BY <1>5, <1>10 DEF StreamInv
    <2>3. \A i \in DOMAIN stream[c].ch : stream[c].ch[i].for = cid
      BY <1>5 DEF StreamInv, RoutedToOwner
    <2>4. stream[c].ch \in Seq(Events)  BY <1>7 DEF Streams
    <2> HIDE DEF s
    <2>5. \A i \in DOMAIN s.ch : s.ch[i].for = s.cid
      <3>1. SUFFICES ASSUME NEW i \in DOMAIN s.ch PROVE s.ch[i].for = cid  BY <2>1
      <3>2. CASE i \in DOMAIN stream[c].ch  BY <2>1, <2>3, <2>4, <3>2
      <3>3. CASE i = Len(stream[c].ch) + 1  BY <1>4, <2>1, <2>4, <3>3
      <3>4. QED  BY <2>1, <2>4, <3>1, <3>2, <3>3
    <2>6. QED  BY <1>5, <1>8, <2>1, <2>2, <2>5, ChangeKeeps, Zenon
  <1>11. QED  BY <1>6, <1>9, <1>10 DEF SendTo

\* No stream changes, and no entry is new.
LEMMA SameStreams ==
  ASSUME StreamInv, UNCHANGED stream, DOMAIN conns' \subseteq DOMAIN conns,
         \A k \in DOMAIN conns' : conns'[k] = conns[k],
         Fresh' \subseteq Fresh, Pending' \subseteq Pending
  PROVE  StreamInv'
  BY Zenon DEF StreamInv, Entries, EntryOf, RoutedToOwner

\* A call that is answered was neither fresh nor pending.
LEMMA AnsweredKeeps ==
  ASSUME api \in [Calls -> Progress], NEW c \in Calls, Answered(c)
  PROVE  api' \in [Calls -> Progress] /\ Fresh' \subseteq Fresh /\ Pending' = Pending
  BY DEF Answered, Progress, Calls, Fresh, Pending

\* Without a change of api nothing becomes fresh or pending.
LEMMA SameCalls == ASSUME UNCHANGED api PROVE Fresh' = Fresh /\ Pending' = Pending
  BY DEF Fresh, Pending

\* handleIncomingBuf keeps the invariant.
LEMMA IncomingKeeps == ASSUME RouteInv, HandleIncomingBuf PROVE RouteInv'
  <1> DEFINE p == Head(incomingBuf)
             cid == CidFromPacket(p, "RecvId")
  <1>1. p \in Packets /\ incomingBuf' \in Seq(Packets)
    BY DEF HandleIncomingBuf, RouteInv
  <1>2. UNCHANGED <<acceptsCh, toSend>>  BY Zenon DEF HandleIncomingBuf
  <1>3. CASE Matches(DOMAIN conns, p) # {} /\ SendTo(conns[FirstMatch(DOMAIN conns, p)], p)
             /\ UNCHANGED <<conns, awaiting, incoming, api>>
    <2> HIDE DEF p
    <2>1. StreamInv'  BY <1>1, <1>3, SendToKeeps DEF RouteInv
    <2>2. QED  BY <1>1, <1>2, <1>3, <2>1, SameCalls DEF RouteInv
  <1>4. CASE UNCHANGED <<conns, awaiting, stream, api>>
    <2>1. StreamInv'  BY <1>4, SameCalls, SameStreams DEF RouteInv
    <2>2. QED  BY <1>1, <1>2, <1>4, <2>1, SameCalls DEF RouteInv
  <1>5. CASE /\ cid \in DOMAIN awaiting
             /\ awaiting' = RemoveKey(awaiting, cid)
             /\ conns' = PutKey(conns, cid, awaiting[cid])
             /\ stream' = [stream EXCEPT ![awaiting[cid]] = NewUtpStream("connected", cid, "socket")]
             /\ Answered(awaiting[cid])
    <2> HIDE DEF cid
    <2>1. /\ awaiting[cid] \in Accepts /\ cid = AcceptorCid(lowerOf[awaiting[cid]])
          /\ awaiting[cid] \in Calls
      BY <1>5 DEF RouteInv, Calls
    <2>2. api' \in [Calls -> Progress] /\ Fresh' \subseteq Fresh /\ Pending' = Pending
      BY <1>5, <2>1, AnsweredKeeps DEF RouteInv
    <2>3. StreamInv'
      <3>1. "socket" \in Unders  BY DEF Unders
      <3>2. QED  BY <1>5, <2>1, <2>2, <3>1, OpenKeeps, Zenon DEF RouteInv
    <2>4. \A k \in DOMAIN awaiting' : awaiting'[k] \in Accepts /\ k = AcceptorCid(lowerOf[awaiting'[k]])
      BY <1>5 DEF RouteInv, RemoveKey, Restrict
    <2>5. QED  BY <1>1, <1>2, <2>2, <2>3, <2>4 DEF RouteInv
  <1>6. QED  BY <1>3, <1>4, <1>5, Zenon DEF HandleIncomingBuf

\* handleNewAcceptWithCidEvent keeps the invariant.
LEMMA AcceptKeeps == ASSUME RouteInv, HandleNewAcceptWithCidEvent PROVE RouteInv'
  <1> DEFINE c == Head(acceptsCh)
             cid == AcceptorCid(lowerOf[c])
  <1>1. c \in Accepts /\ c \in Calls /\ acceptsCh' \in Seq(Accepts)
    BY DEF HandleNewAcceptWithCidEvent, RouteInv, Calls
  <1>2. UNCHANGED <<incomingBuf, toSend>>  BY DEF HandleNewAcceptWithCidEvent
  <1>3. NewAcceptWithCid(c, cid)  BY DEF HandleNewAcceptWithCidEvent
  <1> HIDE DEF c
  <1>4. Answered(c) \/ UNCHANGED api =>
          api' \in [Calls -> Progress] /\ Fresh' \subseteq Fresh /\ Pending' = Pending
    BY <1>1, AnsweredKeeps, SameCalls DEF RouteInv
  <1>5. CASE /\ conns' = PutKey(conns, cid, c)
             /\ stream' = [stream EXCEPT ![c] = NewUtpStream("connected", cid, "call")]
             /\ Answered(c) /\ UNCHANGED awaiting
    <2>1. StreamInv'
      <3>1. "call" \in Unders  BY DEF Unders
      <3>2. QED  BY <1>1, <1>4, <1>5, <3>1, OpenKeeps, Zenon DEF RouteInv
    <2>2. QED  BY <1>1, <1>2, <1>4, <1>5, <2>1 DEF RouteInv
  <1>6. CASE Answered(c) /\ UNCHANGED <<conns, awaiting, stream>>
    <2>1. StreamInv'  BY <1>4, <1>6, SameStreams DEF RouteInv
    <2>2. QED  BY <1>1, <1>2, <1>4, <1>6, <2>1 DEF RouteInv
  <1>7. CASE awaiting' = PutKey(awaiting, cid, c) /\ UNCHANGED <<conns, api, stream>>
    <2>1. \A k \in DOMAIN awaiting' : awaiting'[k] \in Accepts /\ k = AcceptorCid(lowerOf[awaiting'[k]])
      BY <1>1, <1>7, Zenon DEF RouteInv, PutKey
    <2>2. StreamInv'  BY <1>4, <1>7, SameStreams DEF RouteInv
    <2>3. QED  BY <1>1, <1>2, <1>4, <1>7, <2>1, <2>2 DEF RouteInv
  <1>8. QED  BY <1>3, <1>5, <1>6, <1>7 DEF NewAcceptWithCid

\* A call that has found its id free: its stream, which is registered nowhere and has
\* an empty channel, gets the id.
LEMMA FoundFreeKeeps ==
  ASSUME RouteInv, NEW c \in Connects \cup Generated, api[c] = "idle", NEW lower \in Ids,
         InitiatorCid(lower) \in AllCids, FoundFree(c, InitiatorCid(lower)),
         UNCHANGED <<conns, awaiting, acceptsCh, incomingBuf, toSend>>
  PROVE  RouteInv'
  <1> DEFINE cid == InitiatorCid(lower)
             s == [stream[c] EXCEPT !.cid = cid]
  <1>1. c \in Calls /\ c \in Fresh /\ cid \in Dialled /\ cid \in Cids
    BY AllCidsAreCids DEF Calls, Fresh, Dialled
  <1>2. api' \in [Calls -> Progress] /\ Fresh' = Fresh /\ Pending' = Pending \cup {c}
    BY <1>1 DEF FoundFree, RouteInv, Progress, Fresh, Pending, Calls
  <1>3. s \in Streams /\ s.cid = cid /\ s.phase = "none" /\ s.ch = <<>>
    <2>1. stream[c] \in Streams /\ stream[c].phase = "none" /\ stream[c].ch = <<>>
      BY <1>1 DEF RouteInv, StreamInv
    <2> HIDE DEF cid
    <2>2. QED  BY <1>1, <2>1 DEF Streams
  <1>4. stream' = [stream EXCEPT ![c] = s]  BY <1>1 DEF FoundFree, RouteInv, StreamInv
  <1> HIDE DEF s, cid
  <1>5. /\ stream' \in [Calls -> Streams] /\ stream'[c] = s
        /\ \A d \in Calls \ {c} : stream'[d] = stream[d]
    BY <1>1, <1>3, <1>4 DEF RouteInv, StreamInv
  <1>6. Entries'
    <2>1. SUFFICES ASSUME NEW k \in DOMAIN conns PROVE EntryOf(k, conns[k])'  BY DEF Entries
    <2>2. EntryOf(k, conns[k])  BY DEF RouteInv, StreamInv, Entries
    <2>3. conns[k] \in Calls \ {c}  BY <1>1, <2>2 DEF EntryOf
    <2>4. QED  BY <1>2, <1>5, <2>2, <2>3 DEF EntryOf
  <1>7. RoutedToOwner'
    <2>1. SUFFICES ASSUME NEW d \in Calls, NEW i \in DOMAIN stream'[d].ch
                   PROVE  stream'[d].ch[i].for = stream'[d].cid
      BY DEF RoutedToOwner
    <2>2. d # c  BY <1>3, <1>5, <2>1
    <2>3. QED  BY <1>5, <2>1, <2>2 DEF RouteInv, StreamInv, RoutedToOwner
  <1>8. \A d \in Calls : stream'[d].phase # "none" => stream'[d].cid \in AllCids
    BY <1>3, <1>5 DEF RouteInv, StreamInv
  <1>9. \A d \in Pending' : /\ d \in Connects \cup Generated
                            /\ stream'[d].phase = "none" /\ stream'[d].cid \in Dialled
    BY <1>1, <1>2, <1>3, <1>5 DEF RouteInv, StreamInv, Pending
  <1>10. \A d \in Fresh' : stream'[d].phase = "none" /\ stream'[d].ch = <<>>
    BY <1>2, <1>3, <1>5 DEF RouteInv, StreamInv, Fresh, Calls
  <1>11. StreamInv'  BY <1>5, <1>6, <1>7, <1>8, <1>9, <1>10 DEF StreamInv
  <1>12. QED  BY <1>2, <1>11 DEF RouteInv

\* A pending call that enters its channel, and perhaps starts its connection.
LEMMA PutKeeps ==
  ASSUME RouteInv, NEW c \in Pending, conns' = PutKey(conns, stream[c].cid, c),
         \/ /\ api' = [api EXCEPT ![c] = "waiting"]
            /\ stream' = [stream EXCEPT ![c].phase = "connecting"]
         \/ api' = [api EXCEPT ![c] = "entered"] /\ UNCHANGED stream,
         UNCHANGED <<awaiting, acceptsCh, incomingBuf, toSend>>
  PROVE  RouteInv'
  <1> DEFINE cid == stream[c].cid
             s == stream'[c]
  <1>1. /\ c \in Calls /\ c \in Connects \cup Generated /\ c \notin Accepts
        /\ cid \in Dialled /\ cid \in AllCids
    BY CallsAssumption DEF RouteInv, StreamInv, Pending, Dialled
  <1>2. /\ api' \in [Calls -> Progress] /\ Fresh' = Fresh \ {c}
        /\ Pending' = Pending \/ Pending' = Pending \ {c}
        /\ c \in Pending' => UNCHANGED stream
    BY <1>1 DEF RouteInv, Progress, Fresh, Pending, Calls
  <1>3. s \in Streams /\ s.cid = cid /\ s.ch = stream[c].ch
    <2>1. stream \in [Calls -> Streams] /\ stream[c] \in Streams  BY <1>1 DEF RouteInv, StreamInv
    <2>2. CASE UNCHANGED stream  BY <2>1, <2>2
    <2>3. CASE stream' = [stream EXCEPT ![c].phase = "connecting"]
      BY <1>1, <2>1, <2>3 DEF Streams, Phases
    <2>4. QED  BY <2>2, <2>3
  <1>4. stream' \in [Calls -> Streams] /\ \A d \in Calls \ {c} : stream'[d] = stream[d]
    BY <1>1, <1>3 DEF RouteInv, StreamInv
  <1>5. \A d \in Calls : stream'[d].cid = stream[d].cid /\ stream'[d].ch = stream[d].ch
    BY <1>1, <1>3, <1>4
  <1>6. Entries'
    <2>1. SUFFICES ASSUME NEW k \in DOMAIN conns' PROVE EntryOf(k, conns[k])'
      BY DEF Entries
    <2>2. CASE k = cid
      <3>1. conns'[k] = c  BY <2>1, <2>2 DEF PutKey
      <3>2. QED  BY <1>1, <1>2, <1>5, <2>2, <3>1 DEF EntryOf
    <2>3. CASE k # cid
      <3>1. k \in DOMAIN conns /\ conns'[k] = conns[k]  BY <2>1, <2>3 DEF PutKey
      <3>2. EntryOf(k, conns[k])  BY <3>1 DEF RouteInv, StreamInv, Entries
      <3>3. QED  BY <1>2, <1>5, <3>1, <3>2 DEF EntryOf
    <2>4. QED  BY <2>2, <2>3
  <1>7. RoutedToOwner'  BY <1>5 DEF RouteInv, StreamInv, RoutedToOwner
  <1>8. \A d \in Calls : stream'[d].phase # "none" => stream'[d].cid \in AllCids
    BY <1>1, <1>4, <1>5 DEF RouteInv, StreamInv
  <1>9. \A d \in Pending' : /\ d \in Connects \cup Generated
                            /\ stream'[d].phase = "none" /\ stream'[d].cid \in Dialled
    BY <1>2, <1>4, <1>5, Zenon DEF RouteInv, StreamInv, Pending
  <1>10. \A d \in Fresh' : stream'[d].phase = "none" /\ stream'[d].ch = <<>>
    BY <1>2, <1>4 DEF RouteInv, StreamInv, Fresh, Calls
  <1>11. StreamInv'  BY <1>4, <1>6, <1>7, <1>8, <1>9, <1>10 DEF StreamInv
  <1>12. QED  BY <1>2, <1>11 DEF RouteInv

\* The calls of the application keep the invariant.
LEMMA CallsKeep ==
  ASSUME RouteInv,
         \/ \E c \in Connects : ConnectWithCid(c) \/ Register(c)
         \/ \E c \in Generated : GenerateCid(c) \/ EnterCid(c) \/ Connect(c)
         \/ \E c \in Accepts : AcceptWithCid(c)
         \/ \E c \in Calls : GivesUp(c)
  PROVE  RouteInv'
  <1>1. ASSUME NEW c \in Calls, Register(c) \/ EnterCid(c) \/ Connect(c) PROVE RouteInv'
    <2>1. c \in Pending  BY <1>1 DEF Register, EnterCid, Connect, Pending
    <2>2. /\ conns' = PutKey(conns, stream[c].cid, c)
          /\ UNCHANGED <<awaiting, acceptsCh, incomingBuf, toSend>>
          /\ \/ /\ api' = [api EXCEPT ![c] = "waiting"]
                /\ stream' = [stream EXCEPT ![c].phase = "connecting"]
             \/ api' = [api EXCEPT ![c] = "entered"] /\ UNCHANGED stream
      BY <1>1, Zenon DEF Register, EnterCid, Connect, OpenStream, PutConnStream, queues
    <2>3. QED  BY <2>1, <2>2, PutKeeps, Zenon
  <1>2. ASSUME NEW c \in Calls, NEW status \in {"waiting", "returned"},
               api' = [api EXCEPT ![c] = status], acceptsCh' \in Seq(Accepts),
               UNCHANGED <<conns, awaiting, incomingBuf, toSend, stream>>
        PROVE  RouteInv'
    <2>1. api' \in [Calls -> Progress] /\ Fresh' \subseteq Fresh /\ Pending' \subseteq Pending
      BY <1>2 DEF RouteInv, Progress, Fresh, Pending, Calls
    <2>2. StreamInv'  BY <1>2, <2>1, SameStreams, Zenon DEF RouteInv
    <2>3. QED  BY <1>2, <2>1, <2>2, Zenon DEF RouteInv
  <1>3. ASSUME NEW c \in Connects, ConnectWithCid(c) PROVE RouteInv'
    <2>1. UNCHANGED <<conns, awaiting, acceptsCh, incomingBuf, toSend>> /\ api[c] = "idle"
      BY <1>3 DEF ConnectWithCid, Begins, queues
    <2>2. CASE api' = [api EXCEPT ![c] = "returned"] /\ UNCHANGED stream
      BY <1>2, <2>1, <2>2 DEF Calls, RouteInv
    <2>3. CASE FoundFree(c, InitiatorCid(lowerOf[c]))
      <3>1. lowerOf[c] \in Ids /\ InitiatorCid(lowerOf[c]) \in AllCids
        BY LowerAssumption DEF AllCids
      <3>2. QED  BY <2>1, <2>3, <3>1, FoundFreeKeeps
    <2>4. QED  BY <1>3, <2>2, <2>3 DEF ConnectWithCid
  <1>4. ASSUME NEW c \in Generated, GenerateCid(c) PROVE RouteInv'
    <2>1. UNCHANGED <<conns, awaiting, acceptsCh, incomingBuf, toSend>> /\ api[c] = "idle"
      BY <1>4 DEF GenerateCid, Begins, queues
    <2>2. PICK lower \in GenIds : FoundFree(c, InitiatorCid(lower))  BY <1>4 DEF GenerateCid
    <2>3. lower \in Ids /\ InitiatorCid(lower) \in AllCids  BY GenIdsAssumption, Zenon DEF AllCids
    <2>4. QED  BY <2>1, <2>2, <2>3, FoundFreeKeeps
  <1>5. ASSUME NEW c \in Accepts, AcceptWithCid(c) PROVE RouteInv'
    <2>1. acceptsCh \in Seq(Accepts) /\ (acceptsCh' = Append(acceptsCh, c) \/ acceptsCh' = acceptsCh)
      BY <1>5 DEF AcceptWithCid, RouteInv
    <2>2. acceptsCh' \in Seq(Accepts)  BY <2>1
    <2>3. QED  BY <1>2, <1>5, <2>2 DEF AcceptWithCid, Calls
  <1>6. ASSUME NEW c \in Calls, GivesUp(c) PROVE RouteInv'
    BY <1>2, <1>6, Zenon DEF GivesUp, RouteInv, queues
  <1>7. QED  BY <1>1, <1>3, <1>4, <1>5, <1>6 DEF Calls

\* What a connection does to its stream: its phase, its flag, and the first event of
\* its channel, which it may take.
Turn(c) ==
  /\ Live(c)
  /\ \E phase \in Phases \ {"none"}, ch \in Seq(Events), shutdown \in BOOLEAN :
       /\ ch = stream[c].ch \/ (stream[c].ch # <<>> /\ ch = Tail(stream[c].ch))
       /\ stream' = [stream EXCEPT ![c] = [stream[c] EXCEPT !.phase = phase, !.ch = ch,
                                                            !.shutdown = shutdown]]

\* Every step of a connection is such a turn.
LEMMA StepsAreTurns ==
  ASSUME StreamInv, NEW c \in Calls,
         \/ Takes(c) \/ Blocks(c) \/ Unblocks(c)
         \/ AttemptsExhausted(c) \/ Closes(c) \/ StopsByCtx(c)
  PROVE  Turn(c)
  <1> DEFINE s == stream[c]
             to(phase, ch, shutdown) ==
               [s EXCEPT !.phase = phase, !.ch = ch, !.shutdown = shutdown]
  <1>1. /\ stream \in [Calls -> Streams] /\ s \in Streams /\ s.ch \in Seq(Events)
        /\ s.phase \in Phases /\ s.shutdown \in BOOLEAN
    BY DEF StreamInv, Streams
  <1>2. Live(c)
    BY DEF Takes, Blocks, Unblocks, AttemptsExhausted, Closes, StopsByCtx, Runs, Live
  <1>3. s.phase # "none"  BY <1>2 DEF Live
  <1>4. {"connected", "blocked", "ended", "stopped"} \subseteq Phases \ {"none"}  BY DEF Phases
  <1>5. ASSUME NEW phase \in Phases \ {"none"}, NEW ch \in Seq(Events), NEW shutdown \in BOOLEAN,
               ch = s.ch \/ (s.ch # <<>> /\ ch = Tail(s.ch)),
               stream' = [stream EXCEPT ![c] = to(phase, ch, shutdown)]
        PROVE  Turn(c)
    BY <1>2, <1>5, Zenon DEF Turn
  <1>6. CASE Takes(c)
    <2> DEFINE u == [s EXCEPT !.ch = Tail(@)]
    <2>1. s.ch # <<>>  BY <1>6 DEF Takes
    <2>2. Tail(s.ch) \in Seq(Events)  BY <1>1, <2>1
    <2>3. /\ \A phase : [u EXCEPT !.phase = phase] = to(phase, Tail(s.ch), s.shutdown)
          /\ [u EXCEPT !.shutdown = TRUE] = to(s.phase, Tail(s.ch), TRUE)
      BY <1>1, Zenon DEF Streams
    <2>4. \/ \E phase \in {"connected", "blocked", "ended"} :
               stream' = [stream EXCEPT ![c] = [u EXCEPT !.phase = phase]]
          \/ stream' = [stream EXCEPT ![c] = [u EXCEPT !.shutdown = TRUE]]
      BY <1>6, Zenon DEF Takes, Ended, Waits
    <2> HIDE DEF u, to
    <2>5. CASE stream' = [stream EXCEPT ![c] = to(s.phase, Tail(s.ch), TRUE)]
      BY <1>1, <1>3, <1>5, <2>1, <2>2, <2>5
    <2>6. CASE \E phase \in {"connected", "blocked", "ended"} :
                 stream' = [stream EXCEPT ![c] = to(phase, Tail(s.ch), s.shutdown)]
      BY <1>1, <1>4, <1>5, <2>1, <2>2, <2>6
    <2>7. QED  BY <2>3, <2>4, <2>5, <2>6, ZenonT(30)
  <1>7. CASE \/ Blocks(c) \/ Unblocks(c) \/ AttemptsExhausted(c) \/ Closes(c) \/ StopsByCtx(c)
    <2>1. \A phase : [s EXCEPT !.phase = phase] = to(phase, s.ch, s.shutdown)
      BY <1>1, Zenon DEF Streams
    <2>2. PICK phase \in {"connected", "blocked", "ended", "stopped"} :
            stream' = [stream EXCEPT ![c] = [s EXCEPT !.phase = phase]]
      BY <1>1, <1>7, Zenon DEF Blocks, Unblocks, AttemptsExhausted, Closes, StopsByCtx, Ended
    <2>3. stream' = [stream EXCEPT ![c] = to(phase, s.ch, s.shutdown)]  BY <2>1, <2>2, Zenon
    <2> HIDE DEF to
    <2>4. QED  BY <1>1, <1>4, <1>5, <2>3, Zenon
  <1>8. QED  BY <1>6, <1>7

\* A turn of a connection keeps what is known of the streams.
LEMMA TurnKeeps ==
  ASSUME StreamInv, NEW c \in Calls, Turn(c), UNCHANGED conns,
         Fresh' \subseteq Fresh, Pending' \subseteq Pending
  PROVE  StreamInv'
  <1> DEFINE s == stream[c]
  <1>1. /\ s \in Streams /\ s.ch \in Seq(Events) /\ s.phase # "none" /\ s.cid \in AllCids
        /\ c \notin Fresh
    BY DEF StreamInv, Streams, Turn, Live
  <1>2. \A i \in DOMAIN s.ch : s.ch[i].for = s.cid  BY DEF StreamInv, RoutedToOwner
  <1>3. PICK phase \in Phases \ {"none"}, ch \in Seq(Events), shutdown \in BOOLEAN :
          /\ ch = s.ch \/ (s.ch # <<>> /\ ch = Tail(s.ch))
          /\ stream' = [stream EXCEPT ![c] = [s EXCEPT !.phase = phase, !.ch = ch,
                                                       !.shutdown = shutdown]]
    BY Zenon DEF Turn
  <1> DEFINE t == [s EXCEPT !.phase = phase, !.ch = ch, !.shutdown = shutdown]
  <1>4. t \in Streams /\ t.cid = s.cid /\ t.ch = ch  BY <1>1, Zenon DEF Streams
  <1>5. \A i \in DOMAIN ch : ch[i].for = s.cid
    <2>1. CASE ch = s.ch  BY <1>2, <2>1
    <2>2. CASE s.ch # <<>> /\ ch = Tail(s.ch)
      <3>1. \A i \in DOMAIN ch : i + 1 \in DOMAIN s.ch /\ ch[i] = s.ch[i + 1]  BY <1>1, <2>2
      <3>2. QED  BY <1>2, <3>1
    <2>3. QED  BY <1>3, <2>1, <2>2
  <1> HIDE DEF t
  <1>6. stream' = [stream EXCEPT ![c] = t]  BY <1>3 DEF t
  <1>7. QED  BY <1>1, <1>4, <1>5, <1>6, ChangeKeeps, Zenon

\* The connections, and Close when it sends, keep the invariant.
LEMMA StreamsKeep ==
  ASSUME RouteInv, NEW c \in Calls,
         \/ Takes(c) \/ Blocks(c) \/ Unblocks(c)
         \/ AttemptsExhausted(c) \/ Closes(c) \/ StopsByCtx(c) \/ CloseSends(c)
  PROVE  RouteInv'
  <1>1. /\ UNCHANGED <<conns, awaiting, acceptsCh, incomingBuf>>
        /\ toSend' \subseteq toSend
        /\ Answered(c) \/ UNCHANGED api
    BY Zenon DEF Takes, Blocks, Unblocks, AttemptsExhausted, Closes, StopsByCtx, CloseSends, queues
  <1>2. api' \in [Calls -> Progress] /\ Fresh' \subseteq Fresh /\ Pending' = Pending
    BY <1>1, AnsweredKeeps, SameCalls DEF RouteInv
  <1>3. SUFFICES StreamInv'  BY <1>1, <1>2, Zenon DEF RouteInv
  <1>4. CASE CloseSends(c)
    <2> DEFINE s == stream[c]
               e == [type |-> "shutdown", for |-> s.cid]
               ch == Append(s.ch, e)
               t == [s EXCEPT !.ch = ch]
    <2>1. /\ s \in Streams /\ s.ch \in Seq(Events) /\ s.cid \in Cids /\ c \notin Fresh
          /\ s.phase # "none" => s.cid \in AllCids
          /\ \A i \in DOMAIN s.ch : s.ch[i].for = s.cid
      BY <1>4 DEF CloseSends, RouteInv, StreamInv, Streams, RoutedToOwner
    <2>2. e \in Events /\ e.for = s.cid  BY <2>1 DEF Events
    <2> HIDE DEF e
    <2>3. ch \in Seq(Events)  BY <2>1, <2>2
    <2>4. \A i \in DOMAIN ch : ch[i].for = s.cid
      <3>1. SUFFICES ASSUME NEW i \in DOMAIN ch PROVE ch[i].for = s.cid  OBVIOUS
      <3>2. CASE i \in DOMAIN s.ch  BY <2>1, <3>2
      <3>3. CASE i = Len(s.ch) + 1  BY <2>1, <2>2, <3>3
      <3>4. QED  BY <2>1, <3>1, <3>2, <3>3
    <2>5. stream' = [stream EXCEPT ![c] = t]
      BY <1>4, Zenon DEF CloseSends, RouteInv, StreamInv, e
    <2> HIDE DEF ch
    <2>6. t \in Streams /\ t.cid = s.cid /\ t.phase = s.phase /\ t.ch = ch
      BY <2>1, <2>3 DEF Streams
    <2> HIDE DEF t
    <2>7. QED  BY <1>1, <1>2, <2>1, <2>4, <2>5, <2>6, ChangeKeeps, Zenon DEF RouteInv
  <1>5. CASE \/ Takes(c) \/ Blocks(c) \/ Unblocks(c)
             \/ AttemptsExhausted(c) \/ Closes(c) \/ StopsByCtx(c)
    BY <1>1, <1>2, <1>5, StepsAreTurns, TurnKeeps DEF RouteInv
  <1>6. QED  BY <1>4, <1>5

\* Every step keeps the invariant.
LEMMA NextRouteInv == RouteInv /\ [Next]_vars => RouteInv'
  <1> SUFFICES ASSUME RouteInv, [Next]_vars PROVE RouteInv'  OBVIOUS
  <1>1. CASE \/ \E c \in Connects : ConnectWithCid(c) \/ Register(c)
             \/ \E c \in Generated : GenerateCid(c) \/ EnterCid(c) \/ Connect(c)
             \/ \E c \in Accepts : AcceptWithCid(c)
             \/ \E c \in Calls : GivesUp(c)
    BY <1>1, CallsKeep
  <1>2. CASE \E c \in Calls :
               \/ Takes(c) \/ Blocks(c) \/ Unblocks(c)
               \/ AttemptsExhausted(c) \/ Closes(c) \/ StopsByCtx(c) \/ CloseSends(c)
    BY <1>2, StreamsKeep
  <1>3. CASE HandleIncomingBuf  BY <1>3, IncomingKeeps
  <1>4. CASE HandleNewAcceptWithCidEvent  BY <1>4, AcceptKeeps
  <1>5. ASSUME NEW p \in PeerPackets, Read(p) PROVE RouteInv'
    <2>1. p \in Packets
      <3>1. PICK cid : /\ p \in PacketsTo(cid)
                       /\ \/ \E c \in Connects \cup Generated : stream[c].phase # "none" /\ cid = stream[c].cid
                          \/ \E c \in Accepts : cid = AcceptorCid(lowerOf[c])
        BY <1>5, Zenon DEF PeerPackets
      <3>2. cid \in AllCids  BY <3>1 DEF RouteInv, StreamInv, Calls, AllCids
      <3>3. QED  BY <3>1, <3>2 DEF Packets
    <2>2. incomingBuf' \in Seq(Packets)  BY <1>5, <2>1 DEF Read, RouteInv
    <2>3. UNCHANGED <<conns, awaiting, acceptsCh, toSend, api, stream>>  BY <1>5, Zenon DEF Read
    <2>4. StreamInv'  BY <2>3, SameCalls, SameStreams DEF RouteInv
    <2>5. QED  BY <2>2, <2>3, <2>4, SameCalls DEF RouteInv
  <1>6. CASE Expires
    <2>1. \A cid \in DOMAIN awaiting' : cid \in DOMAIN awaiting /\ awaiting'[cid] = awaiting[cid]
      BY <1>6, Zenon DEF Expires, RemoveKey, Restrict
    <2>2. UNCHANGED <<conns, acceptsCh, incomingBuf, toSend, api, stream>>
      BY <1>6 DEF Expires, queues
    <2>3. StreamInv'  BY <2>1, <2>2, SameCalls, SameStreams DEF RouteInv
    <2>4. QED  BY <2>1, <2>2, <2>3, SameCalls DEF RouteInv
  <1>7. CASE WriteLoop
    <2>1. DOMAIN conns' \subseteq DOMAIN conns /\ \A k \in DOMAIN conns' : conns'[k] = conns[k]
      BY <1>7 DEF WriteLoop, RemoveConnStream, RemoveKey, Restrict
    <2>2. UNCHANGED <<awaiting, acceptsCh, incomingBuf, toSend, api, stream>>
      BY <1>7, Zenon DEF WriteLoop
    <2>3. StreamInv'  BY <2>1, <2>2, SameCalls, SameStreams DEF RouteInv
    <2>4. QED  BY <2>1, <2>2, <2>3, SameCalls DEF RouteInv
  <1>8. CASE CloseLocks
    <2>1. toSend' \subseteq Calls \ Fresh
      <3>1. \A cid \in DOMAIN conns : conns[cid] \in Calls \ Fresh
        BY Zenon DEF RouteInv, StreamInv, Entries, EntryOf
      <3>2. toSend' = {conns[cid] : cid \in DOMAIN conns}  BY <1>8 DEF CloseLocks, Range
      <3>3. QED  BY <3>1, <3>2, Zenon
    <2>2. UNCHANGED <<conns, awaiting, acceptsCh, incomingBuf, api, stream>>
      BY <1>8, Zenon DEF CloseLocks, queues
    <2>3. StreamInv'  BY <2>1, <2>2, SameCalls, SameStreams DEF RouteInv
    <2>4. QED  BY <2>1, <2>2, <2>3, SameCalls DEF RouteInv
  <1>9. CASE EventLoopReturns \/ CloseCancels \/ CloseReturns \/ UNCHANGED vars
    <2>1. UNCHANGED <<conns, awaiting, acceptsCh, incomingBuf, toSend, api, stream>>
      BY <1>9 DEF EventLoopReturns, CloseCancels, CloseReturns, vars, queues
    <2>2. StreamInv'  BY <2>1, SameCalls, SameStreams DEF RouteInv
    <2>3. QED  BY <2>1, <2>2, SameCalls DEF RouteInv
  <1>10. QED
    BY <1>1, <1>2, <1>3, <1>4, <1>5, <1>6, <1>7, <1>8, <1>9 DEF Next, EventLoop, CloseStep

\* The channel of a connection holds nothing but what was meant for that connection:
\* handleIncomingBuf, the accepts, removeConnStream and Close never mix two of them up.
THEOREM SocketRoutes == Spec => []RoutedToOwner
  <1>1. RouteInv => RoutedToOwner  BY DEF RouteInv, StreamInv
  <1>2. QED  BY InitRouteInv, NextRouteInv, <1>1, PTL DEF Spec
-----------------------------------------------------------------------------
(* Meetings and registrations. *)

\* An accept and a SYN for the same id never both wait, whatever arrives, expires
\* or is called in between: handleIncomingBuf and handleNewAcceptWithCidEvent each
\* look at what the other has left.
THEOREM MeetingsAreMade == Spec => []NoMissedMeeting
  <1>1. Init => NoMissedMeeting  BY DEF Init, NoMissedMeeting
  <1>2. ASSUME NoMissedMeeting, [Next]_vars PROVE NoMissedMeeting'
    <2>1. CASE UNCHANGED <<awaiting, incoming>>  BY <1>2, <2>1 DEF NoMissedMeeting
    <2>2. CASE DOMAIN awaiting' \subseteq DOMAIN awaiting /\ incoming' \subseteq incoming
      BY <1>2, <2>2 DEF NoMissedMeeting
    <2>3. ASSUME NEW cid, cid \notin DOMAIN awaiting, incoming' = incoming \cup {cid},
                 UNCHANGED awaiting
          PROVE  NoMissedMeeting'
      BY <1>2, <2>3 DEF NoMissedMeeting
    <2>4. ASSUME NEW c, NEW cid, cid \notin incoming, awaiting' = PutKey(awaiting, cid, c),
                 UNCHANGED incoming
          PROVE  NoMissedMeeting'
      BY <1>2, <2>4 DEF NoMissedMeeting, PutKey
    <2>5. \A k : DOMAIN RemoveKey(awaiting, k) \subseteq DOMAIN awaiting
      BY DEF RemoveKey, Restrict
    <2>6. CASE HandleIncomingBuf  BY <2>1, <2>2, <2>3, <2>5, <2>6 DEF HandleIncomingBuf
    <2>7. CASE HandleNewAcceptWithCidEvent
      BY <2>2, <2>4, <2>7 DEF HandleNewAcceptWithCidEvent, NewAcceptWithCid
    <2>8. CASE Expires  BY <2>2, <2>5, <2>8 DEF Expires
    <2>9. CASE \/ \E c \in Connects : ConnectWithCid(c) \/ Register(c)
               \/ \E c \in Generated : GenerateCid(c) \/ EnterCid(c) \/ Connect(c)
               \/ \E c \in Accepts : AcceptWithCid(c)
               \/ \E c \in Calls : GivesUp(c)
      BY <2>1, <2>9, SMTT(30)
         DEF ConnectWithCid, GenerateCid, EnterCid, Register, Connect, OpenStream, AcceptWithCid,
             GivesUp
    <2>10. CASE \E c \in Calls :
                  \/ Takes(c) \/ Blocks(c) \/ Unblocks(c)
                  \/ AttemptsExhausted(c) \/ Closes(c) \/ StopsByCtx(c) \/ CloseSends(c)
      BY <2>1, <2>10
         DEF Takes, Blocks, Unblocks, AttemptsExhausted, Closes, StopsByCtx, CloseSends
    <2>11. CASE \/ EventLoopReturns \/ WriteLoop \/ CloseCancels \/ CloseLocks \/ CloseReturns
                \/ (\E p \in PeerPackets : Read(p)) \/ UNCHANGED vars
      BY <2>1, <2>11
         DEF EventLoopReturns, WriteLoop, CloseCancels, CloseLocks, CloseReturns, Read, vars
    <2>12. QED
      BY <1>2, <2>6, <2>7, <2>8, <2>9, <2>10, <2>11 DEF Next, EventLoop, CloseStep
  <1>3. QED  BY <1>1, <1>2, PTL DEF Spec

\* What makes an id safe that no two calls ever found free at the same time.  The
\* connection that has not ended, and the call that has entered its channel, are the
\* registered ones; a call that has found the id free finds it free still, and is the
\* only one; and a shutdown event that waits for the write loop is for the connection
\* that is registered, which has ended, and is the only event for it.
Registered(cid, c) == cid \in DOMAIN conns /\ conns[cid] = c

Holders(cid) == {c \in Calls : stream[c].cid = cid /\ (Live(c) \/ api[c] = "entered")}
Checkers(cid) == {c \in Calls : stream[c].cid = cid /\ api[c] = "checked"}
Endings(cid) == {i \in DOMAIN socketEvents : socketEvents[i] = cid}

IdInv(cid) ==
  /\ \A c \in Holders(cid) : Registered(cid, c)
  /\ Checkers(cid) # {} => cid \notin DOMAIN conns
  /\ \A c, d \in Checkers(cid) : c = d
  /\ Endings(cid) # {} => cid \in DOMAIN conns /\ stream[conns[cid]].phase = "ended"
  /\ \A i, j \in Endings(cid) : i = j

ReachInv ==
  /\ socketEvents \in Seq(AllCids)
  /\ \A cid \in AllCids \ contended : IdInv(cid)

\* The two sides of a connection have different ids.
LEMMA SidesDiffer ==
  ASSUME NEW l \in Ids, NEW m \in Ids PROVE InitiatorCid(l) # AcceptorCid(m)
  <1>1. SUFFICES ASSUME InitiatorCid(l) = AcceptorCid(m) PROVE FALSE  OBVIOUS
  <1>2. l = Next1(m) /\ Next1(l) = m  BY <1>1 DEF InitiatorCid, AcceptorCid, NewConnectionId
  <1>3. QED  BY <1>2, NextPrev

\* A step that leaves an id alone: it enters or removes nothing under it, nobody
\* starts to use it, and it gets no shutdown event.
LEMMA IdKeeps ==
  ASSUME NEW cid, IdInv(cid),
         cid \in DOMAIN conns <=> cid \in DOMAIN conns',
         cid \in DOMAIN conns => conns'[cid] = conns[cid],
         Holders(cid)' \subseteq Holders(cid), Checkers(cid)' \subseteq Checkers(cid),
         Endings(cid)' # {} => Endings(cid) # {}, \A i, j \in Endings(cid)' : i = j,
         cid \in DOMAIN conns /\ stream[conns[cid]].phase = "ended" =>
           stream'[conns[cid]].phase = "ended"
  PROVE  IdInv(cid)'
  <1>1. /\ \A c \in Holders(cid)' : Registered(cid, c)'
        /\ Checkers(cid)' # {} => cid \notin DOMAIN conns'
        /\ \A c, d \in Checkers(cid)' : c = d
    BY Zenon DEF IdInv, Registered
  <1>2. Endings(cid)' # {} => cid \in DOMAIN conns' /\ stream'[conns'[cid]].phase = "ended"
    BY DEF IdInv
  <1>3. QED  BY <1>1, <1>2 DEF IdInv

\* A step that changes the streams only in what no id depends on.
LEMMA ChangeReach ==
  ASSUME RouteInv, ReachInv, UNCHANGED <<conns, socketEvents, contended>>,
         \A d \in Calls : /\ stream'[d].cid = stream[d].cid
                          /\ Live(d)' => Live(d)
                          /\ stream[d].phase = "ended" => stream'[d].phase = "ended"
                          /\ api'[d] = "entered" => api[d] = "entered"
                          /\ api'[d] = "checked" => api[d] = "checked"
  PROVE  ReachInv'
  <1>1. SUFFICES ASSUME NEW cid \in AllCids \ contended PROVE IdInv(cid)'  BY DEF ReachInv
  <1>2. IdInv(cid) /\ \A i, j \in Endings(cid) : i = j  BY DEF ReachInv, IdInv
  <1>3. Endings(cid)' = Endings(cid)  BY DEF Endings
  <1>4. Holders(cid)' \subseteq Holders(cid) /\ Checkers(cid)' \subseteq Checkers(cid)
    BY DEF Holders, Checkers
  <1>5. cid \in DOMAIN conns => conns[cid] \in Calls  BY DEF RouteInv, StreamInv, Entries, EntryOf
  <1>6. QED  BY <1>2, <1>3, <1>4, <1>5, IdKeeps

\* A call finds its id free.  If another has, too, the id is contended from then on;
\* if not, it has the id for itself.
LEMMA FoundFreeReach ==
  ASSUME RouteInv, ReachInv, NEW c \in Connects \cup Generated, api[c] = "idle",
         NEW k \in AllCids, k \notin DOMAIN conns, FoundFree(c, k), UNCHANGED <<conns, socketEvents>>
  PROVE  ReachInv'
  <1>1. c \in Calls /\ c \in Fresh  BY DEF Calls, Fresh
  <1>2. stream[c] \in Streams /\ stream[c].phase = "none"  BY <1>1 DEF RouteInv, StreamInv
  <1>3. /\ stream'[c].cid = k /\ stream'[c].phase = "none"
        /\ \A d \in Calls \ {c} : stream'[d] = stream[d]
    BY <1>1, <1>2 DEF FoundFree, RouteInv, StreamInv, Streams
  <1>4. api'[c] = "checked" /\ \A d \in Calls \ {c} : api'[d] = api[d]
    BY <1>1 DEF FoundFree, RouteInv
  <1>5. contended \subseteq contended' /\ (Checkers(k) # {} => k \in contended')
    BY DEF FoundFree, Checkers
  <1>6. SUFFICES ASSUME NEW cid \in AllCids \ contended' PROVE IdInv(cid)'  BY DEF ReachInv
  <1>7. IdInv(cid)  BY <1>5, <1>6 DEF ReachInv
  <1>8. Holders(cid)' \subseteq Holders(cid) /\ Endings(cid)' = Endings(cid)
    BY <1>3, <1>4 DEF Holders, Endings, Live
  <1>9. CASE cid = k
    <2>1. Checkers(k)' \subseteq {c}  BY <1>3, <1>4, <1>5, <1>6, <1>9 DEF Checkers
    <2>2. /\ \A d \in Holders(k)' : Registered(k, d)'
          /\ Endings(k)' = {}
      BY <1>7, <1>8, <1>9, Zenon DEF IdInv, Registered
    <2>3. QED  BY <1>9, <2>1, <2>2, Zenon DEF IdInv
  <1>10. CASE cid # k
    <2>1. Checkers(cid)' \subseteq Checkers(cid)  BY <1>3, <1>4, <1>10 DEF Checkers
    <2>2. cid \in DOMAIN conns => conns[cid] \in Calls \ {c}
      BY <1>1 DEF RouteInv, StreamInv, Entries, EntryOf
    <2>3. \A i, j \in Endings(cid) : i = j  BY <1>7 DEF IdInv
    <2>4. QED  BY <1>3, <1>7, <1>8, <2>1, <2>2, <2>3, IdKeeps
  <1>11. QED  BY <1>9, <1>10

\* A connection or a call is entered under an id nobody has: it was free, or had been
\* entered by the same call.
LEMMA PutReach ==
  ASSUME RouteInv, ReachInv, NEW c \in Calls, NEW k \in AllCids, conns' = PutKey(conns, k, c),
         k \notin contended => Holders(k) \subseteq {c} /\ Checkers(k) \subseteq {c} /\ Endings(k) = {},
         stream'[c].cid = k, api'[c] # "checked", c \in Accepts => k = AcceptorCid(lowerOf[c]),
         c \notin Accepts => stream[c].cid = k,
         \A d \in Calls \ {c} : stream'[d] = stream[d] /\ api'[d] = api[d],
         UNCHANGED <<socketEvents, contended>>
  PROVE  ReachInv'
  <1>1. SUFFICES ASSUME NEW cid \in AllCids \ contended PROVE IdInv(cid)'  BY DEF ReachInv
  <1>2. IdInv(cid) /\ Endings(cid)' = Endings(cid)  BY DEF ReachInv, Endings
  <1>3. CASE cid = k
    <2>1. Holders(k)' \subseteq {c} /\ Checkers(k)' = {} /\ Endings(k)' = {}
      BY <1>1, <1>2, <1>3 DEF Holders, Checkers, Live
    <2>2. Registered(k, c)'  BY DEF Registered, PutKey
    <2>3. QED  BY <1>3, <2>1, <2>2 DEF IdInv
  <1>4. CASE cid # k
    <2>1. /\ cid \in DOMAIN conns <=> cid \in DOMAIN conns'
          /\ cid \in DOMAIN conns => conns'[cid] = conns[cid]
      BY <1>4 DEF PutKey
    <2>2. Holders(cid)' \subseteq Holders(cid) /\ Checkers(cid)' \subseteq Checkers(cid)
      BY <1>4 DEF Holders, Checkers, Live
    <2>3. cid \in DOMAIN conns => conns[cid] \in Calls \ {c}
      BY <1>4 DEF RouteInv, StreamInv, Entries, EntryOf
    <2>4. \A i, j \in Endings(cid) : i = j  BY <1>2 DEF IdInv
    <2>5. QED  BY <1>2, <2>1, <2>2, <2>3, <2>4, IdKeeps
  <1>5. QED  BY <1>3, <1>4

\* The calls of the application.
LEMMA CallsReach ==
  ASSUME RouteInv, ReachInv,
         \/ \E c \in Connects : ConnectWithCid(c) \/ Register(c)
         \/ \E c \in Generated : GenerateCid(c) \/ EnterCid(c) \/ Connect(c)
         \/ \E c \in Accepts : AcceptWithCid(c)
         \/ \E c \in Calls : GivesUp(c)
  PROVE  ReachInv'
  <1>1. ASSUME NEW c \in Calls, Register(c) \/ EnterCid(c) \/ Connect(c) PROVE ReachInv'
    <2> DEFINE k == stream[c].cid
    <2>1. /\ c \in Pending /\ c \notin Accepts /\ k \in AllCids
          /\ stream[c].phase = "none" /\ stream[c] \in Streams
      BY <1>1, CallsAssumption
         DEF Register, EnterCid, Connect, Pending, RouteInv, StreamInv, Dialled
    <2>2. /\ conns' = PutKey(conns, k, c) /\ UNCHANGED <<socketEvents, contended>>
          /\ \/ stream' = [stream EXCEPT ![c].phase = "connecting"]
             \/ UNCHANGED stream
          /\ \E status \in {"waiting", "entered"} : api' = [api EXCEPT ![c] = status]
      BY <1>1, Zenon
         DEF Register, EnterCid, Connect, OpenStream, PutConnStream, queues, history
    <2>3. stream'[c].cid = k /\ \A d \in Calls \ {c} : stream'[d] = stream[d]
      BY <2>1, <2>2 DEF RouteInv, StreamInv, Streams
    <2>4. api'[c] # "checked" /\ \A d \in Calls \ {c} : api'[d] = api[d]
      BY <2>2 DEF RouteInv
    <2>5. ASSUME k \notin contended
          PROVE  Holders(k) \subseteq {c} /\ Checkers(k) \subseteq {c} /\ Endings(k) = {}
      <3>1. IdInv(k)  BY <2>1, <2>5 DEF ReachInv
      <3>2. CASE api[c] = "checked"
        <4>1. c \in Checkers(k)  BY <3>2 DEF Checkers
        <4>2. k \notin DOMAIN conns /\ Checkers(k) \subseteq {c}  BY <3>1, <4>1 DEF IdInv
        <4>3. QED  BY <3>1, <4>2 DEF IdInv, Registered
      <3>3. CASE api[c] = "entered"
        <4>1. c \in Holders(k)  BY <3>3 DEF Holders
        <4>2. Registered(k, c)  BY <3>1, <4>1 DEF IdInv
        <4>3. QED  BY <2>1, <3>1, <4>2 DEF IdInv, Registered
      <3>4. QED  BY <1>1, <3>2, <3>3 DEF Register, EnterCid, Connect
    <2> HIDE DEF k
    <2>6. QED  BY <2>1, <2>2, <2>3, <2>4, <2>5, PutReach DEF k
  <1>2. ASSUME NEW c \in Calls, NEW status \in {"waiting", "returned"},
               api' = [api EXCEPT ![c] = status],
               UNCHANGED <<conns, stream, socketEvents, contended>>
        PROVE  ReachInv'
    <2>1. \A d \in Calls : /\ api'[d] = "entered" => api[d] = "entered"
                           /\ api'[d] = "checked" => api[d] = "checked"
      BY <1>2 DEF RouteInv
    <2>2. QED  BY <1>2, <2>1, ChangeReach, Zenon DEF Live
  <1>3. ASSUME NEW c \in Connects, ConnectWithCid(c) PROVE ReachInv'
    <2> DEFINE k == InitiatorCid(lowerOf[c])
    <2>1. /\ UNCHANGED <<conns, socketEvents>> /\ api[c] = "idle" /\ c \in Calls
          /\ k \in AllCids
      BY <1>3 DEF ConnectWithCid, Begins, queues, AllCids, Calls
    <2>2. CASE api' = [api EXCEPT ![c] = "returned"] /\ UNCHANGED <<stream, contended>>
      BY <1>2, <2>1, <2>2
    <2>3. CASE k \notin DOMAIN conns /\ FoundFree(c, k)  BY <2>1, <2>3, FoundFreeReach
    <2>4. QED  BY <1>3, <2>2, <2>3 DEF ConnectWithCid
  <1>4. ASSUME NEW c \in Generated, GenerateCid(c) PROVE ReachInv'
    <2>1. UNCHANGED <<conns, socketEvents>> /\ api[c] = "idle"
      BY <1>4 DEF GenerateCid, Begins, queues
    <2>2. PICK lower \in GenIds :
            InitiatorCid(lower) \notin DOMAIN conns /\ FoundFree(c, InitiatorCid(lower))
      BY <1>4 DEF GenerateCid
    <2>3. InitiatorCid(lower) \in AllCids  BY Zenon DEF AllCids
    <2>4. QED  BY <2>1, <2>2, <2>3, FoundFreeReach
  <1>5. ASSUME NEW c \in Accepts, AcceptWithCid(c) PROVE ReachInv'
    BY <1>2, <1>5, Zenon DEF AcceptWithCid, Calls, history
  <1>6. ASSUME NEW c \in Calls, GivesUp(c) PROVE ReachInv'
    BY <1>2, <1>6, Zenon DEF GivesUp, queues, history
  <1>7. QED  BY <1>1, <1>3, <1>4, <1>5, <1>6 DEF Calls

\* A call that is answered is left with no claim to an id.
LEMMA AnsweredClaims ==
  ASSUME RouteInv, NEW c \in Calls, Answered(c) \/ UNCHANGED api
  PROVE  \A d \in Calls : /\ api'[d] = "entered" => api[d] = "entered"
                          /\ api'[d] = "checked" => api[d] = "checked"
  BY DEF RouteInv, Answered

\* An accept registers only an id that is free, and that nobody connects with.
LEMMA AcceptedReach ==
  ASSUME RouteInv, ReachInv, NEW c \in Accepts, NEW under \in Unders, Answered(c),
         AcceptorCid(lowerOf[c]) \notin DOMAIN conns,
         conns' = PutKey(conns, AcceptorCid(lowerOf[c]), c),
         stream' = [stream EXCEPT ![c] = NewUtpStream("connected", AcceptorCid(lowerOf[c]), under)],
         UNCHANGED <<socketEvents, contended>>
  PROVE  ReachInv'
  <1> DEFINE k == AcceptorCid(lowerOf[c])
  <1>1. k \in AllCids /\ c \in Calls  BY DEF AllCids, Calls
  <1>2. /\ stream'[c].cid = k /\ \A d \in Calls \ {c} : stream'[d] = stream[d]
    BY <1>1 DEF RouteInv, StreamInv, NewUtpStream
  <1>3. api'[c] # "checked" /\ \A d \in Calls \ {c} : api'[d] = api[d]
    <2>1. c \notin Pending  BY CallsAssumption DEF RouteInv, StreamInv
    <2>2. QED  BY <1>1, <2>1 DEF Answered, RouteInv, Pending
  <1>4. Checkers(k) = {}
    <2>1. SUFFICES ASSUME NEW d \in Checkers(k) PROVE FALSE  OBVIOUS
    <2>2. d \in Pending /\ stream[d].cid = k  BY DEF Checkers, Pending
    <2>3. PICK lower \in Ids : k = InitiatorCid(lower)
      BY <2>2 DEF RouteInv, StreamInv, Dialled
    <2>4. QED  BY <2>3, LowerAssumption, SidesDiffer
  <1>5. k \notin contended => Holders(k) = {} /\ Endings(k) = {}
    BY <1>1 DEF ReachInv, IdInv, Registered
  <1>6. c \notin Connects \cup Generated  BY CallsAssumption
  <1> HIDE DEF k
  <1>7. QED  BY <1>1, <1>2, <1>3, <1>4, <1>5, PutReach DEF k

\* The event loop.
LEMMA LoopReach ==
  ASSUME RouteInv, ReachInv, HandleIncomingBuf \/ HandleNewAcceptWithCidEvent PROVE ReachInv'
  <1>1. CASE HandleIncomingBuf
    <2> DEFINE p == Head(incomingBuf)
               cid == CidFromPacket(p, "RecvId")
    <2>1. UNCHANGED <<socketEvents, contended>>  BY <1>1 DEF HandleIncomingBuf, history
    <2>2. CASE /\ Matches(DOMAIN conns, p) # {}
               /\ SendTo(conns[FirstMatch(DOMAIN conns, p)], p) /\ UNCHANGED <<conns, api>>
      <3> DEFINE c == conns[FirstMatch(DOMAIN conns, p)]
      <3>1. \A d \in Calls : stream'[d].cid = stream[d].cid /\ stream'[d].phase = stream[d].phase
        <4>1. SendTo(c, p) /\ stream \in [Calls -> Streams]  BY <2>2 DEF RouteInv, StreamInv
        <4> HIDE DEF c, p
        <4>2. CASE stream' = [stream EXCEPT ![c].ch = Append(@, p)]  BY <4>1, <4>2 DEF Streams
        <4>3. QED  BY <4>1, <4>2 DEF SendTo
      <3>2. QED  BY <2>1, <2>2, <3>1, ChangeReach, Zenon DEF Live
    <2>3. CASE UNCHANGED <<conns, stream, api>>
      BY <2>1, <2>3, ChangeReach, Zenon DEF Live
    <2>4. CASE /\ Matches(DOMAIN conns, p) = {} /\ cid \in DOMAIN awaiting
               /\ conns' = PutKey(conns, cid, awaiting[cid])
               /\ stream' = [stream EXCEPT ![awaiting[cid]] = NewUtpStream("connected", cid, "socket")]
               /\ Answered(awaiting[cid])
      <3>1. cid \notin DOMAIN conns
        <4>1. 3 \in 1..3 /\ CidTypes[3] = "RecvId"  BY DEF CidTypes
        <4>2. QED  BY <2>4, <4>1 DEF Matches
      <3>2. awaiting[cid] \in Accepts /\ cid = AcceptorCid(lowerOf[awaiting[cid]])
        BY <2>4 DEF RouteInv
      <3>3. "socket" \in Unders  BY DEF Unders
      <3> HIDE DEF cid
      <3>4. QED  BY <2>1, <2>4, <3>1, <3>2, <3>3, AcceptedReach, Zenon
    <2>5. QED  BY <1>1, <2>2, <2>3, <2>4, ZenonT(30) DEF HandleIncomingBuf
  <1>2. CASE HandleNewAcceptWithCidEvent
    <2> DEFINE c == Head(acceptsCh)
               cid == AcceptorCid(lowerOf[c])
    <2>1. c \in Accepts /\ c \in Calls  BY <1>2 DEF HandleNewAcceptWithCidEvent, RouteInv, Calls
    <2>2. NewAcceptWithCid(c, cid) /\ UNCHANGED <<socketEvents, contended>>
      BY <1>2 DEF HandleNewAcceptWithCidEvent, history
    <2> HIDE DEF c
    <2>3. CASE /\ cid \notin DOMAIN conns /\ conns' = PutKey(conns, cid, c) /\ Answered(c)
               /\ stream' = [stream EXCEPT ![c] = NewUtpStream("connected", cid, "call")]
      <3>1. "call" \in Unders  BY DEF Unders
      <3>2. QED  BY <2>1, <2>2, <2>3, <3>1, AcceptedReach, Zenon
    <2>4. CASE (Answered(c) \/ UNCHANGED api) /\ UNCHANGED <<conns, stream>>
      <3>1. \A d \in Calls : /\ api'[d] = "entered" => api[d] = "entered"
                             /\ api'[d] = "checked" => api[d] = "checked"
        BY <2>1, <2>4, AnsweredClaims
      <3>2. QED  BY <2>2, <2>4, <3>1, ChangeReach, Zenon DEF Live
    <2>5. QED  BY <2>2, <2>3, <2>4, Zenon DEF NewAcceptWithCid
  <1>3. QED  BY <1>1, <1>2

\* A connection ends and tells the socket: it is the one that is registered.
LEMMA EndReach ==
  ASSUME RouteInv, ReachInv, NEW c \in Calls, Live(c), NEW s \in Streams, s.cid = stream[c].cid,
         Ended(c, s), UNCHANGED <<conns, contended>>, Answered(c) \/ UNCHANGED api
  PROVE  ReachInv'
  <1> DEFINE t == [s EXCEPT !.phase = "ended"]
             k == stream[c].cid
             n == Len(socketEvents)
  <1>1. t.phase = "ended" /\ t.cid = k  BY DEF Streams
  <1>2. /\ stream \in [Calls -> Streams] /\ stream' = [stream EXCEPT ![c] = t]
        /\ socketEvents' = Append(socketEvents, k)
    BY DEF Ended, RouteInv, StreamInv
  <1>3. k \in AllCids /\ stream[c].phase # "ended" /\ stream[c].phase # "none"
    BY DEF RouteInv, StreamInv, Live
  <1> HIDE DEF t, k
  <1>4. stream'[c] = t /\ \A d \in Calls \ {c} : stream'[d] = stream[d]  BY <1>2
  <1>5. /\ socketEvents \in Seq(AllCids) /\ n \in Nat /\ DOMAIN socketEvents = 1..n
        /\ socketEvents' \in Seq(AllCids) /\ DOMAIN socketEvents' = 1..(n + 1)
        /\ socketEvents'[n + 1] = k
        /\ \A i \in 1..n : socketEvents'[i] = socketEvents[i]
    BY <1>2, <1>3 DEF ReachInv
  <1> HIDE DEF n
  <1>6. \A d \in Calls : /\ stream'[d].cid = stream[d].cid
                         /\ Live(d)' => Live(d) /\ d # c
                         /\ stream[d].phase = "ended" => stream'[d].phase = "ended"
    BY <1>1, <1>4 DEF Live, k
  <1>7. \A cid : Holders(cid)' \subseteq Holders(cid) /\ Checkers(cid)' \subseteq Checkers(cid)
    BY <1>6, AnsweredClaims DEF Holders, Checkers
  <1>8. \A cid : Endings(cid)' = IF cid = k THEN Endings(cid) \cup {n + 1} ELSE Endings(cid)
    BY <1>5 DEF Endings
  <1>9. SUFFICES ASSUME NEW cid \in AllCids \ contended PROVE IdInv(cid)'  BY <1>5 DEF ReachInv
  <1>10. IdInv(cid) /\ \A i, j \in Endings(cid) : i = j  BY DEF ReachInv, IdInv
  <1>11. CASE cid # k
    <2>1. cid \in DOMAIN conns => conns[cid] \in Calls  BY DEF RouteInv, StreamInv, Entries, EntryOf
    <2>2. QED  BY <1>6, <1>7, <1>8, <1>10, <1>11, <2>1, IdKeeps
  <1>12. CASE cid = k
    <2>1. c \in Holders(cid)  BY <1>12 DEF Holders, k
    <2>2. cid \in DOMAIN conns /\ conns[cid] = c  BY <1>10, <2>1 DEF IdInv, Registered
    <2>3. Checkers(cid)' = {} /\ Endings(cid)' = {n + 1}
      <3>1. Checkers(cid) = {} /\ Endings(cid) = {}  BY <1>3, <1>10, <2>2 DEF IdInv
      <3>2. QED  BY <1>7, <1>8, <1>12, <3>1
    <2>4. Holders(cid)' = {}
      <3>1. Holders(cid)' \subseteq {c}  BY <1>7, <1>10, <2>2 DEF IdInv, Registered
      <3>2. api[c] # "entered"  BY <1>3 DEF RouteInv, StreamInv, Pending
      <3>3. c \notin Holders(cid)'  BY <1>6, <3>2, AnsweredClaims DEF Holders
      <3>4. QED  BY <3>1, <3>3
    <2>5. stream'[conns'[cid]].phase = "ended" /\ cid \in DOMAIN conns'  BY <1>1, <1>4, <2>2
    <2>6. QED  BY <2>3, <2>4, <2>5, Zenon DEF IdInv
  <1>13. QED  BY <1>11, <1>12

\* removeConnStream takes the entry of the connection that has ended, and no other.
LEMMA WriteReach == ASSUME RouteInv, ReachInv, WriteLoop PROVE ReachInv'
  <1> DEFINE x == Head(socketEvents)
             n == Len(socketEvents)
  <1>1. /\ socketEvents # <<>> /\ socketEvents' = Tail(socketEvents)
        /\ conns' = RemoveKey(conns, x) /\ UNCHANGED <<api, stream, contended>>
    BY DEF WriteLoop, RemoveConnStream, history
  <1>2. /\ socketEvents \in Seq(AllCids) /\ n \in Nat \ {0} /\ DOMAIN socketEvents = 1..n
        /\ x = socketEvents[1] /\ socketEvents' \in Seq(AllCids)
        /\ DOMAIN socketEvents' = 1..(n - 1)
        /\ \A i \in 1..(n - 1) : socketEvents'[i] = socketEvents[i + 1]
    BY <1>1 DEF ReachInv
  <1>3. DOMAIN conns' = DOMAIN conns \ {x} /\ \A k \in DOMAIN conns' : conns'[k] = conns[k]
    BY <1>1 DEF RemoveKey, Restrict
  <1> HIDE DEF x, n
  <1>4. \A cid : \A i \in Endings(cid)' : i \in 1..(n - 1) /\ i + 1 \in Endings(cid)
    BY <1>2 DEF Endings
  <1>5. \A cid : Holders(cid)' = Holders(cid) /\ Checkers(cid)' = Checkers(cid)
    BY <1>1 DEF Holders, Checkers, Live
  <1>6. SUFFICES ASSUME NEW cid \in AllCids \ contended PROVE IdInv(cid)'
    BY <1>1, <1>2 DEF ReachInv
  <1>7. IdInv(cid)  BY DEF ReachInv
  <1>8. \A i, j \in Endings(cid)' : i = j
    <2>1. SUFFICES ASSUME NEW i \in Endings(cid)', NEW j \in Endings(cid)' PROVE i = j  OBVIOUS
    <2>2. i + 1 = j + 1 /\ i \in Nat /\ j \in Nat  BY <1>2, <1>4, <1>7 DEF IdInv
    <2>3. QED  BY <2>2
  <1>9. CASE cid # x
    <2>1. /\ cid \in DOMAIN conns <=> cid \in DOMAIN conns'
          /\ cid \in DOMAIN conns => conns'[cid] = conns[cid]
      BY <1>3, <1>9
    <2>2. Endings(cid)' # {} => Endings(cid) # {}  BY <1>4
    <2>3. QED  BY <1>1, <1>5, <1>7, <1>8, <2>1, <2>2, IdKeeps
  <1>10. CASE cid = x
    <2>1. 1 \in Endings(cid)  BY <1>2, <1>10 DEF Endings
    <2>2. cid \in DOMAIN conns /\ stream[conns[cid]].phase = "ended"  BY <1>7, <2>1 DEF IdInv
    <2>3. Endings(cid)' = {}
      <3>1. SUFFICES ASSUME NEW i \in Endings(cid)' PROVE FALSE  OBVIOUS
      <3>2. i + 1 = 1 /\ i \in 1..(n - 1)  BY <1>4, <1>7, <2>1 DEF IdInv
      <3>3. QED  BY <1>2, <3>2
    <2>4. Holders(cid) = {}
      <3>1. SUFFICES ASSUME NEW c \in Holders(cid) PROVE FALSE  OBVIOUS
      <3>2. conns[cid] = c  BY <1>7 DEF IdInv, Registered
      <3>3. QED  BY <2>2, <3>2 DEF Holders, Live, RouteInv, StreamInv, Pending
    <2>5. cid \notin DOMAIN conns' /\ Checkers(cid)' = {}
      BY <1>3, <1>5, <1>7, <1>10, <2>2 DEF IdInv
    <2>6. QED  BY <1>5, <2>3, <2>4, <2>5, Zenon DEF IdInv
  <1>11. QED  BY <1>9, <1>10

\* The connections, and Close when it sends.
LEMMA StreamsReach ==
  ASSUME RouteInv, ReachInv, NEW c \in Calls,
         \/ Takes(c) \/ Blocks(c) \/ Unblocks(c)
         \/ AttemptsExhausted(c) \/ Closes(c) \/ StopsByCtx(c) \/ CloseSends(c)
  PROVE  ReachInv'
  <1> DEFINE s == stream[c]
             u == [s EXCEPT !.ch = Tail(@)]
  <1>1. s \in Streams /\ stream \in [Calls -> Streams]  BY DEF RouteInv, StreamInv
  <1>2. UNCHANGED <<conns, contended>> /\ (Answered(c) \/ UNCHANGED api)
    BY Zenon DEF Takes, Blocks, Unblocks, AttemptsExhausted, Closes, StopsByCtx, CloseSends, history
  <1>3. CASE Live(c) /\ Ended(c, s)  BY <1>1, <1>2, <1>3, EndReach
  <1>4. ASSUME Live(c), Ended(c, u), s.ch # <<>> PROVE ReachInv'
    <2>1. s.ch \in Seq(Events)  BY <1>1 DEF Streams
    <2>2. Tail(s.ch) \in Seq(Events)  BY <1>4, <2>1
    <2>3. u \in Streams /\ u.cid = s.cid
      <3> DEFINE ch == Tail(s.ch)
      <3>1. ch \in Seq(Events) /\ u = [s EXCEPT !.ch = ch]  BY <2>2
      <3> HIDE DEF ch, u
      <3>2. QED  BY <1>1, <3>1, SMTT(30) DEF Streams
    <2> HIDE DEF u
    <2>4. QED  BY <1>2, <1>4, <2>3, EndReach
  <1>5. ASSUME NEW t, t.cid = s.cid, t.phase = s.phase \/ Live(c),
               stream' = [stream EXCEPT ![c] = t], UNCHANGED socketEvents
        PROVE  ReachInv'
    <2>1. \A d \in Calls : stream'[d] = IF d = c THEN t ELSE stream[d]  BY <1>1, <1>5
    <2>2. \A d \in Calls : /\ stream'[d].cid = stream[d].cid
                           /\ Live(d)' => Live(d)
                           /\ stream[d].phase = "ended" => stream'[d].phase = "ended"
      BY <1>5, <2>1 DEF Live
    <2>3. QED  BY <1>2, <1>5, <2>2, AnsweredClaims, ChangeReach, Zenon
  <1>6. CASE Takes(c)
    <2>1. Live(c) /\ s.ch # <<>>  BY <1>6 DEF Takes, Runs
    <2>2. \/ Ended(c, u)
          \/ /\ stream' = [stream EXCEPT ![c] = [u EXCEPT !.shutdown = TRUE]]
             /\ UNCHANGED socketEvents
          \/ /\ \E phase : stream' = [stream EXCEPT ![c] = [u EXCEPT !.phase = phase]]
             /\ UNCHANGED socketEvents
      BY <1>6, Zenon DEF Takes
    <2>3. /\ [u EXCEPT !.shutdown = TRUE].cid = s.cid
          /\ \A phase : [u EXCEPT !.phase = phase].cid = s.cid
      BY <1>1 DEF Streams
    <2> HIDE DEF u
    <2>4. QED  BY <1>4, <1>5, <2>1, <2>2, <2>3, Zenon
  <1>7. CASE AttemptsExhausted(c) \/ Closes(c)
    BY <1>3, <1>7 DEF AttemptsExhausted, Closes, Runs, Live
  <1>8. CASE Blocks(c) \/ Unblocks(c) \/ StopsByCtx(c)
    <2>1. Live(c) /\ UNCHANGED socketEvents
      BY <1>8 DEF Blocks, Unblocks, StopsByCtx, Runs, Live, queues
    <2>2. PICK phase : stream' = [stream EXCEPT ![c] = [s EXCEPT !.phase = phase]]
      BY <1>1, <1>8, Zenon DEF Blocks, Unblocks, StopsByCtx
    <2>3. [s EXCEPT !.phase = phase].cid = s.cid  BY <1>1 DEF Streams
    <2>4. QED  BY <1>5, <2>1, <2>2, <2>3, Zenon
  <1>9. CASE CloseSends(c)
    <2> DEFINE t == [s EXCEPT !.ch = Append(@, [type |-> "shutdown", for |-> stream[c].cid])]
    <2>1. UNCHANGED socketEvents /\ stream' = [stream EXCEPT ![c] = t]
      BY <1>1, <1>9, Zenon DEF CloseSends, queues
    <2>2. t.cid = s.cid /\ t.phase = s.phase  BY <1>1 DEF Streams
    <2> HIDE DEF t
    <2>3. QED  BY <1>5, <2>1, <2>2, Zenon
  <1>10. QED  BY <1>6, <1>7, <1>8, <1>9

\* For every set of calls and ids, and without any lock around the look-up and the
\* entry: under an id that no two calls found free at the same time, a connection
\* whose event loop has not ended is the one that conns has.  removeConnStream, which
\* knows the id alone, never removes a later connection that uses the id again, and
\* what one pair of calls does to its id harms no other id.
THEOREM RunningReached == Spec => []RunningIsReachable
  <1>1. Init => ReachInv
    <2>1. SUFFICES ASSUME Init PROVE ReachInv  OBVIOUS
    <2>2. \A c \in Calls : ~Live(c) /\ api[c] = "idle"
      BY <2>1 DEF Init, NoStream, NewUtpStream, Live
    <2>3. socketEvents = <<>>  BY <2>1 DEF Init
    <2>4. \A cid : Holders(cid) = {} /\ Checkers(cid) = {} /\ Endings(cid) = {}
      BY <2>2, <2>3 DEF Holders, Checkers, Endings
    <2>5. QED  BY <2>3, <2>4 DEF ReachInv, IdInv
  <1>2. ASSUME RouteInv, ReachInv, [Next]_vars PROVE ReachInv'
    <2>1. CASE UNCHANGED <<conns, stream, socketEvents, api, contended>>
      BY <1>2, <2>1, ChangeReach, Zenon DEF Live
    <2>2. CASE \/ EventLoopReturns \/ Expires \/ CloseCancels \/ CloseLocks \/ CloseReturns
               \/ (\E p \in PeerPackets : Read(p)) \/ UNCHANGED vars
      BY <2>1, <2>2, Zenon
         DEF EventLoopReturns, Expires, CloseCancels, CloseLocks, CloseReturns, Read, vars, queues,
             history
    <2>3. QED  BY <1>2, <2>2, CallsReach, LoopReach, StreamsReach, WriteReach
               DEF Next, EventLoop, CloseStep
  <1>3. RouteInv /\ ReachInv => RunningIsReachable
    <2>1. SUFFICES ASSUME RouteInv, ReachInv, NEW c \in Calls, Live(c),
                          stream[c].cid \notin contended
                   PROVE  Registered(stream[c].cid, c)
      BY DEF RunningIsReachable, Registered
    <2>2. stream[c].cid \in AllCids  BY <2>1 DEF RouteInv, StreamInv, Live
    <2>3. c \in Holders(stream[c].cid)  BY <2>1 DEF Holders
    <2>4. QED  BY <2>1, <2>2, <2>3 DEF ReachInv, IdInv
  <1>4. QED  BY InitRouteInv, NextRouteInv, <1>1, <1>2, <1>3, PTL DEF Spec
=============================================================================
