------------------------------- MODULE Socket -------------------------------
(***************************************************************************)
(* cid.go and the routing of utp_socket.go, for one remote peer: which     *)
(* connection a packet is for.                                             *)
(***************************************************************************)
EXTENDS Integers

CONSTANT IdSpace      \* connection ids are counted modulo this, 2^16 in the code

ASSUME IdSpaceAssumption == IdSpace \in Nat /\ IdSpace > 3

Ids == 0..(IdSpace - 1)
Next1(id) == (id + 1) % IdSpace
Prev1(id) == (id - 1) % IdSpace

\* The hash of a connection id is that of the peer and both numbers.
NewConnectionId(recv, send) == [send |-> send, recv |-> recv]

\* The side that connects picks recv and sends with the number after it; the side
\* that accepts has the same two numbers the other way round.
InitiatorCid(lower) == NewConnectionId(lower, Next1(lower))
AcceptorCid(lower) == NewConnectionId(Next1(lower), lower)

CidTypes == <<"SendIdPeerInitiated", "SendIdWeInitiated", "RecvId">>

\* Mutant: the first candidate is one too low.
CidOneTooLow(p, idType) ==
  CASE idType = "SendIdPeerInitiated" -> NewConnectionId(Prev1(Prev1(p.id)), Prev1(p.id))
    [] idType = "SendIdWeInitiated" -> NewConnectionId(p.id, Next1(p.id))
    [] OTHER -> IF p.type = "syn" THEN NewConnectionId(Next1(p.id), p.id)
                                  ELSE NewConnectionId(p.id, Prev1(p.id))
CidFromPacket(p, idType) ==
  CASE idType = "SendIdPeerInitiated" -> NewConnectionId(Prev1(p.id), p.id)
    [] idType = "SendIdWeInitiated" -> NewConnectionId(p.id, Next1(p.id))
    [] OTHER -> IF p.type = "syn" THEN NewConnectionId(Next1(p.id), p.id)
                                  ELSE NewConnectionId(p.id, Prev1(p.id))

\* The loop of handleIncomingBuf: the first candidate that is registered.
Matches(registered, p) == {i \in 1..3 : CidFromPacket(p, CidTypes[i]) \in registered}

FirstMatch(registered, p) ==
  CidFromPacket(p, CidTypes[CHOOSE i \in Matches(registered, p) :
                              \A j \in Matches(registered, p) : i <= j])

\* What the peer of a connection sends to it.  The side that accepted sends with its
\* send id, which is our recv; the side that connects puts its recv into the SYN and
\* its send into all else; a reset carries the id of the packet it answers, which is
\* our send.  (The reset for a side that accepted finds no connection: none of the
\* candidates puts the lower id into send for it.)
PacketsTo(cid) ==
  {[type |-> t[1], id |-> t[2], for |-> cid] :
     t \in IF cid = InitiatorCid(cid.recv)
           THEN {<<"state", cid.recv>>, <<"reset", cid.send>>}
           ELSE {<<"syn", cid.send>>, <<"data", cid.recv>>}}

\* No two connections have a number in common.
Apart(cids) ==
  \A x, y \in cids : x # y => {x.send, x.recv} \cap {y.send, y.recv} = {}
=============================================================================
