---------------------------- MODULE ReceiveBuffer ----------------------------
(***************************************************************************)
(* recv_buffer.go: reassembly of the packets of one connection.  Every     *)
(* operator maps the buffer's record to a value or to the next record.     *)
(*   buf        the bytes that are in order and not yet read: buf[:offset] *)
(*   offset     their number                                               *)
(*   pending    the out-of-order payloads, by sequence number              *)
(*   initSeqNum, consumed   AckNum is initSeqNum + consumed                *)
(***************************************************************************)
EXTENDS SeqNum, ByteCount, Sequences

CONSTANTS BufferSize,            \* len(rb.buf)
          MaxSelectiveAckCount,  \* MAX_SELECTIVE_ACK_COUNT
          Nil                    \* a nil pointer

ASSUME BufferSizeAssumption == BufferSize \in Nat
ASSUME SelectiveAckAssumption == MaxSelectiveAckCount \in Nat

newReceiveBuffer(initSeqNum) ==
  [buf |-> << >>, offset |-> 0, pending |-> << >>,
   initSeqNum |-> initSeqNum, consumed |-> 0]

\* The number of bytes held by the payloads of p.
Held(p) == Bytes([s \in DOMAIN p |-> Len(p[s])])

Available(rb) == BufferSize - rb.offset - Held(rb.pending)

IsEmpty(rb) == rb.offset = 0 /\ DOMAIN rb.pending = {}

AckNum(rb) == Add(rb.initSeqNum, rb.consumed)

\* Mutant: the number AckNum itself counts as missing.
WasWrittenExclusive(rb, seqNum) ==
  \/ seqNum \in DOMAIN rb.pending
  \/ seqNum # AckNum(rb) /\ RangeContains(rb.initSeqNum, AckNum(rb), seqNum)
WasWritten(rb, seqNum) ==
  seqNum \in DOMAIN rb.pending \/ RangeContains(rb.initSeqNum, AckNum(rb), seqNum)

\* The number of payloads of p that follow each other from number next on.
Gaps(p, next) == {n \in 0..SeqSpace : n = SeqSpace \/ Add(next, n) \notin DOMAIN p}
RunLength(p, next) == CHOOSE n \in Gaps(p, next) : \A m \in Gaps(p, next) : n <= m

\* Mutant: only one packet is moved per Write.
DrainOne(rb, p) ==
  LET next == Add(AckNum(rb), 1)
  IN  IF next \notin DOMAIN p THEN [rb EXCEPT !.pending = p]
      ELSE [rb EXCEPT !.buf = @ \o p[next], !.offset = @ + Len(p[next]),
                      !.pending = [s \in DOMAIN p \ {next} |-> p[s]],
                      !.consumed = Add(@, 1)]
\* Mutant: each payload is copied to the start of the unread bytes.
DrainToFront(rb, p) ==
  LET next == Add(AckNum(rb), 1)
      n    == RunLength(p, next)
      run  == {Add(next, i) : i \in 0..(n - 1)}
  IN  [rb EXCEPT
         !.buf      = Joined([i \in 1..n |-> p[Add(next, n - i)]]) \o @,
         !.offset   = @ + Held([s \in DOMAIN p \cap run |-> p[s]]),
         !.pending  = [s \in DOMAIN p \ run |-> p[s]],
         !.consumed = Add(@, n)]

\* The loop of Write: move the run that starts at next into buf.
Drain(rb, p) ==
  LET next  == Add(AckNum(rb), 1)
      n     == RunLength(p, next)
      taken == {Add(next, i) : i \in 0..(n - 1)}
      rest  == DOMAIN p \ taken
  IN  [rb EXCEPT
         !.buf      = @ \o Joined([i \in 1..n |-> p[Add(next, i - 1)]]),
         !.offset   = @ + Held([s \in DOMAIN p \cap taken |-> p[s]]),
         !.pending  = [s \in rest |-> p[s]],
         !.consumed = Add(@, n)]

\* Mutant: the out-of-order bytes are not counted.
WriteFailsForgetsPending(rb, data, seqNum) ==
  ~WasWritten(rb, seqNum) /\ Len(data) > BufferSize - rb.offset

\* Write(data, seqNum) fails only for want of space; a duplicate is accepted
\* and changes nothing.
WriteFails(rb, data, seqNum) ==
  ~WasWritten(rb, seqNum) /\ Len(data) > Available(rb)

Write(rb, data, seqNum) ==
  IF WasWritten(rb, seqNum) \/ WriteFails(rb, data, seqNum) THEN rb
  ELSE Drain(rb, [s \in DOMAIN rb.pending \cup {seqNum} |->
                    IF s = seqNum THEN data ELSE rb.pending[s]])

\* Read(buf) with len(buf) = n: the bytes it returns and what it leaves.
ReadLen(rb, n) == IF n < rb.offset THEN n ELSE rb.offset
ReadBytes(rb, n) == SubSeq(rb.buf, 1, ReadLen(rb, n))
Read(rb, n) == [rb EXCEPT !.buf = SubSeq(@, ReadLen(rb, n) + 1, Len(@)),
                          !.offset = @ - ReadLen(rb, n)]

\* Mutant: the first bit stands for AckNum + 1.
SelectiveAckFromNext(rb) ==
  IF DOMAIN rb.pending = {} THEN Nil
  ELSE {i \in 0..(MaxSelectiveAckCount - 1) :
          i < SeqSpace /\ Add(Add(AckNum(rb), 1), i) \in DOMAIN rb.pending}

\* SelectiveAck: nil, or the positions of the bits that are set.
SelectiveAck(rb) ==
  IF DOMAIN rb.pending = {} THEN Nil
  ELSE {i \in 0..(MaxSelectiveAckCount - 1) :
          i < SeqSpace /\ Add(Add(AckNum(rb), 2), i) \in DOMAIN rb.pending}
=============================================================================
