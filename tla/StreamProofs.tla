---------------------------- MODULE StreamProofs ----------------------------
(***************************************************************************)
(* What the end of the stream means, and that a Write is answered once,    *)
(* for every number of chunks, calls and packets and all capacities.       *)
(***************************************************************************)
EXTENDS StreamSpec, TLAPS

\* The chunk, or the end, that comes n-th out of reads.
Nth(n) == IF n <= Chunks THEN n ELSE Fin

Count == Len(got) + Len(reads)

\* Of the connection, the argument needs two fields.
Same(c, d) ==
  /\ DOMAIN d = DOMAIN c
  /\ d.state = c.state /\ d.handed = c.handed

HasFields(c) == {"state", "handed"} \subseteq DOMAIN c

\* got and reads together are the beginning of the chunks, followed by as many ends
\* as processReads has sent; while the loop runs, they are all it has taken from the
\* receive buffer.
ReadInv ==
  /\ got \in Seq(Nat) /\ reads \in Seq(Nat)
  /\ Len(got) <= Chunks
  /\ \A i \in 1..Len(got) : got[i] = i
  /\ \A i \in 1..Len(reads) : reads[i] = Nth(Len(got) + i)
  /\ loop # "returned" =>
       /\ HasFields(conn)
       /\ conn.state = "Connected"
       /\ conn.handed = IF Count <= Chunks THEN Count ELSE Chunks
  /\ reader = "eof" => Len(got) = Chunks

\* The invariant holds at the start.
LEMMA InitReadInv == Init => ReadInv
  BY ChunksAssumption DEF Init, ReadInv, newConnection, HasFields, Count, Nth, Fin

\* onPacket leaves both alone.
LEMMA PacketSame == ASSUME NEW c, HasFields(c), NEW p, NEW left PROVE Same(c, onPacket(c, p, left))
  BY DEF Same, HasFields, onPacket

\* So does shutdown.
LEMMA ShutdownSame == ASSUME NEW c, HasFields(c) PROVE Same(c, shutdownConn(c))
  BY DEF Same, HasFields, shutdownConn

\* So does an answer to a Write.
LEMMA AnswerSame == ASSUME NEW c, HasFields(c), NEW ws PROVE Same(c, AnswerAll(c, ws))
  BY DEF Same, HasFields, AnswerAll

\* Leaving both alone twice is leaving them alone.
LEMMA SameTrans ==
  ASSUME NEW c, HasFields(c), NEW d, Same(c, d) PROVE HasFields(d) /\ \A e : Same(d, e) => Same(c, e)
  BY DEF Same, HasFields

\* processWrites leaves both alone.
LEMMA ProcessWritesSame == ASSUME NEW c, HasFields(c), NEW n PROVE Same(c, processWrites(c, n))
  <1> DEFINE room  == SendBufCap - (c.sendBuf - n)
             moved == IF room < Len(c.pendingWrites) THEN room ELSE Len(c.pendingWrites)
             d     == AnswerAll(c, SubSeq(c.pendingWrites, 1, moved))
  <1>1. CASE c.state = "Closed"  BY <1>1, AnswerSame DEF processWrites
  <1>2. CASE c.state # "Closed"
    <2>1. Same(c, d)  BY AnswerSame
    <2>2. processWrites(c, n) =
            [d EXCEPT !.sendBuf = @ - n + moved, !.unacked = @ + n,
                      !.pendingWrites = SubSeq(@, moved + 1, Len(@)),
                      !.writable = IF moved > 0 THEN Token(@) ELSE @]
      BY <1>2, Zenon DEF processWrites
    <2> HIDE DEF d, moved
    <2>3. HasFields(d)  BY <2>1, SameTrans
    <2>4. Same(d, processWrites(c, n))  BY <2>2, <2>3, Zenon DEF Same, HasFields
    <2>5. QED  BY <2>1, <2>4, SameTrans
  <1>3. QED  BY <1>1, <1>2

\* So does onWrite.
LEMMA OnWriteSame == ASSUME NEW c, HasFields(c), NEW w, NEW n PROVE Same(c, onWrite(c, w, n))
  <1> DEFINE refused == c.closing /\ (c.LocalFin \/ Fin \notin c.arrived)
             d == IF refused THEN AnswerAll(c, <<w>>) ELSE [c EXCEPT !.pendingWrites = Append(@, w)]
             e == processWrites(d, n)
  <1>1. Same(c, d)
    <2>1. CASE refused  BY <2>1, AnswerSame
    <2>2. CASE ~refused  BY <2>2 DEF Same, HasFields
    <2>3. QED  BY <2>1, <2>2
  <1>2. onWrite(c, w, n) = [e EXCEPT !.writable = Token(@)]  BY Zenon DEF onWrite
  <1> HIDE DEF d
  <1>3. HasFields(d)  BY <1>1, SameTrans
  <1>4. Same(d, e)  BY <1>3, ProcessWritesSame
  <1> HIDE DEF e
  <1>5. HasFields(e)  BY <1>3, <1>4, SameTrans
  <1>6. Same(e, onWrite(c, w, n))  BY <1>2, <1>5, Zenon DEF Same, HasFields
  <1>7. QED  BY <1>1, <1>3, <1>4, <1>6, SameTrans

\* After an event the loop has returned, or the two fields are as the handler left them.
LEMMA AfterSelectSame ==
  ASSUME NEW c, HasFields(c), NEW shut, afterSelect(c, shut)
  PROVE  loop' = "returned" \/ (Same(c, conn') /\ c.state # "Closed")
  <1> DEFINE d == IF shut /\ c.state # "Closed" THEN shutdownConn(c) ELSE c
  <1>1. Same(c, d)  BY ShutdownSame DEF Same
  <1>2. loop' = "returned" \/ (conn' = d /\ d.state # "Closed")  BY Zenon DEF afterSelect, Leave
  <1>3. QED  BY <1>1, <1>2 DEF Same

\* A step that touches neither reads nor what was read keeps the invariant if the loop
\* returns by it or the two fields stay.
LEMMA KeepsReadInv ==
  ASSUME ReadInv, UNCHANGED <<got, reads>>, reader' = reader \/ reader' # "eof",
         loop' = "returned" \/ (loop # "returned" /\ Same(conn, conn'))
                            \/ UNCHANGED <<loop, conn>>
  PROVE  ReadInv'
  BY DEF ReadInv, Same, HasFields, Count, Nth, Fin

\* The steps of the loop that hand nothing over keep the invariant.
LEMMA EventsKeep ==
  ASSUME ReadInv, Packet \/ ResetPacket \/ SocketShutdown \/ TakeWrite \/ Readable \/ Writable
                  \/ IdleTimeout \/ CtxDone
  PROVE  ReadInv'
  <1>1. UNCHANGED <<got, reads, reader>> /\ loop = "select"
    BY Zenon DEF Packet, ResetPacket, SocketShutdown, TakeWrite, Readable, Writable, IdleTimeout, CtxDone,
           Event, app
  <1>2. HasFields(conn) /\ conn.state = "Connected"  BY <1>1 DEF ReadInv
  <1>3. ASSUME NEW c, Same(conn, c), NEW shut, afterSelect(c, shut) PROVE ReadInv'
    <2>1. HasFields(c)  BY <1>2, <1>3, SameTrans
    <2>2. loop' = "returned" \/ Same(conn, conn')  BY <1>2, <1>3, <2>1, AfterSelectSame, SameTrans
    <2>3. QED  BY <1>1, <2>2, KeepsReadInv
  <1>4. Same(conn, conn)  BY DEF Same
  <1>5. ASSUME NEW shut, afterSelect(Closed(conn), shut) PROVE ReadInv'
    <2>1. HasFields(Closed(conn)) /\ Closed(conn).state = "Closed"
      BY <1>2, Zenon DEF Closed, HasFields
    <2>2. loop' = "returned"  BY <1>5, <2>1, AfterSelectSame
    <2>3. QED  BY <1>1, <2>2, KeepsReadInv
  <1>6. CASE Packet
    <2>1. PICK p \in 0..Fin, left \in 0..conn.unacked :
            LET c == onPacket(conn, p, left)
                finAcked == c.LocalFin /\ left = 0
                theirs == ~finAcked /\ left = 0 /\ 1..Fin \subseteq c.arrived
            IN  IF theirs THEN conn' = c /\ loop' = "readingToClose"
                ELSE afterSelect(IF finAcked \/ (c.LocalFin /\ Fin \in c.arrived) THEN Closed(c) ELSE c,
                                 shutdown)
      BY <1>6, Zenon DEF Packet
    <2> DEFINE c == onPacket(conn, p, left)
    <2>2. Same(conn, c) /\ HasFields(c)  BY <1>2, PacketSame, SameTrans
    <2> HIDE DEF c
    <2>3. conn' = c \/ afterSelect(c, shutdown) \/ afterSelect(Closed(c), shutdown)
      BY <2>1, Zenon DEF c
    <2>4. HasFields(Closed(c)) /\ Closed(c).state = "Closed"
      BY <2>2, Zenon DEF Closed, HasFields
    <2>5. loop' = "returned" \/ Same(conn, conn')
      BY <1>2, <2>2, <2>3, <2>4, AfterSelectSame, SameTrans
    <2>6. QED  BY <1>1, <2>5, KeepsReadInv
  <1>7. CASE ResetPacket \/ IdleTimeout  BY <1>5, <1>7 DEF ResetPacket, IdleTimeout
  <1>8. CASE SocketShutdown  BY <1>3, <1>4, <1>8, Zenon DEF SocketShutdown
  <1>9. CASE TakeWrite
    <2>1. PICK n : afterSelect(onWrite(conn, Head(writes), n), shutdown)  BY <1>9 DEF TakeWrite
    <2>2. QED  BY <1>2, <1>3, <2>1, OnWriteSame
  <1>10. CASE Readable
    <2>1. conn' = [conn EXCEPT !.readable = @ - 1]  BY <1>10 DEF Readable
    <2>2. Same(conn, conn')  BY <1>2, <2>1, Zenon DEF Same, HasFields
    <2>3. QED  BY <1>1, <2>2, KeepsReadInv
  <1>11. CASE Writable
    <2> DEFINE c == [conn EXCEPT !.writable = @ - 1]
    <2>1. PICK n : afterSelect(processWrites(c, n), shutdown)  BY <1>11 DEF Writable
    <2>2. Same(conn, c)  BY <1>2, Zenon DEF Same, HasFields
    <2> HIDE DEF c
    <2>3. Same(conn, processWrites(c, n))  BY <1>2, <2>2, SameTrans, ProcessWritesSame
    <2>4. QED  BY <1>3, <2>1, <2>3
  <1>12. CASE CtxDone  BY <1>1, <1>12, KeepsReadInv DEF CtxDone, Leave
  <1>13. QED  BY <1>6, <1>7, <1>8, <1>9, <1>10, <1>11, <1>12

\* What the application takes from reads is what comes next.
LEMMA ReadKeeps == ASSUME ReadInv, ReadToEOF PROVE ReadInv'
  <1>1. UNCHANGED <<conn, loop>>  BY DEF ReadToEOF
  <1>2. CASE StartRead \/ EndRead  BY <1>1, <1>2, KeepsReadInv DEF StartRead, EndRead
  <1>3. CASE TakeRead
    <2>1. /\ reads \in Seq(Nat) /\ reads # <<>> /\ got \in Seq(Nat) /\ Len(got) <= Chunks
          /\ reads' = Tail(reads) /\ Head(reads) = Nth(Len(got) + 1)
      BY <1>3 DEF TakeRead, ReadInv
    <2>2. /\ reads' \in Seq(Nat) /\ Len(reads') = Len(reads) - 1
          /\ \A i \in 1..Len(reads') : reads'[i] = Nth(Len(got) + i + 1)
      <3>1. reads' \in Seq(Nat) /\ Len(reads') = Len(reads) - 1
            /\ \A i \in 1..Len(reads') : i + 1 \in 1..Len(reads) /\ reads'[i] = reads[i + 1]
        BY <2>1
      <3>2. \A i \in 1..Len(reads') : reads[i + 1] = Nth(Len(got) + (i + 1))  BY <3>1 DEF ReadInv
      <3>3. \A i \in 1..Len(reads') : Len(got) + (i + 1) = Len(got) + i + 1  BY <2>1, <3>1
      <3>4. QED  BY <3>1, <3>2, <3>3
    <2>3. CASE Head(reads) = Fin
      <3>1. Len(got) = Chunks  BY <2>1, <2>3, ChunksAssumption DEF Nth, Fin
      <3>2. got' = got /\ reader' = "eof"  BY <1>3, <2>3 DEF TakeRead
      <3>3. \A i \in 1..Len(reads') : reads'[i] = Nth(Len(got') + i)
        BY <2>1, <2>2, <3>1, <3>2, ChunksAssumption DEF Nth
      <3>4. loop' # "returned" => conn'.handed = IF Count' <= Chunks THEN Count' ELSE Chunks
        BY <1>1, <2>1, <2>2, <3>1, <3>2, ChunksAssumption DEF ReadInv, Count
      <3>5. QED  BY <1>1, <2>1, <2>2, <3>1, <3>2, <3>3, <3>4 DEF ReadInv
    <2>4. CASE Head(reads) # Fin
      <3>1. Len(got) + 1 <= Chunks /\ Head(reads) = Len(got) + 1  BY <2>1, <2>4 DEF Nth
      <3>2. got' = Append(got, Len(got) + 1) /\ reader' = reader /\ reader # "eof"
        BY <1>3, <2>4, <3>1 DEF TakeRead
      <3>3. /\ got' \in Seq(Nat) /\ Len(got') = Len(got) + 1
            /\ \A i \in 1..Len(got') : got'[i] = i
        BY <2>1, <3>2 DEF ReadInv
      <3>4. \A i \in 1..Len(reads') : reads'[i] = Nth(Len(got') + i)
        <4>1. \A i \in 1..Len(reads') : Len(got') + i = Len(got) + i + 1  BY <2>1, <2>2, <3>3
        <4>2. QED  BY <2>2, <4>1
      <3>5. Count' = Count  BY <2>1, <2>2, <3>3 DEF Count
      <3>6. QED  BY <1>1, <2>2, <3>1, <3>2, <3>3, <3>4, <3>5 DEF ReadInv
    <2>5. QED  BY <2>3, <2>4
  <1>4. QED  BY <1>2, <1>3 DEF ReadToEOF

\* What processReads puts into reads is what comes next.
LEMMA HandsKeep == ASSUME ReadInv, HandOver \/ ReadsDone PROVE ReadInv'
  <1>1. UNCHANGED <<got, reader>> /\ loop # "returned"  BY DEF HandOver, ReadsDone, app
  <1>2. /\ reads \in Seq(Nat) /\ Len(got) \in Nat /\ Len(reads) \in Nat
        /\ HasFields(conn) /\ conn.state = "Connected"
        /\ conn.handed = IF Count <= Chunks THEN Count ELSE Chunks
    BY <1>1 DEF ReadInv
  <1>3. ASSUME NEW x \in Nat, x = Nth(Count + 1), reads' = Append(reads, x)
        PROVE  /\ reads' \in Seq(Nat) /\ Len(reads') = Len(reads) + 1 /\ Count' = Count + 1
               /\ \A i \in 1..Len(reads') : reads'[i] = Nth(Len(got') + i)
    <2>1. /\ reads' \in Seq(Nat) /\ Len(reads') = Len(reads) + 1
          /\ \A i \in 1..Len(reads) : reads'[i] = reads[i]
          /\ reads'[Len(reads) + 1] = x
      BY <1>2, <1>3
    <2>2. Count' = Count + 1 /\ Len(got) + (Len(reads) + 1) = Count + 1
      BY <1>1, <1>2, <2>1 DEF Count
    <2>3. \A i \in 1..Len(reads') : i \in 1..Len(reads) \/ i = Len(reads) + 1  BY <1>2, <2>1
    <2>4. QED  BY <1>1, <1>3, <2>1, <2>2, <2>3, Zenon DEF ReadInv
  <1>4. CASE HandOver
    <2>1. conn.handed < Chunks /\ reads' = Append(reads, conn.handed + 1)
      BY <1>4 DEF HandOver, HasNext
    <2>2. conn.handed = Count /\ Count \in Nat /\ conn.handed + 1 = Nth(Count + 1)
      BY <1>2, <2>1, ChunksAssumption DEF Count, Nth
    <2>3. Count' = Count + 1 /\ reads' \in Seq(Nat)
          /\ \A i \in 1..Len(reads') : reads'[i] = Nth(Len(got') + i)
      BY <1>3, <2>1, <2>2
    <2>4. HasFields(conn') /\ conn'.state = "Connected" /\ conn'.handed = conn.handed + 1
      <3>1. conn' = [conn EXCEPT !.handed = @ + 1]  BY <1>4 DEF HandOver
      <3>2. QED  BY <1>2, <3>1 DEF HasFields
    <2>5. conn'.handed = IF Count' <= Chunks THEN Count' ELSE Chunks
      BY <2>1, <2>2, <2>3, <2>4, ChunksAssumption
    <2>6. QED  BY <1>1, <2>3, <2>4, <2>5 DEF ReadInv
  <1>5. CASE ReadsDone
    <2>1. afterSelect(IF loop = "readingToClose" THEN Closed(conn) ELSE conn, shutdown)
      BY <1>5 DEF ReadsDone
    <2>2. HasFields(Closed(conn)) /\ Closed(conn).state = "Closed"
      BY <1>2, Zenon DEF Closed, HasFields
    <2>3. loop' = "returned" \/ Same(conn, conn')  BY <1>2, <2>1, <2>2, AfterSelectSame
    <2>4. CASE eof(conn)
      <3>1. 1..Fin \subseteq conn.arrived /\ ~HasNext(conn) /\ reads' = Append(reads, Fin)
        BY <1>2, <1>5, <2>4 DEF ReadsDone, eof
      <3>2. Chunks <= Count /\ conn.handed = Chunks
        <4>1. Count \in Nat /\ conn.handed \in Nat /\ conn.handed <= Chunks
          BY <1>2, ChunksAssumption DEF Count
        <4>2. conn.handed < Chunks => conn.handed + 1 \in 1..Fin  BY <4>1, ChunksAssumption DEF Fin
        <4>3. ~(conn.handed < Chunks)  BY <3>1, <4>2 DEF HasNext
        <4>4. conn.handed = Chunks  BY <4>1, <4>3, ChunksAssumption
        <4>5. QED  BY <1>2, <4>1, <4>4, ChunksAssumption
      <3>3. Fin \in Nat /\ Fin = Nth(Count + 1)  BY <1>2, <3>2, ChunksAssumption DEF Nth, Fin, Count
      <3>4. Count' = Count + 1 /\ reads' \in Seq(Nat)
            /\ \A i \in 1..Len(reads') : reads'[i] = Nth(Len(got') + i)
        BY <1>3, <3>1, <3>3
      <3>5. loop' # "returned" =>
              /\ HasFields(conn') /\ conn'.state = "Connected"
              /\ conn'.handed = IF Count' <= Chunks THEN Count' ELSE Chunks
        <4>1. Count' > Chunks /\ ~(Count' <= Chunks)
          BY <1>2, <3>2, <3>4, ChunksAssumption DEF Count
        <4>2. QED  BY <1>2, <2>3, <3>2, <4>1 DEF Same, HasFields
      <3>6. QED  BY <1>1, <3>4, <3>5 DEF ReadInv
    <2>5. CASE ~eof(conn)
      <3>1. UNCHANGED reads  BY <1>5, <2>5 DEF ReadsDone
      <3>2. QED  BY <1>1, <2>3, <3>1, KeepsReadInv
    <2>6. QED  BY <2>4, <2>5
  <1>6. QED  BY <1>4, <1>5

\* Every step keeps the invariant.
LEMMA NextReadInv == ReadInv /\ [Next]_vars => ReadInv'
  <1> SUFFICES ASSUME ReadInv, [Next]_vars PROVE ReadInv'  OBVIOUS
  <1>1. CASE ReadToEOF  BY <1>1, ReadKeeps
  <1>2. CASE Packet \/ ResetPacket \/ SocketShutdown \/ TakeWrite \/ Readable \/ Writable
             \/ IdleTimeout \/ CtxDone
    BY <1>2, EventsKeep
  <1>3. CASE HandOver \/ ReadsDone  BY <1>3, HandsKeep
  <1>4. CASE (\E w \in Writers : Write(w)) \/ StartClose \/ EndClose \/ Cancel \/ UNCHANGED vars
    <2>1. UNCHANGED <<got, reads, reader, loop, conn>>
      BY <1>4 DEF Write, StartClose, EndClose, Cancel, vars, app
    <2>2. QED  BY <2>1, KeepsReadInv
  <1>5. QED  BY <1>1, <1>2, <1>3, <1>4 DEF Next

\* ReadToEOF reports the end of the stream only when everything the peer sent before
\* its FIN has been read, in order and once.
THEOREM EofMeansAll == Spec => []EofIsComplete
  <1>1. ReadInv => EofIsComplete
    <2> SUFFICES ASSUME ReadInv, reader = "eof" PROVE got = [i \in 1..Chunks |-> i]
      BY DEF EofIsComplete
    <2>1. got \in Seq(Nat) /\ Len(got) = Chunks /\ \A i \in 1..Chunks : got[i] = i  BY DEF ReadInv
    <2>2. QED  BY <2>1
  <1>2. QED  BY InitReadInv, NextReadInv, <1>1, PTL DEF Spec
-----------------------------------------------------------------------------
(* Every Write is answered once. *)

\* The writes that the loop has not taken: those not offered yet, and those in writes.
NotOffered == {w \in Writers : writer[w] \in {"idle", "offering"}}
NotTaken == NotOffered \cup Range(writes)

ConnFields == {"state", "closing", "LocalFin", "arrived", "handed", "sendBuf", "unacked",
               "pendingWrites", "readable", "writable", "results"}

\* A write of pendingWrites is there once and has no answer yet, and neither has one
\* of N.  processWrites never moves more writes than the send buffer has room for.
Once(c, N) ==
  /\ DOMAIN c = ConnFields /\ N \subseteq Writers
  /\ c.results \in [Writers -> {0, 1}]
  /\ c.pendingWrites \in Seq(Writers)
  /\ \A i, j \in DOMAIN c.pendingWrites : c.pendingWrites[i] = c.pendingWrites[j] => i = j
  /\ \A i \in DOMAIN c.pendingWrites :
       c.pendingWrites[i] \notin N /\ c.results[c.pendingWrites[i]] = 0
  /\ \A w \in N : c.results[w] = 0
  /\ c.sendBuf \in 0..SendBufCap

WriteInv ==
  /\ writer \in [Writers -> {"idle", "offering", "waiting", "returned"}]
  /\ writes \in Seq(Writers)
  /\ \A i, j \in DOMAIN writes : writes[i] = writes[j] => i = j
  /\ NotOffered \cap Range(writes) = {}
  /\ Once(conn, NotTaken)

\* What the argument needs of a connection.
SameWrites(c, d) ==
  /\ DOMAIN d = DOMAIN c
  /\ d.results = c.results /\ d.pendingWrites = c.pendingWrites /\ d.sendBuf = c.sendBuf

\* A handler that leaves the writes alone.
LEMMA SameOnce == ASSUME NEW c, NEW d, NEW N, Once(c, N), SameWrites(c, d) PROVE Once(d, N)
  BY Zenon DEF Once, SameWrites

\* A write fewer that may not have been answered.
LEMMA FewerOnce == ASSUME NEW c, NEW N, NEW M, Once(c, N), M \subseteq N PROVE Once(c, M)
  BY Zenon DEF Once

\* AnswerAll adds one to the answers of every write it is given.
LEMMA AnswerEffect ==
  ASSUME NEW c, DOMAIN c = ConnFields, NEW ws
  PROVE  LET d == AnswerAll(c, ws)
         IN  /\ DOMAIN d = ConnFields /\ d.pendingWrites = c.pendingWrites
             /\ d.sendBuf = c.sendBuf
             /\ d.results = [w \in Writers |-> c.results[w] + IF w \in Range(ws) THEN 1 ELSE 0]
  BY DEF AnswerAll, ConnFields

\* onPacket, shutdown and the token channels leave the writes alone.
LEMMA HandlersSameWrites ==
  ASSUME NEW c, DOMAIN c = ConnFields
  PROVE  /\ \A p, left : SameWrites(c, onPacket(c, p, left))
         /\ SameWrites(c, shutdownConn(c)) /\ SameWrites(c, Closed(c))
         /\ \A n : SameWrites(c, [c EXCEPT !.readable = n])
         /\ \A n : SameWrites(c, [c EXCEPT !.writable = n])
         /\ \A n : SameWrites(c, [c EXCEPT !.handed = n])
  <1>1. \A p, left : SameWrites(c, onPacket(c, p, left))
    BY DEF SameWrites, ConnFields, onPacket
  <1>2. SameWrites(c, shutdownConn(c))  BY DEF SameWrites, ConnFields, shutdownConn
  <1>3. SameWrites(c, Closed(c))  BY DEF SameWrites, ConnFields, Closed
  <1>4. QED  BY <1>1, <1>2, <1>3 DEF SameWrites, ConnFields

Unanswered(c, N, ws) ==
  /\ Once(c, N) /\ ws \in Seq(Writers)
  /\ \A i \in DOMAIN ws : ws[i] \notin N /\ c.results[ws[i]] = 0

\* Writes that were not answered are answered once.
LEMMA AnswerOnce ==
  ASSUME NEW c, NEW N, NEW ws, Unanswered(c, N, ws)
  PROVE  LET d == AnswerAll(c, ws)
         IN  /\ d.results \in [Writers -> {0, 1}]
             /\ \A w \in N : d.results[w] = 0
             /\ \A w \in Writers : w \notin Range(ws) => d.results[w] = c.results[w]
  <1> USE DEF Unanswered
  <1> DEFINE d == AnswerAll(c, ws)
  <1>1. d.results = [w \in Writers |-> c.results[w] + IF w \in Range(ws) THEN 1 ELSE 0]
    BY AnswerEffect DEF Once
  <1> HIDE DEF d
  <1>2. \A w \in Range(ws) : w \notin N /\ c.results[w] = 0  BY DEF Range
  <1>3. c.results \in [Writers -> {0, 1}] /\ \A w \in N : c.results[w] = 0  BY DEF Once
  <1>4. \A w \in Writers : d.results[w] = IF w \in Range(ws) THEN 1 ELSE c.results[w]
    BY <1>1, <1>2, <1>3
  <1>5. N \subseteq Writers => \A w \in N : d.results[w] = 0  BY <1>2, <1>3, <1>4
  <1>6. d.results \in [Writers -> {0, 1}]  BY <1>1, <1>3, <1>4
  <1>7. N \subseteq Writers  BY DEF Once
  <1>8. QED  BY <1>4, <1>5, <1>6, <1>7, Zenon DEF d

\* processWrites of a connection that is open keeps the writes in their order and
\* answers the ones it moves.
LEMMA ProcessOnce ==
  ASSUME NEW c, NEW N, Once(c, N), c.state # "Closed", NEW n \in 0..c.sendBuf
  PROVE  Once(processWrites(c, n), N)
  <1> DEFINE q     == c.pendingWrites
             room  == SendBufCap - (c.sendBuf - n)
             moved == IF room < Len(q) THEN room ELSE Len(q)
             d     == AnswerAll(c, SubSeq(q, 1, moved))
             rest  == SubSeq(q, moved + 1, Len(q))
             e     == processWrites(c, n)
  <1>1. /\ DOMAIN d = ConnFields /\ d.pendingWrites = q /\ d.sendBuf = c.sendBuf
    BY AnswerEffect, Zenon DEF Once
  <1>2. e = [d EXCEPT !.sendBuf = @ - n + moved, !.unacked = @ + n,
                      !.pendingWrites = SubSeq(@, moved + 1, Len(@)),
                      !.writable = IF moved > 0 THEN Token(@) ELSE @]
    BY Zenon DEF processWrites
  <1>3. /\ q \in Seq(Writers) /\ c.sendBuf \in 0..SendBufCap /\ SendBufCap \in Nat
        /\ \A i, j \in DOMAIN q : q[i] = q[j] => i = j
        /\ \A i \in DOMAIN q : q[i] \notin N /\ c.results[q[i]] = 0
    BY CapsAssumption DEF Once
  <1>4. moved \in 0..Len(q) /\ c.sendBuf - n + moved \in 0..SendBufCap
    <2>1. c.sendBuf \in Nat /\ n \in Nat /\ n <= c.sendBuf /\ Len(q) \in Nat  BY <1>3
    <2> HIDE DEF q
    <2>2. room \in Nat  BY <1>3, <2>1
    <2>3. moved \in 0..Len(q) /\ moved <= room  BY <2>1, <2>2
    <2> HIDE DEF moved
    <2>4. QED  BY <1>3, <2>1, <2>3
  <1> DEFINE ws == SubSeq(q, 1, moved)
  <1> HIDE DEF moved
  <1>5. /\ ws \in Seq(Writers) /\ Len(ws) = moved
        /\ \A i \in 1..moved : ws[i] = q[i] /\ i \in DOMAIN q
    BY <1>3, <1>4
  <1>6. /\ rest \in Seq(Writers) /\ Len(rest) = Len(q) - moved
        /\ \A i \in DOMAIN rest : rest[i] = q[moved + i] /\ moved + i \in DOMAIN q
    BY <1>3, <1>4, SMTT(30)
  <1>7. DOMAIN ws = 1..moved /\ DOMAIN rest = 1..(Len(q) - moved)  BY <1>5, <1>6
  <1>8. /\ d.results \in [Writers -> {0, 1}]
        /\ \A w \in N : d.results[w] = 0
        /\ \A w \in Writers : w \notin Range(ws) => d.results[w] = c.results[w]
    <2>1. \A i \in DOMAIN ws : ws[i] \notin N /\ c.results[ws[i]] = 0  BY <1>3, <1>5, <1>7, Zenon
    <2>2. d = AnswerAll(c, ws)  OBVIOUS
    <2> HIDE DEF ws, d
    <2>3. Unanswered(c, N, ws)  BY <1>5, <2>1 DEF Unanswered
    <2>4. QED  BY <2>2, <2>3, AnswerOnce
  <1>9. e.pendingWrites = rest /\ e.sendBuf = c.sendBuf - n + moved /\ e.results = d.results
        /\ DOMAIN e = ConnFields
    <2> HIDE DEF d, e, rest, q
    <2>1. QED  BY <1>1, <1>2, Zenon DEF ConnFields, rest
  <1> HIDE DEF e, d, rest, ws, q
  <1>10. \A i, j \in DOMAIN rest : rest[i] = rest[j] => i = j
    <2> TAKE i, j \in DOMAIN rest
    <2>1. i \in Int /\ j \in Int /\ moved \in Int  BY <1>4, <1>7
    <2>2. rest[i] = rest[j] => moved + i = moved + j  BY <1>3, <1>6
    <2>3. QED  BY <2>1, <2>2
  <1>11. \A i \in DOMAIN rest : rest[i] \notin N /\ d.results[rest[i]] = 0
    <2> TAKE i \in DOMAIN rest
    <2>1. i > 0 /\ i \in Int /\ moved \in Int  BY <1>3, <1>4, <1>7
    <2>2. \A k \in DOMAIN ws : k \in DOMAIN q /\ ws[k] = q[k] /\ k # moved + i  BY <1>5, <1>7, <2>1
    <2>3. rest[i] \notin Range(ws)  BY <1>3, <1>6, <2>2, SMTT(30) DEF Range
    <2>4. rest[i] \in Writers  BY <1>6, <1>7, <2>1
    <2>5. QED  BY <1>3, <1>6, <1>8, <2>3, <2>4
  <1>12. N \subseteq Writers  BY DEF Once
  <1>13. QED  BY <1>4, <1>6, <1>8, <1>9, <1>10, <1>11, <1>12 DEF Once, e

\* onWrite answers the write, or queues it, and never both.
LEMMA OnWriteOnce ==
  ASSUME NEW c, NEW N, NEW w \in N, Once(c, N), c.state # "Closed", NEW n \in 0..c.sendBuf
  PROVE  Once(onWrite(c, w, n), N \ {w})
  <1> DEFINE refused == c.closing /\ (c.LocalFin \/ Fin \notin c.arrived)
             d == IF refused THEN AnswerAll(c, <<w>>) ELSE [c EXCEPT !.pendingWrites = Append(@, w)]
             e == processWrites(d, n)
             M == N \ {w}
             q == c.pendingWrites
  <1>1. Once(c, M)  BY FewerOnce
  <1>2. w \in Writers /\ c.results[w] = 0 /\ DOMAIN c = ConnFields  BY DEF Once
  <1>3. Once(d, M)
    <2>1. CASE refused
      <3>1. d = AnswerAll(c, <<w>>)  BY <2>1
      <3> HIDE DEF d
      <3>2. /\ DOMAIN d = ConnFields /\ d.pendingWrites = q /\ d.sendBuf = c.sendBuf
        BY <1>2, <3>1, AnswerEffect, Zenon
      <3>3. <<w>> \in Seq(Writers) /\ \A i \in DOMAIN <<w>> : <<w>>[i] \notin M /\ c.results[<<w>>[i]] = 0
        BY <1>2
      <3>4. Range(<<w>>) = {w}  BY DEF Range
      <3>5. /\ d.results \in [Writers -> {0, 1}]
            /\ \A v \in M : d.results[v] = 0
            /\ \A v \in Writers : v # w => d.results[v] = c.results[v]
        <4> DEFINE ws == <<w>>
        <4> HIDE DEF ws
        <4>1. /\ d = AnswerAll(c, ws) /\ ws \in Seq(Writers) /\ Range(ws) = {w}
              /\ \A i \in DOMAIN ws : ws[i] \notin M /\ c.results[ws[i]] = 0
          BY <3>1, <3>3, <3>4 DEF ws
        <4> HIDE DEF M
        <4>2. Unanswered(c, M, ws)  BY <1>1, <4>1 DEF Unanswered
        <4>3. QED  BY <4>1, <4>2, AnswerOnce
      <3>6. \A i \in DOMAIN q : q[i] \in Writers /\ q[i] # w  BY DEF Once
      <3>7. QED  BY <1>1, <3>2, <3>5, <3>6 DEF Once
    <2>2. CASE ~refused
      <3>1. d = [c EXCEPT !.pendingWrites = Append(@, w)]  BY <2>2
      <3> HIDE DEF d
      <3>2. /\ DOMAIN d = ConnFields /\ d.pendingWrites = Append(q, w)
            /\ d.sendBuf = c.sendBuf /\ d.results = c.results
        BY <1>2, <3>1 DEF ConnFields
      <3>3. /\ q \in Seq(Writers) /\ \A i \in DOMAIN q : q[i] # w  BY DEF Once
      <3> DEFINE p == Append(q, w)
      <3>4. /\ p \in Seq(Writers) /\ DOMAIN p = 1..(Len(q) + 1) /\ p[Len(q) + 1] = w
            /\ DOMAIN q = 1..Len(q) /\ Len(q) \in Nat
            /\ \A i \in 1..Len(q) : p[i] = q[i]
        BY <1>2, <3>3
      <3> HIDE DEF p
      <3>5. \A i \in DOMAIN p : (i \in DOMAIN q /\ p[i] = q[i]) \/ (i = Len(q) + 1 /\ p[i] = w)
        BY <3>4
      <3>6. \A i, j \in DOMAIN p : p[i] = p[j] => i = j  BY <1>1, <3>3, <3>5, Zenon DEF Once
      <3>7. \A i \in DOMAIN p : p[i] \notin M /\ c.results[p[i]] = 0
        BY <1>1, <1>2, <3>5, Zenon DEF Once
      <3>8. QED  BY <1>1, <3>2, <3>4, <3>6, <3>7, Zenon DEF Once, p
    <2>3. QED  BY <2>1, <2>2
  <1>4. d.state = c.state /\ d.sendBuf = c.sendBuf
    <2>1. CASE refused
      <3>1. d = AnswerAll(c, <<w>>)  BY <2>1
      <3> HIDE DEF d
      <3>2. QED  BY <1>2, <3>1 DEF AnswerAll, ConnFields
    <2>2. CASE ~refused  BY <1>2, <2>2 DEF ConnFields
    <2>3. QED  BY <2>1, <2>2
  <1>5. onWrite(c, w, n) = [e EXCEPT !.writable = Token(@)]  BY Zenon DEF onWrite
  <1> HIDE DEF d
  <1>6. Once(e, M)  BY <1>3, <1>4, ProcessOnce
  <1> HIDE DEF e
  <1>7. SameWrites(e, onWrite(c, w, n))
    <2>1. DOMAIN e = ConnFields  BY <1>6 DEF Once
    <2>2. QED  BY <1>5, <2>1, HandlersSameWrites
  <1>8. QED  BY <1>6, <1>7, SameOnce

\* When the loop returns, it keeps the answers and nothing is pending.
LEMMA LeaveOnce ==
  ASSUME NEW c, NEW N \in SUBSET Writers, c.results \in [Writers -> {0, 1}],
         \A w \in N : c.results[w] = 0, Leave(c)
  PROVE  Once(conn', N)
  <1>1. conn' = [newConnection EXCEPT !.state = "Closed", !.results = c.results]  BY DEF Leave
  <1>2. /\ DOMAIN conn' = ConnFields /\ conn'.results = c.results
        /\ conn'.pendingWrites = <<>> /\ conn'.sendBuf = 0
    BY <1>1 DEF newConnection, ConnFields
  <1>3. QED  BY <1>2, CapsAssumption DEF Once

\* What follows an event answers, when the connection is closed, all that is pending.
LEMMA AfterSelectOnce ==
  ASSUME NEW c, NEW N, Once(c, N), NEW shut, afterSelect(c, shut)
  PROVE  Once(conn', N)
  <1> DEFINE d == IF shut /\ c.state # "Closed" THEN shutdownConn(c) ELSE c
  <1>1. Once(d, N)
    <2>1. SameWrites(c, shutdownConn(c))  BY HandlersSameWrites DEF Once
    <2>2. QED  BY <2>1, SameOnce
  <1>2. IF d.state = "Closed" THEN Leave(processWrites(d, 0)) ELSE conn' = d
    BY Zenon DEF afterSelect
  <1> HIDE DEF d
  <1>3. CASE d.state = "Closed"
    <2> DEFINE ws == d.pendingWrites
               e  == AnswerAll(d, ws)
    <2>1. Unanswered(d, N, ws) /\ N \subseteq Writers  BY <1>1 DEF Once, Unanswered
    <2>2. e.results \in [Writers -> {0, 1}] /\ \A w \in N : e.results[w] = 0
      BY <2>1, AnswerOnce
    <2>3. Leave(e)  BY <1>2, <1>3 DEF processWrites
    <2>4. QED  BY <2>1, <2>2, <2>3, LeaveOnce
  <1>4. CASE d.state # "Closed"  BY <1>1, <1>2, <1>4
  <1>5. QED  BY <1>3, <1>4

\* A step of the loop that takes no write keeps the invariant.
LEMMA KeepsWriteInv ==
  ASSUME WriteInv, UNCHANGED <<writer, writes>>, Once(conn', NotTaken)
  PROVE  WriteInv'
  BY DEF WriteInv, NotOffered, NotTaken

\* The steps of the loop other than TakeWrite keep the invariant.
LEMMA EventsKeepWrites ==
  ASSUME ReadInv, WriteInv,
         Packet \/ ResetPacket \/ SocketShutdown \/ Readable \/ Writable \/ IdleTimeout
           \/ CtxDone \/ HandOver \/ ReadsDone
  PROVE  WriteInv'
  <1> DEFINE N == NotTaken
  <1>1. UNCHANGED <<writer, writes>> /\ loop # "returned"
    BY Zenon DEF Packet, ResetPacket, SocketShutdown, Readable, Writable, IdleTimeout, CtxDone,
           HandOver, ReadsDone, Event, app
  <1>2. conn.state = "Connected"  BY <1>1 DEF ReadInv
  <1>3. Once(conn, N) /\ DOMAIN conn = ConnFields  BY DEF WriteInv, Once
  <1> HIDE DEF N
  <1> SUFFICES Once(conn', N)  BY <1>1, KeepsWriteInv DEF N
  <1>4. \A c : SameWrites(conn, c) => Once(c, N)  BY <1>3, SameOnce
  <1>5. Once(Closed(conn), N)  BY <1>3, <1>4, HandlersSameWrites
  <1>6. CASE Packet
    <2>1. PICK p \in 0..Fin, left \in 0..conn.unacked :
            LET c == onPacket(conn, p, left)
                finAcked == c.LocalFin /\ left = 0
                theirs == ~finAcked /\ left = 0 /\ 1..Fin \subseteq c.arrived
            IN  IF theirs THEN conn' = c /\ loop' = "readingToClose"
                ELSE afterSelect(IF finAcked \/ (c.LocalFin /\ Fin \in c.arrived) THEN Closed(c) ELSE c,
                                 shutdown)
      BY <1>6, Zenon DEF Packet
    <2> DEFINE c == onPacket(conn, p, left)
    <2>2. Once(c, N)  BY <1>3, <1>4, HandlersSameWrites
    <2> HIDE DEF c
    <2>3. conn' = c \/ afterSelect(c, shutdown) \/ afterSelect(Closed(c), shutdown)
      BY <2>1, Zenon DEF c
    <2>4. Once(Closed(c), N)
      <3>1. SameWrites(c, Closed(c))  BY <2>2, HandlersSameWrites DEF Once
      <3>2. QED  BY <2>2, <3>1, SameOnce
    <2>5. QED  BY <2>2, <2>3, <2>4, AfterSelectOnce
  <1>7. CASE ResetPacket \/ IdleTimeout  BY <1>5, <1>7, AfterSelectOnce DEF ResetPacket, IdleTimeout
  <1>8. CASE SocketShutdown  BY <1>3, <1>8, AfterSelectOnce, Zenon DEF SocketShutdown
  <1>9. CASE Readable
    <2>1. conn' = [conn EXCEPT !.readable = conn.readable - 1]  BY <1>9 DEF Readable
    <2>2. QED  BY <1>3, <1>4, <2>1, HandlersSameWrites
  <1>10. CASE Writable
    <2> DEFINE c == [conn EXCEPT !.writable = conn.writable - 1]
    <2>1. PICK n \in 0..conn.sendBuf : afterSelect(processWrites(c, n), shutdown)
      BY <1>10, Zenon DEF Writable
    <2>2. Once(c, N)  BY <1>3, <1>4, HandlersSameWrites
    <2>3. c.state # "Closed" /\ c.sendBuf = conn.sendBuf  BY <1>2, <1>3 DEF ConnFields
    <2> HIDE DEF c
    <2>4. Once(processWrites(c, n), N)  BY <2>2, <2>3, ProcessOnce
    <2>5. QED  BY <2>1, <2>4, AfterSelectOnce
  <1>11. CASE CtxDone
    <2>1. Leave(conn)  BY <1>11 DEF CtxDone
    <2>2. QED  BY <1>3, <2>1, LeaveOnce, Zenon DEF Once
  <1>12. CASE HandOver
    <2>1. conn' = [conn EXCEPT !.handed = conn.handed + 1]  BY <1>12 DEF HandOver
    <2>2. QED  BY <1>3, <1>4, <2>1, HandlersSameWrites
  <1>13. CASE ReadsDone
    <2>1. afterSelect(conn, shutdown) \/ afterSelect(Closed(conn), shutdown)
      BY <1>13, Zenon DEF ReadsDone
    <2>2. QED  BY <1>3, <1>5, <2>1, AfterSelectOnce
  <1>14. QED  BY <1>6, <1>7, <1>8, <1>9, <1>10, <1>11, <1>12, <1>13

\* The loop takes the first of writes, which had no answer.
LEMMA TakeWriteKeeps == ASSUME ReadInv, WriteInv, TakeWrite PROVE WriteInv'
  <1> DEFINE w == Head(writes)
             N == NotTaken
  <1>1. /\ writes # <<>> /\ writes' = Tail(writes) /\ writer' = writer /\ loop = "select"
    BY DEF TakeWrite, Event, app
  <1>2. PICK n \in 0..conn.sendBuf : afterSelect(onWrite(conn, w, n), shutdown)
    BY Zenon DEF TakeWrite
  <1>3. conn.state # "Closed"  BY <1>1 DEF ReadInv
  <1>4. Once(conn, N) /\ writes \in Seq(Writers)
        /\ \A i, j \in DOMAIN writes : writes[i] = writes[j] => i = j
    BY DEF WriteInv
  <1>5. /\ 1 \in DOMAIN writes /\ w = writes[1] /\ writes' \in Seq(Writers)
        /\ \A i \in DOMAIN writes' : /\ i \in Int /\ i + 1 \in DOMAIN writes /\ i + 1 # 1
                                     /\ writes'[i] = writes[i + 1]
    BY <1>1, <1>4
  <1>6. w \in Range(writes) /\ Range(writes') \subseteq Range(writes) \ {w}
    BY <1>4, <1>5 DEF Range
  <1>7. w \in N /\ w \notin NotOffered  BY <1>6 DEF WriteInv, NotTaken
  <1>8. NotOffered' = NotOffered  BY <1>1 DEF NotOffered
  <1>9. NotTaken' \subseteq N \ {w}  BY <1>6, <1>7, <1>8 DEF NotTaken
  <1> HIDE DEF N, w
  <1>10. Once(onWrite(conn, w, n), N \ {w})  BY <1>3, <1>4, <1>7, OnWriteOnce
  <1>11. Once(conn', N \ {w})  BY <1>2, <1>10, AfterSelectOnce
  <1>12. Once(conn', NotTaken')  BY <1>9, <1>11, FewerOnce
  <1>13. \A i, j \in DOMAIN writes' : writes'[i] = writes'[j] => i = j
    <2> TAKE i, j \in DOMAIN writes'
    <2>1. writes'[i] = writes'[j] => i + 1 = j + 1  BY <1>4, <1>5
    <2>2. QED  BY <1>5, <2>1
  <1>14. NotOffered' \cap Range(writes') = {}  BY <1>6, <1>8 DEF WriteInv
  <1>15. QED  BY <1>1, <1>5, <1>12, <1>13, <1>14 DEF WriteInv

\* A call of Write offers its write at most once.
LEMMA CallsKeepWrites == ASSUME WriteInv, NEW w \in Writers, Write(w) PROVE WriteInv'
  <1>1. conn' = conn  BY DEF Write
  <1>2. /\ writer \in [Writers -> {"idle", "offering", "waiting", "returned"}]
        /\ writes \in Seq(Writers) /\ Once(conn, NotTaken)
        /\ \A i, j \in DOMAIN writes : writes[i] = writes[j] => i = j
        /\ NotOffered \cap Range(writes) = {}
    BY DEF WriteInv
  <1>3. CASE StartWrite(w) \/ Answered(w) \/ EndWrite(w)
    <2>1. /\ writes' = writes
          /\ writer' \in [Writers -> {"idle", "offering", "waiting", "returned"}]
          /\ NotOffered' \subseteq NotOffered
      BY <1>2, <1>3 DEF StartWrite, Answered, EndWrite, WriterTo, NotOffered
    <2>2. NotTaken' \subseteq NotTaken  BY <2>1 DEF NotTaken
    <2>3. Once(conn', NotTaken')  BY <1>1, <1>2, <2>2, FewerOnce
    <2>4. QED  BY <1>2, <2>1, <2>3 DEF WriteInv
  <1>4. CASE Offer(w)
    <2>1. /\ writes' = Append(writes, w) /\ w \in NotOffered
          /\ writer' \in [Writers -> {"idle", "offering", "waiting", "returned"}]
          /\ NotOffered' = NotOffered \ {w}
      BY <1>2, <1>4 DEF Offer, WriterTo, NotOffered
    <2>2. /\ writes' \in Seq(Writers)
          /\ \A i \in DOMAIN writes' : \/ i \in DOMAIN writes /\ writes'[i] = writes[i]
                                       \/ i = Len(writes) + 1 /\ writes'[i] = w
          /\ DOMAIN writes' = 1..(Len(writes) + 1) /\ Len(writes) \in Nat
          /\ DOMAIN writes = 1..Len(writes)
      BY <1>2, <2>1
    <2>3. \A i \in DOMAIN writes : writes[i] # w  BY <1>2, <2>1 DEF Range
    <2>4. \A i, j \in DOMAIN writes' : writes'[i] = writes'[j] => i = j
      BY <1>2, <2>2, <2>3, Zenon
    <2>5. Range(writes') \subseteq Range(writes) \cup {w}  BY <2>2, Zenon DEF Range
    <2>6. NotTaken' \subseteq NotTaken  BY <2>1, <2>5 DEF NotTaken
    <2>7. Once(conn', NotTaken')  BY <1>1, <1>2, <2>6, FewerOnce
    <2>8. NotOffered' \cap Range(writes') = {}  BY <1>2, <2>1, <2>5
    <2>9. QED  BY <2>1, <2>2, <2>4, <2>7, <2>8 DEF WriteInv
  <1>5. QED  BY <1>3, <1>4 DEF Write

\* The invariant holds at the start.
LEMMA InitWriteInv == Init => WriteInv
  <1> SUFFICES ASSUME Init PROVE WriteInv  OBVIOUS
  <1>1. /\ writes = <<>> /\ writer = [w \in Writers |-> "idle"]
        /\ conn = newConnection
    BY DEF Init
  <1>2. Range(writes) = {} /\ NotTaken \subseteq Writers
    BY <1>1 DEF Range, NotTaken, NotOffered
  <1>3. /\ DOMAIN conn = ConnFields /\ conn.results = [w \in Writers |-> 0]
        /\ conn.pendingWrites = <<>> /\ conn.sendBuf = 0
    BY <1>1 DEF newConnection, ConnFields
  <1>4. Once(conn, NotTaken)  BY <1>2, <1>3, CapsAssumption DEF Once
  <1>5. QED  BY <1>1, <1>2, <1>4 DEF WriteInv

\* Every step keeps it.
LEMMA NextWriteInv == ReadInv /\ WriteInv /\ [Next]_vars => WriteInv'
  <1> SUFFICES ASSUME ReadInv, WriteInv, [Next]_vars PROVE WriteInv'  OBVIOUS
  <1>1. CASE \E w \in Writers : Write(w)  BY <1>1, CallsKeepWrites
  <1>2. CASE TakeWrite  BY <1>2, TakeWriteKeeps
  <1>3. CASE Packet \/ ResetPacket \/ SocketShutdown \/ Readable \/ Writable \/ IdleTimeout
             \/ CtxDone \/ HandOver \/ ReadsDone
    BY <1>3, EventsKeepWrites
  <1>4. CASE ReadToEOF \/ StartClose \/ EndClose \/ Cancel \/ UNCHANGED vars
    <2>1. UNCHANGED <<writer, writes, conn>>
      BY <1>4, Zenon DEF ReadToEOF, StartClose, EndClose, Cancel, vars, app
    <2>2. Once(conn', NotTaken)  BY <2>1 DEF WriteInv
    <2>3. QED  BY <2>1, <2>2, KeepsWriteInv
  <1>5. QED  BY <1>1, <1>2, <1>3, <1>4 DEF Next

\* No Write is answered twice, whichever of onWrite, processWrites and the loop's last
\* processWrites gets to it: the send on its resultCh, which has room for one result,
\* never stops the event loop.
THEOREM WritesAnsweredOnce == Spec => []AnsweredOnce
  <1>1. WriteInv => AnsweredOnce
    <2>1. WriteInv => conn.results \in [Writers -> {0, 1}]  BY DEF WriteInv, Once
    <2>2. QED  BY <2>1 DEF AnsweredOnce
  <1>2. QED
    BY InitReadInv, NextReadInv, InitWriteInv, NextWriteInv, <1>1, PTL DEF Spec
=============================================================================
