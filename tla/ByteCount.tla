------------------------------ MODULE ByteCount ------------------------------
(***************************************************************************)
(* The sum of the lengths of a finite family, as the number of bytes of    *)
(* the family: what the loops "for each packet: total += len(data)" of     *)
(* recv_buffer.go and the running windowSizeBytes of congestion.go add up. *)
(* And the bytes of a sequence of chunks, as copying them one after the    *)
(* other into one slice gives them.                                        *)
(***************************************************************************)
EXTENDS Integers, Sequences, FiniteSets

\* One cell per byte: <<member, position>>.
Cells(len) == UNION {{s} \X (1..len[s]) : s \in DOMAIN len}

Bytes(len) == Cardinality(Cells(len))

Joined(chunks) ==
  LET upTo[i \in 1..Len(chunks)] == IF i = 1 THEN chunks[i] ELSE upTo[i - 1] \o chunks[i]
  IN  IF chunks = << >> THEN << >> ELSE upTo[Len(chunks)]
=============================================================================
