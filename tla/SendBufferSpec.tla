--------------------------- MODULE SendBufferSpec ---------------------------
(***************************************************************************)
(* The send buffer as processWrites uses it, and the queue it implements.  *)
(***************************************************************************)
EXTENDS SendBuffer, Functions

CONSTANTS Chunks,      \* what the application may write
          ReadSizes,   \* len(buf) in Read(buf)
          MaxTaken     \* bound on the history

ASSUME BufferSizeAssumption == BufferSize \in Nat
ASSUME ReadSizesAssumption == ReadSizes \subseteq Nat
ASSUME ChunksAssumption == \A data \in Chunks : data \in Seq(Range(data))

VARIABLES sb,     \* the sendBuffer
          taken   \* history: the bytes read

vars == <<sb, taken>>

Init == sb = newSendBuffer /\ taken = << >>

\* processWrites writes only into free space, data that it cuts to fit or not.
WriteChunk(data) ==
  /\ Available(sb) > 0
  /\ Len(sb.pending) < BufferSize      \* bound: empty chunks take no space
  /\ sb' = Write(sb, data)
  /\ UNCHANGED taken

ReadChunk(n) ==
  /\ Len(taken) + ReadLen(sb, n) <= MaxTaken
  /\ sb' = Read(sb, n)
  /\ taken' = taken \o ReadBytes(sb, n)

Next == (\E data \in Chunks : WriteChunk(data)) \/ (\E n \in ReadSizes : ReadChunk(n))

Spec == Init /\ [][Next]_vars

-----------------------------------------------------------------------------

\* The bytes in the buffer, in order.
Queued == LET all == Joined(sb.pending) IN SubSeq(all, sb.offset + 1, Len(all))

\* The buffer is a bounded FIFO queue of bytes: chunk boundaries, partial reads
\* and truncated writes lose, repeat and reorder nothing.
Q == INSTANCE ByteQueue WITH Capacity <- BufferSize, Inputs <- Chunks,
                             queue <- Queued, taken <- taken
ImplementsByteQueue == Q!Spec
=============================================================================
