----------------------------- MODULE SendBuffer -----------------------------
(***************************************************************************)
(* send_buffer.go: the bytes written by the application and not yet put    *)
(* into packets, as the chunks they were written in.  offset bytes of the  *)
(* first chunk have been read.                                             *)
(***************************************************************************)
EXTENDS ByteCount, Sequences

CONSTANT BufferSize   \* sb.size

newSendBuffer == [pending |-> << >>, offset |-> 0]

\* Mutant: the bytes read of the first chunk still take space.
AvailableForgetsOffset(sb) == BufferSize - Len(Joined(sb.pending))
Available(sb) == BufferSize + sb.offset - Len(Joined(sb.pending))

IsEmpty(sb) == sb.pending = << >>

\* Write(data) returns the number of bytes that fit; a chunk is appended even
\* when that is 0.
WriteLen(sb, data) == IF Len(data) <= Available(sb) THEN Len(data) ELSE Available(sb)
Write(sb, data) ==
  [sb EXCEPT !.pending = Append(@, SubSeq(data, 1, WriteLen(sb, data)))]

\* Read(buf) with len(buf) = n never reads past the first chunk.
ReadLen(sb, n) ==
  IF IsEmpty(sb) THEN 0
  ELSE LET left == Len(Head(sb.pending)) - sb.offset IN IF left < n THEN left ELSE n
ReadBytes(sb, n) ==
  IF IsEmpty(sb) THEN << >>
  ELSE SubSeq(Head(sb.pending), sb.offset + 1, sb.offset + ReadLen(sb, n))
Read(sb, n) ==
  IF n = 0 \/ IsEmpty(sb) THEN sb
  ELSE IF sb.offset + ReadLen(sb, n) = Len(Head(sb.pending))
  THEN [pending |-> Tail(sb.pending), offset |-> 0]
  ELSE [sb EXCEPT !.offset = @ + ReadLen(sb, n)]
=============================================================================
