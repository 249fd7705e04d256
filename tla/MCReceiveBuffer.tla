--------------------------- MODULE MCReceiveBuffer ---------------------------
EXTENDS PacketOnWire

\* Twelve packets of one to three bytes and a FIN without any against a buffer of
\* seven: some arrivals must be refused, numbers wrap at SeqSpace = 16, and the bits
\* of a selective ack reach into its second byte.
MCPayloadLen == <<1, 2, 1, 3, 1, 2, 1, 1, 3, 1, 1, 0>>
=============================================================================
