\* Twelve packets, a buffer of seven bytes, numbers 12 to 15 and 0 to 7.
CONSTANTS
  SeqSpace = 16
  BufferSize = 7
  MaxSelectiveAckCount = 16
  Nil = Nil
  InitSeqNum = 11
  Packets = 12
  PayloadLen <- MCPayloadLen
  ReadSizes = {1, 3}
SPECIFICATION Spec
INVARIANTS CapacityRespected DrainComplete InOrderExactlyOnce SelectiveAckExact OnTheWire
PROPERTY AcceptedForever
