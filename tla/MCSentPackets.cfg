\* Five packets of one byte (the last may be a FIN) whose numbers wrap; two
\* acks are enough to declare a packet lost, and the window moves between two
\* and several packets.
CONSTANTS
  SeqSpace = 8
  MaxPacketSizeBytes = 1
  MaxWindowSizeIncBytes = 2
  TargetDelayMicros = 1
  InitialTimeout = 1
  MinTimeout = 1
  MaxTimeout = 1
  Uint32Space = 100
  LossThreshold = 2
  Nil = Nil
  InitSeqNum = 6
  MaxPackets = 5
  MaxAcks = 2
  DataLens = {1}
  Adjustments = {0, 2}
  Estimates = {1}
SPECIFICATION Spec
INVARIANTS BooksAgree LostJustified AckedWereReceived HeardIsAcked StaleAckNeverResets
PROPERTY SentForever
\* A panic ends the process.
CHECK_DEADLOCK FALSE
