\* The same transfer with one lost packet, which may be any but the answer to the
\* SYN (see LostSynState.cfg), under fairness.
CONSTANTS
  SeqSpace = 8
  MaxPacketSizeBytes = 1
  MaxWindowSizeIncBytes = 1
  TargetDelayMicros = 1
  InitialTimeout = 1
  MinTimeout = 1
  MaxTimeout = 1
  Uint32Space = 100
  LossThreshold = 1
  BufferSize = 2
  MaxSelectiveAckCount = 4
  WindowSize = 2
  HeaderRoom = 0
  MaxConnAttempts = 2
  TokenCap = 1
  Nil = Nil
  SynNumA = 6
  SynAckB = 3
  Chunks <- OneWay
  Closers = {"A"}
  LoseSynState = FALSE
  MaxLost = 1
  MaxDuplicated = 0
  MaxPremature = 0
  MaxIdle = 0
  MaxCancelled = 0
SPECIFICATION FairSpec
PROPERTIES WrittenIsDelivered FinCompletes
CHECK_DEADLOCK FALSE
