\* A connects, writes two bytes (two packets), closes; B reads.  The numbers
\* 6, 7, 0, 1 wrap.  One fault of each kind, and any reordering.
CONSTANTS
  SeqSpace = 8
  MaxPacketSizeBytes = 1
  MaxWindowSizeIncBytes = 1
  TargetDelayMicros = 1
  InitialTimeout = 1
  MinTimeout = 1
  MaxTimeout = 1
  Uint32Space = 100
  LossThreshold = 1
  BufferSize = 2
  MaxSelectiveAckCount = 4
  WindowSize = 2
  HeaderRoom = 0
  MaxConnAttempts = 2
  TokenCap = 1
  Nil = Nil
  SynNumA = 6
  SynAckB = 3
  Chunks <- OneWay
  Closers = {"A"}
  LoseSynState = TRUE
  MaxLost = 1
  MaxDuplicated = 1
  MaxPremature = 1
  MaxIdle = 0
  MaxCancelled = 0
SPECIFICATION Spec
INVARIANTS DeliveredIsPrefix CleanEndIsComplete CleanCloseIsComplete AckedWereReceived MissingHasTimer
PROPERTY NothingAfterEnd
CHECK_DEADLOCK FALSE
