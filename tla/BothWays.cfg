\* Both sides write a byte and close; one idle timeout and one closed socket at
\* any moment.
CONSTANTS
  SeqSpace = 8
  MaxPacketSizeBytes = 1
  MaxWindowSizeIncBytes = 1
  TargetDelayMicros = 1
  InitialTimeout = 1
  MinTimeout = 1
  MaxTimeout = 1
  Uint32Space = 100
  LossThreshold = 1
  BufferSize = 2
  MaxSelectiveAckCount = 4
  WindowSize = 2
  HeaderRoom = 0
  MaxConnAttempts = 2
  TokenCap = 1
  Nil = Nil
  SynNumA = 6
  SynAckB = 3
  Chunks <- BothWays
  Closers = {"A", "B"}
  LoseSynState = FALSE
  MaxLost = 0
  MaxDuplicated = 0
  MaxPremature = 0
  MaxIdle = 1
  MaxCancelled = 1
SPECIFICATION Spec
INVARIANTS CleanEndIsComplete MissingHasTimer
PROPERTY NothingAfterEnd
CHECK_DEADLOCK FALSE
