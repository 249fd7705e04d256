\* Four packets of two bytes (or FINs) and a window of two to four packets, so
\* that a timeout can leave more in flight than the window allows; delays that
\* are forgotten after one unit of time.
CONSTANTS
  MaxPacketSizeBytes = 2
  MaxWindowSizeIncBytes = 2
  TargetDelayMicros = 2
  InitialTimeout = 2
  MinTimeout = 1
  MaxTimeout = 5
  Uint32Space = 1000
  PacketNums = {p1, p2, p3, p4}
  Sizes = {0, 2}
  Delays = {0, 5}
  Estimates = {0}
  Kilo = 2
  DelayWindow = 1
  RTTs = {0, 40}
  MaxNow = 2
SPECIFICATION EstSpec
SYMMETRY NumSymmetry
INVARIANTS WindowIsInFlight IdleSenderCanSend BaseIsRecentLeast
PROPERTY AdmissionRespected
\* A panic ends the process.
CHECK_DEADLOCK FALSE
