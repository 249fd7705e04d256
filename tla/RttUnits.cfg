\* Every packet takes 40 units, and a microsecond is two nanoseconds.
CONSTANTS
  MaxPacketSizeBytes = 2
  MaxWindowSizeIncBytes = 2
  TargetDelayMicros = 2
  InitialTimeout = 2
  MinTimeout = 1
  MaxTimeout = 100
  Uint32Space = 1000
  PacketNums = {p1, p2, p3, p4}
  Sizes = {0, 2}
  Delays = {0, 5}
  Estimates = {0}
  Kilo = 2
  DelayWindow = 1
  RTTs = {40}
  MaxNow = 0
SPECIFICATION EstSpec
SYMMETRY NumSymmetry
INVARIANT TimeoutCoversTrip
\* A panic ends the process.
CHECK_DEADLOCK FALSE
