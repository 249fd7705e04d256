\* Two calls that use one id at the same time.
SPECIFICATION Spec
CONSTANTS
  c1 = c1
  g1 = g1
  a1 = a1
  a2 = a2
  Connects <- MCConnects
  Generated <- MCGenerated
  Accepts <- MCAccepts
  lowerOf <- MCLowerOf
  GenIds <- MCGenIds
  IdSpace = 8
  StreamCap = 1
  MaxCalls = 2
  MaxPackets = 2
INVARIANT AlwaysReachable
CHECK_DEADLOCK FALSE
