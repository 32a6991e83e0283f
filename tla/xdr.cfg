SPECIFICATION Spec
CONSTANTS
  MaxDepth = 20
  Classes <- MCClasses
  Samples <- MCSamples
  MaxWords = 16
  NoPacket = NoPacket
INVARIANTS
  RoundTrip
  Framed
  WithinLimits
  Canonical
  JsonRoundTrip
CHECK_DEADLOCK FALSE
