SPECIFICATION Spec
CONSTANTS
  server = server
  k1 = k1
  k2 = k2
  Server = server
  ClientKeys = {k1, k2}
  Weight <- SomeWeights
  Thresholds = {0, 2, 3}
  NoKey = NoKey
  Unknown = Unknown
  MaxSigners = 3
  MaxSignatures = 4
INVARIANTS
  VerifiedIsSigned
  SignedIsVerified
CHECK_DEADLOCK FALSE
