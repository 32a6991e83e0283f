SPECIFICATION Spec
CONSTANTS
  b1 = b1
  b2 = b2
  Builders = {b1, b2}
  FirstSequence = 7
  BaseFee = 100
  MinBaseFee = 100
  BumpFees = {99, 100, 101, 134, 200}
  ForeignFees = {50, 201, 301, 400}
  ResourceFees = {0, 35}
  MaxOps = 2
  MaxExtra = 3
  MaxEnvelopes = 2
  MaxBumps = 1
SYMMETRY Interchangeable
INVARIANTS
  SequenceCountsEnvelopes
  BumpOffersMore
PROPERTIES
  BuiltStaysBuilt
CHECK_DEADLOCK FALSE
