SPECIFICATION Spec
CONSTANTS
  Contracts = {3}
  Simulated <- MCSimulated
  Trees <- MCTrees
  Validity = {1}
  Agreed = {3}
  MaxLedger = 2
  MaxNonce = 4
INVARIANTS
  AllAgreedIsAccepted
  LastSignerVerifies
  SignedAsSeen
CHECK_DEADLOCK FALSE
