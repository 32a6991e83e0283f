SPECIFICATION Spec
CONSTANTS
  c1 = c1
  Clients = {c1}
  Keyed = {}
  Addrs = {}
  ContractAddrs = {}
  BaseFee = 10
  ResourceFees <- DifferentFees
  MaxExcess = 1
  Several = {}
  MaxSeq = 2
  MaxLost = 1
  OtherWallets = TRUE
  RestoreOp = RestoreOp
  NoTx = NoTx
  NoSim = NoSim
  NoSend = NoSend
INVARIANTS
  FeeExact
  AtMostOneInvocation
  OutcomeIsTrue
