SPECIFICATION Spec
CONSTANTS
  c1 = c1
  Clients = {c1}
  Keyed = {c1}
  Addrs = {}
  ContractAddrs = {}
  BaseFee = 10
  ResourceFees <- SameFee
  MaxExcess = 0
  Several = {}
  MaxSeq = 2
  MaxLost = 0
  OtherWallets = TRUE
  RestoreOp = RestoreOp
  NoTx = NoTx
  NoSim = NoSim
  NoSend = NoSend
INVARIANTS
  StillPendingWasAccepted
