SPECIFICATION SharedSpec
CONSTANTS
  c1 = c1
  c2 = c2
  Clients = {c1, c2}
  Keyed = {}
  Addrs = {}
  ContractAddrs = {}
  BaseFee = 10
  ResourceFees <- SameFee
  MaxExcess = 0
  Several = {}
  MaxSeq = 2
  MaxLost = 0
  OtherWallets = FALSE
  RestoreOp = RestoreOp
  NoTx = NoTx
  NoSim = NoSim
  NoSend = NoSend
SYMMETRY Interchangeable
PROPERTIES
  KeepsPromise
