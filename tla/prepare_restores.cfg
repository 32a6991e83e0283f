SPECIFICATION Spec
CONSTANTS
  c1 = c1
  wallet = wallet
  contract = contract
  Clients = {c1}
  Keyed = {c1}
  Addrs = {wallet, contract}
  ContractAddrs = {contract}
  BaseFee = 10
  ResourceFees <- SameFee
  MaxExcess = 0
  Several = {contract}
  MaxSeq = 2
  MaxLost = 0
  OtherWallets = FALSE
  RestoreOp = RestoreOp
  NoTx = NoTx
  NoSim = NoSim
  NoSend = NoSend
INVARIANTS
  PrepareOutlivesRestore
