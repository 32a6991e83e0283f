SPECIFICATION Spec
CONSTANTS
  t1 = t1
  t2 = t2
  self = self
  contract = contract
  Tasks = {t1, t2}
  Self = self
  Clients = {self}
  HasSigner = TRUE
  Addrs = {contract}
  ContractAddrs = {contract}
  BaseFee = 10
  ResourceFees <- SameFee
  MaxExcess = 0
  Several = {contract}
  MaxSeq = 2
  MaxCalls = 4
  OtherWallets = FALSE
  RestoreOp = RestoreOp
  NoTx = NoTx
  NoSim = NoSim
  NoSend = NoSend
SYMMETRY Interchangeable
INVARIANTS
  TypeOK
  FlagIsHonest
  CacheIsEarned
  AcceptedIsReady
  AtMostOneInvocation
  OutcomeIsTrue
  Findable
PROPERTIES
  OrderlyKeepsPromise
CHECK_DEADLOCK FALSE
