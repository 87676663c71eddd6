SPECIFICATION Spec
CONSTANTS
  None = None
  Commands <- CommandIds
  Operations = {o1, o2}
  ControlSession = cs
  DataSession = ds
  WriteSpace = 3
  SystemBytesSpace = 2
  ReplySpace = 1
  TransactionCapacity = 1
  TombstoneCapacity = 0
  ReplyCapacity = 1
  IdleLinktest = TRUE
  CommandSpace = 2
  CommandCapacity = 2
  CommandBytes = 2
  InboundCapacity = 1
  ControlCapacity = 1
  DataCapacity = 1
  AutoSelect = FALSE
  PeerMessages <- SelectAndAsk
  PeerViolations <- OneViolation
  Primaries <- OnePrimary
  Kinds = {"Deselect", "Send"}
  Intents = {"Secondary", "Abandon"}
  ReaderEnds = {}
  CloseReasons = {}
  ForcedReasons = {"ApplicationBackpressure"}
  MayPanic = FALSE
SYMMETRY Symmetry
CHECK_DEADLOCK FALSE
INVARIANTS
  OperationsHaveOneOwner
  WritesAreAccountedFor
  ReplyAuthorityIsExclusive
  DriverKeepsItsContracts
  ExitSettlesOperations
