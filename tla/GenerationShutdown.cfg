SPECIFICATION FairSpec
CONSTANTS
  None = None
  Commands <- CommandIds
  Operations = {o1}
  ControlSession = cs
  DataSession = ds
  WriteSpace = 3
  SystemBytesSpace = 2
  ReplySpace = 1
  TransactionCapacity = 1
  TombstoneCapacity = 0
  ReplyCapacity = 1
  IdleLinktest = FALSE
  CommandSpace = 2
  CommandCapacity = 2
  CommandBytes = 2
  InboundCapacity = 1
  ControlCapacity = 1
  DataCapacity = 1
  AutoSelect = TRUE
  PeerMessages <- AcceptAndAnswer
  PeerViolations = {}
  Primaries <- OnePrimary
  Kinds = {"Separate", "Request"}
  Intents = {}
  ReaderEnds = {"TransportLost"}
  CloseReasons = {"LocalStop"}
  ForcedReasons = {}
  MayPanic = TRUE
CHECK_DEADLOCK FALSE
INVARIANTS
  BarrierIsLastWrite
PROPERTIES
  ImplementsContract
  CloseKeepsItsCause
  EverythingIsAnswered
