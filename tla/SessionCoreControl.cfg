SPECIFICATION Spec
CONSTANTS
  None = None
  Commands = {k1, k2}
  ControlSession = cs
  DataSession = ds
  WriteSpace = 3
  SystemBytesSpace = 2
  ReplySpace = 1
  TransactionCapacity = 1
  TombstoneCapacity = 1
  ReplyCapacity = 1
  IdleLinktest = TRUE
  PeerMessages <- ControlMessages
  PeerViolations <- Violations
  Primaries <- OnePrimary
  Kinds = {"Select", "Deselect", "Linktest", "Separate", "Send"}
  Intents = {}
  ReplyBodies = {TRUE}
SYMMETRY Symmetry
INVARIANTS
  TypeOK
  WaitsAreTimed
  CommandsAreAwaited
PROPERTIES
  CompletionsAreFinal
  StateFollowsResponse
