SPECIFICATION Spec
CONSTANTS
  None = None
  Commands = {k1, k2}
  ControlSession = cs
  DataSession = ds
  WriteSpace = 3
  SystemBytesSpace = 2
  ReplySpace = 2
  TransactionCapacity = 1
  TombstoneCapacity = 1
  ReplyCapacity = 1
  IdleLinktest = FALSE
  PeerMessages <- SelectionAndData
  PeerViolations = {}
  Primaries <- AllPrimaries
  Kinds = {"Deselect", "Send", "Request"}
  Intents = {"Secondary", "Abort", "Abandon"}
  ReplyBodies = {TRUE}
SYMMETRY Symmetry
INVARIANTS
  NoRuntimeInvariant
  OutcomesAreOwed
  DataFollowsSession
  CommandsAreAwaited
  ResultsAreTruthful
