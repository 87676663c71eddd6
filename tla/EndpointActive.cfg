SPECIFICATION Spec
CONSTANTS
  None = None
  Operations = {o1, o2, o3}
  OwnReasons = {"TransportLost", "ProtocolViolation"}
  Active = TRUE
  T5 = 2
  GenerationSpace = 2
  Intents = {"Start", "Stop", "Disconnect", "Data", "Reply"}
  Capacity = 1
  ReplyCapacity = 1
  MayAbort = TRUE
SYMMETRY Symmetry
CHECK_DEADLOCK FALSE
INVARIANTS
  RequestsAreOwned
  NeverReplayed
PROPERTIES
  ImplementsView
  ResultsFollowPublication
  AttemptsAreSeparated
