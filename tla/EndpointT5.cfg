SPECIFICATION Spec
CONSTANTS
  None = None
  Operations = {o1, o2, o3}
  OwnReasons = {"TransportLost"}
  Active = TRUE
  T5 = 2
  GenerationSpace = 1
  Intents = {"Start", "Stop"}
  Capacity = 1
  ReplyCapacity = 1
  MayAbort = FALSE
CHECK_DEADLOCK FALSE
PROPERTY
  EveryAttemptIsSeparated
