SPECIFICATION FairSpec
CONSTANTS
  None = None
  Operations = {o1, o2, o3}
  OwnReasons = {}
  Active = FALSE
  T5 = 0
  GenerationSpace = 2
  Intents = {"Start", "Stop", "Disconnect", "Control"}
  Capacity = 1
  ReplyCapacity = 1
  MayAbort = FALSE
CHECK_DEADLOCK FALSE
INVARIANTS
  SourceFollowsSlot
PROPERTIES
  EverybodyIsAnswered
