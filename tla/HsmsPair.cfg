SPECIFICATION Spec
CONSTANTS
  None = None
  Sides = {a, b}
  Commands <- CommandIds
  MaxCommands = 3
  ControlSession = cs
  DataSession = ds
  WriteSpace = 12
  SystemBytesSpace = 12
  ReplySpace = 4
  TransactionCapacity = 2
  TombstoneCapacity = 1
  ReplyCapacity = 2
  IdleLinktest = FALSE
  Kinds = {"Select", "Deselect", "Send", "Request", "Separate"}
  Timers = {"t3", "drain", "t6", "t7"}
SYMMETRY Symmetry
INVARIANTS
  PeersAgree
  RequestsMeanReplies
  NobodyIsStuck
CHECK_DEADLOCK FALSE
