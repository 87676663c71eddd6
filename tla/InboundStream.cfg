SPECIFICATION FairSpec
CONSTANTS
  None = None
  MaxMessageLength = 12
  TextClass <- MCTextClass
  Streams <- AllStreams
  T8 = 2
  Capacity = 2
  WireBytes = 17
  Scratch = 8
INVARIANTS
  StreamIsFaithful
  OwnershipIsBounded
PROPERTIES
  BegunFramesEnd
CHECK_DEADLOCK FALSE
