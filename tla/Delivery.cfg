SPECIFICATION Spec

CONSTANTS
  None = None
  PrimaryCapacity = 2
  PrimaryBytes = 3
  Lengths <- ShortAndLong
  ErrorCapacity = 1
  DiagnosticCapacity = 1
  SequenceSpace = 3
  DroppedLimit = 2
  MaxGenerations = 2
  MaxInputs = 3
  MaxAttempts = 4

INVARIANTS
  DeliveryIsWhole
  LossIsCounted

PROPERTIES
  ErrorsAreIndependent

CHECK_DEADLOCK FALSE
