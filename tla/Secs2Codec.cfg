SPECIFICATION Spec
CONSTANTS
  None = None
  Texts <- AllTexts
  Items <- AllItems
  LengthRadix = 3
  MaxDepth = 2
  MaxTotalItems = 4
  MaxItemBytes = 9
  MaxListItems = 2
INVARIANTS
  DecodeIsExact
  DecoderIsBounded
  EncodeIsCanonical
