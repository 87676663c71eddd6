SPECIFICATION Spec
CONSTANTS
  None = None
  Radix = 8
  Quotable = {1, 2}
  F4Limit = 10
  F8Limit = 40
  MaxDepth = 2
  MaxTotalItems = 3
  MaxListItems = 2
  MaxItemBytes = 4
  MaxNestingDepth = 3
  MaxEncodedLength = 8
  Documents <- MCDocuments
  Alphabets <- MCAlphabets
INVARIANTS
  ParseIsExact
  RoundTrip
