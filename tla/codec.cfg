CONSTANTS
  Bytes = {x, y}
  Delim = d
  None = None
  MaxLen = 5
  MaxParams = 3
  MaxField = 2
SPECIFICATION DecodeSpec
INVARIANTS
  CodecCorrect
CHECK_DEADLOCK FALSE
