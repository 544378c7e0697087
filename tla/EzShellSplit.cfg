SPECIFICATION Spec
CONSTANTS
  CAPINIT = 2
  MaxLine = 5
  MaxLines = 1
INVARIANT Splits
