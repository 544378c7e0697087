SPECIFICATION Spec
CONSTANTS
  TCOUNT = 10
  COUNT_LIMIT = 12
  Bonus = 125
  Incs = {t2, t3}
INVARIANT FinalValue
