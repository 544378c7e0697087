SPECIFICATION Spec
CONSTANTS
  Threads = {t1, t2, t3}
  Initial = 1
  Rounds = 1
INVARIANT MutualExclusion
CHECK_DEADLOCK FALSE
