SPECIFICATION FairSpec
CONSTANTS
  BUFCAP = 3
  FILLS = 3
  MaxSpurious = 3
  COUNT_HALT1 = 3
  COUNT_HALT2 = 6
  COUNT_DONE = 10
  TCOUNT = 4
  COUNT_LIMIT = 5
  Bonus = 12
  Incs = {t2, t3}
  Threads = {t1, t2}
  Initial = 1
  Rounds = 4
  Size = 4
  Values = {1, 2, 3}
  Pushers = {t1, t2}
  PUSHES = 2
  NUMTHREADS = 3
  Codes = {0, 1, 7, 255}
INVARIANTS
  NoLostWakeup
  EndsAfterWork
  TurnsKept
  SharedDataIntact
  MutualExclusion
PROPERTY Progress
