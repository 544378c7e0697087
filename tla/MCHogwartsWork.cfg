SPECIFICATION Spec
CONSTANTS
  NUM_ELVES = 2
  BATCH = 2
  Totals = {2}
INVARIANT OthersLoopBack
