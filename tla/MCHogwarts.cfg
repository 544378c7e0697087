SPECIFICATION FairSpec
CONSTANTS
  NUM_ELVES = 4
  BATCH = 3
  Totals <- MCTotals
INVARIANTS
  TypeOK
  NeverTakesFromEmpty
  NoDataRace
  LastOfBatch
  EachTaskOnce
  Accounting
  CleanEnd
PROPERTY Termination
\* A negative total leaves Dobby and the elves waiting for each other.
CHECK_DEADLOCK FALSE
