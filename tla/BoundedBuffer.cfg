SPECIFICATION FairSpec
CONSTANTS
  MAX = 3
  loops = 7
  NoItem = 0
INVARIANTS
  TypeOK
  NoLostWakeup
PROPERTIES
  ImplementsFifo
  AllConsumed
