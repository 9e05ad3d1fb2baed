\* More packets than the queue holds, any order of completions and refusals.
SPECIFICATION FairSpec
CONSTANTS
  Requests <- MixedPackets
  QUEUE_SIZE = 2
  NUM_VAULTS = 2
  NUM_BANKS = 2
  NUM_ROWS = 2
  NUM_COLS = 4
  ADDRESS_MAPPING = 2
  PARTS = 1
  PERIOD = 800
  START = 0
INVARIANTS
  NoAssertFails
  ResponseScheduled
  DrainSignalled
  AnsweredOnce
PROPERTIES
  EveryAnswer
  RetrySent
CHECK_DEADLOCK FALSE
