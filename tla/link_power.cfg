\* Two links, a request, and sleepLink changes at any moment.
SPECIFICATION FairSpec
CONSTANTS
  Host = Host
  Cube = Cube
  NUM_LINKS = 2
  LINK_POWER = "LINK_MONITOR"
  AWAKE_REQ = 1
  MAX_REQ_BUF = 2
  MAX_LINK_BUF = 2
  RETRAIN_NULLS = 2
  Blocks <- OneBlock
  COUNTER_SIZE = 4
  MAX_EPOCHS = 4
INVARIANTS
  PowerInv
PROPERTIES
  AllAnswered
  SleepAgreed
  Awakened
CHECK_DEADLOCK FALSE
