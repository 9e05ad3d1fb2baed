\* One link goes down while a request wakes the other one up.
SPECIFICATION Spec
CONSTANTS
  Host = Host
  Cube = Cube
  NUM_LINKS = 2
  LINK_POWER = "QUIESCE_SLEEP"
  AWAKE_REQ = 1
  MAX_REQ_BUF = 2
  MAX_LINK_BUF = 2
  RETRAIN_NULLS = 2
  Blocks <- OneBlock
  COUNTER_SIZE = 4
  MAX_EPOCHS = 0
PROPERTIES
  DownFromSleep
CHECK_DEADLOCK FALSE
