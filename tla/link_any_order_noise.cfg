\* One noisy transmission and time-outs at any moment, every interleaving.
SPECIFICATION LinkSpec
CONSTANTS
  Host = Host
  Cube = Cube
  NULL = NULL
  MAX_LINK_BUF = 2
  MAX_RETRY_BUF = 3
  NUM_OF_IRTRY = 1
  RETRY_ATTEMPT_LIMIT = 2
  RETRY_TIMEOUT = 1
  CRC_CHECK = TRUE
  CRC_CAL_CYCLE <- NoDelay
  SEQ_MAX = 3
  Traffic <- ShortTraffic
  MAX_ERRORS = 1
INVARIANTS
  TypeOK
  RetrySlots
  WholePackets
\* All traffic delivered: the link may stop.
CHECK_DEADLOCK FALSE
