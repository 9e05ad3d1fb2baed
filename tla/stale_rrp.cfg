\* A packet queued behind an IRTRY carries an older RRP.
SPECIFICATION Spec
CONSTANTS
  Host = Host
  Cube = Cube
  NULL = NULL
  MAX_LINK_BUF = 4
  MAX_RETRY_BUF = 6
  NUM_OF_IRTRY = 2
  RETRY_ATTEMPT_LIMIT = 2
  RETRY_TIMEOUT = 24
  CRC_CHECK = TRUE
  CRC_CAL_CYCLE <- NoDelay
  SEQ_MAX = 3
  Traffic <- EqualTraffic
  MAX_ERRORS = 1
  FLIT_CYCLES = 2
PROPERTIES
  FreedAccepted
