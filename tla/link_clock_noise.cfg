\* Two noisy transmissions under the wrapper's schedule.
SPECIFICATION Spec
CONSTANTS
  Host = Host
  Cube = Cube
  NULL = NULL
  MAX_LINK_BUF = 4
  MAX_RETRY_BUF = 6
  NUM_OF_IRTRY = 2
  RETRY_ATTEMPT_LIMIT = 2
  RETRY_TIMEOUT = 24
  CRC_CHECK = TRUE
  CRC_CAL_CYCLE <- DefaultDelay
  SEQ_MAX = 3
  Traffic <- MixedTraffic
  MAX_ERRORS = 2
  FLIT_CYCLES = 2
INVARIANTS
  NoErrorExit
  ExactlyOnce
  TokenConservation
  RetryChain
  RetryPending
PROPERTIES
  FreedAccepted
