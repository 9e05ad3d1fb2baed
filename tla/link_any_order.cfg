\* No noise, every fair interleaving of the updates; a full retry buffer.
SPECIFICATION LinkFairSpec
CONSTANTS
  Host = Host
  Cube = Cube
  NULL = NULL
  MAX_LINK_BUF = 3
  MAX_RETRY_BUF = 3
  NUM_OF_IRTRY = 2
  RETRY_ATTEMPT_LIMIT = 2
  RETRY_TIMEOUT = 12
  CRC_CHECK = TRUE
  CRC_CAL_CYCLE <- NoDelay
  SEQ_MAX = 2
  Traffic <- LongTraffic
  MAX_ERRORS = 0
INVARIANTS
  NoOverwrite
  RetryOnlyOnNoise
PROPERTIES
  ChannelSafe
  ChannelLive
  FRPReturns
\* All traffic delivered: the link may stop.
CHECK_DEADLOCK FALSE
