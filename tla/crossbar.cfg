\* Two divided requests and a short one, buffers of about one packet, fair updates.
SPECIFICATION CrossbarFairSpec
CONSTANTS
  NULL = NULL
  Requests <- MixedRequests
  BLOCK = 2
  NUM_VAULTS = 2
  NUM_LINKS = 2
  MAX_CROSS_BUF = 6
  MAX_VLT_BUF = 3
  MAX_LINK_BUF = 7
INVARIANTS
  CrossbarInv
  ResponseIntact
PROPERTIES
  AnswersOnce
  AnswersAll
