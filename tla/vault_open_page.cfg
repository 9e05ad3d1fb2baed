SPECIFICATION FairSpec
CONSTANTS
    NUM_BANKS = 2
    BL = 2
    AL = 0
    CL = 1
    CWL = 1
    tRCD = 1
    tRAS = 2
    tRP = 1
    tRC = 3
    tRRD = 1
    tCCD = 2
    tRTP = 1
    tWTR = 1
    tWR = 1
    tRFC = 3
    tFAW = 2
    tCKE = 2
    tXP = 1
    tCMD = 1
    QUE_PER_BANK = TRUE
    OPEN_PAGE = TRUE
    USE_LOW_POWER = TRUE
    MAX_ROW_ACCESSES = 2
    MAX_CMD_QUE = 6
    MAX_VLT_BUF = 5
    MAX_REFRESH = 1
    Requests <- OpenPageRequests
INVARIANTS
  VaultInv
  AtomicRowOpen
  SameRowOrder
  CommandTiming
PROPERTIES
  AllServed
  RefreshIssued
CHECK_DEADLOCK FALSE
