SPECIFICATION FairSpec
CONSTANTS
    NUM_BANKS = 2
    BL = 2
    AL = 0
    CL = 1
    CWL = 1
    tRCD = 1
    tRAS = 2
    tRP = 1
    tRC = 3
    tRRD = 1
    tCCD = 2
    tRTP = 1
    tWTR = 1
    tWR = 1
    tRFC = 3
    tFAW = 2
    tCKE = 2
    tXP = 1
    tCMD = 1
    QUE_PER_BANK = TRUE
    OPEN_PAGE = FALSE
    USE_LOW_POWER = TRUE
    MAX_ROW_ACCESSES = 2
    MAX_CMD_QUE = 5
    MAX_VLT_BUF = 6
    MAX_REFRESH = 1
    Requests <- ClosePageRequests
INVARIANTS
  VaultInv
  SameRowOrder
  CommandTiming
PROPERTIES
  AllServed
CHECK_DEADLOCK FALSE
