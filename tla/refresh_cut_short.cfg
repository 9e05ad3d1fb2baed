SPECIFICATION Spec
\* The timing of ConfigDRAM.ini in clock cycles.
CONSTANTS
    NUM_BANKS = 2
    BL = 1
    AL = 0
    CL = 13
    CWL = 4
    tRCD = 13
    tRAS = 27
    tRP = 10
    tRC = 40
    tRRD = 4
    tCCD = 4
    tRTP = 7
    tWTR = 7
    tWR = 10
    tRFC = 74
    tFAW = 24
    tCKE = 5
    tXP = 4
    tCMD = 1
    QUE_PER_BANK = TRUE
    OPEN_PAGE = TRUE
    USE_LOW_POWER = TRUE
    MAX_ROW_ACCESSES = 8
    MAX_CMD_QUE = 16
    MAX_VLT_BUF = 32
    MAX_REFRESH = 1
    Requests <- OneRead
INVARIANT
    RefreshWhole
CHECK_DEADLOCK FALSE
