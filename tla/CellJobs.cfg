CONSTANTS
    CELL_CFG_JOB_QUEUE_LEN = 3
    Serials = {s1, s2, s3, s4, s5}
    NULL = NULL
    MaxVerify = 1
SPECIFICATION FairSpec
INVARIANTS
    NothingLost
PROPERTIES
    AcceptedIsAnswered
