CONSTANTS
    CELL_CFG_JOB_QUEUE_LEN = 1
    Serials = {s1}
    NULL = NULL
    MaxVerify = 1
    Notifiers = {Recv}
    Recv = Recv
    Worker = Worker
SPECIFICATION LifeFairSpec
INVARIANTS
    TxOffAfterShutdown
    NoUseAfterDestroy
PROPERTY
    ShutdownEnds
