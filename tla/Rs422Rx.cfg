CONSTANTS
    N = 12
    Byte <- MCByte
    READ_SIZE = 11
    RECV_SIZE = 10
    FRAME_BUF_SIZE = 8
    MIN_SIZE = 4
    PkLenPos = 2
    PkLenAdd = 5
    Checksum <- MCChecksum
    Replies <- MCReplies
    MaxCalls = 2
SPECIFICATION Spec
INVARIANTS ReturnedIsFresh CleanReplyIsTaken
PROPERTIES RingIsFifo
CHECK_DEADLOCK FALSE
