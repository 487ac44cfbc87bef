CONSTANTS
    BUF_SIZE = 12
    READ_SIZE = 4
    STATUS_LEN = 1
    PayloadLen <- MCPayloadLen
    Wires <- MCWires
SPECIFICATION SyncSpec
INVARIANTS ChunksDoNotMatter GenuineFramesArrive
CHECK_DEADLOCK FALSE
