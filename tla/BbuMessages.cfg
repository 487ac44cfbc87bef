CONSTANTS
    Messages <- MCMessages
    Garbage <- MCGarbage
    Configs <- MCConfigs
    CPRI_HEADER_LEN = 1
    BUFFER_SIZE = 4
    RECV_SIZE = 4
    MaxMsgs = 2
    RESP_SIZE = 20
    BEAMS = 16
    DefaultPeriod = 60
SPECIFICATION Spec
INVARIANTS
    MessagesDelivered
    AnswerTruthful
    QueryReportsConfirmed
PROPERTIES
    LossNeedsBacklog
