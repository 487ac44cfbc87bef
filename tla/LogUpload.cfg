CONSTANTS
    TEL_QUEUE_SLOTS = 1
    g_tel_max_size = 3
    g_tel_max_backups = 2
    OldLogs <- MCOldLogs
    Answers = 2
    MaxPolls = 1
    MaxFailures = 2
    Serials = {1, 2}
SPECIFICATION LogFairSpec
INVARIANTS LogKeepsFrames SnapshotWhole ResultsTruthful ThreadsGoneFirst
PROPERTY UploadEnds
CHECK_DEADLOCK FALSE
