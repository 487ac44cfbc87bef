CONSTANTS
    Notifiers = {Main, Recv}
    Main = Main
    Recv = Recv
    Worker = Worker
    HEARTBEAT_INTERVAL_SEC = 2
    HEARTBEAT_TIMEOUT_COUNT = 2
    SETUP_PERIOD_SEC = 1
    MaxReqs = 1
    HasFreq = {}
    CfgKinds = {"ok"}
    ClockSteps = {3}
    MaxBack = 1
SPECIFICATION FairSpec
PROPERTIES
    ReconnectSetsUp
    NoPrematureTimeout
