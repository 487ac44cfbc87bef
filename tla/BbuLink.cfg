CONSTANTS
    Notifiers = {Main, Recv}
    Main = Main
    Recv = Recv
    Worker = Worker
    HEARTBEAT_INTERVAL_SEC = 2
    HEARTBEAT_TIMEOUT_COUNT = 2
    SETUP_PERIOD_SEC = 1
    MaxReqs = 1
    HasFreq = {TRUE}
    CfgKinds = {"ok", "foreign"}
    ClockSteps = {}
    MaxBack = 0
SPECIFICATION Spec
INVARIANTS
    FreshConnectionClosed
    TxOffWhenLinkDown
