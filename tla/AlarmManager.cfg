CONSTANTS
    Uart = Uart
    Recv = Recv
    Reconn = Reconn
    FpgaAlarms = {lo}
    CommandAlarms = {reset}
    TcpAlarm = tcp
    MAX_ALARM_RECORDS = 2
SPECIFICATION FairSpec
INVARIANTS ReportedWasSent NothingSkipped ConnectedClearsAlarm
PROPERTIES PendingIsReported
