SPECIFICATION InjectorFairSpec
CONSTANTS
    FPGA_SEGMENT_SIZE = 3
    FPGA_PACKET_SIZE = 2
    FPGA_MAX_PACKET_RETRIES = 2
    FileSizes = {4}
    MaxPolls = 1
    MaxInjections = 2
    MaxCrossings = 2
INVARIANTS DataInPlace EverythingDelivered CleanupSafe
PROPERTIES InjectionEnds
CHECK_DEADLOCK FALSE
