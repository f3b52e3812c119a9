SPECIFICATION FairSpec
CONSTANTS
    W = 8
    WorkModes = {0, 1, 2, 3}
    PvModes = {0, 1, 2}
    ErrorBits = {0, 1, 2, 9}
    Devices <- MCDevices
    Probes <- MCProbes
    ETSerials <- MCETSerials
    NoSerial = ""
    Unknown = "unknown"
    NoValue = NoValue
    Requested <- MCRequested
INVARIANTS SingleAgreesWithBulk NoBlockLost DerivedAgree StatusTruthful PollCloses
PROPERTY ToolEnds
CHECK_DEADLOCK FALSE
