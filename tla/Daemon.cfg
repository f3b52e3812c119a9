SPECIFICATION FairSpec
CONSTANTS
    Devices = {d1, d2}
    ProbeSerials = {d1}
    Stores = {TRUE, FALSE}
    PollIntervals = {0, 30}
    BackoffInitial = 5
    BackoffMax = 300
    MaxFails = 8
    None = None
INVARIANTS
    TypeOK
    StatesAgree
    BackoffFollowsFailures
PROPERTIES
    MismatchIsFinal
    IdentityKept
    ForeignOnlyAfterSwap
    CancelStopsRun
    PollingResumes
