SPECIFICATION FairSpec
CONSTANTS
    Workers = {run, aggregate}
    Requests = {r1, r2}
INVARIANTS
    StoreOutlivesHandlers
PROPERTIES
    SignalEndsProcess
    ServerErrorStopsWorkers
