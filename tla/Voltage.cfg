SPECIFICATION Spec
CONSTANTS
    l1 = l1
    l2 = l2
    Phases <- TwoPhases
    Voltages = {206, 253, 254}
    Null = Null
    VoltageMin = 207
    VoltageMax = 253
    Offline = FALSE
    MaxAborts = 2
    MaxSamples = 4
INVARIANTS
    IncrementalEqualsBatch
    NoSampleSkipped
    OutOfRangeCovered
