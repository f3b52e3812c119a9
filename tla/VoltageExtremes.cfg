SPECIFICATION Spec
CONSTANTS
    l1 = l1
    l2 = l2
    Phases <- TwoPhases
    Voltages = {200, 206}
    Null = Null
    VoltageMin = 207
    VoltageMax = 253
    Offline = FALSE
    MaxAborts = 0
    MaxSamples = 3
INVARIANT ExtremesOfWholeEvent
