SPECIFICATION Spec
CONSTANTS
    HoursPerDay = 2
    Retention = 2
    HourlyRetention = 3
    Window = 2
    Uses <- MCUses
    TextHours = {0}
    SlowHours = {1}
    MaxHour = 4
    MaxPerHour = 2
    MaxAborts = 1
INVARIANTS
    HourlyRowComplete
    PrunedOnlyAggregated
    DailyRowComplete
    DaemonCoversAll
    BackfillCoversAll
PROPERTY DailyForever
