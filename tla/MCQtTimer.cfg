SPECIFICATION FairSpec
CONSTANTS
    MaxInt = 3
    Coarse = 1
    MaxTime = 9
    Deadlines = {1, 4, 9}
    Intervals <- MCIntervals
    MaxSettings = 2
    MaxSchedules = 3
    Off = Off
INVARIANTS
    Punctual
PROPERTIES
    ImplementsAlarm
    WithinReachEnds
CHECK_DEADLOCK FALSE
