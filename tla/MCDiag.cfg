SPECIFICATION FairDiagSpec
CONSTANTS
    main = main
    iarm = iarm
    reader = reader
    Kinds <- MCKinds
    MaxCalls = 2
    MaxSockets = 3
    MaxLosses = 1
    MaxNotes = 1
    Tries = 2
    Polls = 1
INVARIANTS
    SyncWhenAlone
PROPERTIES
    RightAnswer
    CallsReturn
    KeepsListening
CHECK_DEADLOCK FALSE
