SPECIFICATION FairTRMSpec
CONSTANTS
    Tokens = {1, 2}
    Tuners = {0}
    Devices = {host}
    Clients = {host, recorder}
    Recorder = recorder
    HostDevice = host
    Locators = {l1, l2}
    EasLocators = {l2}
    RecordIds = {q1}
    CancelIds = {c1}
    Programmes <- OneProgramme
    Windows <- AnyWindow
    MaxTime = 1
    MaxUpdates = 1
    NoReservation = NoReservation
    NoLocator = NoLocator
    NoTimers = NoTimers
    NoClient = NoClient
    NoTuner = NoTuner
    NoToken = NoToken
INVARIANT CancelIsFinal
PROPERTY ImplementsManager
PROPERTY Answered
