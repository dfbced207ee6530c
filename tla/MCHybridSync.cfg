SPECIFICATION TRMSpec
CONSTANTS
    Tokens = {1, 2, 3}
    Tuners = {0}
    Devices = {host}
    Clients = {host, recorder}
    Recorder = recorder
    HostDevice = host
    Locators = {l1, l2}
    EasLocators = {}
    RecordIds = {q1, q2}
    CancelIds = {}
    Programmes <- TwoProgrammes
    Windows <- AnyWindow
    MaxTime = 1
    MaxUpdates = 1
    NoReservation = NoReservation
    NoLocator = NoLocator
    NoTimers = NoTimers
    NoClient = NoClient
    NoTuner = NoTuner
    NoToken = NoToken
SYMMETRY Interchangeable
INVARIANT HybridInSync
