SPECIFICATION TRMSpec
CONSTANTS
    Tokens = {1, 2, 3}
    Tuners = {0, 1}
    Devices = {host, remote}
    Clients = {host, remote, recorder}
    Recorder = recorder
    HostDevice = host
    Locators = {l1, l2, l3}
    EasLocators = {}
    RecordIds = {q1}
    CancelIds = {}
    Programmes <- OneProgramme
    Windows <- AnyWindow
    MaxTime = 0
    MaxUpdates = 1
    NoReservation = NoReservation
    NoLocator = NoLocator
    NoTimers = NoTimers
    NoClient = NoClient
    NoTuner = NoTuner
    NoToken = NoToken
SYMMETRY Interchangeable
INVARIANTS
    TRMTypeOK
    OneLivePerDevice
PROPERTY TokenKeepsOwner
PROPERTY RemoteAvoidsLocalTuner
PROPERTY SilentLossHasARival
