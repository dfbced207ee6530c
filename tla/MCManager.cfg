SPECIFICATION FairSpec
CONSTANTS
    Tokens = {1, 2, 3, 4}
    Tuners = {0, 1}
    Devices = {d1}
    Locators = {l1}
    EasLocators = {}
    Clients = {c1}
    Windows <- OneProgramme
    MaxTime = 1
    NoReservation = NoReservation
    NoLocator = NoLocator
    NoTimers = NoTimers
    NoClient = NoClient
INVARIANTS
    TypeOK
    TokenOnOneTuner
    NoDanglingToken
    TimersFollowState
    OnlyTimedRun
PROPERTIES
    ImplementsToken
    TimedTokenEnds
