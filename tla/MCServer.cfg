CONSTANTS
    c1 = c1
    rec = rec
    Clients <- MCClients
    Recorder <- rec
    MaxConns = 2
    HeaderLength = 2
    Payloads <- MCPayloads
    MaxFrames = 3
SPECIFICATION ServerFairSpec
INVARIANT ServerTypeOK
INVARIANT DeliveredAsSent
INVARIANT NothingLeftUnread
INVARIANT NoDanglingConnection
INVARIANT OwnersAreKnown
PROPERTY OnlyTheGoneAreForgotten
PROPERTY GoneReleased
