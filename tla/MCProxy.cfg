SPECIFICATION FairProxySpec
CONSTANTS
    Addrs <- MCAddrs
    MaxClients = 2
    MaxLinks = 2
    MaxReplies = 1
    PingLimit = 2
    NoSocket = NoSocket
    End = End
INVARIANTS
    EntriesAreSockets
    ServerForgetsTheGone
    NoCarryOver
    NoReplyStolen
    MuteIsClosed
PROPERTY SilentEvicted
CHECK_DEADLOCK FALSE
