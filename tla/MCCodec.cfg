CONSTANTS
    Text <- MCText
    Values <- MCValues
    Now = 3
    MaxInt64 = 100
SPECIFICATION CodecSpec
INVARIANT NothingElseLost
INVARIANT OpenEndedLiveFits
CHECK_DEADLOCK FALSE
