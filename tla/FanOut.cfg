SPECIFICATION FairSpec
CHECK_DEADLOCK FALSE
CONSTANTS
    Jobs = {1, 2}
    MaxRetries = 2
    Slots = 1
INVARIANTS
    FanOutInv
    SlotsHold
    AnswerIsWhole
    OnlyLateDialsStayOpen
PROPERTIES
    DialersEnd
    RoundsEnd
    StopsAreHeard
