SPECIFICATION FairSpec
CHECK_DEADLOCK FALSE
CONSTANTS
    Minute = 3
    Grace = 5
    AnnounceEvery = 2
    Never = Never
    MaxNow = 13
    MaxSyncs = 2
INVARIANTS
    CountdownInv
    MinutesAreCeiling
PROPERTIES
    NoEarlierThanSaid
    AnnouncementsArePaced
    PlayersStayWarned
    CountdownsEnd
