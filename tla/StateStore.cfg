SPECIFICATION FairSpec
CHECK_DEADLOCK FALSE
CONSTANTS
    Pollers = {p1, p2}
    Main = main
    Free = Free
    NoFile = NoFile
    MaxUpdates = 2
    MaxCrashes = 2
    MaxUnremoved = 1
INVARIANTS
    StoreInv
    LeftoversHaveACause
PROPERTIES
    ImplementsAtomicStore
    LoopKeepsSelecting
