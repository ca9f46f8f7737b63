\* Graceful stops, and a Web API that may stay silent about a mod.
CONSTANTS
    Servers = {s1}
    Mods = {1, 2}
    f1 = f1
    f2 = f2
    f3 = f3
    Slugs = {f1, f2}
    NoSlug = NoSlug
    NoHash = NoHash
    Missing = Missing
    Mixed = Mixed
    Modlists <- FixedList
    Grace = 1
    KeyAuth = {}
    ServersAtOnce = 1
    ModsAtOnce = 1
    Graceful = TRUE
    FullAnswers = FALSE
    LastPublish = 2
    MaxNow = 2
SPECIFICATION Spec
INVARIANTS NoUnseenChange StagesMatchFlags IndInv
PROPERTIES NoEarlyRestart
