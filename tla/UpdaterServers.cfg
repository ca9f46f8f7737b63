\* Two servers synced at the same time, one mod that comes and goes.
CONSTANTS
    Servers = {s1, s2}
    Mods = {1}
    f1 = f1
    f2 = f2
    f3 = f3
    Slugs = {f1}
    NoSlug = NoSlug
    NoHash = NoHash
    Missing = Missing
    Mixed = Mixed
    Modlists <- ListsOfOne
    Grace = 1
    KeyAuth = {}
    ServersAtOnce = 2
    ModsAtOnce = 1
    Graceful = FALSE
    FullAnswers = TRUE
    LastPublish = 2
    MaxNow = 3
SPECIFICATION Spec
SYMMETRY TwoServers
INVARIANTS TypeOK SyncedModsAreWhole LocalCopiesAreHonest NoServerLeftBehind QuietServersRunTheirMods
PROPERTIES ImplementsRollout
