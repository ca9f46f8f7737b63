\* A mod that is renamed by its author.
CONSTANTS
    Servers = {s1}
    Mods = {1}
    f1 = f1
    f2 = f2
    f3 = f3
    Slugs = {f1, f3}
    NoSlug = NoSlug
    NoHash = NoHash
    Missing = Missing
    Mixed = Mixed
    Modlists <- RenamedLists
    Grace = 1
    KeyAuth = {}
    ServersAtOnce = 1
    ModsAtOnce = 1
    Graceful = FALSE
    FullAnswers = TRUE
    LastPublish = 2
    MaxNow = 3
SPECIFICATION Spec
INVARIANTS LocalCopiesAreHonest
