SPECIFICATION FairSpec
CONSTANTS
    Mods = {1, 2}
    Mixed = Mixed
    None = None
    LastPublish = 2
INVARIANTS
    LegacyInv
    UpToDateIsWhole
PROPERTIES
    PublicationsAreRecorded
