SPECIFICATION FairSpec
CONSTANTS
    Owner = {s1}
    Backup = {b1, b2}
    Restore = {r1, r2}
    MayOverlap = FALSE
    None = None
INVARIANTS PackagesAreComplete RestoredIsWhole RefusedForItsPackage
PROPERTIES DrillTellsTruth RestoredWorkRuns ServicesResume
CHECK_DEADLOCK FALSE
