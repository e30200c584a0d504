SPECIFICATION Spec
CONSTANTS
    Owner = {s1}
    Backup = {b1, b2}
    Restore = {r1, r2}
    MayOverlap = TRUE
    None = None
INVARIANTS PackagesAreComplete
CHECK_DEADLOCK FALSE
