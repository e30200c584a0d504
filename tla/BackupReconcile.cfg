SPECIFICATION Spec
CONSTANTS
    Owner = {s1}
    Backup = {b1, b2}
    Restore = {r1, r2}
    MayOverlap = FALSE
    None = None
INVARIANTS ReconciledIsWhole
CHECK_DEADLOCK FALSE
