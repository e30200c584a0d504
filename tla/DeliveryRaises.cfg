SPECIFICATION FairSpec
CONSTANTS
    None = None
    Sweep = {p1}
    MaxPublications = 1
    MaxAttempts = 2
    Threshold = 2
    Routes = {"ok"}
    MaxOps = 0
    Faults = {}
    MaxFaults = 0
PROPERTIES RetriesAreBounded
CHECK_DEADLOCK FALSE
