SPECIFICATION FairSpec
CONSTANTS
    None = None
    Sweep = {p1}
    MaxPublications = 2
    MaxAttempts = 2
    Threshold = 2
    Routes = {"ok", "rejected"}
    MaxOps = 0
    Faults = {"crash", "db_error"}
    MaxFaults = 2
PROPERTIES LatestSettles
CHECK_DEADLOCK FALSE
