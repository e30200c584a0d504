SPECIFICATION Spec
CONSTANTS
    None = None
    Sweep = {p1, p2}
    MaxPublications = 1
    MaxAttempts = 2
    Threshold = 1
    Routes = {"ok", "none", "rejected"}
    MaxOps = 2
    Faults = {"crash", "slow", "db_error"}
    MaxFaults = 2
SYMMETRY Sweepers
INVARIANTS DeliveryInv SyncedMeansReceived DeadLetterMeansFailed
PROPERTIES SyncedIsFinal
CHECK_DEADLOCK FALSE
