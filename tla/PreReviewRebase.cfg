SPECIFICATION Spec
CONSTANTS
    Sweeper = {s1, s2}
    Worker = {w1, w2}
    MaxRevision = 2
    MaxEnqueueAttempts = 2
    Ops = {"update", "submit", "resubmit", "rebase", "branch_submit", "disable"}
    Stalls = {"update", "resubmit", "rebase"}
    Faults = {"crash", "timeout", "db_error", "enqueue_error", "slow"}
    MaxFaults = 1
INVARIANT VerdictAlwaysCurrent
CHECK_DEADLOCK FALSE
