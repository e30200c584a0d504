SPECIFICATION FairSpec
CONSTANTS
    entry = entry
    final = final
    other = other
    NoStage = NoStage
    NoWorker = NoWorker
    NoExec = NoExec
    Worker = {w1}
    Sweeper = {s1}
    Api = {a1}
    Stage = {entry, final}
    Continuation <- MCContinuation
    ClaimsAs <- MCOwnClaim
    Gated = {}
    AutoTriggered = {entry}
    SilentReturn = {entry}
    MaxGeneration = 1
    MaxEnqueueAttempts = 1
    Faults = {"crash", "cancel", "enqueue_error", "gap", "renewal_stops", "rerun_finished"}
    MaxFaults = 1
INVARIANTS ContinuationRecorded 
PROPERTIES Settles
CHECK_DEADLOCK FALSE
