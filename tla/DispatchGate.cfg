SPECIFICATION FairSpec
CONSTANTS
    entry = entry
    final = final
    other = other
    NoStage = NoStage
    NoWorker = NoWorker
    NoExec = NoExec
    Worker = {w1}
    Sweeper = {s1}
    Api = {a1}
    Stage = {entry, final}
    Continuation <- MCContinuation
    ClaimsAs <- MCOwnClaim
    Gated = {entry}
    AutoTriggered = {}
    SilentReturn = {entry}
    MaxGeneration = 1
    MaxEnqueueAttempts = 2
    Faults = {"crash", "cancel", "enqueue_error", "renewal_stops"}
    MaxFaults = 1
PROPERTIES Settles
CHECK_DEADLOCK FALSE
