SPECIFICATION FairSpec
CONSTANTS
    entry = entry
    final = final
    other = other
    NoStage = NoStage
    NoWorker = NoWorker
    NoExec = NoExec
    Worker = {w1, w2}
    Sweeper = {s1}
    Api = {a1}
    Stage = {final}
    Continuation <- MCContinuation
    ClaimsAs <- MCOwnClaim
    Gated = {}
    AutoTriggered = {}
    SilentReturn = {final}
    MaxGeneration = 2
    MaxEnqueueAttempts = 1
    Faults = {"crash", "cancel", "enqueue_error"}
    MaxFaults = 1
INVARIANTS LiveOwnerKeepsRow StaleMeansSuperseded
PROPERTIES Settles TerminalIsFinal
CHECK_DEADLOCK FALSE
