SPECIFICATION Spec
CONSTANTS
    entry = entry
    final = final
    other = other
    NoStage = NoStage
    NoWorker = NoWorker
    NoExec = NoExec
    Worker = {w1, w2}
    Sweeper = {s1, s2}
    Api = {a1}
    Stage = {entry, final}
    Continuation <- MCContinuation
    ClaimsAs <- MCOwnClaim
    Gated = {}
    AutoTriggered = {}
    SilentReturn = {entry}
    MaxGeneration = 1
    MaxEnqueueAttempts = 2
    Faults = {"crash", "cancel", "enqueue_error"}
    MaxFaults = 2
INVARIANTS OutboxInv ExhaustedUsedBudget
PROPERTIES DispatchContractHolds
CHECK_DEADLOCK FALSE
SYMMETRY Workers
