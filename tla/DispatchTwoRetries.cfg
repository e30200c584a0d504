SPECIFICATION Spec
CONSTANTS
    entry = entry
    final = final
    other = other
    NoStage = NoStage
    NoWorker = NoWorker
    NoExec = NoExec
    Worker = {w1}
    Sweeper = {s1}
    Api = {a1, a2}
    Stage = {final}
    Continuation <- MCContinuation
    ClaimsAs <- MCOwnClaim
    Gated = {}
    AutoTriggered = {}
    SilentReturn = {}
    MaxGeneration = 3
    MaxEnqueueAttempts = 1
    Faults = {}
    MaxFaults = 0
PROPERTIES GenerationMonotone
CHECK_DEADLOCK FALSE
