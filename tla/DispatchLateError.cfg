SPECIFICATION Spec
CONSTANTS
    entry = entry
    final = final
    other = other
    NoStage = NoStage
    NoWorker = NoWorker
    NoExec = NoExec
    Worker = {w1, w2}
    Sweeper = {s1}
    Api = {a1}
    Stage = {final}
    Continuation <- MCContinuation
    ClaimsAs <- MCOwnClaim
    Gated = {}
    AutoTriggered = {}
    SilentReturn = {}
    MaxGeneration = 2
    MaxEnqueueAttempts = 2
    Faults = {"crash"}
    MaxFaults = 1
PROPERTIES StaleNeverMarksError
CHECK_DEADLOCK FALSE
SYMMETRY Workers
