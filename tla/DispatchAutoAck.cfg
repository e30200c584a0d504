SPECIFICATION Spec
CONSTANTS
    entry = entry
    final = final
    other = other
    NoStage = NoStage
    NoWorker = NoWorker
    NoExec = NoExec
    Worker = {w1, w2}
    Sweeper = {s1}
    Api = {a1}
    Stage = {entry, final}
    Continuation <- MCContinuation
    ClaimsAs <- MCOwnClaim
    Gated = {}
    AutoTriggered = {entry}
    SilentReturn = {}
    MaxGeneration = 1
    MaxEnqueueAttempts = 2
    Faults = {}
    MaxFaults = 0
INVARIANTS LiveOwnerKeepsRow
CHECK_DEADLOCK FALSE
SYMMETRY Workers
