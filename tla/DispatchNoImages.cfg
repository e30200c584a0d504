SPECIFICATION Spec
CONSTANTS
    entry = entry
    final = final
    other = other
    NoStage = NoStage
    NoWorker = NoWorker
    NoExec = NoExec
    Worker = {w1, w2}
    Sweeper = {s1}
    Api = {a1}
    Stage = {entry, final, other}
    Continuation <- MCContinuation
    ClaimsAs <- MCNoImages
    Gated = {}
    AutoTriggered = {}
    SilentReturn = {}
    MaxGeneration = 1
    MaxEnqueueAttempts = 2
    Faults = {}
    MaxFaults = 0
INVARIANTS RunsAreClaimed
CHECK_DEADLOCK FALSE
SYMMETRY Workers
