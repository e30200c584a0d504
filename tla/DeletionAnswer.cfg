SPECIFICATION Spec
CONSTANTS
    s1 = s1
    w1 = w1
    w2 = w2
    Source = {s1}
    Ingesting = {s1}
    Object = {"file", "image"}
    Sweeper = {w1, w2}
    Limit = 1
    MaxAttempts = 2
    MaxFaults = 3
INVARIANT AnswerIsTrue
CHECK_DEADLOCK FALSE
