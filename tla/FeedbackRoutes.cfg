SPECIFICATION FairSpec
CONSTANTS
    Command = {c1, c2}
    Kind = {rated, accepted}
    Routed = {rated}
    Drain = {d1, d2}
    Limit = 2
    MaxAttempts = 2
    AssignCommand = {k1, k2}
    Owner = {o1}
    MaxVersion = 3
    None = None
INVARIANTS OneOutcome HistoryExplainsAssignment
PROPERTIES LiveLeaseHonoured FeedbackContractHolds RoutesSettle
CHECK_DEADLOCK FALSE
