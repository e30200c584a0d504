SPECIFICATION Spec
CONSTANTS
    None = None
    Draft = {d1, d2}
    Branched = {}
    Compiled = {}
    Request = {r1}
    Content = {x, y}
    Ops = {"request_changes", "resubmit", "withdraw"}
    Revised = {d1, d2}
    MaxVersion = 2
    MaxPage = 3
    MaxGeneration = 1
INVARIANTS ApprovedCanPublish
CHECK_DEADLOCK FALSE
