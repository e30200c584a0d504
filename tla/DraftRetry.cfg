SPECIFICATION Spec
CONSTANTS
    None = None
    Draft = {d1, d2}
    Branched = {d1}
    Compiled = {d2}
    Request = {r1, r2}
    Content = {x, y}
    Ops = {"update", "submit", "resubmit", "rebase", "reject", "request_changes", "withdraw", "submit_branch", "merge", "close", "override", "reingest", "retry"}
    Revised = {d1}
    MaxVersion = 2
    MaxPage = 3
    MaxGeneration = 2
PROPERTY SupersededStaysOut
CHECK_DEADLOCK FALSE
