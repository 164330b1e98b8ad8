SPECIFICATION Spec
CONSTANTS
    Token = {t1, t2}
    NodeID = {n1, n2}
    Taken = {n2}
    Request = {r1, r2}
    Command = {c1, c2}
    Torn = Torn
    NoRequest = NoRequest
    WhileRunning = TRUE
    MaxCrashes = 2
INVARIANTS OneTime PrintedIsValid
CHECK_DEADLOCK FALSE
