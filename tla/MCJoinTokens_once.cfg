SPECIFICATION FairSpec
CONSTANTS
    Token = {t1, t2}
    NodeID = {n1, n2}
    Taken = {n2}
    Request = {r1, r2}
    Command = {c1, c2}
    Torn = Torn
    NoRequest = NoRequest
    WhileRunning = FALSE
    MaxCrashes = 1
INVARIANTS IndInv OneTime
PROPERTY Answered OneTimeTokens
CHECK_DEADLOCK FALSE
