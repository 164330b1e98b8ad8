SPECIFICATION Spec
CONSTANTS
    Count <- Amounts
    ServerFirst = TRUE
    Window = 1
    Chains <- OneHop
INVARIANT InOrder
CHECK_DEADLOCK FALSE
