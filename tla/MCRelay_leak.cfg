SPECIFICATION Spec
CONSTANTS
    Count <- Amounts
    ServerFirst = FALSE
    Window = 1
    Chains <- AllChains
PROPERTIES SessionEnds HandlerReturns
CHECK_DEADLOCK FALSE
