SPECIFICATION Spec
CONSTANTS
    Count <- Amounts
    ServerFirst = FALSE
    Window = 1
    Chains <- AllChains
INVARIANTS IndInv InOrder SuccessIsWhole Counted
PROPERTY HopEnds
CHECK_DEADLOCK FALSE
