SPECIFICATION ClientSpec
CONSTANTS
    a1 = a1
    a2 = a2
    ServiceName <- Mixed
    App = {a1, a2}
    DNSOnGateway = FALSE
    WholeRange = TRUE
    MaxRestarts = 1
    Hash <- Hashes
SYMMETRY Symmetry
INVARIANTS IndInv AsksLookedUp
CHECK_DEADLOCK FALSE
