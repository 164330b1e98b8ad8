SPECIFICATION ClientSpec
CONSTANTS
    a1 = a1
    a2 = a2
    ServiceName <- Colliding
    App = {a1, a2}
    DNSOnGateway = FALSE
    WholeRange = TRUE
    MaxRestarts = 1
    Hash <- Hashes
SYMMETRY Symmetry
INVARIANT AsksItsName
CHECK_DEADLOCK FALSE
