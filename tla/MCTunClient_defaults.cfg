SPECIFICATION ClientSpec
CONSTANTS
    a1 = a1
    a2 = a2
    ServiceName <- OneOutside
    App = {a1, a2}
    DNSOnGateway = FALSE
    WholeRange = FALSE
    MaxRestarts = 1
    Hash <- Hashes
SYMMETRY Symmetry
INVARIANTS AsksService Routed
CHECK_DEADLOCK FALSE
