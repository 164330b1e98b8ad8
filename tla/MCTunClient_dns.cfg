SPECIFICATION ClientSpec
CONSTANTS
    a1 = a1
    a2 = a2
    ServiceName <- OneRouted
    App = {a1, a2}
    DNSOnGateway = TRUE
    WholeRange = FALSE
    MaxRestarts = 1
    Hash <- Hashes
SYMMETRY Symmetry
INVARIANT Resolves
CHECK_DEADLOCK FALSE
