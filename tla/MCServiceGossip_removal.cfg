SPECIFICATION Spec
CONSTANTS
    n1 = n1
    n2 = n2
    n3 = n3
    red = red
    blue = blue
    Node = {n1, n2}
    Origin = {n1}
    Stoppable = {n1}
    Name = {s1, s2}
    Endpoint = {e1}
    NoEndpoint = none
    TTL = 1
    Request = {q1}
    Cluster = {red, blue}
    ClusterOf <- OneCluster
    Offset <- NoSkew
    BatchLimit = 1
    MaxVersion = 1
    MaxTime = 0
    MaxRestarts = 0
    MaxQueue = 1
INVARIANT TombstoneRemovesOne
PROPERTY LeaveRemovesServices
CHECK_DEADLOCK FALSE
