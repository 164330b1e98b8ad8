SPECIFICATION Spec
CONSTANTS
    n1 = n1
    n2 = n2
    n3 = n3
    red = red
    blue = blue
    Node = {n1, n2}
    Origin = {n1}
    Stoppable = {n1}
    Name = {s1}
    Endpoint = {e1}
    NoEndpoint = none
    TTL = 1
    Request = {q1}
    Cluster = {red, blue}
    ClusterOf <- OneCluster
    Offset <- Skewed
    BatchLimit = 1
    MaxVersion = 1
    MaxTime = 2
    MaxRestarts = 1
    MaxQueue = 1
INVARIANTS IndInv FreshListing
CHECK_DEADLOCK FALSE
