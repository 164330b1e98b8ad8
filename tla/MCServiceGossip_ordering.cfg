SPECIFICATION Spec
CONSTANTS
    n1 = n1
    n2 = n2
    n3 = n3
    red = red
    blue = blue
    Node = {n1, n2}
    Origin = {n1}
    Stoppable = {}
    Name = {s1}
    Endpoint = {e1, e2}
    NoEndpoint = none
    TTL = 1
    Request = {q1, q2}
    Cluster = {red, blue}
    ClusterOf <- OneCluster
    Offset <- NoSkew
    BatchLimit = 1
    MaxVersion = 2
    MaxTime = 0
    MaxRestarts = 0
    MaxQueue = 1
INVARIANTS ServiceIDUnique
PROPERTY ImplementsDirectory
