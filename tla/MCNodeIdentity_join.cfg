SPECIFICATION Spec
CONSTANTS
    Node = {"n", "m"}
    Client = {"c"}
    Run = {1, 2, 3}
    IdOf <- NodeIds
    Kind <- JoinKinds
    ClusterOf <- OneCluster
    Remote = 0
    Missing = 98
    Torn = 99
    MaxCrashes = 0
    MaxExpired = 0
INVARIANT JoinedStarts
CHECK_DEADLOCK FALSE
