SPECIFICATION Spec
CONSTANTS
    Node = {"n", "m"}
    Client = {"c"}
    Run = {1, 2, 3}
    IdOf <- NodeIds
    Kind <- NodeKinds
    ClusterOf <- OneCluster
    Remote = 0
    Missing = 98
    Torn = 99
    MaxCrashes = 1
    MaxExpired = 0
INVARIANT StartsAgain
CHECK_DEADLOCK FALSE
