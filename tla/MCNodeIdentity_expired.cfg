SPECIFICATION Spec
CONSTANTS
    Node = {"n", "m"}
    Client = {"c"}
    Run = {1, 2, 3}
    IdOf <- EnrolIds
    Kind <- EnrolKinds
    ClusterOf <- OneCluster
    Remote = 0
    Missing = 98
    Torn = 99
    MaxCrashes = 0
    MaxExpired = 1
PROPERTY EnrolledUsable
CHECK_DEADLOCK FALSE
