SPECIFICATION Spec
CONSTANTS
    Node = {"n", "m"}
    Client = {"c"}
    Run = {1, 2, 3, 4, 5, 6}
    IdOf <- MixedIds
    Kind <- MixedKinds
    ClusterOf <- MixedClusters
    Remote = 0
    Missing = 98
    Torn = 99
    MaxCrashes = 1
    MaxExpired = 1
INVARIANTS IndInv OneTrust KeepsIdentity EnrolledConnects
PROPERTY StartKeepsJoined
CHECK_DEADLOCK FALSE
