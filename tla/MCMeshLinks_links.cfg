SPECIFICATION FairSpec
CONSTANTS
    Node = {1, 2}
    Host = {hostA, hostB}
    hostA = hostA
    hostB = hostB
    red = red
    AnyHost = anyHost
    Loopback = loopback
    Port = {1, 2, 3}
    HostOf <- OneHost
    Bind <- BindLoopback
    Ports <- OwnPorts
    ClusterOf <- OneCluster
    Conn = {c1, c2}
    NoConn = noConn
    NoEnd = noEnd
    NoAddr = noAddr
    MaxFaults = 1
INVARIANTS IndInv NoStuckMark NoDuplicateDials PeersWatched
PROPERTY EventuallyLinked
