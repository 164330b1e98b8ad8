SPECIFICATION FairSpec
CONSTANTS
    Node = {1, 2}
    Host = {hostA, hostB}
    hostA = hostA
    hostB = hostB
    red = red
    AnyHost = anyHost
    Loopback = loopback
    Port = {1}
    HostOf <- TwoHosts
    Bind <- BindAny
    Ports <- SamePort
    ClusterOf <- OneCluster
    Conn = {c1, c2}
    NoConn = noConn
    NoEnd = noEnd
    NoAddr = noAddr
    MaxFaults = 0
PROPERTIES EventuallyLinked
