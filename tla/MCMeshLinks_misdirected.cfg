SPECIFICATION Spec
CONSTANTS
    Node = {1, 2, 3}
    Host = {hostA, hostB}
    hostA = hostA
    hostB = hostB
    red = red
    AnyHost = anyHost
    Loopback = loopback
    Port = {1, 2}
    HostOf <- TwoHosts
    Bind <- BindAny
    Ports <- SharedPort
    ClusterOf <- OneCluster
    Conn = {c1, c2}
    NoConn = noConn
    NoEnd = noEnd
    NoAddr = noAddr
    MaxFaults = 0
INVARIANT NoStuckMark
