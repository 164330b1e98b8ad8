SPECIFICATION FairSpec
CONSTANTS
    c1 = c1
    s1 = s1
    s2 = s2
    admin1 = admin1
    rpc1 = rpc1
    Conn = {c1}
    Stream = {s1, s2}
    ConnOf <- Shared
    Call = {admin1, rpc1}
    AdminCall = {admin1}
INVARIANTS IndInv DrainsActive CallsFinish
PROPERTY NodeStops
CHECK_DEADLOCK FALSE
