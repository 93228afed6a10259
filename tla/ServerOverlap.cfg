\* Overlapping addresses on one port.
SPECIFICATION FairSpec
CONSTANTS
    c1 = c1
    c2 = c2
    c3 = c3
    Conns <- MCConns
    Addresses <- MCAddresses
    Limits <- MCLimits
    Overlaps <- MCOverlaps
    NoConn = NoConn
    NoAddress = NoAddress
    MaxPublish = 1
    MaxFaults = 0
PROPERTIES
    FollowsBind
CHECK_DEADLOCK FALSE
