\* Two connections, two publications, one fault, one kill and one restart.
SPECIFICATION GatewaySpec
CONSTANTS
    c1 = c1
    c2 = c2
    Conns <- MCConns
    OwnFiles <- MCOwnFiles
    Addresses <- MCAddresses
    Limits <- MCLimits
    Overlaps <- MCOverlaps
    NoConn = NoConn
    NoAddress = NoAddress
    MaxPublish = 2
    MaxFaults = 1
    OwnNeeds <- MCOwnNeeds
    OwnLocale = "en-US"
    MaxKills = 1
    MaxStarts = 2
    MaxMeddling = 1
INVARIANTS
    GatewayInv
    ActiveCounts
    KeepsListening
    FirstRunIsWhole
    FailsForAReason
CHECK_DEADLOCK FALSE
PROPERTIES
    WithinLimit
    KeepsExistingFiles
    Decided
    FollowsBindUnlessRefused
    EndsWithWatcher
