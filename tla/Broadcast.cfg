CONSTANTS
    c1 = c1
    c2 = c2
    Clients <- MCClients
    MaxTicks = 3
    MaxStops = 1
    MaxRejoins = 2
SPECIFICATION Spec
SYMMETRY Symmetry
INVARIANTS TypeOK ListFollowsConnections
PROPERTY ImplementsFeed
CHECK_DEADLOCK FALSE
