SPECIFICATION FairSpec
CONSTANTS
    wss = wss
    auth = auth
    c1 = c1
    c2 = c2
    Listeners <- Ports
    Conns <- TwoConns
    PortOf <- TwoPorts
    threads_count = 2
    None = None
    MaxRequests = 2
    MaxStuck = 1
    MaxErrors = 1
CHECK_DEADLOCK FALSE
INVARIANT AlwaysListening
INVARIANT StrandsSerial
PROPERTY Accepted
PROPERTY Served
