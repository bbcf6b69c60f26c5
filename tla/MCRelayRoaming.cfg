\* One client whose paths change address and fall silent, packets towards it,
\* and ages that separate an unhealthy path, a deleted path and an expired session.
SPECIFICATION FairSpec
CONSTANTS
    a = a
    b = b
    k1 = k1
    k2 = k2
    n1 = n1
    n2 = n2
    n3 = n3
    n4 = n4
    ipA = ipA
    ipB = ipB
    t1 = t1
    t2 = t2
    None = None
    Clients = {a}
    Offers <- RoamingOffers
    Hellos <- RoamingHellos
    Addresses = {x, y}
    SessionIds = {s1}
    MaxPathId = 2
    Threads = {t1}
    HealthTimeout = 0
    PathTimeout = 1
    SessionTimeout = 1
    Destinations = {ipA}
INVARIANTS
    ClosingIsLeaving
PROPERTIES
    SilentSessionsExpire
    RevokedClientsLeave
    RemoteFollowsAuthenticatedPackets
