\* Two clients, one of them with two keys and a legacy HELLO, two control plane
\* calls in progress at once, two sessions, one source address.
SPECIFICATION Spec
CONSTANTS
    a = a
    b = b
    k1 = k1
    k2 = k2
    n1 = n1
    n2 = n2
    n3 = n3
    n4 = n4
    ipA = ipA
    ipB = ipB
    t1 = t1
    t2 = t2
    None = None
    Clients = {a, b}
    Offers <- RotationOffers
    Hellos <- RotationHellos
    Addresses = {x}
    SessionIds = {s1, s2}
    MaxPathId = 2
    Threads = {t1, t2}
    HealthTimeout = 0
    PathTimeout = 0
    SessionTimeout = 0
    Destinations = {}
SYMMETRY Symmetry
INVARIANTS
    SessionsAreAuthorized
    IndexesAgree
    GaugeExact
PROPERTIES
    ClosedForGood
