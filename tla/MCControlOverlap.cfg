\* Calls about one device overlap.
SPECIFICATION Spec
CONSTANTS
    None = None
    Pruned = Pruned
    static = static
    Codes = {c1}
    Devices = {d1}
    Statics <- OneStatic
    StaticAddress <- OneStaticAddress
    RelayAddress = 1
    PoolSize = 4
    Threads = {t1, t2}
    MaxKeys = 3
    TTL = 1
    Retention = 1
SYMMETRY Symmetry
INVARIANTS
    ChangesTakeEffect
