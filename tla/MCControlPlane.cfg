\* Two handlers at once, three codes, and three devices for a pool that has room
\* for two besides the relay and the configured client.
SPECIFICATION Spec
CONSTANTS
    None = None
    Pruned = Pruned
    static = static
    Codes = {c1, c2, c3}
    Devices = {d1, d2, d3}
    Statics <- OneStatic
    StaticAddress <- OneStaticAddress
    RelayAddress = 1
    PoolSize = 4
    Threads = {t1, t2}
    MaxKeys = 3
    TTL = 1
    Retention = 1
SYMMETRY Symmetry
INVARIANTS
    CodesWorkOnce
    AddressesUnique
    NeverRefused
    DurableBeforeLive
    AuditTellsHistory
    RelayMirrorsStore
PROPERTIES
    ImplementsRegistry
