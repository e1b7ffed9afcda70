\* One slot on an ARM device, every kind of request, all caching options, two engines.
CONSTANTS
    h1 = h1
    h2 = h2
    t1 = t1
    t2 = t2
    None = None
    Hosts = {h1, h2}
    TrustBytes = {t1, t2}
    MaxSessionId = 3
    MaxSessions = 1
    Installed = {"tls12", "tls13"}
    ArmDevice = TRUE
    Requests <- AllRequests
    OptionSets <- CacheOptions
    Faults = {"NoMemory", "HandshakeFailed", "ResourceMissing", "InitializationFailed"}
    MaxOpens = 2
VIEW StateView
SPECIFICATION Spec
INVARIANTS
    TypeOK
    ExactReuse
    HeapBalanced
    ArmFallback
