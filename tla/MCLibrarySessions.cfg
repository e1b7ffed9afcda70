\* Two slots, IDs that wrap at 5 (one more than can be reserved), profiles kept after close.
CONSTANTS
    h1 = h1
    h2 = h2
    t1 = t1
    t2 = t2
    None = None
    Hosts = {h1, h2}
    TrustBytes = {t1, t2}
    MaxSessionId = 5
    MaxSessions = 2
    Installed = {"tls12", "tls13"}
    ArmDevice = FALSE
    Requests <- OneRequest
    OptionSets <- Profiled
    Faults = {"HandshakeFailed", "ConfigurationFailed"}
    MaxOpens = 2
VIEW StateView
SPECIFICATION Spec
INVARIANTS
    IdsUnambiguous
PROPERTIES
    LiveSessionUndisturbed
    BusyMeansInUse
    ClosedProfileKept
    ServiceSpec
