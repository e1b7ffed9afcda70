\* One slot, one engine (TLS 1.2): reads after closes and purges.
CONSTANTS
    h1 = h1
    h2 = h2
    t1 = t1
    t2 = t2
    None = None
    Hosts = {h1, h2}
    TrustBytes = {t1, t2}
    MaxSessionId = 3
    MaxSessions = 1
    Installed = {"tls12"}
    ArmDevice = FALSE
    Requests <- OneRequest
    OptionSets <- Profiled
    Faults = {"HandshakeFailed"}
    MaxOpens = 2
SPECIFICATION Spec
PROPERTIES
    EofIsFromTheSession
