\* One process, of either backend, ended and started again anywhere.
SPECIFICATION StoresSpec
CONSTANTS
    a1 = a1
    a2 = a2
    k1 = k1
    k2 = k2
    n1 = n1
    n2 = n2
    th1 = th1
    th2 = th2
    p1 = p1
    p2 = p2
    NoKey = NoKey
    NoNonce = NoNonce
    Idle = Idle
    Auths = {a1, a2}
    Keys = {k1, k2}
    Manifests <- MCManifests
    MaxAccepts = 2
    Backends = {"json", "sqlite"}
    Threads = {th1, th2}
    Procs = {p1}
    MaxNonces = 2
SYMMETRY ThreadSymmetry
INVARIANTS
    StoresTypeOK
    AcceptedOnce
    AddedIsTrusted
    AcceptedIsPersisted
PROPERTIES
    NoRollback
    PersistedTrustSurvives
