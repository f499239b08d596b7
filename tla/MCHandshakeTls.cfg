\* Two agents over mutual TLS, trusted authority, no faults.
SPECIFICATION FairSpec
CONSTANTS
    c1 = c1
    c2 = c2
    p1 = p1
    p2 = p2
    q = q
    a1 = a1
    k1 = k1
    k2 = k2
    NoKey = NoKey
    Conns = {c1}
    Processes = {p1, q}
    Authorities = {a1}
    Keys = {k1, k2}
    Mccs <- MCMccs
    Setups <- MCTlsSetups
    Expiring = {}
    Timers = {}
    Losses = {}
PROPERTIES
    TrustedAgentsBind
