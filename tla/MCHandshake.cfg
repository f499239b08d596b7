\* Two connections whose ends share root stores; faults on one of them.
SPECIFICATION FairSpec
CONSTANTS
    c1 = c1
    c2 = c2
    p1 = p1
    p2 = p2
    q = q
    a1 = a1
    k1 = k1
    k2 = k2
    NoKey = NoKey
    Conns = {c1, c2}
    Processes = {p1, p2, q}
    Authorities = {a1}
    Keys = {k1, k2}
    Mccs <- MCMccs
    Setups <- MCSetups
    Expiring = {a1}
    Timers = {c2}
    Losses = {c2}
INVARIANTS
    TypeOK
    MutualAuthentication
    OneKeyPerAuthority
    KeyAgreement
    NoMutualWait
PROPERTIES
    EveryHandshakeReturns
