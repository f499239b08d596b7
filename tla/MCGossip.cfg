\* Two nodes, one of which may be restarted.
SPECIFICATION FairSpec
CONSTANTS
    na = na
    nb = nb
    s1 = s1
    s2 = s2
    Default = Default
    NoName = NoName
    Nodes = {na, nb}
    Serials = {s1, s2}
    Topology <- MCTopology
    Pinnable <- MCPinnable
    Origins <- MCOrigins
    Unsteady = {na}
    Fanout = 1
    MaxLives = 2
    MaxRebuilds = 1
    MaxInFlight = 1
INVARIANTS
    TypeOK
    FoundAreGossiped
PROPERTIES
    KeptForLife
    Spreads
