\* What becomes of the frames that are sent on.
SPECIFICATION Spec
CONSTANTS
    p1 = p1
    p2 = p2
    p3 = p3
    addr1 = addr1
    f1 = f1
    f2 = f2
    Self = Self
    NoAddr = NoAddr
    Peers = {p1, p2, p3}
    Addrs = {addr1}
    PeerLists <- MCPeerLists
    Targets = {p1}
    Forwards = {f1, f2}
    MaxClients = 3
    MaxPeers = 2
    Timeout = 2
    MaxTtl = 2
    MaxMerges = 2
    MaxHops = 3
INVARIANTS
    ForwardedIsTaken
