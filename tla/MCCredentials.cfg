\* Two processes of one installation, and two ways to ask for a card.
SPECIFICATION Spec
SYMMETRY Processes
CONSTANTS
    p1 = p1
    p2 = p2
    Procs = {p1, p2}
    Requests <- MCRequests
    DefaultKeys <- MCDefaultKeys
    Absent = Absent
    Empty = Empty
    NoCard = NoCard
    Serials = {1}
    MaxKeys = 3
    MaxMishaps = 2
    MaxTime = 1
INVARIANTS
    OneInstallation
    
PROPERTIES
    KeyIsForever
CHECK_DEADLOCK FALSE
