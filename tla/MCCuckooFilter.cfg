\* Three serials with any hashes, each inserted up to three times, in buckets of two.
SPECIFICATION Spec
CONSTANTS
    x1 = x1
    x2 = x2
    x3 = x3
    NoItem = NoItem
    Items = {x1, x2, x3}
    Hashes <- MCHashes
    Slots = 2
    MaxKicks = 2
    StartBuckets = 1
    MaxBuckets = 4
    MaxInserts = 3
SYMMETRY ItemSymmetry
INVARIANTS
    EntriesInPlace
    NothingForgotten
    AcceptedAreFound
