\* A scan, a resolve and the user on one tree.
SPECIFICATION Spec
CONSTANTS
    x = x
    y = y
    z = z
    Sorted <- Tree
    Contents <- Texts
    Size <- Lengths
    Digest <- Hashes
    NoPath = NoPath
    Linked = {}
    MaxTime = 1
    Upsets = 1
SYMMETRY Alike
INVARIANTS ResolveIsComplete GroupsAreRight
PROPERTY OneCopyStays
