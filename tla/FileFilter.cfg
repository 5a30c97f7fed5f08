\* Two threads and other programs in two trees; whatever runs, runs in one second.
SPECIFICATION Spec
CONSTANTS
    docs = docs
    work = work
    Sorted <- Listing
    Present <- There
    ExtOf <- ExtOfName
    Jobs = {j1, j2}
    Seconds = {s1}
    MaxCalls = 2
    MaxUpsets = 1
CHECK_DEADLOCK FALSE
SYMMETRY Alike
INVARIANTS NothingLost RoundTrip MovesAsConfirmed ArchiveIsWhole
