\* Two threads, a preview and other programs in one directory, on every machine.
SPECIFICATION Spec
CONSTANTS
    Sorted <- Letters
    Fold <- Lower
    Systems <- Every
    Files = {f1, f2}
    NoFile = NoFile
    Threads = {t1, t2}
    MaxCalls = 2
    MaxUpsets = 1
CHECK_DEADLOCK FALSE
SYMMETRY Alike
INVARIANTS NothingLost RoundTrip
PROPERTY ShownIsRun
