\* Setters, the writer, flush() and crashes in any interleaving.
SPECIFICATION FairSpec
CONSTANTS
    Tables = {t1}
    Keys = {k1, k2}
    Writer = writer
    Flushers = {main}
    Missing = Missing
    MaxWrites = 2
INVARIANTS TypeOK IdleMeansDurable NoLostWakeup
PROPERTIES UntouchedRowsSurvive DiskNeverGoesBack ChangesReachDisk
