\* flush() while the writer is at work.
SPECIFICATION Spec
CONSTANTS
    Tables = {t1}
    Keys = {k1, k2}
    Writer = writer
    Flushers = {main}
    Missing = Missing
    MaxWrites = 2
INVARIANTS FlushIsLossless
