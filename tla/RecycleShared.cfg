\* Two threads recycle, restore, delete and purge; moves may fail.
SPECIFICATION Spec
CONSTANTS
    i1 = i1
    i2 = i2
    p1 = p1
    p2 = p2
    v1 = v1
    v2 = v2
    Items = {i1, i2}
    Volumes = {v1, v2}
    Central = v1
    Threads = {t1, t2}
    Paths <- OnePath
    Home <- HomeSame
    Volume <- OnOther
    Retention = 2
    MaxTime = 3
    Troubles <- Mild
INVARIANTS Restorable PurgeIsComplete PurgeLeavesNoOrphans NothingClobbered
PROPERTY KeepsRetention
