\* One thread, two volumes; kills, failing moves and removals, or edited manifests.
SPECIFICATION Spec
CONSTANTS
    i1 = i1
    i2 = i2
    p1 = p1
    p2 = p2
    v1 = v1
    v2 = v2
    Items = {i1, i2}
    Volumes = {v1, v2}
    Central = v1
    Threads = {t1}
    Paths <- TwoPaths
    Home <- HomeApart
    Volume <- OnTwo
    Retention = 2
    MaxTime = 2
    Troubles <- Harsh
PROPERTY KeepsRetention
