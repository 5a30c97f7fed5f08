\* Two pages, from startup to shutdown.
SPECIFICATION Spec
CONSTANTS
    garbled = garbled
    parked = parked
    renamer = renamer
    filter = filter
    Manifests <- Listing
    Garbled = {garbled}
    Parked = {parked}
    Unknown = Unknown
    Pages = {p1, p2}
    Stored <- Lists
    RecentLimit = 2
    MaxClicks = 3
CHECK_DEADLOCK FALSE
INVARIANTS HandledOnce CleanShutdown PageIsComplete
PROPERTIES EveryPageIsShown VerdictsStand
