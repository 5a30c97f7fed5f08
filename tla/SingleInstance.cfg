\* Three launches race, crash and exit; system calls may fail.
SPECIFICATION FairLaunchSpec
CONSTANTS
    Procs = {p1, p2, p3}
    NoFile = NoFile
    NoRecord = NoRecord
    ReadAttempts = 2
    PromptWriters = TRUE
INVARIANTS RaceHasOneWinner NeverLockedOut
PROPERTIES LaunchSettles
CHECK_DEADLOCK FALSE
