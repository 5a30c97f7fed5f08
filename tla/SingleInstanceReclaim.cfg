\* Launches that find the lock of a dead process.
SPECIFICATION LaunchSpec
CONSTANTS
    Procs = {p1, p2, p3}
    NoFile = NoFile
    NoRecord = NoRecord
    ReadAttempts = 2
    PromptWriters = TRUE
INVARIANTS AtMostOneRunning
CHECK_DEADLOCK FALSE
