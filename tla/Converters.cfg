\* Two runs of one panel, and an edit between or during them.
SPECIFICATION Spec
CONSTANTS
    Readable <- Accepts
    Starts <- Lists
    Pages = 3
    PerPart = 2
    Tokens <- Weights
    Limit = 2
    Toc = 1
    Silent <- Mute
    Locked <- Secret
    Pipe = 1
    Lines = 1
    Stamped = {1}
    Noise = 2
    MaxRuns = 2
    MaxEdits <- Edits
CHECK_DEADLOCK FALSE
INVARIANTS DoneAsAsked NoTruncatedVideo NoReportLost NoUnlockedCopy
PROPERTIES EncodeEnds
