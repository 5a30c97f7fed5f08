\* Two clients and two runs on one shared task; the event loop makes progress.
SPECIFICATION FairSpec
CONSTANTS
    Clients = {c1, c2}
    Runs = {r1, r2}
    NoRun = NoRun
    Swallows = FALSE
    MaxCancels = 2
INVARIANTS TypeOK OnlyCancelsRepeat RunningIsCancellable EveryRunReports
PROPERTY PanelUnlocks
