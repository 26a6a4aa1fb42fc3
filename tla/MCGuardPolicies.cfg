CONSTANTS
    Syncs = {s1}
    Poller = Poller
    Breaches = {}
    Overrides = {}
    NoFile = NoFile
    Torn = Torn
    NoAnswer = NoAnswer
    Answers = {"policies", "none", "unreadable"}
    BatchLimit = 0
    MaxVersion = 3
    MaxRows = 0
SPECIFICATION FairGuardSyncSpec
PROPERTIES
    NeverGoesBack
    ChangesReachTheWatcher
