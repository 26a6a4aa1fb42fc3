CONSTANTS
    Syncs = {s1}
    Poller = Poller
    Breaches = {}
    Overrides = {}
    NoFile = NoFile
    Torn = Torn
    NoAnswer = NoAnswer
    Answers = {"policies", "none", "unreadable"}
    BatchLimit = 0
    MaxVersion = 1
    MaxRows = 0
SPECIFICATION GuardSyncSpec
INVARIANTS
    NoEtagForNothing
