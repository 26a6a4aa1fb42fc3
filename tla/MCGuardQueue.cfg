CONSTANTS
    Syncs = {s1, s2}
    Poller = Poller
    Breaches = {b1}
    Overrides = {o1, o2}
    NoFile = NoFile
    Torn = Torn
    NoAnswer = NoAnswer
    Answers = {"unreadable"}
    BatchLimit = 1
    MaxVersion = 1
    MaxRows = 4
SPECIFICATION GuardSyncSpec
INVARIANTS
    GuardSyncTypeOK
    NothingUnreported
PROPERTIES
    KeepsTheTrail
