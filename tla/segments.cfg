SPECIFICATION Spec
CONSTANTS
    Proc = {p1, p2}
    Recorder = {r1, r2}
    SegmentId = {s1, s2}
    LastFile = 1
    MaxObservers = 1
    Fails = TRUE
    Redelivered = {"process"}
    Reopens = TRUE
    Breaks = TRUE
SYMMETRY SegmentIds
INVARIANTS
    OneRowPerFile
    NoFileSkipped
    AnswersWithinPool
PROPERTIES
    ImplementsLedger
    OpenFileIsCutOnlyAtTheEnd
