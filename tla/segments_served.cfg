SPECIFICATION FairSpec
CONSTANTS
    Proc = {p1, p2}
    Recorder = {r1}
    SegmentId = {s1, s2, s3}
    LastFile = 2
    MaxObservers = 1
    Fails = FALSE
    Redelivered = {}
    Reopens = FALSE
    Breaks = FALSE
PROPERTIES
    FinishedFileIsProcessed
