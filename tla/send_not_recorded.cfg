SPECIFICATION Spec
CONSTANTS
    t1 = t1
    n1 = n1
    w1 = w1
    Task = {t1}
    Account = {a1}
    Node = {n1}
    Candidate = {c1}
    SessionId = {s1, s2}
    JobId = {j1}
    Observer = {o1}
    Worker = {w1}
    Admin = admin
    MaxRestarts = 1
    DailyLimit = 1
    Unreliable = FALSE
    Editable = {}
    QueueBound = 2
    MaxBrowser <- OneBrowser
    Score <- SameRanking
    CandTask <- CandInT1
    Watches <- WatchT1
    Runs <- AllOnN1
PROPERTIES
    CompletedSendIsRecorded
