SPECIFICATION Spec
CONSTANTS
    t1 = t1
    n1 = n1
    w1 = w1
    Task = {t1}
    Account = {a1}
    Node = {n1}
    Candidate = {}
    SessionId = {s1, s2, s3}
    JobId = {}
    Observer = {o1, o2}
    Worker = {w1}
    Admin = admin
    MaxRestarts = 1
    DailyLimit = 1
    Unreliable = FALSE
    Editable = {t1}
    QueueBound = 1
    MaxBrowser <- OneBrowser
    Score <- SameRanking
    CandTask <- CandInT1
    Watches <- WatchT1
    Runs <- AllOnN1
SYMMETRY SessionsAndObservers
INVARIANTS
    OneActiveSession
    KeyFollowsStatus
PROPERTIES
    ImplementsSlots
