SPECIFICATION Spec
CONSTANTS
    t1 = t1
    n1 = n1
    w1 = w1
    Task = {t1}
    Account = {a1, a2}
    Node = {n1, n2}
    Candidate = {}
    SessionId = {s1, s2}
    JobId = {}
    Observer = {o1}
    Worker = {w1, w2}
    Admin = admin
    MaxRestarts = 1
    DailyLimit = 1
    Unreliable = FALSE
    Editable = {a1, n1}
    QueueBound = 1
    MaxBrowser <- OneBrowser
    Score <- SameRanking
    CandTask <- CandInT1
    Watches <- WatchT1
    Runs <- W1OnN1
SYMMETRY SessionIds
INVARIANTS
    WaitingSessionHasBrowser
PROPERTIES
    DecisionsFit
    PlanUsesBestNodes
