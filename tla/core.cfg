SPECIFICATION Spec
CONSTANTS
    t1 = t1
    n1 = n1
    w1 = w1
    Task = {t1}
    Account = {a1}
    Node = {n1}
    Candidate = {c1, c2}
    SessionId = {s1, s2}
    JobId = {j1, j2}
    Observer = {o1}
    Worker = {w1, w2}
    Admin = admin
    MaxRestarts = 1
    DailyLimit = 1
    Unreliable = TRUE
    Editable = {}
    QueueBound = 1
    MaxBrowser <- OneBrowser
    Score <- SameRanking
    CandTask <- CandInT1
    Watches <- WatchT1
    Runs <- AllOnN1
SYMMETRY IdsAndWorkers
INVARIANTS
    TypeOK
    RunningJobHasActiveSession
    SendingHasRunningJob
    OneAttemptPerFinishedJob
    OneJobPerApprovedCandidate
    SendsAreCounted
    WithinDailyLimit
    RestartsFormAChain
PROPERTIES
    OverIsOver
    ClosingOnlyEnds
