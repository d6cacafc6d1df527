SPECIFICATION Spec
CONSTANTS
    t1 = t1
    Task = {t1}
    Account = {a1}
    Node = {n1}
    MaxRestarts = 1
    DailyLimit = 1
    MaxBrowser <- OneBrowser
    Score <- NoRanking
    Candidate = {c1}
    CandTask <- CandOfTask
    SessionId = {s1, s2}
    JobId = {j1}
    Thread = {h1, h2}
    Reported = {"waiting", "failed", "lost", "closed"}
    Tab = {}
    Admin = admin
SYMMETRY Interchangeable
INVARIANTS
    OneActiveSession
