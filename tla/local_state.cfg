SPECIFICATION Spec
\* A file that a commit left unreadable stops every later start.
CHECK_DEADLOCK FALSE
CONSTANTS
    Account = {a1}
    Platform = {xhs, douyin}
    Process = {p1, p2}
    Checks = 2
    MaxComments = 1
SYMMETRY Names
CONSTRAINT Bounded
INVARIANTS
    TypeOK
    EveryAccountHasItsProfile
    ForgetsOnlyWhenOvertaken
    FileIsTheLastCommit
    ReportedCommentsWereSent
