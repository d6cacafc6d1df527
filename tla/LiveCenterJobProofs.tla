------------------------- MODULE LiveCenterJobProofs -------------------------
(***************************************************************************)
(* What is over stays over, no job outlives its session, each finished job *)
(* has its one attempt, LiveCenter implements AccountSlots, and the        *)
(* rebuilds of an account form a chain, for any constants.                 *)
(*                                                                         *)
(* The argument: a session stops being active in three places (the         *)
(* shutdown of its task, a status report, an overdue send) and each of     *)
(* them fails the running jobs of exactly the sessions it ends.  A result  *)
(* is only recorded for a job that is running, so that it finds no attempt *)
(* yet and leaves its session active.                                      *)
(***************************************************************************)
EXTENDS LiveCenterSlotProofs

JobsHaveSessions == \A j \in Jobs : job[j].sess \in Sessions

JobInv ==
    /\ SlotInv
    /\ JobsHaveSessions
    /\ RunningJobHasActiveSession
    /\ OneAttemptPerFinishedJob

\* The jobs of the sessions in S are failed, and no other session ends.
EndsWithJobs(S) ==
    /\ Sessions' = Sessions
    /\ job' = JobsFailed(S)
    /\ \A s \in Sessions \ S : IsActive(s) => session'[s].status \in Active

\* Ended sessions, finished jobs and reviewed candidates stay.
EndedStay == \A s \in Sessions : IsTerminal(s) =>
                 s \in Sessions' /\ session'[s] = session[s]
FinishedStay == \A j \in Jobs : job[j].status # "running" =>
                    j \in Jobs' /\ job'[j] = job[j]
ReviewedStay == \A c \in Candidate :
                    cand[c] \notin {"absent", "pending_review"} =>
                        cand'[c] = cand[c]

\* What failing the jobs of S does.
LEMMA FailingJobs ==
    ASSUME NEW S
    PROVE  /\ DOMAIN JobsFailed(S) = Jobs
           /\ \A j \in Jobs :
                 job[j].status = "running" /\ job[j].sess \in S =>
                     JobsFailed(S)[j] = Finished(job[j], "failed")
           /\ \A j \in Jobs :
                 ~(job[j].status = "running" /\ job[j].sess \in S) =>
                     JobsFailed(S)[j] = job[j]
    BY DEF JobsFailed, RunningJobs

\* Sessions that end with their jobs keep the invariant of the jobs.
LEMMA EndingKeepsJobs ==
    ASSUME JobInv, NEW S, EndsWithJobs(S)
    PROVE  /\ JobsHaveSessions'
           /\ RunningJobHasActiveSession'
           /\ OneAttemptPerFinishedJob'
           /\ FinishedStay
    <1>t. \A j \in Jobs : job[j] \in JobRow
        BY DEF JobInv, SlotInv, Typed, DbOK, IsTable, Jobs
    <1>1. Jobs' = Jobs
        BY FailingJobs DEF EndsWithJobs, Jobs
    <1>2. ASSUME NEW j \in Jobs
          PROVE  /\ job'[j].sess = job[j].sess
                 /\ job'[j].status = "running" =>
                       job[j].status = "running" /\ job[j].sess \notin S
                 /\ job'[j].attempts =
                       IF job'[j].status = "running" THEN <<>>
                       ELSE <<job'[j].status>>
                 /\ job[j].status # "running" => job'[j] = job[j]
        <2>1. CASE job[j].status = "running" /\ job[j].sess \in S
            <3>1. job'[j] = Finished(job[j], "failed")
                BY <2>1, FailingJobs DEF EndsWithJobs
            <3>2. job[j].attempts = <<>>
                BY <2>1 DEF JobInv, OneAttemptPerFinishedJob
            <3>3. "failed" \in Outcome
                BY DEF Outcome
            <3>4. /\ job'[j].sess = job[j].sess /\ job'[j].status = "failed"
                  /\ job'[j].attempts = <<"failed">>
                BY <3>1, <3>2, <3>3, <1>t, FinishedIsRow
            <3> QED BY <2>1, <3>4
        <2>2. CASE ~(job[j].status = "running" /\ job[j].sess \in S)
            <3>1. job'[j] = job[j]
                BY <2>2, FailingJobs DEF EndsWithJobs
            <3> QED BY <2>2, <3>1 DEF JobInv, OneAttemptPerFinishedJob
        <2> QED BY <2>1, <2>2
    <1>3. JobsHaveSessions'
        BY <1>1, <1>2 DEF JobInv, JobsHaveSessions, EndsWithJobs
    <1>4. RunningJobHasActiveSession'
        <2> SUFFICES ASSUME NEW j \in Jobs, job'[j].status = "running"
                     PROVE  session'[job'[j].sess].status \in Active
            BY <1>1 DEF RunningJobHasActiveSession, IsActive
        <2>1. /\ job'[j].sess = job[j].sess /\ job[j].status = "running"
              /\ job[j].sess \in Sessions \ S
            BY <1>2 DEF JobInv, JobsHaveSessions
        <2> QED BY <2>1 DEF JobInv, RunningJobHasActiveSession, EndsWithJobs
    <1>5. OneAttemptPerFinishedJob'
        BY <1>1, <1>2 DEF OneAttemptPerFinishedJob
    <1> QED BY <1>1, <1>2, <1>3, <1>4, <1>5 DEF FinishedStay

\* So does a step that leaves the jobs alone and ends no session.
LEMMA StayingKeepsJobs ==
    ASSUME JobInv, UNCHANGED job, Sessions \subseteq Sessions',
           \A s \in Sessions : IsActive(s) => session'[s].status \in Active
    PROVE  /\ JobsHaveSessions'
           /\ RunningJobHasActiveSession'
           /\ OneAttemptPerFinishedJob'
           /\ FinishedStay
    BY DEF JobInv, JobsHaveSessions, RunningJobHasActiveSession,
           OneAttemptPerFinishedJob, FinishedStay, IsActive, Jobs, RunningJobs

LEMMA ObserverJobs ==
    ASSUME JobInv, NEW o \in Observer, ObserverStep(o)
    PROVE  /\ EndedStay
           /\ \/ UNCHANGED <<session, job>>
              \/ \E S : EndsWithJobs(S)
    <1>1. CASE UNCHANGED <<session, job>>
        BY <1>1 DEF EndedStay, Sessions
    <1>2. CASE CloseSessions(o)
        <2> DEFINE ending == {s \in ActiveOf(Watches[o]) :
                                 CloseDecision(session[s]) # "wait_for_sending"}
                   lost == {s \in ending :
                               \/ CloseDecision(session[s]) = "force_close"
                               \/ nodeRow[session[s].node] = "absent"}
                   told == ending \ lost
        <2>1. \A s \in lost \cup told : session[s].status \in Active
            BY DEF ActiveOf, IsActive
        <2> HIDE DEF ending, lost, told
        <2>2. /\ session' = [s \in Sessions |->
                                IF s \in lost THEN WithStatus(session[s], "lost")
                                ELSE IF s \in told
                                     THEN WithStatus(session[s], "closing")
                                     ELSE session[s]]
              /\ job' = JobsFailed(lost)
            BY <1>2 DEF CloseSessions, ending, lost, told
        <2>3. Sessions' = Sessions
            BY <2>2 DEF Sessions
        <2>4. ASSUME NEW s \in Sessions
              PROVE  session[s] \in SessionRow
            BY DEF JobInv, SlotInv, Typed, DbOK, IsTable, Sessions
        <2>5. EndedStay
            BY <2>1, <2>2, <2>3, StatusIsActiveOrTerminal
               DEF EndedStay, IsTerminal
        <2>6. \A s \in Sessions \ lost :
                  IsActive(s) => session'[s].status \in Active
            <3>1. ASSUME NEW s \in told, s \in Sessions
                  PROVE  WithStatus(session[s], "closing").status \in Active
                BY <2>4, <3>1, WithStatusIsRow, StatusIsActiveOrTerminal
            <3> QED BY <2>2, <3>1 DEF IsActive
        <2> QED BY <2>2, <2>3, <2>5, <2>6 DEF EndsWithJobs
    <1> QED BY <1>1, <1>2 DEF ObserverStep, OperatorObserve, ObserveLive,
            ObserveStillLive, ObserveNotLive, PlanEntries, ScheduleChecks, db

\* The result of a send: its job, still running, gets its attempt.
LEMMA ResultJobs ==
    ASSUME JobInv, NEW p \in Worker, ReportSendResult(p)
    PROVE  /\ JobsHaveSessions' /\ RunningJobHasActiveSession'
           /\ OneAttemptPerFinishedJob'
           /\ EndedStay /\ FinishedStay
    <1> DEFINE s == pc[p].sess
               j == pc[p].job
               outcome == pc[p].status
    <1>p. p \in Process /\ PcOK
        BY DEF Process, JobInv, SlotInv, Typed
    <1>r. s \in Sessions /\ outcome \in Outcome
        BY <1>p, ContinuationFields DEF ReportSendResult
    <1>t. /\ \A i \in Jobs : job[i] \in JobRow
          /\ \A i \in Sessions : session[i] \in SessionRow
        BY DEF JobInv, SlotInv, Typed, DbOK, IsTable, Jobs, Sessions
    <1>1. CASE UNCHANGED <<session, job>>
        <2>1. EndedStay
            BY <1>1 DEF EndedStay, Sessions
        <2> QED BY <1>1, <2>1, StayingKeepsJobs DEF Sessions, IsActive
    <1>2. CASE /\ ResultCounts(j, s)
               /\ job' = [job EXCEPT ![j] = Finished(@, outcome)]
               /\ session' = [session EXCEPT ![s] = SentBy(@)]
        <2> HIDE DEF s, j, outcome
        <2>1. Sessions' = Sessions /\ Jobs' = Jobs
            BY <1>2 DEF Sessions, Jobs
        <2>2. EndedStay
            BY <1>2, <2>1 DEF EndedStay, ResultCounts, IsTerminal, Sessions
        <2>3. \A i \in Sessions : IsActive(i) => session'[i].status \in Active
            <3>1. SentBy(session[s]).status \in Active
                BY <1>r, <1>t, SentByIsRow, StatusIsActiveOrTerminal
            <3> QED BY <1>2, <3>1 DEF IsActive, Sessions
        <2>4. ASSUME NEW i \in Jobs, i # j
              PROVE  job'[i] = job[i]
            BY <1>2, <2>4 DEF Jobs
        <2>5. ASSUME j \in Jobs
              PROVE  /\ job'[j].sess = job[j].sess
                     /\ job'[j].status = outcome
                     /\ job'[j].attempts = <<outcome>>
                     /\ outcome # "running"
            <3>1. job[j].status = "running" /\ job[j].attempts = <<>>
                BY <1>2, <2>5
                   DEF ResultCounts, JobInv, OneAttemptPerFinishedJob
            <3>2. job'[j] = Finished(job[j], outcome)
                BY <1>2, <2>5 DEF Jobs
            <3> QED BY <3>1, <3>2, <2>5, <1>r, <1>t, FinishedIsRow
        <2>6. JobsHaveSessions'
            BY <2>1, <2>4, <2>5 DEF JobInv, JobsHaveSessions
        <2>7. RunningJobHasActiveSession'
            BY <2>1, <2>3, <2>4, <2>5
               DEF JobInv, JobsHaveSessions, RunningJobHasActiveSession, IsActive
        <2>8. OneAttemptPerFinishedJob'
            BY <2>1, <2>4, <2>5 DEF JobInv, OneAttemptPerFinishedJob
        <2>9. FinishedStay
            BY <2>1, <2>4, <1>2 DEF FinishedStay, ResultCounts
        <2> QED BY <2>2, <2>6, <2>7, <2>8, <2>9
    <1> QED BY <1>1, <1>2 DEF ReportSendResult, s, j, outcome

\* A reported status ends its session together with its running jobs.
LEMMA StatusJobs ==
    ASSUME JobInv, NEW p \in Worker, ReportSessionStatus(p)
    PROVE  /\ EndedStay
           /\ \/ UNCHANGED <<session, job>>
              \/ \E S : EndsWithJobs(S)
    <1> DEFINE s == pc[p].sess
               reported == pc[p].status
    <1>p. p \in Process /\ PcOK
        BY DEF Process, JobInv, SlotInv, Typed
    <1>r. s \in Sessions /\ reported \in SessionStatus
        BY <1>p, ContinuationFields DEF ReportSessionStatus
    <1>t. session[s] \in SessionRow
        BY <1>r DEF JobInv, SlotInv, Typed, DbOK, IsTable, Sessions
    <1>1. CASE UNCHANGED <<session, job>>
        BY <1>1 DEF EndedStay, Sessions
    <1>2. CASE /\ AcceptsReport(session[s], reported)
               /\ session' = [session EXCEPT ![s] = WithStatus(@, reported)]
               /\ job' = JobsFailed(SessionsFailing(s, reported))
        <2> HIDE DEF s, reported
        <2>1. Sessions' = Sessions
            BY <1>2 DEF Sessions
        <2>2. EndedStay
            BY <1>2, <2>1 DEF EndedStay, AcceptsReport, IsTerminal, Sessions
        <2>3. WithStatus(session[s], reported).status = reported
            BY <1>r, <1>t, WithStatusIsRow
        <2>4. \A r \in Sessions \ SessionsFailing(s, reported) :
                  IsActive(r) => session'[r].status \in Active
            BY <1>2, <2>3, <1>r, StatusIsActiveOrTerminal
               DEF SessionsFailing, IsActive, Sessions
        <2> QED BY <1>2, <2>1, <2>2, <2>4 DEF EndsWithJobs
    <1> QED BY <1>1, <1>2 DEF ReportSessionStatus, s, reported

\* A batch: new jobs, running and without an attempt, for sessions that send.
LEMMA ApproveJobs ==
    ASSUME JobInv, ApproveAndDispatch
    PROVE  /\ JobsHaveSessions' /\ RunningJobHasActiveSession'
           /\ OneAttemptPerFinishedJob'
           /\ EndedStay /\ FinishedStay
    <1>1. PICK use \in UNION {Injection(D, Sessions) :
                                  D \in (SUBSET Candidate) \ {{}}} :
              \E work \in UNION {Bijection(J, DOMAIN use) :
                                     J \in SUBSET (JobId \ Jobs)} :
                  Dispatches(use, work)
        BY DEF ApproveAndDispatch
    <1>2. PICK work \in UNION {Bijection(J, DOMAIN use) :
                                   J \in SUBSET (JobId \ Jobs)} :
              Dispatches(use, work)
        BY <1>1
    <1>3. \A c \in DOMAIN use : use[c] \in Sessions
        BY <1>1 DEF Injection
    <1>4. /\ \A j \in DOMAIN work : work[j] \in DOMAIN use
          /\ DOMAIN work \subseteq JobId \ Jobs
        BY <1>2 DEF Bijection, Injection
    <1>5. \A c \in DOMAIN use : session[use[c]].status = "waiting"
        BY <1>2 DEF Dispatches, CanSend
    <1> DEFINE taken == {s \in Sessions : \E c \in DOMAIN use : use[c] = s}
    <1>6. session' = [s \in Sessions |->
                         IF s \in taken
                         THEN [session[s] EXCEPT !.status = "sending",
                                                 !.sending = "fresh"]
                         ELSE session[s]]
        BY <1>2 DEF Dispatches
    <1>7. /\ \A s \in taken : session[s].status = "waiting"
          /\ \A c \in DOMAIN use : use[c] \in taken
        BY <1>3, <1>5
    <1> HIDE DEF taken
    <1>8. Sessions' = Sessions
        BY <1>6 DEF Sessions
    <1>9. EndedStay
        BY <1>6, <1>7, <1>8, StatusIsActiveOrTerminal DEF EndedStay, IsTerminal
    <1>10. \A s \in Sessions :
               IsActive(s) \/ s \in taken => session'[s].status \in Active
        <2>1. \A s \in Sessions : session[s] \in SessionRow
            BY DEF JobInv, SlotInv, Typed, DbOK, IsTable, Sessions
        <2> QED BY <2>1, <1>6, StatusIsActiveOrTerminal DEF IsActive, SessionRow
    <1>11. /\ Jobs' = Jobs \cup DOMAIN work
           /\ \A j \in Jobs : job'[j] = job[j]
           /\ \A j \in DOMAIN work :
                 job'[j] = [cand |-> work[j], sess |-> use[work[j]],
                            status |-> "running", attempts |-> <<>>]
        BY <1>2, <1>4 DEF Dispatches, Jobs
    <1>12. \A j \in DOMAIN work :
              /\ job'[j].sess \in Sessions /\ job'[j].sess \in taken
              /\ job'[j].status = "running" /\ job'[j].attempts = <<>>
        <2> SUFFICES ASSUME NEW j \in DOMAIN work
                     PROVE  /\ job'[j].sess = use[work[j]]
                            /\ job'[j].status = "running"
                            /\ job'[j].attempts = <<>>
            BY <1>3, <1>4, <1>7
        <2>1. job'[j] = [cand |-> work[j], sess |-> use[work[j]],
                         status |-> "running", attempts |-> <<>>]
            BY <1>11
        <2> QED BY <2>1
    <1>13. JobsHaveSessions'
        BY <1>8, <1>11, <1>12 DEF JobInv, JobsHaveSessions
    <1>14. RunningJobHasActiveSession'
        BY <1>8, <1>10, <1>11, <1>12
           DEF JobInv, JobsHaveSessions, RunningJobHasActiveSession, IsActive
    <1>15. OneAttemptPerFinishedJob'
        BY <1>11, <1>12 DEF JobInv, OneAttemptPerFinishedJob
    <1>16. FinishedStay
        BY <1>11 DEF FinishedStay
    <1> QED BY <1>9, <1>13, <1>14, <1>15, <1>16
-------------------------------------------------------------------------------
(***************************************************************************)
(* Every step.                                                             *)
(***************************************************************************)
LEMMA JobInit == Init => JobInv
    <1> SUFFICES ASSUME Init PROVE JobInv
        OBVIOUS
    <1>1. Jobs = {}
        BY DEF Init, Jobs
    <1> QED BY <1>1, SlotInit DEF JobInv, JobsHaveSessions,
            RunningJobHasActiveSession, OneAttemptPerFinishedJob

LEMMA JobNext ==
    ASSUME JobInv, [Next]_vars
    PROVE  /\ JobsHaveSessions' /\ RunningJobHasActiveSession'
           /\ OneAttemptPerFinishedJob'
           /\ EndedStay /\ FinishedStay
    <1> DEFINE Kept == /\ JobsHaveSessions' /\ RunningJobHasActiveSession'
                       /\ OneAttemptPerFinishedJob'
                       /\ EndedStay /\ FinishedStay
    <1>u. ASSUME UNCHANGED <<session, job>> PROVE Kept
        <2>1. EndedStay
            BY <1>u DEF EndedStay, Sessions
        <2> QED BY <1>u, <2>1, StayingKeepsJobs DEF Sessions, IsActive
    <1>e. ASSUME EndedStay, NEW S, EndsWithJobs(S) PROVE Kept
        BY <1>e, EndingKeepsJobs
    <1> SUFFICES Kept
        OBVIOUS
    <1> HIDE DEF Kept
    <1>1. ASSUME NEW o \in Observer, ObserverStep(o) PROVE Kept
        BY <1>1, <1>u, <1>e, ObserverJobs
    <1>2. ASSUME NEW p \in Worker, WorkerStep(p) PROVE Kept
        <2>1. CASE ReportSessionStatus(p)
            BY <2>1, <1>u, <1>e, StatusJobs
        <2>2. CASE ReportSendResult(p)
            BY <2>2, ResultJobs DEF Kept
        <2> QED BY <1>2, <1>u, <2>1, <2>2
                DEF WorkerStep, EnterLiveRoom, SendComment, CheckSession,
                    CloseSession, RestartSession, db
    <1>3. CASE ApproveAndDispatch
        BY <1>3, ApproveJobs DEF Kept
    <1>4. ASSUME NEW p \in Process, InsertSessions(p) PROVE Kept
        <2>1. /\ Sessions \subseteq Sessions'
              /\ \A s \in Sessions : session'[s] = session[s]
            BY <1>4, InsertionsAreApart DEF JobInv
        <2>2. EndedStay
            BY <2>1 DEF EndedStay
        <2>3. UNCHANGED job
            BY <1>4 DEF InsertSessions
        <2> QED BY <2>1, <2>2, <2>3, StayingKeepsJobs DEF Kept, IsActive
    <1>5. ASSUME NEW s \in Sessions, GraceElapses(s) PROVE Kept
        <2>1. /\ session[s].status = "sending"
              /\ session' = [session EXCEPT ![s].sending = "overdue"]
              /\ UNCHANGED job
            BY <1>5 DEF GraceElapses
        <2>2. Sessions' = Sessions
            BY <2>1 DEF Sessions
        <2>3. EndedStay
            BY <2>1, <2>2, StatusIsActiveOrTerminal
               DEF EndedStay, IsTerminal, Sessions
        <2>4. \A r \in Sessions : session'[r].status = session[r].status
            <3>1. session[s] \in SessionRow
                BY DEF JobInv, SlotInv, Typed, DbOK, IsTable, Sessions
            <3>2. [session[s] EXCEPT !.sending = "overdue"].status
                      = session[s].status
                BY <3>1 DEF SessionRow
            <3> QED BY <2>1, <3>2 DEF Sessions
        <2> QED BY <2>1, <2>2, <2>3, <2>4, StayingKeepsJobs DEF Kept, IsActive
    <1>6. ASSUME NEW p \in Process,
                 WorkerDies(p) \/ PublishOne(p) \/ Abandon(p)
          PROVE  Kept
        BY <1>6, <1>u DEF WorkerDies, PublishOne, Abandon, db
    <1>7. ASSUME Dismiss \/ \E c \in Candidate : GenerateCandidate(c)
          PROVE  Kept
        BY <1>7, <1>u DEF GenerateCandidate, Dismiss
    <1>8. ASSUME NEW t \in Task, EditTask(t) PROVE Kept
        BY <1>8, <1>u DEF EditTask
    <1>9. ASSUME NEW a \in Account, EditAccount(a) \/ CooldownEnds(a)
          PROVE  Kept
        BY <1>9, <1>u DEF EditAccount, CooldownEnds
    <1>10. ASSUME NEW n \in Node, EditNode(n) \/ WorkerHeartbeat(n)
           PROVE  Kept
        BY <1>10, <1>u DEF EditNode, WorkerHeartbeat
    <1>11. CASE UNCHANGED vars
        <2>1. UNCHANGED <<session, job>>
            BY <1>11 DEF vars, db
        <2> QED BY <2>1, <1>u
    <1> QED BY <1>1, <1>2, <1>3, <1>4, <1>5, <1>6, <1>7, <1>8, <1>9, <1>10,
            <1>11 DEF Next, Process

LEMMA JobStep == JobInv /\ [Next]_vars => JobInv'
    BY JobNext, SlotStep DEF JobInv

\* A reviewed candidate keeps its verdict.
LEMMA ReviewedStays ==
    ASSUME Typed, [Next]_vars
    PROVE  ReviewedStay
    <1>1. CASE UNCHANGED cand
        BY <1>1 DEF ReviewedStay
    <1>2. ASSUME NEW c \in Candidate, GenerateCandidate(c)
          PROVE  ReviewedStay
        <2>1. cand[c] = "absent"
            BY <1>2 DEF GenerateCandidate
        <2>2. \A d \in Candidate : d # c => cand'[d] = cand[d]
            BY <1>2 DEF GenerateCandidate, Typed, DbOK
        <2> QED BY <2>1, <2>2 DEF ReviewedStay
    <1>3. CASE ApproveAndDispatch
        <2>1. PICK use : \E work : Dispatches(use, work)
            BY <1>3 DEF ApproveAndDispatch
        <2>2. /\ \A c \in DOMAIN use : cand[c] = "pending_review"
              /\ \A c \in Candidate : c \notin DOMAIN use => cand'[c] = cand[c]
            <3>1. PICK work : Dispatches(use, work)
                BY <2>1
            <3> QED BY <3>1 DEF Dispatches, CanSend, IsReviewable
        <2> QED BY <2>2 DEF ReviewedStay
    <1>4. CASE Dismiss
        <2>1. \A c \in Candidate : ~IsReviewable(c) => cand'[c] = cand[c]
            BY <1>4 DEF Dismiss, Dismissed
        <2> QED BY <2>1 DEF ReviewedStay, IsReviewable
    <1> QED BY <1>1, <1>2, <1>3, <1>4
            DEF Next, vars, db, ObserverStep, OperatorObserve, ObserveLive,
                ObserveStillLive, ObserveNotLive, PlanEntries, ScheduleChecks,
                CloseSessions, WorkerStep, EnterLiveRoom, SendComment,
                CheckSession, CloseSession, ReportSessionStatus,
                RestartSession, ReportSendResult, WorkerDies, InsertSessions,
                PublishOne, Abandon, EditTask, EditAccount, EditNode,
                CooldownEnds, WorkerHeartbeat, GraceElapses

\* Whoever ends a session fails its running jobs: a job never runs on for a
\* session that is over.
THEOREM JobsEndWithSessions == Spec => []RunningJobHasActiveSession
    <1>1. JobInv => RunningJobHasActiveSession
        BY DEF JobInv
    <1> QED BY <1>1, JobInit, JobStep, PTL DEF Spec

\* A finished job has one attempt, although its result and the end of its
\* session are reported by different processes.
THEOREM OneAttempt == Spec => []OneAttemptPerFinishedJob
    <1>1. JobInv => OneAttemptPerFinishedJob
        BY DEF JobInv
    <1> QED BY <1>1, JobInit, JobStep, PTL DEF Spec

\* Late, repeated and reordered reports change nothing that is over.
THEOREM OverStaysOver == Spec => OverIsOver
    <1>1. JobInv /\ [Next]_vars => [OverStays]_vars
        <2> SUFFICES ASSUME JobInv, [Next]_vars PROVE OverStays
            OBVIOUS
        <2>1. EndedStay /\ FinishedStay
            BY JobNext
        <2>2. ReviewedStay
            BY ReviewedStays DEF JobInv, SlotInv
        <2> QED BY <2>1, <2>2 DEF OverStays, EndedStay, FinishedStay,
                ReviewedStay, Sessions, Jobs
    <1> QED BY <1>1, JobInit, JobStep, PTL DEF Spec, OverIsOver
-------------------------------------------------------------------------------
(***************************************************************************)
(* LiveCenter implements AccountSlots.  The initial table is empty, and so *)
(* are the slots.  An insertion occupies the slots of its rows.  Any other *)
(* step moves sessions: a slot whose session ends is vacated, and since    *)
(* nothing becomes active again every other slot keeps the one session it  *)
(* had.                                                                    *)
(***************************************************************************)
Keys == Task \X Account

\* The slots as functions of the table.
LEMMA HoldersAre ==
    /\ Holders \in [Keys -> SUBSET Sessions]
    /\ \A k \in Keys, s \in Sessions :
          s \in Holders[k] <=> SlotOf(session[s]) = k /\ IsActive(s)
    BY DEF Holders, Keys

LEMMA HoldersWillBe ==
    /\ Holders' \in [Keys -> SUBSET Sessions']
    /\ \A k \in Keys, s \in Sessions' :
          s \in Holders'[k] <=>
              SlotOf(session'[s]) = k /\ session'[s].status \in Active
    BY DEF Holders, Keys, IsActive

LEMMA RetiredIs ==
    /\ Retired \subseteq Sessions /\ Retired' \subseteq Sessions'
    /\ \A s \in Sessions : s \in Retired <=> session[s].status \in Terminal
    /\ \A s \in Sessions' : s \in Retired' <=> session'[s].status \in Terminal
    BY DEF Retired, IsTerminal

\* Every session is in a slot, and active unless it has ended.
LEMMA SessionsHaveSlots ==
    ASSUME Typed, NEW s \in Sessions
    PROVE  /\ s \in SessionId
           /\ SlotOf(session[s]) \in Keys
           /\ session[s].status \in Active <=> session[s].status \notin Terminal
    <1>1. s \in SessionId /\ session[s] \in SessionRow
        BY DEF Typed, DbOK, IsTable, Sessions
    <1> QED BY <1>1, StatusIsActiveOrTerminal DEF SessionRow, SlotOf, Keys

LEMMA SlotsInit == Init => Slots!Init
    <1> SUFFICES ASSUME Init PROVE Slots!Init
        OBVIOUS
    <1>1. Sessions = {}
        BY DEF Init, Sessions
    <1>2. Holders = [k \in Keys |-> {}]
        BY <1>1 DEF Holders, Keys
    <1>3. Retired = {}
        BY <1>1 DEF Retired
    <1> QED BY <1>2, <1>3 DEF Slots!Init, Keys

\* An insertion occupies the slots of its rows.
LEMMA InsertOccupies ==
    ASSUME SlotInv, SlotInv', NEW p \in Process, InsertSessions(p)
    PROVE  \E S \in SUBSET Keys : Slots!Occupy(S)
    <1> DEFINE added == Sessions' \ Sessions
               S == {SlotOf(session'[s]) : s \in added}
    <1>1. /\ Sessions \subseteq Sessions'
          /\ \A s \in Sessions : session'[s] = session[s]
          /\ \A s \in added :
                /\ session'[s].status = "planned" /\ session'[s].keyed
                /\ \A r \in Sessions : IsActive(r)
                       => SlotOf(session[r]) # SlotOf(session'[s])
                /\ \A r \in added :
                       r # s => SlotOf(session'[r]) # SlotOf(session'[s])
        BY InsertionsAreApart
    <1>2. \A s \in Sessions' : s \in SessionId /\ SlotOf(session'[s]) \in Keys
        BY SessionsHaveSlots DEF SlotInv, Typed, DbOK, IsTable, Sessions,
                                 SessionRow, SlotOf, Keys
    <1>3. S \in SUBSET Keys
        BY <1>2
    <1> HIDE DEF S
    <1>a. \A s \in added : session'[s].status \in Active
                           /\ session'[s].status \notin Terminal
        BY <1>1, StatusIsActiveOrTerminal
    <1>4. ASSUME NEW s \in added
          PROVE  LET k == SlotOf(session'[s]) IN
                 /\ Holders[k] = {}
                 /\ Holders'[k] = {s}
        <2> DEFINE k == SlotOf(session'[s])
        <2>1. k \in Keys
            BY <1>2
        <2>2. Holders[k] = {}
            BY <1>1, <2>1, HoldersAre
        <2>3. \A r \in Sessions' : r \in Holders'[k] <=> r = s
            <3>1. ASSUME NEW r \in Sessions', r \notin added
                  PROVE  r \notin Holders'[k]
                BY <1>1, <2>1, <3>1, HoldersWillBe DEF IsActive
            <3> QED BY <1>1, <1>a, <2>1, <3>1, HoldersWillBe
        <2> QED BY <2>1, <2>2, <2>3, HoldersWillBe
    <1>5. ASSUME NEW k \in Keys \ S PROVE Holders'[k] = Holders[k]
        <2>1. \A r \in Sessions' : r \in Holders'[k] <=>
                                       r \in Sessions /\ r \in Holders[k]
            BY <1>1, <1>5, HoldersAre, HoldersWillBe DEF S, IsActive
        <2> QED BY <2>1, <1>1, HoldersAre, HoldersWillBe
    <1>6. Retired' = Retired
        BY <1>1, <1>a, RetiredIs
    <1>7. \A s \in added : s \notin Slots!Held \cup Retired
        BY HoldersAre, RetiredIs DEF Slots!Held, Keys
    <1>8. \A j, k \in S : j # k => Holders'[j] \cap Holders'[k] = {}
        BY <1>4 DEF S
    <1>9. \A k \in S : /\ Holders[k] = {}
                       /\ \E id \in SessionId \ (Slots!Held \cup Retired) :
                              Holders'[k] = {id}
        BY <1>2, <1>4, <1>7 DEF S
    <1>10. Slots!Occupy(S)
        BY <1>5, <1>6, <1>8, <1>9 DEF Slots!Occupy, Keys
    <1> QED BY <1>3, <1>10

\* A move vacates the slots of the sessions that end.
LEMMA MoveVacates ==
    ASSUME SlotInv, SlotInv', SessionsMove, EndedStay
    PROVE  \E S \in SUBSET Keys : Slots!Vacate(S)
    <1> DEFINE S == {k \in Keys : Holders'[k] = {}}
    <1>t. \A s \in Sessions : SlotOf(session[s]) \in Keys
        BY SessionsHaveSlots DEF SlotInv
    <1>o. \A s \in Sessions : session[s].status \in Active
                              <=> session[s].status \notin Terminal
        BY SessionsHaveSlots DEF SlotInv
    <1>p. \A s \in Sessions : session'[s].status \in Active
                              <=> session'[s].status \notin Terminal
        BY SessionsHaveSlots, StatusIsActiveOrTerminal
           DEF SlotInv, SessionsMove, Typed, DbOK, IsTable, Sessions, SessionRow
    <1>1. Sessions' = Sessions
        BY DEF SessionsMove
    <1>2. \A k \in Keys : Holders'[k] \subseteq Holders[k]
        BY <1>1, HoldersAre, HoldersWillBe DEF SessionsMove, IsActive
    <1>3. \A k \in Keys : \A r, s \in Holders[k] : r = s
        BY HoldersAre DEF SlotInv, OneActiveSession
    <1>4. \A k \in Keys \ S : Holders'[k] = Holders[k]
        BY <1>2, <1>3
    <1>5. Holders' = [k \in Keys |-> IF k \in S THEN {} ELSE Holders[k]]
        BY <1>4, HoldersWillBe
    <1>6. ASSUME NEW s \in Sessions
          PROVE  s \in Retired' <=>
                     s \in Retired \/ \E k \in S : s \in Holders[k]
        <2> DEFINE k == SlotOf(session[s])
        <2>1. k \in Keys
            BY <1>t
        <2>2. CASE s \in Retired
            BY <1>1, <2>2, RetiredIs DEF EndedStay, IsTerminal
        <2>3. CASE s \notin Retired
            <3>1. s \in Holders[k]
                BY <2>1, <2>3, <1>o, HoldersAre, RetiredIs DEF IsActive
            <3>2. \A j \in Keys : s \in Holders[j] => j = k
                BY HoldersAre
            <3>3. s \in Retired' <=> s \notin Holders'[k]
                BY <1>1, <1>p, <2>1, RetiredIs, HoldersWillBe DEF SessionsMove
            <3>4. s \notin Holders'[k] <=> k \in S
                BY <2>1, <3>1, <1>4
            <3> QED BY <2>3, <3>1, <3>2, <3>3, <3>4
        <2> QED BY <2>2, <2>3
    <1> HIDE DEF S
    <1>7. Retired' = Retired \cup UNION {Holders[k] : k \in S}
        BY <1>1, <1>6, HoldersAre, RetiredIs DEF S
    <1>8. Slots!Vacate(S) /\ S \in SUBSET Keys
        BY <1>5, <1>7 DEF Slots!Vacate, S, Keys
    <1> QED BY <1>8

LEMMA SlotsStep == JobInv /\ JobInv' /\ [Next]_vars => [Slots!Next]_Slots!slotVars
    <1> SUFFICES ASSUME JobInv, JobInv', [Next]_vars
                 PROVE  \E S \in SUBSET Keys : Slots!Occupy(S) \/ Slots!Vacate(S)
        BY DEF Slots!Next, Keys
    <1>1. SlotInv /\ SlotInv'
        BY DEF JobInv
    <1>2. CASE SessionsMove
        BY <1>1, <1>2, JobNext, MoveVacates
    <1>3. ASSUME NEW p \in Process, InsertSessions(p)
          PROVE  \E S \in SUBSET Keys : Slots!Occupy(S)
        BY <1>1, <1>3, InsertOccupies
    <1> QED BY <1>1, <1>2, <1>3, MoveOrInsert DEF SlotInv

\* The sessions of the center implement exclusive slots: every behaviour of
\* planning, rebuilding, reporting and shutting down is one of occupying free
\* slots with sessions nobody has seen and vacating them for good.
THEOREM SlotsAreImplemented == Spec => ImplementsSlots
    BY SlotsInit, SlotsStep, JobInit, JobStep,
       PTL DEF Spec, ImplementsSlots, Slots!Spec
-------------------------------------------------------------------------------
(***************************************************************************)
(* The rebuilds of an account in a task.                                   *)
(*                                                                         *)
(* The argument: of a slot's active session, the rebuild of its last one   *)
(* and the first plan for it there is at most one at a time.  A task is    *)
(* planned once, when it is started; a session ends once and is rebuilt    *)
(* with the next count, while all the others of the slot have ended with   *)
(* lower ones.                                                             *)
(***************************************************************************)
\* The continuation k is about to insert a row of the slot with count n, or
\* may do so after another look, where the sessions are those of table.
Rebuilds(k, table, slot, n) ==
    \/ /\ k.at = "insert"
       /\ \E r \in k.rows : SlotOf(r) = slot /\ r.restart = n
    \/ /\ k.at = "restart"
       /\ SlotOf(table[k.sess]) = slot /\ table[k.sess].restart + 1 = n

\* The task has not been started, or is about to be planned.
IsUnplanned(t) ==
    \/ task[t] = "pending"
    \/ \E o \in Observer : pc[o].at = "plan" /\ Watches[o] = t

PlannedOnce ==
    /\ \A o \in Observer : pc[o].at = "plan" => task[Watches[o]] # "pending"
    /\ \A o, r \in Observer :
          pc[o].at = "plan" /\ pc[r].at = "plan" /\ Watches[o] = Watches[r]
              => o = r

RebuildsAreNext ==
    \A p \in Process : \A slot, n :
        Rebuilds(pc[p], session, slot, n) =>
            \A s \in Sessions : SlotOf(session[s]) = slot =>
                                    session[s].restart < n /\ IsTerminal(s)

OneRebuild ==
    \A p, q \in Process : \A slot, m, n :
        Rebuilds(pc[p], session, slot, m) /\ Rebuilds(pc[q], session, slot, n)
            => p = q

UnplannedAreEmpty ==
    \A t \in Task :
        IsUnplanned(t) =>
            /\ \A s \in Sessions : session[s].task # t
            /\ \A p \in Process : \A a, n : ~Rebuilds(pc[p], session, <<t, a>>, n)

ChainInv ==
    /\ JobInv /\ PlannedOnce /\ RebuildsAreNext /\ OneRebuild
    /\ UnplannedAreEmpty /\ RestartsFormAChain

\* Sessions keep their slots, nodes and counts, and what has ended has ended.
RowsStay ==
    \A s \in Sessions :
        /\ s \in Sessions'
        /\ SlotOf(session'[s]) = SlotOf(session[s])
        /\ session'[s].restart = session[s].restart
        /\ session'[s].node = session[s].node
        /\ IsTerminal(s) => session'[s].status \in Terminal

\* What a status that is written leaves alone.
Rest(row) == <<row.restart, row.node>>

LEMMA RowsAreKept ==
    ASSUME JobInv, [Next]_vars
    PROVE  RowsStay
    <1>t. \A s \in Sessions : session[s] \in SessionRow
        BY DEF JobInv, SlotInv, Typed, DbOK, IsTable, Sessions
    <1>1. \A s \in Sessions : /\ s \in Sessions'
                              /\ SlotOf(session'[s]) = SlotOf(session[s])
        <2>1. CASE SessionsMove
            BY <2>1 DEF SessionsMove
        <2>2. ASSUME NEW p \in Process, InsertSessions(p)
              PROVE  \A s \in Sessions : s \in Sessions'
                                         /\ session'[s] = session[s]
            BY <2>2, InsertionsAreApart DEF JobInv
        <2> QED BY <2>1, <2>2, MoveOrInsert DEF JobInv, SlotInv
    <1>2. \A s \in Sessions : IsTerminal(s) => session'[s].status \in Terminal
        BY JobNext DEF EndedStay, IsTerminal
    <1>3. \A s \in Sessions : Rest(session'[s]) = Rest(session[s])
        <2>w. \A s \in Sessions : \A status :
                  Rest(WithStatus(session[s], status)) = Rest(session[s])
            <3> SUFFICES ASSUME NEW s \in Sessions, NEW status
                         PROVE  Rest(WithStatus(session[s], status))
                                    = Rest(session[s])
                OBVIOUS
            <3>1. session[s] \in SessionRow
                BY <1>t
            <3> QED BY <3>1 DEF WithStatus, SessionRow, Rest
        <2>1. CASE UNCHANGED session
            BY <2>1
        <2>2. ASSUME NEW o \in Observer, CloseSessions(o)
              PROVE  \A s \in Sessions : Rest(session'[s]) = Rest(session[s])
            <3>1. \A s \in Sessions : \/ session'[s] = session[s]
                                      \/ \E status : session'[s] =
                                             WithStatus(session[s], status)
                BY <2>2 DEF CloseSessions
            <3> QED BY <3>1, <2>w
        <2>3. ASSUME NEW p \in Worker, ReportSessionStatus(p)
              PROVE  \A s \in Sessions : Rest(session'[s]) = Rest(session[s])
            BY <2>3, <2>w DEF ReportSessionStatus, Sessions
        <2>4. ASSUME NEW p \in Worker, ReportSendResult(p)
              PROVE  \A s \in Sessions : Rest(session'[s]) = Rest(session[s])
            <3>1. ASSUME NEW s \in Sessions
                  PROVE  Rest(SentBy(session[s])) = Rest(session[s])
                <4> DEFINE w == WithStatus(session[s], "waiting")
                <4>1. "waiting" \in SessionStatus
                    BY DEF SessionStatus, Active
                <4>2. w \in SessionRow /\ Rest(w) = Rest(session[s])
                    BY <4>1, <1>t, <2>w, WithStatusIsRow
                <4>3. SentBy(session[s]) = [w EXCEPT !.sending = "none"]
                    BY DEF SentBy
                <4> HIDE DEF w
                <4> QED BY <4>2, <4>3 DEF SessionRow, Rest
            <3> QED BY <2>4, <3>1 DEF ReportSendResult, Sessions
        <2>5. CASE ApproveAndDispatch
            <3>1. PICK use, work : Dispatches(use, work)
                BY <2>5 DEF ApproveAndDispatch
            <3> DEFINE row(s) == [session[s] EXCEPT !.status = "sending",
                                                    !.sending = "fresh"]
            <3>2. ASSUME NEW s \in Sessions
                  PROVE  Rest(row(s)) = Rest(session[s])
                <4>1. session[s] \in SessionRow
                    BY <1>t
                <4> QED BY <4>1 DEF SessionRow, Rest
            <3>3. \A s \in Sessions : \/ session'[s] = session[s]
                                      \/ session'[s] = row(s)
                BY <3>1 DEF Dispatches
            <3> HIDE DEF row
            <3> QED BY <3>2, <3>3
        <2>6. ASSUME NEW p \in Process, InsertSessions(p)
              PROVE  \A s \in Sessions : Rest(session'[s]) = Rest(session[s])
            BY <2>6, InsertionsAreApart DEF JobInv
        <2>7. ASSUME NEW s \in Sessions, GraceElapses(s)
              PROVE  \A r \in Sessions : Rest(session'[r]) = Rest(session[r])
            <3>1. Rest([session[s] EXCEPT !.sending = "overdue"])
                      = Rest(session[s])
                <4>1. session[s] \in SessionRow
                    BY <1>t
                <4> QED BY <4>1 DEF SessionRow, Rest
            <3> QED BY <3>1, <2>7 DEF GraceElapses, Sessions
        <2> QED BY <2>1, <2>2, <2>3, <2>4, <2>5, <2>6, <2>7
                DEF Next, vars, db, ObserverStep, OperatorObserve, ObserveLive,
                    ObserveStillLive, ObserveNotLive, PlanEntries,
                    ScheduleChecks, WorkerStep, EnterLiveRoom, SendComment,
                    CheckSession, CloseSession, RestartSession, WorkerDies,
                    PublishOne, Abandon, GenerateCandidate, Dismiss, EditTask,
                    EditAccount, EditNode, CooldownEnds, WorkerHeartbeat
    <1> QED BY <1>1, <1>2, <1>3 DEF RowsStay, Rest
-------------------------------------------------------------------------------
(***************************************************************************)
(* Which steps begin a plan or a rebuild.                                  *)
(***************************************************************************)
\* The continuation k neither plans nor inserts nor rebuilds.
IsQuiet(k) == k.at \notin {"plan", "insert", "restart"}

GoesQuiet(p) ==
    /\ IsQuiet(pc'[p])
    /\ \A q \in Process : q # p => pc'[q] = pc[q]

LEMMA QuietStep ==
    ASSUME PcOK, NEW p \in Process, NEW k, IsQuiet(k),
           pc' = [pc EXCEPT ![p] = k]
    PROVE  GoesQuiet(p)
    BY DEF PcOK, GoesQuiet, IsQuiet

LEMMA QuietGo ==
    ASSUME PcOK, NEW p \in Process,
           NEW label \in {"idle", "watching", "check", "closeAll"},
           Go(p, label)
    PROVE  GoesQuiet(p)
    <1> DEFINE k == [at |-> label]
    <1>1. IsQuiet(k) BY DEF IsQuiet
    <1>2. pc' = [pc EXCEPT ![p] = k] BY DEF Go
    <1> HIDE DEF k
    <1> QED BY <1>1, <1>2, QuietStep

LEMMA QuietPublish ==
    ASSUME PcOK, NEW p \in Process, NEW msgs,
           NEW next \in {"idle", "watching", "check"},
           ThenPublish(p, msgs, next)
    PROVE  GoesQuiet(p)
    <1> DEFINE k == [at |-> "publish", msgs |-> msgs, then |-> next]
    <1>1. CASE msgs = {}
        BY <1>1, QuietGo DEF ThenPublish, Go
    <1>2. CASE msgs # {}
        <2>1. IsQuiet(k) BY DEF IsQuiet
        <2>2. pc' = [pc EXCEPT ![p] = k] BY <1>2 DEF ThenPublish
        <2> HIDE DEF k
        <2> QED BY <2>1, <2>2, QuietStep
    <1> QED BY <1>1, <1>2

LEMMA QuietReport ==
    ASSUME PcOK, NEW p \in Process, NEW s, NEW status, ToReport(p, s, status)
    PROVE  GoesQuiet(p)
    <1> DEFINE k == [at |-> "status", sess |-> s, status |-> status]
    <1>1. IsQuiet(k) BY DEF IsQuiet
    <1>2. pc' = [pc EXCEPT ![p] = k] BY DEF ToReport
    <1> HIDE DEF k
    <1> QED BY <1>1, <1>2, QuietStep

LEMMA QuietNext ==
    ASSUME PcOK, [Next]_vars
    PROVE  \/ UNCHANGED pc
           \/ \E p \in Process : GoesQuiet(p)
           \/ \E o \in Observer : ObserveLive(o) \/ PlanEntries(o)
           \/ \E p \in Worker : ReportSessionStatus(p) \/ RestartSession(p)
    <1> DEFINE Quiet == \E p \in Process : GoesQuiet(p)
    <1>1. ASSUME NEW o \in Observer,
                 OperatorObserve(o) \/ ObserveStillLive(o) \/ ObserveNotLive(o)
          PROVE  Quiet
        BY <1>1, QuietGo DEF OperatorObserve, ObserveStillLive, ObserveNotLive,
                             Process
    <1>2. ASSUME NEW o \in Observer, ScheduleChecks(o) \/ CloseSessions(o)
          PROVE  Quiet
        BY <1>2, QuietPublish DEF ScheduleChecks, CloseSessions, Process
    <1>3. ASSUME NEW p \in Worker,
                 EnterLiveRoom(p) \/ CheckSession(p) \/ CloseSession(p)
          PROVE  Quiet
        BY <1>3, QuietReport DEF EnterLiveRoom, OpenLiveRoom, CheckSession,
                                 CloseSession, Process
    <1>4. ASSUME NEW p \in Worker, SendComment(p) PROVE Quiet
        <2>1. PICK m, outcome : ToReportResult(p, m.sess, m.job, outcome)
            BY <1>4 DEF SendComment
        <2> DEFINE k == [at |-> "result", sess |-> m.sess, job |-> m.job,
                         status |-> outcome]
        <2>2. IsQuiet(k) BY DEF IsQuiet
        <2>3. pc' = [pc EXCEPT ![p] = k] BY <2>1 DEF ToReportResult
        <2> HIDE DEF k
        <2> QED BY <2>2, <2>3, QuietStep DEF Process
    <1>5. ASSUME NEW p \in Worker, ReportSendResult(p) \/ WorkerDies(p)
          PROVE  Quiet
        BY <1>5, QuietGo DEF ReportSendResult, WorkerDies, Process
    <1>6. ASSUME NEW p \in Process, InsertSessions(p) PROVE Quiet
        BY <1>6, QuietPublish DEF InsertSessions, Inserts
    <1>7. ASSUME NEW p \in Process, PublishOne(p) PROVE Quiet
        <2>1. pc[p].then \in {"idle", "watching", "check"}
            BY <1>7, ContinuationFields DEF PublishOne
        <2>2. PICK m \in pc[p].msgs : ThenPublish(p, pc[p].msgs \ {m}, pc[p].then)
            BY <1>7 DEF PublishOne
        <2> QED BY <2>1, <2>2, QuietPublish
    <1>8. ASSUME NEW p \in Process, Abandon(p) PROVE Quiet
        BY <1>8, QuietGo DEF Abandon
    <1>9. ASSUME ApproveAndDispatch PROVE Quiet
        <2>1. PICK msgs : ThenPublish(Admin, msgs, "idle")
            BY <1>9 DEF ApproveAndDispatch, Dispatches
        <2> QED BY <2>1, QuietPublish DEF Process
    <1> HIDE DEF Quiet
    <1>10. \/ UNCHANGED pc
           \/ Quiet
           \/ \E o \in Observer : ObserveLive(o) \/ PlanEntries(o)
           \/ \E p \in Worker : ReportSessionStatus(p) \/ RestartSession(p)
        BY <1>1, <1>2, <1>3, <1>4, <1>5, <1>6, <1>7, <1>8, <1>9
           DEF Next, vars, ObserverStep, WorkerStep, GenerateCandidate,
               Dismiss, EditTask, EditAccount, EditNode, CooldownEnds,
               WorkerHeartbeat, GraceElapses
    <1> QED BY <1>10 DEF Quiet
-------------------------------------------------------------------------------
(***************************************************************************)
(* A task is planned once.                                                 *)
(***************************************************************************)
\* A task that nobody edits is pending until an observer starts it.
LEMMA StartedStaysStarted ==
    ASSUME Typed, [Next]_vars, Editable \cap Task = {}
    PROVE  \A t \in Task : task'[t] = "pending" => task[t] = "pending"
    <1>1. CASE UNCHANGED task
        BY <1>1
    <1>2. ASSUME NEW o \in Observer, ObserveLive(o) \/ ObserveNotLive(o)
          PROVE  \A t \in Task : task'[t] = "pending" => task[t] = "pending"
        BY <1>2 DEF ObserveLive, ObserveNotLive, Typed, DbOK
    <1> QED BY <1>1, <1>2
            DEF Next, vars, db, ObserverStep, OperatorObserve,
                ObserveStillLive, PlanEntries, ScheduleChecks, CloseSessions,
                WorkerStep, EnterLiveRoom, SendComment, CheckSession,
                CloseSession, ReportSessionStatus, RestartSession,
                ReportSendResult, WorkerDies, InsertSessions, PublishOne,
                Abandon, GenerateCandidate, ApproveAndDispatch, Dismiss,
                EditTask, EditAccount, EditNode, CooldownEnds,
                WorkerHeartbeat, GraceElapses

\* Whoever starts to plan a task has started it.
LEMMA PlannedOnceStep ==
    ASSUME Typed, PlannedOnce, [Next]_vars, Editable \cap Task = {}
    PROVE  /\ PlannedOnce'
           /\ \A t \in Task : IsUnplanned(t)' => IsUnplanned(t)
    <1>p. PcOK /\ Observer \subseteq Process /\ Worker \subseteq Process
        BY DEF Typed, Process
    <1>w. \A o \in Observer : Watches[o] \in Task
        BY CenterAssumption DEF CenterAssumption
    <1>t. \A t \in Task : task'[t] = "pending" => task[t] = "pending"
        BY StartedStaysStarted
    <1>1. ASSUME \A o \in Observer : pc'[o].at = "plan" => pc[o].at = "plan"
          PROVE  /\ PlannedOnce'
                 /\ \A t \in Task : IsUnplanned(t)' => IsUnplanned(t)
        BY <1>1, <1>t, <1>w DEF PlannedOnce, IsUnplanned
    <1>2. ASSUME UNCHANGED pc
          PROVE  \A o \in Observer : pc'[o].at = "plan" => pc[o].at = "plan"
        BY <1>2
    <1>3. ASSUME NEW p \in Process, GoesQuiet(p)
          PROVE  \A o \in Observer : pc'[o].at = "plan" => pc[o].at = "plan"
        BY <1>3, <1>p DEF GoesQuiet, IsQuiet
    <1>4. ASSUME NEW o \in Observer, PlanEntries(o)
          PROVE  \A r \in Observer : pc'[r].at = "plan" => pc[r].at = "plan"
        <2>1. \A r \in Observer : r # o => pc'[r] = pc[r]
            BY <1>4, <1>p DEF PlanEntries, Go, PcOK
        <2> QED BY <2>1, <1>4 DEF PlanEntries
    <1>5. ASSUME NEW p \in Worker, ReportSessionStatus(p) \/ RestartSession(p)
          PROVE  \A r \in Observer : pc'[r].at = "plan" => pc[r].at = "plan"
        <2>1. \E k : pc' = [pc EXCEPT ![p] = k]
            BY <1>5 DEF ReportSessionStatus, RestartSession, Go
        <2>2. pc'[p].at # "plan"
            BY <1>5, <1>p DEF ReportSessionStatus, AfterReport,
                              RestartSession, Go, PcOK
        <2> QED BY <2>1, <2>2, <1>p DEF PcOK
    <1>6. ASSUME NEW o \in Observer, ObserveLive(o)
          PROVE  /\ PlannedOnce'
                 /\ \A t \in Task : IsUnplanned(t)' => IsUnplanned(t)
        <2>1. /\ task[Watches[o]] = "pending"
              /\ task'[Watches[o]] = "running"
              /\ \A r \in Observer : r # o => pc'[r] = pc[r]
            BY <1>6, <1>p, <1>w DEF ObserveLive, Go, PcOK, Typed, DbOK
        <2>2. \A r \in Observer : pc[r].at = "plan" => Watches[r] # Watches[o]
            BY <2>1 DEF PlannedOnce
        <2>3. \A r \in Observer : pc'[r].at = "plan" =>
                 r = o \/ (pc[r].at = "plan" /\ Watches[r] # Watches[o])
            BY <2>1, <2>2
        <2> QED BY <2>1, <2>3, <1>t, <1>w DEF PlannedOnce, IsUnplanned
    <1> QED BY <1>p, <1>1, <1>2, <1>3, <1>4, <1>5, <1>6, QuietNext
-------------------------------------------------------------------------------
(***************************************************************************)
(* The chain.                                                              *)
(***************************************************************************)
\* Nothing is inserted and no rebuild begins.
LEMMA ChainStays ==
    ASSUME ChainInv, RowsStay, Sessions' = Sessions,
           \A t \in Task : IsUnplanned(t)' => IsUnplanned(t),
           \A p \in Process : \A slot, n :
               Rebuilds(pc'[p], session', slot, n)
                   => Rebuilds(pc[p], session, slot, n)
    PROVE  /\ RebuildsAreNext' /\ OneRebuild' /\ UnplannedAreEmpty'
           /\ RestartsFormAChain'
    <1>1. \A s \in Sessions : session'[s].task = session[s].task
        BY DEF RowsStay, SlotOf
    <1>2. RebuildsAreNext'
        BY DEF ChainInv, RebuildsAreNext, RowsStay, IsTerminal
    <1>3. OneRebuild'
        BY DEF ChainInv, OneRebuild
    <1>4. UnplannedAreEmpty'
        BY <1>1 DEF ChainInv, UnplannedAreEmpty
    <1>5. RestartsFormAChain'
        BY DEF ChainInv, RestartsFormAChain, RowsStay, IsTerminal
    <1> QED BY <1>2, <1>3, <1>4, <1>5

\* What a process still has to rebuild does not change with the sessions.
LEMMA SameRebuilds ==
    ASSUME PcOK, RowsStay, NEW q \in Process, pc'[q] = pc[q], NEW k, NEW n,
           Rebuilds(pc'[q], session', k, n)
    PROVE  Rebuilds(pc[q], session, k, n)
    BY ContinuationFields DEF Rebuilds, RowsStay

\* A session that ends is the last one of its slot, and nobody else rebuilds
\* it: its rebuild is the next of the chain.
LEMMA ChainReport ==
    ASSUME ChainInv, RowsStay, Sessions' = Sessions,
           \A t \in Task : IsUnplanned(t)' => IsUnplanned(t),
           NEW p \in Process, NEW s \in Sessions,
           ~IsTerminal(s), session'[s].status \in Terminal,
           ~(pc[p].at \in {"insert", "restart"}),
           pc'[p].at = "restart", pc'[p].sess = s,
           \A q \in Process : q # p => pc'[q] = pc[q]
    PROVE  /\ RebuildsAreNext' /\ OneRebuild' /\ UnplannedAreEmpty'
           /\ RestartsFormAChain'
    <1> DEFINE slot == SlotOf(session[s])
               next == session[s].restart + 1
    <1>t. \A r \in Sessions : /\ session'[r].task = session[r].task
                              /\ session[r].restart \in Nat
        <2>1. \A r \in Sessions : session[r] \in SessionRow
            BY DEF ChainInv, JobInv, SlotInv, Typed, DbOK, IsTable, Sessions
        <2> QED BY <2>1, DomainAssumption
                DEF RowsStay, SlotOf, SessionRow, DomainAssumption
    <1>1. ASSUME NEW k, NEW n, Rebuilds(pc'[p], session', k, n)
          PROVE  k = slot /\ n = next
        BY <1>1 DEF Rebuilds, RowsStay
    <1>2. ASSUME NEW q \in Process, q # p, NEW k, NEW n,
                 Rebuilds(pc'[q], session', k, n)
          PROVE  Rebuilds(pc[q], session, k, n)
        BY <1>2, SameRebuilds DEF ChainInv, JobInv, SlotInv, Typed
    <1>3. \A q \in Process : \A n : ~Rebuilds(pc[q], session, slot, n)
        BY DEF ChainInv, RebuildsAreNext
    <1>4. \A r \in Sessions : SlotOf(session[r]) = slot /\ r # s =>
              session[r].restart < session[s].restart /\ IsTerminal(r)
        BY <1>t DEF ChainInv, RestartsFormAChain
    <1>5. RebuildsAreNext'
        <2>1. ASSUME NEW q \in Process, NEW k, NEW n,
                     Rebuilds(pc'[q], session', k, n), NEW r \in Sessions,
                     SlotOf(session[r]) = k
              PROVE  session[r].restart < n /\ session'[r].status \in Terminal
            <3>1. CASE q = p
                <4>1. k = slot /\ n = next
                    BY <3>1, <2>1, <1>1
                <4>2. CASE r = s
                    BY <4>1, <4>2, <1>t
                <4>3. CASE r # s
                    <5>1. session[r].restart < session[s].restart
                          /\ IsTerminal(r)
                        BY <4>1, <4>3, <2>1, <1>4
                    <5> QED BY <4>1, <5>1, <1>t DEF RowsStay
                <4> QED BY <4>2, <4>3
            <3>2. CASE q # p
                BY <3>2, <2>1, <1>2 DEF ChainInv, RebuildsAreNext, RowsStay
            <3> QED BY <3>1, <3>2
        <2>2. /\ \A r \in Sessions : SlotOf(session'[r]) = SlotOf(session[r])
              /\ \A r \in Sessions : session'[r].restart = session[r].restart
            BY DEF RowsStay
        <2> HIDE DEF slot, next
        <2> QED BY <2>1, <2>2 DEF RebuildsAreNext, IsTerminal
    <1>6. OneRebuild'
        <2>1. ASSUME NEW q \in Process, q # p, NEW k, NEW m, NEW n,
                     Rebuilds(pc'[q], session', k, m),
                     Rebuilds(pc'[p], session', k, n)
              PROVE  FALSE
            BY <2>1, <1>1, <1>2, <1>3
        <2> HIDE DEF slot, next
        <2> QED BY <2>1, <1>2 DEF ChainInv, OneRebuild
    <1>7. UnplannedAreEmpty'
        <2>1. \A t, a : slot = <<t, a>> => t = session[s].task
            BY DEF SlotOf
        <2> HIDE DEF slot, next
        <2>2. ASSUME NEW t \in Task, IsUnplanned(t), NEW q \in Process,
                     NEW a, NEW n, Rebuilds(pc'[q], session', <<t, a>>, n)
              PROVE  FALSE
            <3>1. CASE q = p
                <4>1. slot = <<t, a>>
                    BY <3>1, <2>2, <1>1
                <4> QED BY <4>1, <2>1, <2>2 DEF ChainInv, UnplannedAreEmpty
            <3>2. CASE q # p
                BY <3>2, <2>2, <1>2 DEF ChainInv, UnplannedAreEmpty
            <3> QED BY <3>1, <3>2
        <2> QED BY <2>2, <1>t DEF ChainInv, UnplannedAreEmpty
    <1>8. RestartsFormAChain'
        BY DEF ChainInv, RestartsFormAChain, RowsStay, IsTerminal
    <1> QED BY <1>5, <1>6, <1>7, <1>8

\* The rebuild goes on with the slot and the count it began with.
LEMMA RestartKeepsRebuild ==
    ASSUME Typed, RowsStay, NEW p \in Process, RestartSession(p),
           NEW q \in Process, NEW k, NEW n,
           Rebuilds(pc'[q], session', k, n)
    PROVE  Rebuilds(pc[q], session, k, n)
    <1>1. CASE q # p
        <2>1. pc'[q] = pc[q]
            BY <1>1 DEF RestartSession, Typed, PcOK
        <2> QED BY <2>1, SameRebuilds DEF Typed
    <1>2. CASE q = p
        <2>1. pc'[p] = [at |-> "insert", rows |-> Restarts(pc[p].sess)]
                \/ pc'[p] = [at |-> "idle"]
            BY DEF RestartSession, Typed, PcOK
        <2>2. \A r \in Restarts(pc[p].sess) :
                 /\ SlotOf(r) = SlotOf(session[pc[p].sess])
                 /\ r.restart = session[pc[p].sess].restart + 1
            BY DEF Restarts, PlannedSession, SlotOf
        <2>3. pc[p].at = "restart"
            BY DEF RestartSession
        <2> QED BY <1>2, <2>1, <2>2, <2>3 DEF Rebuilds
    <1> QED BY <1>1, <1>2

\* The first sessions of a task are planned while there are none of it.
LEMMA ChainPlan ==
    ASSUME ChainInv, RowsStay, UNCHANGED session, PlannedOnce',
           \A t \in Task : IsUnplanned(t)' => IsUnplanned(t),
           NEW o \in Observer, PlanEntries(o)
    PROVE  /\ RebuildsAreNext' /\ OneRebuild' /\ UnplannedAreEmpty'
           /\ RestartsFormAChain'
    <1> DEFINE t == Watches[o]
    <1>p. /\ o \in Process /\ PcOK /\ t \in Task /\ Sessions' = Sessions
          /\ UNCHANGED task
        BY CenterAssumption
           DEF ChainInv, JobInv, SlotInv, Typed, Process, CenterAssumption,
               Sessions, PlanEntries, db
    <1>1. /\ \A s \in Sessions : session[s].task # t
          /\ \A q \in Process : \A a, n : ~Rebuilds(pc[q], session, <<t, a>>, n)
        BY <1>p DEF ChainInv, UnplannedAreEmpty, IsUnplanned, PlanEntries
    <1>2. ASSUME NEW k, NEW n, Rebuilds(pc'[o], session', k, n)
          PROVE  \E a : k = <<t, a>>
        <2>1. CASE Go(o, "check")
            BY <2>1, <1>2, <1>p DEF Go, PcOK, Rebuilds
        <2>2. ASSUME NEW place,
                     pc' = [pc EXCEPT ![o] =
                               [at |-> "insert",
                                rows |-> {PlannedSession(t, a, place[a], 0) :
                                              a \in DOMAIN place}]]
              PROVE  \E a : k = <<t, a>>
            <3>1. \A a : SlotOf(PlannedSession(t, a, place[a], 0)) = <<t, a>>
                BY DEF SlotOf, PlannedSession
            <3>2. pc'[o] = [at |-> "insert",
                            rows |-> {PlannedSession(t, a, place[a], 0) :
                                          a \in DOMAIN place}]
                BY <2>2, <1>p DEF PcOK
            <3>3. PICK r \in pc'[o].rows : SlotOf(r) = k
                BY <3>2, <1>2 DEF Rebuilds
            <3>4. PICK a \in DOMAIN place :
                      r = PlannedSession(t, a, place[a], 0)
                BY <3>2, <3>3
            <3> QED BY <3>1, <3>3, <3>4
        <2> HIDE DEF t
        <2> QED BY <2>1, <2>2 DEF PlanEntries, t
    <1>3. ASSUME NEW q \in Process, q # o, NEW k, NEW n,
                 Rebuilds(pc'[q], session', k, n)
          PROVE  Rebuilds(pc[q], session, k, n)
        <2>1. \E c : pc' = [pc EXCEPT ![o] = c]
            BY DEF PlanEntries, Go
        <2>2. pc'[q] = pc[q]
            BY <2>1, <1>3, <1>p DEF PcOK
        <2> QED BY <2>2, <1>3, <1>p, SameRebuilds
    <1>4. RebuildsAreNext'
        <2>1. \A a : \A s \in Sessions : SlotOf(session[s]) # <<t, a>>
            BY <1>1 DEF SlotOf
        <2> HIDE DEF t
        <2>2. ASSUME NEW q \in Process, NEW k, NEW n,
                     Rebuilds(pc'[q], session', k, n), NEW s \in Sessions,
                     SlotOf(session[s]) = k
              PROVE  session[s].restart < n /\ IsTerminal(s)
            <3>1. CASE q = o
                BY <3>1, <2>2, <1>2, <2>1
            <3>2. CASE q # o
                BY <3>2, <2>2, <1>3 DEF ChainInv, RebuildsAreNext
            <3> QED BY <3>1, <3>2
        <2> QED BY <2>2, <1>p DEF RebuildsAreNext, IsTerminal
    <1>5. OneRebuild'
        <2> HIDE DEF t
        <2>1. ASSUME NEW q \in Process, q # o, NEW k, NEW m, NEW n,
                     Rebuilds(pc'[q], session', k, m),
                     Rebuilds(pc'[o], session', k, n)
              PROVE  FALSE
            BY <2>1, <1>1, <1>2, <1>3
        <2> QED BY <2>1, <1>3 DEF ChainInv, OneRebuild
    <1>6. UnplannedAreEmpty'
        <2>1. ~IsUnplanned(t)'
            <3>1. task'[t] # "pending"
                BY <1>p DEF PlanEntries, ChainInv, PlannedOnce
            <3>2. pc'[o].at # "plan"
                BY <1>p DEF PlanEntries, Go, PcOK
            <3>3. \A r \in Observer : r # o => pc'[r] = pc[r]
                BY <1>p DEF PlanEntries, Go, PcOK, Process
            <3>4. \A r \in Observer : pc[r].at = "plan" /\ Watches[r] = t => r = o
                BY DEF PlanEntries, ChainInv, PlannedOnce
            <3> QED BY <3>1, <3>2, <3>3, <3>4 DEF IsUnplanned
        <2> HIDE DEF t
        <2>2. ASSUME NEW b \in Task, IsUnplanned(b)', NEW q \in Process,
                     NEW a, NEW n, Rebuilds(pc'[q], session', <<b, a>>, n)
              PROVE  FALSE
            <3>1. CASE q = o
                BY <3>1, <2>1, <2>2, <1>2
            <3>2. CASE q # o
                BY <3>2, <2>2, <1>3 DEF ChainInv, UnplannedAreEmpty
            <3> QED BY <3>1, <3>2
        <2> QED BY <2>2, <1>p DEF ChainInv, UnplannedAreEmpty
    <1>7. RestartsFormAChain'
        BY <1>p DEF ChainInv, RestartsFormAChain, IsTerminal
    <1> QED BY <1>4, <1>5, <1>6, <1>7

\* What is inserted is the next of its chain, and nobody else rebuilds it.
LEMMA ChainInsert ==
    ASSUME ChainInv, JobInv', RowsStay,
           \A t \in Task : IsUnplanned(t)' => IsUnplanned(t),
           NEW p \in Process, InsertSessions(p)
    PROVE  /\ RebuildsAreNext' /\ OneRebuild' /\ UnplannedAreEmpty'
           /\ RestartsFormAChain'
    <1> DEFINE New == Sessions' \ Sessions
    <1>p. PcOK /\ pc[p].at = "insert"
        BY DEF ChainInv, JobInv, SlotInv, Typed, InsertSessions
    <1>q. GoesQuiet(p)
        BY <1>p, QuietPublish DEF InsertSessions, Inserts
    <1>1. \A s \in New : session'[s] \in pc[p].rows
        <2>1. PICK D \in SUBSET (SessionId \ Sessions) :
                  \E new \in Bijection(D, FreeRows(pc[p].rows)) : Inserts(p, new)
            BY DEF InsertSessions
        <2>2. PICK new \in Bijection(D, FreeRows(pc[p].rows)) : Inserts(p, new)
            BY <2>1
        <2>3. new \in [D -> FreeRows(pc[p].rows)]
            BY <2>2 DEF Bijection, Injection
        <2>4. Sessions' = Sessions \cup D /\ \A s \in D : session'[s] = new[s]
            BY <2>2, <2>3 DEF Inserts, Sessions
        <2> QED BY <2>3, <2>4 DEF FreeRows
    <1>2. \A s \in New : Rebuilds(pc[p], session, SlotOf(session'[s]),
                                  session'[s].restart)
        BY <1>1, <1>p DEF Rebuilds
    <1>3. \A r, s \in New : r # s => SlotOf(session'[r]) # SlotOf(session'[s])
        BY InsertionsAreApart DEF ChainInv, JobInv
    <1>4. ASSUME NEW q \in Process, NEW k, NEW n,
                 Rebuilds(pc'[q], session', k, n)
          PROVE  q # p /\ Rebuilds(pc[q], session, k, n)
        <2>1. q # p
            BY <1>4, <1>q DEF GoesQuiet, IsQuiet, Rebuilds
        <2>2. pc'[q] = pc[q]
            BY <2>1, <1>q DEF GoesQuiet
        <2> QED BY <2>1, <2>2, <1>4, <1>p, SameRebuilds
    <1>5. ASSUME NEW s \in New, NEW r \in Sessions,
                 SlotOf(session'[r]) = SlotOf(session'[s])
          PROVE  session'[r].restart < session'[s].restart
                 /\ session'[r].status \in Terminal
        BY <1>5, <1>2 DEF ChainInv, RebuildsAreNext, RowsStay
    <1>6. \A s \in Sessions' : session'[s].restart \in Int
        <2>1. \A s \in Sessions' : session'[s] \in SessionRow
            BY DEF JobInv, SlotInv, Typed, DbOK, IsTable, Sessions
        <2> QED BY <2>1, DomainAssumption DEF SessionRow, DomainAssumption
    <1>7. RebuildsAreNext'
        <2>1. ASSUME NEW q \in Process, NEW k, NEW n,
                     Rebuilds(pc'[q], session', k, n), NEW s \in Sessions',
                     SlotOf(session'[s]) = k
              PROVE  session'[s].restart < n /\ session'[s].status \in Terminal
            <3>1. q # p /\ Rebuilds(pc[q], session, k, n)
                BY <2>1, <1>4
            <3>2. s \in Sessions
                BY <3>1, <2>1, <1>2 DEF ChainInv, OneRebuild
            <3> QED BY <3>1, <3>2, <2>1 DEF ChainInv, RebuildsAreNext, RowsStay
        <2> QED BY <2>1 DEF RebuildsAreNext, IsTerminal
    <1>8. OneRebuild'
        BY <1>4 DEF ChainInv, OneRebuild
    <1>9. UnplannedAreEmpty'
        <2>1. ASSUME NEW t \in Task, IsUnplanned(t)', NEW s \in Sessions',
                     session'[s].task = t
              PROVE  FALSE
            <3>1. CASE s \in Sessions
                BY <3>1, <2>1 DEF ChainInv, UnplannedAreEmpty, RowsStay, SlotOf
            <3>2. CASE s \notin Sessions
                <4>1. SlotOf(session'[s]) = <<t, session'[s].account>>
                    BY <2>1 DEF SlotOf
                <4> QED BY <3>2, <4>1, <2>1, <1>2
                        DEF ChainInv, UnplannedAreEmpty
            <3> QED BY <3>1, <3>2
        <2> QED BY <2>1, <1>4 DEF ChainInv, UnplannedAreEmpty
    <1>10. RestartsFormAChain'
        <2>1. ASSUME NEW r \in Sessions', NEW s \in Sessions', r # s,
                     SlotOf(session'[r]) = SlotOf(session'[s])
              PROVE  /\ session'[r].restart # session'[s].restart
                     /\ session'[r].restart < session'[s].restart
                            => session'[r].status \in Terminal
            <3>1. CASE r \in Sessions /\ s \in Sessions
                BY <3>1, <2>1 DEF ChainInv, RestartsFormAChain, RowsStay,
                                  IsTerminal
            <3>2. CASE r \in Sessions /\ s \in New
                BY <3>2, <2>1, <1>5, <1>6
            <3>3. CASE r \in New /\ s \in Sessions
                BY <3>3, <2>1, <1>5, <1>6
            <3>4. CASE r \in New /\ s \in New
                BY <3>4, <2>1, <1>3
            <3> QED BY <3>1, <3>2, <3>3, <3>4
        <2> QED BY <2>1 DEF RestartsFormAChain, IsTerminal
    <1> QED BY <1>7, <1>8, <1>9, <1>10

LEMMA ChainNext ==
    ASSUME ChainInv, [Next]_vars, Editable \cap Task = {}
    PROVE  ChainInv'
    <1>p. Typed /\ PcOK /\ JobInv
        BY DEF ChainInv, JobInv, SlotInv, Typed
    <1>j. JobInv' /\ RowsStay
        BY <1>p, JobStep, RowsAreKept
    <1>u. PlannedOnce' /\ \A t \in Task : IsUnplanned(t)' => IsUnplanned(t)
        BY <1>p, PlannedOnceStep DEF ChainInv
    <1> DEFINE Kept == /\ RebuildsAreNext' /\ OneRebuild' /\ UnplannedAreEmpty'
                       /\ RestartsFormAChain'
    <1> SUFFICES Kept
        BY <1>j, <1>u DEF ChainInv
    <1>1. ASSUME NEW p \in Process, InsertSessions(p) PROVE Kept
        BY <1>1, <1>j, <1>u, ChainInsert
    <1>2. CASE SessionsMove
        <2>s. Sessions' = Sessions
            BY <1>2 DEF SessionsMove
        <2>1. CASE UNCHANGED pc
            <3>1. \A q \in Process : \A k, n : Rebuilds(pc'[q], session', k, n)
                      => Rebuilds(pc[q], session, k, n)
                BY <2>1, <1>p, <1>j, SameRebuilds
            <3> QED BY <3>1, <2>s, <1>j, <1>u, ChainStays
        <2>2. ASSUME NEW p \in Process, GoesQuiet(p) PROVE Kept
            <3>1. \A q \in Process : \A k, n : Rebuilds(pc'[q], session', k, n)
                      => Rebuilds(pc[q], session, k, n)
                <4>1. \A k, n : ~Rebuilds(pc'[p], session', k, n)
                    BY <2>2 DEF GoesQuiet, IsQuiet, Rebuilds
                <4>2. \A q \in Process : q # p => pc'[q] = pc[q]
                    BY <2>2 DEF GoesQuiet
                <4> QED BY <4>1, <4>2, <1>p, <1>j, SameRebuilds
            <3> QED BY <3>1, <2>s, <1>j, <1>u, ChainStays
        <2>3. ASSUME NEW o \in Observer, ObserveLive(o) PROVE Kept
            <3>1. \A q \in Process : \A k, n : Rebuilds(pc'[q], session', k, n)
                      => Rebuilds(pc[q], session, k, n)
                <4>1. \A q \in Process : pc'[q] = pc[q] \/ pc'[q].at = "plan"
                    BY <2>3, <1>p DEF ObserveLive, Go, PcOK
                <4> QED BY <4>1, <1>p, <1>j, SameRebuilds DEF Rebuilds
            <3> QED BY <3>1, <2>s, <1>j, <1>u, ChainStays
        <2>4. ASSUME NEW o \in Observer, PlanEntries(o) PROVE Kept
            <3>1. UNCHANGED session
                BY <2>4 DEF PlanEntries, db
            <3> QED BY <3>1, <2>4, <1>j, <1>u, ChainPlan
        <2>5. ASSUME NEW p \in Worker, ReportSessionStatus(p) PROVE Kept
            <3> DEFINE s == pc[p].sess
                       status == pc[p].status
            <3>w. /\ p \in Process /\ pc[p].at = "status"
                  /\ s \in Sessions /\ status \in SessionStatus
                BY <2>5, <1>p, ContinuationFields
                   DEF Process, ReportSessionStatus
            <3>1. \A q \in Process : q # p => pc'[q] = pc[q]
                <4>1. \E k : pc' = [pc EXCEPT ![p] = k]
                    BY <2>5 DEF ReportSessionStatus, Go
                <4> QED BY <4>1, <1>p DEF PcOK
            <3>2. CASE pc'[p].at # "restart"
                <4>1. pc'[p] = [at |-> "idle"]
                    BY <3>2, <3>w, <2>5, <1>p
                       DEF ReportSessionStatus, AfterReport, Go, PcOK
                <4>2. GoesQuiet(p)
                    BY <4>1, <3>1 DEF GoesQuiet, IsQuiet
                <4> QED BY <4>2, <3>w, <2>2
            <3>3. CASE pc'[p].at = "restart"
                <4>1. /\ AcceptsReport(session[s], status)
                      /\ session' = [session EXCEPT ![s] =
                                        WithStatus(@, status)]
                      /\ pc' = [pc EXCEPT ![p] = AfterReport(s, status)]
                    BY <3>3, <3>w, <2>5, <1>p DEF ReportSessionStatus, Go, PcOK
                <4>2. /\ status \in Terminal
                      /\ pc'[p].at = "restart" /\ pc'[p].sess = s
                    BY <3>3, <3>w, <4>1, <1>p
                       DEF AfterReport, PcOK, Restartable, Terminal
                <4>3. ~IsTerminal(s)
                    BY <4>1 DEF AcceptsReport, IsTerminal
                <4>4. session'[s].status \in Terminal
                    <5>1. session[s] \in SessionRow
                        BY <3>w, <1>p DEF Typed, DbOK, IsTable, Sessions
                    <5>2. WithStatus(session[s], status).status = status
                        BY <5>1, <3>w, WithStatusIsRow
                    <5>3. session'[s] = WithStatus(session[s], status)
                        BY <3>w, <4>1 DEF Sessions
                    <5> QED BY <5>2, <5>3, <4>2
                <4> HIDE DEF s, status
                <4>5. ~(pc[p].at \in {"insert", "restart"})
                    BY <3>w
                <4> QED BY <3>w, <3>1, <4>2, <4>3, <4>4, <4>5, <2>s, <1>j,
                           <1>u, ChainReport
            <3> QED BY <3>2, <3>3
        <2>6. ASSUME NEW p \in Worker, RestartSession(p) PROVE Kept
            <3>1. \A q \in Process : \A k, n : Rebuilds(pc'[q], session', k, n)
                      => Rebuilds(pc[q], session, k, n)
                BY <2>6, <1>p, <1>j, RestartKeepsRebuild DEF Process
            <3> QED BY <3>1, <2>s, <1>j, <1>u, ChainStays
        <2> HIDE DEF Kept
        <2> QED BY <2>1, <2>2, <2>3, <2>4, <2>5, <2>6, <1>p, QuietNext
    <1> HIDE DEF Kept
    <1> QED BY <1>1, <1>2, <1>p, MoveOrInsert DEF JobInv, SlotInv

LEMMA ChainInit == Init => ChainInv
    <1> SUFFICES ASSUME Init PROVE ChainInv
        OBVIOUS
    <1>1. JobInv
        BY JobInit
    <1>2. Sessions = {} /\ \A p \in Process : pc[p].at = "idle"
        BY DEF Init, Sessions
    <1>3. \A p \in Process : \A k, n : ~Rebuilds(pc[p], session, k, n)
        BY <1>2 DEF Rebuilds
    <1>4. PlannedOnce
        BY <1>2 DEF PlannedOnce, Process
    <1> QED BY <1>1, <1>2, <1>3, <1>4
            DEF ChainInv, RebuildsAreNext, OneRebuild, UnplannedAreEmpty,
                RestartsFormAChain

\* The rebuilds of an account in a task that nobody edits form one chain,
\* whatever reports of its sessions arrive late, twice or never: the
\* restarter and the dispatcher never count one rebuild twice, nor rebuild
\* beside a session that lives.
THEOREM RebuildsFormAChain ==
    ASSUME Editable \cap Task = {}
    PROVE  Spec => []RestartsFormAChain
    <1>1. ChainInv /\ [Next]_vars => ChainInv'
        BY ChainNext
    <1>2. ChainInv => RestartsFormAChain
        BY DEF ChainInv
    <1> QED BY <1>1, <1>2, ChainInit, PTL DEF Spec
===============================================================================
