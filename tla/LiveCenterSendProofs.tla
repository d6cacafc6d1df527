------------------------- MODULE LiveCenterSendProofs -------------------------
(***************************************************************************)
(* A closing session only ends, a candidate is approved with its one job,  *)
(* a session that is sending does so for a job that runs, and the counter  *)
(* of an account is right, for any constants; and LiveCenter implements    *)
(* DispatchLedger.                                                         *)
(*                                                                         *)
(* The argument: a job keeps its session and its candidate, so that every  *)
(* queued send and every result in flight names a job of the session it    *)
(* names.  A result then finishes a job of the session that it frees, and  *)
(* no other session loses the job it sends for.                            *)
(*                                                                         *)
(* For the refinement an approved candidate has exactly one job, whose     *)
(* status is its fate, so that what happens to jobs happens to candidates. *)
(***************************************************************************)
EXTENDS LiveCenterJobProofs

\* Jobs keep their sessions and candidates, sessions their accounts.
JobsStay == \A j \in Jobs : /\ j \in Jobs'
                            /\ job'[j].sess = job[j].sess
                            /\ job'[j].cand = job[j].cand
AccountsStay == \A s \in Sessions :
                    /\ s \in Sessions'
                    /\ session'[s].account = session[s].account

\* What a batch does to candidates, jobs and sessions.
Batch(use, work) ==
    /\ \A c \in DOMAIN use :
          /\ c \in Candidate /\ use[c] \in Sessions /\ IsReviewable(c)
          /\ IsAvailable(acct[session[use[c]].account])
    /\ \A j \in DOMAIN work : work[j] \in DOMAIN use
    /\ \A i, j \in DOMAIN work : work[i] = work[j] => i = j
    /\ \A c \in DOMAIN use : \E j \in DOMAIN work : work[j] = c
    /\ DOMAIN work \cap Jobs = {} /\ Jobs' = Jobs \cup DOMAIN work
    /\ \A j \in Jobs : job'[j] = job[j]
    /\ \A j \in DOMAIN work :
          /\ job'[j].cand = work[j] /\ job'[j].sess = use[work[j]]
          /\ job'[j].status = "running"
    /\ cand' = [c \in Candidate |->
                   IF c \in DOMAIN use THEN "approved" ELSE cand[c]]
    /\ Sessions' = Sessions
    /\ \A s \in Sessions :
          /\ session'[s].status = "sending" =>
                \/ session[s].status = "sending"
                \/ \E c \in DOMAIN use : use[c] = s
          /\ session[s].status # "waiting" => session'[s] = session[s]
    /\ UNCHANGED <<acct, queue, delayed>>
    /\ ThenPublish(Admin, {[kind |-> "send", sess |-> use[work[j]],
                            job |-> j] : j \in DOMAIN work}, "idle")

LEMMA ApproveIsBatch ==
    ASSUME ApproveAndDispatch
    PROVE  \E use, work : Batch(use, work)
    <1>1. PICK use \in UNION {Injection(D, Sessions) :
                                  D \in (SUBSET Candidate) \ {{}}} :
              \E work \in UNION {Bijection(J, DOMAIN use) :
                                     J \in SUBSET (JobId \ Jobs)} :
                  Dispatches(use, work)
        BY DEF ApproveAndDispatch
    <1>2. PICK work \in UNION {Bijection(J, DOMAIN use) :
                                   J \in SUBSET (JobId \ Jobs)} :
              Dispatches(use, work)
        BY <1>1
    <1>3. /\ \A c \in DOMAIN use : c \in Candidate
          /\ \A c \in DOMAIN use : use[c] \in Sessions
        BY <1>1 DEF Injection
    <1>4. /\ \A j \in DOMAIN work : work[j] \in DOMAIN use
          /\ \A i, j \in DOMAIN work : work[i] = work[j] => i = j
          /\ \A c \in DOMAIN use : \E j \in DOMAIN work : work[j] = c
          /\ DOMAIN work \cap Jobs = {}
        BY <1>2 DEF Bijection, Injection, Surjection, IsInjective
    <1>5. \A c \in DOMAIN use :
              /\ IsReviewable(c) /\ session[use[c]].status = "waiting"
              /\ IsAvailable(acct[session[use[c]].account])
        BY <1>2 DEF Dispatches, CanSend
    <1>6. /\ Jobs' = Jobs \cup DOMAIN work
          /\ \A j \in Jobs : job'[j] = job[j]
          /\ \A j \in DOMAIN work :
                job'[j] = [cand |-> work[j], sess |-> use[work[j]],
                           status |-> "running", attempts |-> <<>>]
        BY <1>2, <1>4 DEF Dispatches, Jobs
    <1>7. \A j \in DOMAIN work :
              /\ job'[j].cand = work[j] /\ job'[j].sess = use[work[j]]
              /\ job'[j].status = "running"
        <2> SUFFICES ASSUME NEW j \in DOMAIN work
                     PROVE  /\ job'[j].cand = work[j]
                            /\ job'[j].sess = use[work[j]]
                            /\ job'[j].status = "running"
            OBVIOUS
        <2>1. job'[j] = [cand |-> work[j], sess |-> use[work[j]],
                         status |-> "running", attempts |-> <<>>]
            BY <1>6
        <2> QED BY <2>1
    <1> DEFINE taken == {s \in Sessions : \E c \in DOMAIN use : use[c] = s}
    <1>8. session' = [s \in Sessions |->
                         IF s \in taken
                         THEN [session[s] EXCEPT !.status = "sending",
                                                 !.sending = "fresh"]
                         ELSE session[s]]
        BY <1>2 DEF Dispatches
    <1>9. \A s \in taken : session[s].status = "waiting"
                           /\ \E c \in DOMAIN use : use[c] = s
        BY <1>5
    <1>10. /\ cand' = [c \in Candidate |->
                          IF c \in DOMAIN use THEN "approved" ELSE cand[c]]
           /\ ThenPublish(Admin, {[kind |-> "send", sess |-> use[work[j]],
                                   job |-> j] : j \in DOMAIN work}, "idle")
        BY <1>2 DEF Dispatches
    <1> HIDE DEF taken
    <1>11. /\ Sessions' = Sessions
           /\ \A s \in Sessions : s \notin taken => session'[s] = session[s]
        BY <1>8 DEF Sessions
    <1>12. \A s \in Sessions :
              /\ session'[s].status = "sending" =>
                    \/ session[s].status = "sending"
                    \/ \E c \in DOMAIN use : use[c] = s
              /\ session[s].status # "waiting" => session'[s] = session[s]
        BY <1>9, <1>11
    <1>13. UNCHANGED <<acct, queue, delayed>>
        BY DEF ApproveAndDispatch, celery
    <1>14. Batch(use, work)
        BY <1>3, <1>4, <1>5, <1>6, <1>7, <1>10, <1>11, <1>12, <1>13 DEF Batch
    <1> QED BY <1>14

\* What a result that is reported does to jobs and sessions.
Reported(j, s, outcome) ==
    \/ UNCHANGED <<session, job, acct>>
    \/ /\ ResultCounts(j, s) /\ s \in Sessions /\ outcome \in Outcome
       /\ Sessions' = Sessions /\ Jobs' = Jobs
       /\ session'[s].status = "waiting"
       /\ \A r \in Sessions : r # s => session'[r] = session[r]
       /\ j \in Jobs =>
             /\ job'[j].status = outcome
             /\ job'[j].sess = job[j].sess /\ job'[j].cand = job[j].cand
       /\ \A i \in Jobs : i # j => job'[i] = job[i]
       /\ acct' = [acct EXCEPT ![session[s].account] = Counted(@, outcome)]

LEMMA ResultIsReported ==
    ASSUME JobInv, NEW p \in Worker, ReportSendResult(p)
    PROVE  /\ Reported(pc[p].job, pc[p].sess, pc[p].status)
           /\ UNCHANGED <<cand, celery>>
    <1> DEFINE s == pc[p].sess
               j == pc[p].job
               outcome == pc[p].status
    <1>p. p \in Process /\ PcOK
        BY DEF Process, JobInv, SlotInv, Typed
    <1>r. s \in Sessions /\ outcome \in Outcome
        BY <1>p, ContinuationFields DEF ReportSendResult
    <1>t. /\ \A i \in Jobs : job[i] \in JobRow
          /\ session[s] \in SessionRow
        BY <1>r DEF JobInv, SlotInv, Typed, DbOK, IsTable, Jobs, Sessions
    <1>1. CASE UNCHANGED <<session, job, acct>>
        BY <1>1 DEF Reported, ReportSendResult
    <1>2. CASE /\ ResultCounts(j, s)
               /\ job' = [job EXCEPT ![j] = Finished(@, outcome)]
               /\ session' = [session EXCEPT ![s] = SentBy(@)]
               /\ acct' = [acct EXCEPT ![session[s].account] =
                                           Counted(@, outcome)]
        <2> HIDE DEF s, j, outcome
        <2>1. Sessions' = Sessions /\ Jobs' = Jobs
            BY <1>2 DEF Sessions, Jobs
        <2>2. /\ session'[s].status = "waiting"
              /\ \A r \in Sessions : r # s => session'[r] = session[r]
            BY <1>2, <1>r, <1>t, SentByIsRow DEF Sessions
        <2>3. \A i \in Jobs : i # j => job'[i] = job[i]
            BY <1>2 DEF Jobs
        <2>4. ASSUME j \in Jobs
              PROVE  /\ job'[j].status = outcome
                     /\ job'[j].sess = job[j].sess
                     /\ job'[j].cand = job[j].cand
            <3>1. job'[j] = Finished(job[j], outcome)
                BY <1>2, <2>4 DEF Jobs
            <3> QED BY <3>1, <2>4, <1>r, <1>t, FinishedIsRow
        <2>5. Reported(j, s, outcome)
            BY <1>2, <1>r, <2>1, <2>2, <2>3, <2>4 DEF Reported
        <2> QED BY <2>5 DEF ReportSendResult, s, j, outcome
    <1> QED BY <1>1, <1>2 DEF ReportSendResult, s, j, outcome

LEMMA JobsAreKept ==
    ASSUME JobInv, [Next]_vars
    PROVE  JobsStay /\ (ApproveAndDispatch \/ Jobs' = Jobs)
    <1> DEFINE Kept == JobsStay /\ (ApproveAndDispatch \/ Jobs' = Jobs)
    <1>u. ASSUME UNCHANGED job PROVE Kept
        BY <1>u DEF JobsStay, Jobs
    <1>e. ASSUME NEW S, EndsWithJobs(S) PROVE Kept
        <2>1. \A j \in Jobs : job[j] \in JobRow
            BY DEF JobInv, SlotInv, Typed, DbOK, IsTable, Jobs
        <2>2. /\ Jobs' = Jobs
              /\ \A j \in Jobs : job'[j] = job[j]
                                 \/ job'[j] = Finished(job[j], "failed")
            BY <1>e, FailingJobs DEF EndsWithJobs, Jobs
        <2>3. "failed" \in Outcome
            BY DEF Outcome
        <2> QED BY <2>1, <2>2, <2>3, FinishedIsRow DEF JobsStay
    <1> SUFFICES Kept
        OBVIOUS
    <1> HIDE DEF Kept
    <1>1. ASSUME NEW o \in Observer, ObserverStep(o) PROVE Kept
        BY <1>1, <1>u, <1>e, ObserverJobs
    <1>2. ASSUME NEW p \in Worker, WorkerStep(p) PROVE Kept
        <2>1. CASE ReportSessionStatus(p)
            BY <2>1, <1>u, <1>e, StatusJobs
        <2>2. CASE ReportSendResult(p)
            <3>1. Reported(pc[p].job, pc[p].sess, pc[p].status)
                BY <2>2, ResultIsReported
            <3>2. CASE UNCHANGED job
                BY <3>2, <1>u
            <3>3. CASE ~UNCHANGED job
                BY <3>1, <3>3 DEF Reported, Kept, JobsStay
            <3> QED BY <3>2, <3>3
        <2> QED BY <1>2, <1>u, <2>1, <2>2
                DEF WorkerStep, EnterLiveRoom, SendComment, CheckSession,
                    CloseSession, RestartSession, db
    <1>3. CASE ApproveAndDispatch
        <2>1. PICK use, work : Batch(use, work)
            BY <1>3, ApproveIsBatch
        <2> QED BY <1>3, <2>1 DEF Batch, Kept, JobsStay
    <1>4. CASE UNCHANGED job
        BY <1>4, <1>u
    <1> QED BY <1>1, <1>2, <1>3, <1>4
            DEF Next, vars, db, WorkerDies, InsertSessions, PublishOne, Abandon,
                GenerateCandidate, Dismiss, EditTask, EditAccount, EditNode,
                CooldownEnds, WorkerHeartbeat, GraceElapses
-------------------------------------------------------------------------------
(***************************************************************************)
(* Candidates and their jobs.                                              *)
(***************************************************************************)
JobsOf(c) == {j \in Jobs : job[j].cand = c}

\* OneJobPerApprovedCandidate without counting.
ApprovedHaveTheirJob ==
    \A c \in Candidate :
        IF cand[c] = "approved" THEN \E j \in Jobs : JobsOf(c) = {j}
                                ELSE JobsOf(c) = {}

\* Only a batch approves.
LEMMA OnlyBatchesApprove ==
    ASSUME Typed, [Next]_vars, ~ApproveAndDispatch
    PROVE  \A c \in Candidate : cand'[c] = "approved" <=> cand[c] = "approved"
    <1>1. CASE UNCHANGED cand
        BY <1>1
    <1>2. ASSUME NEW d \in Candidate, GenerateCandidate(d)
          PROVE  \A c \in Candidate :
                     cand'[c] = "approved" <=> cand[c] = "approved"
        BY <1>2 DEF GenerateCandidate, Typed, DbOK
    <1>3. CASE Dismiss
        BY <1>3 DEF Dismiss, Dismissed, IsReviewable
    <1> QED BY <1>1, <1>2, <1>3
            DEF Next, vars, db, ObserverStep, OperatorObserve, ObserveLive,
                ObserveStillLive, ObserveNotLive, PlanEntries, ScheduleChecks,
                CloseSessions, WorkerStep, EnterLiveRoom, SendComment,
                CheckSession, CloseSession, ReportSessionStatus,
                RestartSession, ReportSendResult, WorkerDies, InsertSessions,
                PublishOne, Abandon, EditTask, EditAccount, EditNode,
                CooldownEnds, WorkerHeartbeat, GraceElapses

LEMMA ApprovedStep ==
    ASSUME JobInv, ApprovedHaveTheirJob, [Next]_vars
    PROVE  ApprovedHaveTheirJob'
    <1>1. CASE ApproveAndDispatch
        <2>1. PICK use, work : Batch(use, work)
            BY <1>1, ApproveIsBatch
        <2>2. ASSUME NEW c \in Candidate
              PROVE  JobsOf(c)' = JobsOf(c) \cup {j \in DOMAIN work : work[j] = c}
            BY <2>1 DEF Batch, JobsOf
        <2>3. ASSUME NEW c \in Candidate, c \in DOMAIN use
              PROVE  cand'[c] = "approved" /\ \E j \in Jobs' : JobsOf(c)' = {j}
            <3>1. PICK j \in DOMAIN work : work[j] = c
                BY <2>1, <2>3 DEF Batch
            <3>2. {i \in DOMAIN work : work[i] = c} = {j}
                BY <2>1, <3>1 DEF Batch
            <3>3. cand[c] # "approved" /\ cand'[c] = "approved"
                BY <2>1, <2>3 DEF Batch, IsReviewable
            <3>4. JobsOf(c) = {}
                BY <3>3 DEF ApprovedHaveTheirJob
            <3>5. j \in Jobs'
                BY <2>1, <3>1 DEF Batch
            <3> QED BY <2>2, <3>2, <3>3, <3>4, <3>5
        <2>4. ASSUME NEW c \in Candidate, c \notin DOMAIN use
              PROVE  cand'[c] = cand[c] /\ JobsOf(c)' = JobsOf(c)
            <3>1. cand'[c] = cand[c]
                BY <2>1, <2>4 DEF Batch
            <3>2. {j \in DOMAIN work : work[j] = c} = {}
                BY <2>1, <2>4 DEF Batch
            <3> QED BY <2>2, <3>1, <3>2
        <2>5. Jobs \subseteq Jobs'
            BY <2>1 DEF Batch
        <2> QED BY <2>3, <2>4, <2>5 DEF ApprovedHaveTheirJob
    <1>2. CASE ~ApproveAndDispatch
        <2>1. JobsStay /\ Jobs' = Jobs
            BY <1>2, JobsAreKept
        <2>2. \A c \in Candidate : JobsOf(c)' = JobsOf(c)
            BY <2>1 DEF JobsStay, JobsOf
        <2>3. \A c \in Candidate : cand'[c] = "approved" <=> cand[c] = "approved"
            BY <1>2, OnlyBatchesApprove DEF JobInv, SlotInv
        <2> QED BY <2>1, <2>2, <2>3 DEF ApprovedHaveTheirJob
    <1> QED BY <1>1, <1>2

\* However batches, rejections and reports interleave, an approved candidate
\* has exactly one job and any other candidate none.
THEOREM ApprovedOnce == Spec => []OneJobPerApprovedCandidate
    <1>1. Init => ApprovedHaveTheirJob
        BY DEF Init, ApprovedHaveTheirJob, JobsOf, Jobs
    <1>2. JobInv /\ ApprovedHaveTheirJob /\ [Next]_vars => ApprovedHaveTheirJob'
        BY ApprovedStep
    <1>3. ApprovedHaveTheirJob => OneJobPerApprovedCandidate
        <2>1. Cardinality({}) = 0 /\ \A j : Cardinality({j}) = 1
            BY FS_EmptySet, FS_Singleton
        <2> QED BY <2>1 DEF ApprovedHaveTheirJob, OneJobPerApprovedCandidate,
                            JobsOf
    <1> QED BY <1>1, <1>2, <1>3, JobInit, JobStep, PTL DEF Spec
-------------------------------------------------------------------------------
(***************************************************************************)
(* A closing session.                                                      *)
(***************************************************************************)
ClosingEnds ==
    \A s \in Sessions :
        session[s].status = "closing" =>
            session'[s].status \in {"closing"} \cup Terminal

LEMMA ClosingStep ==
    ASSUME JobInv, [Next]_vars
    PROVE  ClosingEnds
    <1>t. \A s \in Sessions : session[s] \in SessionRow
        BY DEF JobInv, SlotInv, Typed, DbOK, IsTable, Sessions
    <1>l. {"lost", "closing"} \subseteq SessionStatus /\ "lost" \in Terminal
        BY DEF SessionStatus, Active, Terminal
    <1>1. CASE UNCHANGED session
        BY <1>1 DEF ClosingEnds
    <1>2. ASSUME NEW o \in Observer, CloseSessions(o)
          PROVE  ClosingEnds
        <2> DEFINE ending == {s \in ActiveOf(Watches[o]) :
                                 CloseDecision(session[s]) # "wait_for_sending"}
                   lost == {s \in ending :
                               \/ CloseDecision(session[s]) = "force_close"
                               \/ nodeRow[session[s].node] = "absent"}
                   told == ending \ lost
        <2>1. session' = [s \in Sessions |->
                             IF s \in lost THEN WithStatus(session[s], "lost")
                             ELSE IF s \in told
                                  THEN WithStatus(session[s], "closing")
                                  ELSE session[s]]
            BY <1>2 DEF CloseSessions
        <2> HIDE DEF lost, told
        <2>2. ASSUME NEW s \in Sessions
              PROVE  /\ WithStatus(session[s], "lost").status = "lost"
                     /\ WithStatus(session[s], "closing").status = "closing"
            BY <1>t, <1>l, WithStatusIsRow
        <2> QED BY <2>1, <2>2, <1>l DEF ClosingEnds
    <1>3. ASSUME NEW p \in Worker, ReportSessionStatus(p)
          PROVE  ClosingEnds
        <2> DEFINE s == pc[p].sess
                   reported == pc[p].status
        <2>1. s \in Sessions /\ reported \in SessionStatus
            <3>1. p \in Process /\ PcOK
                BY DEF Process, JobInv, SlotInv, Typed
            <3> QED BY <3>1, <1>3, ContinuationFields DEF ReportSessionStatus
        <2>2. CASE /\ AcceptsReport(session[s], reported)
                   /\ session' = [session EXCEPT ![s] = WithStatus(@, reported)]
            <3> HIDE DEF s, reported
            <3>1. WithStatus(session[s], reported).status = reported
                BY <2>1, <1>t, WithStatusIsRow
            <3>2. session[s].status = "closing" => reported \in Terminal
                BY <2>2 DEF AcceptsReport
            <3> QED BY <2>1, <2>2, <3>1, <3>2 DEF ClosingEnds, Sessions
        <2> QED BY <2>2, <1>1, <1>3 DEF ReportSessionStatus
    <1>4. ASSUME NEW p \in Worker, ReportSendResult(p)
          PROVE  ClosingEnds
        BY <1>4, ResultIsReported DEF Reported, ResultCounts, ClosingEnds
    <1>5. CASE ApproveAndDispatch
        <2>1. PICK use, work : Batch(use, work)
            BY <1>5, ApproveIsBatch
        <2> QED BY <2>1 DEF Batch, ClosingEnds
    <1>6. ASSUME NEW p \in Process, InsertSessions(p)
          PROVE  ClosingEnds
        BY <1>6, InsertionsAreApart DEF JobInv, ClosingEnds
    <1>7. ASSUME NEW s \in Sessions, GraceElapses(s)
          PROVE  ClosingEnds
        BY <1>7 DEF GraceElapses, ClosingEnds, Sessions
    <1> QED BY <1>1, <1>2, <1>3, <1>4, <1>5, <1>6, <1>7
            DEF Next, vars, db, ObserverStep, OperatorObserve, ObserveLive,
                ObserveStillLive, ObserveNotLive, PlanEntries, ScheduleChecks,
                WorkerStep, EnterLiveRoom, SendComment, CheckSession,
                CloseSession, RestartSession, WorkerDies, PublishOne, Abandon,
                GenerateCandidate, Dismiss, EditTask, EditAccount, EditNode,
                CooldownEnds, WorkerHeartbeat

\* Whatever checks and results are still reported for a closing session, its
\* next status is its last.
THEOREM ClosingIsFinal == Spec => ClosingOnlyEnds
    <1>1. JobInv /\ [Next]_vars =>
              [\A s \in Sessions :
                  session[s].status = "closing" =>
                      session'[s].status \in {"closing"} \cup Terminal]_vars
        BY ClosingStep DEF ClosingEnds
    <1> QED BY <1>1, JobInit, JobStep, PTL DEF Spec, ClosingOnlyEnds
-------------------------------------------------------------------------------
(***************************************************************************)
(* Sends on their way.                                                     *)
(***************************************************************************)
\* In the table of jobs, a send names one of its session.
NamesJob(m, table) ==
    m.kind = "send" => m.job \in DOMAIN table /\ table[m.job].sess = m.sess

\* So does a continuation; and no worker reports that a session is sending.
CarriesJob(k, table) ==
    /\ k.at = "publish" => \A m \in k.msgs : NamesJob(m, table)
    /\ k.at = "result" => k.job \in DOMAIN table /\ table[k.job].sess = k.sess
    /\ k.at = "status" => k.status # "sending"

QueuedSends ==
    /\ \A n \in Node : \A i \in DOMAIN queue[n] : NamesJob(queue[n][i], job)
    /\ \A n \in Node : \A m \in delayed[n] : NamesJob(m, job)

CarriedSends == \A p \in Process : CarriesJob(pc[p], job)

SendInv == JobInv /\ QueuedSends /\ CarriedSends /\ SendingHasRunningJob

LEMMA NamesStay ==
    ASSUME JobsStay
    PROVE  /\ \A m : NamesJob(m, job) => NamesJob(m, job')
           /\ \A k : CarriesJob(k, job) => CarriesJob(k, job')
    BY DEF JobsStay, NamesJob, CarriesJob, Jobs

LEMMA QueuedSendsStay ==
    ASSUME QueuedSends, JobsStay, UNCHANGED celery
    PROVE  QueuedSends'
    BY NamesStay DEF QueuedSends, celery

\* A step that puts k into pc[p].
LEMMA CarryStep ==
    ASSUME PcOK, CarriedSends, JobsStay, NEW p \in Process, NEW k,
           CarriesJob(k, job'), pc' = [pc EXCEPT ![p] = k]
    PROVE  CarriedSends'
    <1>1. ASSUME NEW q \in Process PROVE CarriesJob(pc'[q], job')
        <2>1. CASE q = p BY <2>1 DEF PcOK
        <2>2. CASE q # p
            <3>1. pc'[q] = pc[q]
                BY <2>2 DEF PcOK
            <3> QED BY <3>1, NamesStay DEF CarriedSends
        <2> QED BY <2>1, <2>2
    <1> QED BY <1>1 DEF CarriedSends

LEMMA CarryGo ==
    ASSUME PcOK, CarriedSends, JobsStay, NEW p \in Process,
           NEW label \in {"idle", "watching", "plan", "check", "closeAll"},
           Go(p, label)
    PROVE  CarriedSends'
    <1> DEFINE k == [at |-> label]
    <1>1. CarriesJob(k, job') BY DEF CarriesJob
    <1>2. pc' = [pc EXCEPT ![p] = k] BY DEF Go
    <1> HIDE DEF k
    <1> QED BY <1>1, <1>2, CarryStep

LEMMA CarryThenPublish ==
    ASSUME PcOK, CarriedSends, JobsStay, NEW p \in Process, NEW msgs,
           \A m \in msgs : NamesJob(m, job'),
           NEW next \in {"idle", "watching", "check"},
           ThenPublish(p, msgs, next)
    PROVE  CarriedSends'
    <1> DEFINE k == [at |-> "publish", msgs |-> msgs, then |-> next]
    <1>1. CASE msgs = {}
        BY <1>1, CarryGo DEF ThenPublish, Go
    <1>2. CASE msgs # {}
        <2>1. CarriesJob(k, job') BY DEF CarriesJob
        <2>2. pc' = [pc EXCEPT ![p] = k] BY <1>2 DEF ThenPublish
        <2> HIDE DEF k
        <2> QED BY <2>1, <2>2, CarryStep
    <1> QED BY <1>1, <1>2

\* A worker that takes a send takes one that names a job of its session.
LEMMA TakesSend ==
    ASSUME CeleryOK, QueuedSends, NEW p \in Worker, NEW m \in Ready(p),
           Takes(p, m), Runs[p] \in Node, UNCHANGED job
    PROVE  NamesJob(m, job) /\ QueuedSends'
    <1> DEFINE n == Runs[p]
    <1>1. n \in Node OBVIOUS
    <1>q. queue[n] \in Seq(Message) BY <1>1 DEF CeleryOK
    <1> HIDE DEF n
    <1>2. CASE /\ queue[n] # <<>>
               /\ m = Head(queue[n])
               /\ queue' = [queue EXCEPT ![n] = Tail(@)]
               /\ UNCHANGED delayed
        <2>1. m = queue[n][1] /\ 1 \in DOMAIN queue[n]
            BY <1>2, <1>q
        <2>2. NamesJob(m, job)
            BY <2>1, <1>1 DEF QueuedSends
        <2>3. \A i \in DOMAIN Tail(queue[n]) :
                  /\ i + 1 \in DOMAIN queue[n]
                  /\ Tail(queue[n])[i] = queue[n][i + 1]
            BY <1>2, <1>q
        <2>4. ASSUME NEW k \in Node, NEW i \in DOMAIN queue'[k]
              PROVE  NamesJob(queue'[k][i], job)
            <3>1. CASE k = n
                <4>1. queue'[k] = Tail(queue[n])
                    BY <3>1, <1>2, <1>1 DEF CeleryOK
                <4> QED BY <4>1, <2>3, <2>4, <1>1 DEF QueuedSends
            <3>2. CASE k # n
                <4>1. queue'[k] = queue[k]
                    BY <3>2, <1>2, <1>1 DEF CeleryOK
                <4> QED BY <4>1, <2>4 DEF QueuedSends
            <3> QED BY <3>1, <3>2
        <2> QED BY <2>2, <2>4, <1>2 DEF QueuedSends
    <1>3. CASE /\ m \in delayed[n]
               /\ delayed' = [delayed EXCEPT ![n] = @ \ {m}]
               /\ UNCHANGED queue
        BY <1>3, <1>1 DEF CeleryOK, QueuedSends
    <1> QED BY <1>2, <1>3 DEF Takes, n

LEMMA PublishedSends ==
    ASSUME Typed, QueuedSends, CarriedSends, NEW p \in Process, PublishOne(p)
    PROVE  QueuedSends' /\ CarriedSends'
    <1> USE DEF Typed
    <1>1. pc[p].at = "publish" /\ UNCHANGED job /\ JobsStay
        BY DEF PublishOne, db, JobsStay, Jobs
    <1>2. PICK m \in pc[p].msgs :
              LET n == session[m.sess].node IN
              /\ \/ /\ IsStaggered(m)
                    /\ delayed' = [delayed EXCEPT ![n] = @ \cup {m}]
                    /\ UNCHANGED queue
                 \/ /\ ~IsStaggered(m)
                    /\ m.kind \in {"check", "close"} => Len(queue[n]) < QueueBound
                    /\ queue' = [queue EXCEPT ![n] = Append(@, m)]
                    /\ UNCHANGED delayed
              /\ ThenPublish(p, pc[p].msgs \ {m}, pc[p].then)
        BY DEF PublishOne
    <1> DEFINE n == session[m.sess].node
    <1>3. m \in Message /\ m.sess \in Sessions
        BY <1>1, <1>2, ContinuationFields
    <1>4. n \in Node
        BY <1>3 DEF DbOK, IsTable, Sessions, SessionRow
    <1>5. \A k \in pc[p].msgs : NamesJob(k, job)
        BY <1>1 DEF CarriedSends, CarriesJob
    <1> HIDE DEF n
    <1>6. QueuedSends'
        <2>1. CASE /\ delayed' = [delayed EXCEPT ![n] = @ \cup {m}]
                   /\ UNCHANGED queue
            BY <2>1, <1>1, <1>2, <1>4, <1>5 DEF CeleryOK, QueuedSends
        <2>2. CASE /\ queue' = [queue EXCEPT ![n] = Append(@, m)]
                   /\ UNCHANGED delayed
            <3>q. queue[n] \in Seq(Message) BY <1>4 DEF CeleryOK
            <3>1. \A i \in DOMAIN Append(queue[n], m) :
                      \/ i \in DOMAIN queue[n]
                         /\ Append(queue[n], m)[i] = queue[n][i]
                      \/ Append(queue[n], m)[i] = m
                BY <3>q, <1>3
            <3>2. ASSUME NEW k \in Node, NEW i \in DOMAIN queue'[k]
                  PROVE  NamesJob(queue'[k][i], job)
                <4>1. CASE k = n
                    <5>1. queue'[k] = Append(queue[n], m)
                        BY <4>1, <2>2, <1>4 DEF CeleryOK
                    <5> QED BY <5>1, <3>1, <3>2, <1>2, <1>4, <1>5
                            DEF QueuedSends
                <4>2. CASE k # n
                    <5>1. queue'[k] = queue[k]
                        BY <4>2, <2>2, <1>4 DEF CeleryOK
                    <5> QED BY <5>1, <3>2 DEF QueuedSends
                <4> QED BY <4>1, <4>2
            <3> QED BY <2>2, <3>2, <1>1 DEF QueuedSends
        <2> QED BY <2>1, <2>2, <1>2 DEF n
    <1>7. CarriedSends'
        <2>1. /\ \A k \in pc[p].msgs \ {m} : NamesJob(k, job')
              /\ pc[p].then \in {"idle", "watching", "check"}
            BY <1>1, <1>5, ContinuationFields
        <2> QED BY <2>1, <1>1, <1>2, CarryThenPublish
    <1> QED BY <1>6, <1>7

LEMMA WorkerSends ==
    ASSUME SendInv, NEW p \in Worker, WorkerStep(p), JobsStay
    PROVE  QueuedSends' /\ CarriedSends'
    <1>p. p \in Process /\ PcOK /\ CeleryOK /\ Runs[p] \in Node
        BY CenterAssumption
           DEF Process, CenterAssumption, SendInv, JobInv, SlotInv, Typed
    <1> USE DEF SendInv
    \* What a worker does with the task it takes: it reports.
    <1>t. ASSUME NEW m \in Ready(p), Takes(p, m), UNCHANGED db,
                 \/ \E status \in {"waiting", "failed", "lost", "closed"} :
                        ToReport(p, m.sess, status)
                 \/ /\ m.kind = "send"
                    /\ \E outcome : ToReportResult(p, m.sess, m.job, outcome)
          PROVE  QueuedSends' /\ CarriedSends'
        <2>1. NamesJob(m, job) /\ QueuedSends' /\ UNCHANGED job
            BY <1>t, <1>p, TakesSend DEF db
        <2>2. ASSUME NEW status \in {"waiting", "failed", "lost", "closed"},
                     ToReport(p, m.sess, status)
              PROVE  CarriedSends'
            <3> DEFINE k == [at |-> "status", sess |-> m.sess,
                             status |-> status]
            <3>1. CarriesJob(k, job') BY DEF CarriesJob
            <3>2. pc' = [pc EXCEPT ![p] = k] BY <2>2 DEF ToReport
            <3> HIDE DEF k
            <3> QED BY <3>1, <3>2, <1>p, CarryStep
        <2>3. ASSUME NEW outcome, m.kind = "send",
                     ToReportResult(p, m.sess, m.job, outcome)
              PROVE  CarriedSends'
            <3> DEFINE k == [at |-> "result", sess |-> m.sess, job |-> m.job,
                             status |-> outcome]
            <3>1. CarriesJob(k, job') BY <2>1, <2>3 DEF CarriesJob, NamesJob
            <3>2. pc' = [pc EXCEPT ![p] = k] BY <2>3 DEF ToReportResult
            <3> HIDE DEF k
            <3> QED BY <3>1, <3>2, <1>p, CarryStep
        <2> QED BY <2>1, <2>2, <2>3, <1>t
    <1>1. CASE EnterLiveRoom(p)
        BY <1>1, <1>t DEF EnterLiveRoom, OpenLiveRoom
    <1>2. CASE SendComment(p)
        BY <1>2, <1>t DEF SendComment
    <1>3. CASE CheckSession(p)
        BY <1>3, <1>t DEF CheckSession, Results
    <1>4. CASE CloseSession(p)
        BY <1>4, <1>t DEF CloseSession, Results
    <1>5. CASE ReportSessionStatus(p)
        <2>1. QueuedSends'
            BY <1>5, QueuedSendsStay DEF ReportSessionStatus
        <2>2. CASE Go(p, "idle")
            BY <2>1, <2>2, <1>p, CarryGo
        <2>3. ASSUME NEW s, NEW status,
                     pc' = [pc EXCEPT ![p] = AfterReport(s, status)]
              PROVE  CarriedSends'
            <3>1. CarriesJob(AfterReport(s, status), job')
                BY DEF CarriesJob, AfterReport
            <3> QED BY <3>1, <2>3, <1>p, CarryStep
        <2> QED BY <2>1, <2>2, <2>3, <1>5 DEF ReportSessionStatus
    <1>6. CASE RestartSession(p)
        <2> DEFINE k == IF MayRestart(pc[p].sess)
                        THEN [at |-> "insert", rows |-> Restarts(pc[p].sess)]
                        ELSE [at |-> "idle"]
        <2>1. QueuedSends'
            BY <1>6, QueuedSendsStay DEF RestartSession
        <2>2. CarriesJob(k, job')
            BY DEF CarriesJob
        <2>3. pc' = [pc EXCEPT ![p] = k]
            BY <1>6 DEF RestartSession
        <2> HIDE DEF k
        <2> QED BY <2>1, <2>2, <2>3, <1>p, CarryStep
    <1>7. CASE ReportSendResult(p)
        BY <1>7, <1>p, QueuedSendsStay, CarryGo DEF ReportSendResult
    <1> QED BY <1>1, <1>2, <1>3, <1>4, <1>5, <1>6, <1>7 DEF WorkerStep

LEMMA ObserverSends ==
    ASSUME SendInv, NEW o \in Observer, ObserverStep(o), JobsStay
    PROVE  QueuedSends' /\ CarriedSends'
    <1>p. o \in Process /\ PcOK
        BY DEF Process, SendInv, JobInv, SlotInv, Typed
    <1> USE DEF SendInv
    <1>q. QueuedSends'
        BY QueuedSendsStay
           DEF ObserverStep, OperatorObserve, ObserveLive, ObserveStillLive,
               ObserveNotLive, PlanEntries, ScheduleChecks, CloseSessions
    <1> SUFFICES CarriedSends'
        BY <1>q
    <1>1. CASE \E label \in {"watching", "plan", "check", "closeAll"} :
                   Go(o, label)
        BY <1>1, <1>p, CarryGo
    <1>2. CASE PlanEntries(o)
        <2>1. ASSUME NEW rows, pc' = [pc EXCEPT ![o] =
                                         [at |-> "insert", rows |-> rows]]
              PROVE  CarriedSends'
            <3> DEFINE k == [at |-> "insert", rows |-> rows]
            <3>1. CarriesJob(k, job') BY DEF CarriesJob
            <3>2. pc' = [pc EXCEPT ![o] = k] BY <2>1
            <3> HIDE DEF k
            <3> QED BY <3>1, <3>2, <1>p, CarryStep
        <2> QED BY <2>1, <1>1, <1>2 DEF PlanEntries
    \* Checks and closes are not sends.
    <1>3. ASSUME NEW S, NEW kind \in {"check", "close"},
                 NEW next \in {"idle", "watching", "check"},
                 ThenPublish(o, {[kind |-> kind, sess |-> s] : s \in S}, next)
          PROVE  CarriedSends'
        <2> DEFINE msgs == {[kind |-> kind, sess |-> s] : s \in S}
        <2>1. \A m \in msgs : NamesJob(m, job')
            BY DEF NamesJob
        <2> HIDE DEF msgs
        <2> QED BY <2>1, <1>3, <1>p, CarryThenPublish DEF msgs
    <1>4. CASE ScheduleChecks(o)
        <2> DEFINE open == {s \in ActiveOf(Watches[o]) :
                               /\ session[s].status \in Checkable
                               /\ nodeRow[session[s].node] = "online"}
        <2>1. ThenPublish(o, {[kind |-> "check", sess |-> s] : s \in open},
                          "watching")
            BY <1>4 DEF ScheduleChecks
        <2> HIDE DEF open
        <2> QED BY <2>1, <1>3
    <1>5. CASE CloseSessions(o)
        <2> DEFINE ending == {s \in ActiveOf(Watches[o]) :
                                 CloseDecision(session[s]) # "wait_for_sending"}
                   lost == {s \in ending :
                               \/ CloseDecision(session[s]) = "force_close"
                               \/ nodeRow[session[s].node] = "absent"}
                   told == ending \ lost
        <2>1. ThenPublish(o, {[kind |-> "close", sess |-> s] : s \in told},
                          "idle")
            BY <1>5 DEF CloseSessions
        <2> HIDE DEF told
        <2> QED BY <2>1, <1>3
    <1> QED BY <1>1, <1>2, <1>4, <1>5
            DEF ObserverStep, OperatorObserve, ObserveLive, ObserveStillLive,
                ObserveNotLive

LEMMA SendsNext ==
    ASSUME SendInv, [Next]_vars
    PROVE  QueuedSends' /\ CarriedSends'
    <1>p. Typed /\ PcOK /\ JobsStay
        BY JobsAreKept DEF SendInv, JobInv, SlotInv, Typed
    <1> USE DEF SendInv
    <1>c. ASSUME UNCHANGED <<queue, delayed>> PROVE QueuedSends'
        BY <1>c, <1>p, QueuedSendsStay DEF celery
    <1>1. ASSUME NEW o \in Observer, ObserverStep(o)
          PROVE  QueuedSends' /\ CarriedSends'
        BY <1>1, <1>p, ObserverSends
    <1>2. ASSUME NEW p \in Worker, WorkerStep(p)
          PROVE  QueuedSends' /\ CarriedSends'
        BY <1>2, <1>p, WorkerSends
    <1>3. ASSUME NEW p \in Process, PublishOne(p)
          PROVE  QueuedSends' /\ CarriedSends'
        BY <1>3, <1>p, PublishedSends
    <1>4. ASSUME NEW p \in Process, WorkerDies(p) \/ Abandon(p)
          PROVE  QueuedSends' /\ CarriedSends'
        BY <1>4, <1>p, <1>c, CarryGo DEF WorkerDies, Abandon, celery
    <1>5. ASSUME NEW p \in Process, InsertSessions(p)
          PROVE  QueuedSends' /\ CarriedSends'
        <2>1. QueuedSends'
            BY <1>5, <1>c DEF InsertSessions, celery
        <2>2. PICK new : ThenPublish(p, {[kind |-> "enter", sess |-> s] :
                                             s \in DOMAIN new},
                                     IF p \in Observer THEN "check" ELSE "idle")
            BY <1>5 DEF InsertSessions, Inserts
        <2> DEFINE msgs == {[kind |-> "enter", sess |-> s] : s \in DOMAIN new}
        <2>3. \A m \in msgs : NamesJob(m, job')
            BY DEF NamesJob
        <2> HIDE DEF msgs
        <2> QED BY <2>1, <2>2, <2>3, <1>p, CarryThenPublish DEF msgs
    <1>6. CASE ApproveAndDispatch
        <2>1. PICK use, work : Batch(use, work)
            BY <1>6, ApproveIsBatch
        <2> DEFINE msgs == {[kind |-> "send", sess |-> use[work[j]],
                             job |-> j] : j \in DOMAIN work}
        <2>2. \A j \in DOMAIN work :
                  j \in DOMAIN job' /\ job'[j].sess = use[work[j]]
            BY <2>1 DEF Batch, Jobs
        <2>3. \A m \in msgs : NamesJob(m, job')
            BY <2>2 DEF NamesJob
        <2>4. ThenPublish(Admin, msgs, "idle") /\ UNCHANGED <<queue, delayed>>
            BY <2>1 DEF Batch
        <2> HIDE DEF msgs
        <2>5. Admin \in Process
            BY DEF Process
        <2> QED BY <2>3, <2>4, <2>5, <1>p, <1>c, CarryThenPublish
    <1>7. CASE UNCHANGED <<celery, pc>>
        BY <1>7, <1>p, <1>c, NamesStay DEF CarriedSends, celery
    <1> QED BY <1>1, <1>2, <1>3, <1>4, <1>5, <1>6, <1>7
            DEF Next, vars, Process, GenerateCandidate, Dismiss, EditTask,
                EditAccount, EditNode, CooldownEnds, WorkerHeartbeat,
                GraceElapses
-------------------------------------------------------------------------------
(***************************************************************************)
(* Sessions that send.                                                     *)
(***************************************************************************)
\* Sessions outside S keep their jobs, and what sends was sending outside S
\* or has a job that runs.
LEMMA SendingStays ==
    ASSUME SendingHasRunningJob, NEW S,
           \A j \in Jobs : job[j].sess \notin S => j \in Jobs' /\ job'[j] = job[j],
           \A s \in Sessions' :
               session'[s].status = "sending" =>
                   \/ s \in Sessions \ S /\ session[s].status = "sending"
                   \/ \E j \in Jobs' : job'[j].sess = s
                                       /\ job'[j].status = "running"
    PROVE  SendingHasRunningJob'
    <1> SUFFICES ASSUME NEW s \in Sessions', session'[s].status = "sending"
                 PROVE  \E j \in Jobs' : job'[j].sess = s
                                         /\ job'[j].status = "running"
        BY DEF SendingHasRunningJob, RunningJobs
    <1>1. CASE s \in Sessions \ S /\ session[s].status = "sending"
        <2>1. PICK j \in Jobs : job[j].sess = s /\ job[j].status = "running"
            BY <1>1 DEF SendingHasRunningJob, RunningJobs
        <2> QED BY <2>1, <1>1
    <1> QED BY <1>1

\* Only a batch makes sessions send.
SendersWereSending ==
    \A s \in Sessions' : session'[s].status = "sending" =>
        s \in Sessions /\ session[s].status = "sending"

LEMMA SendingStep ==
    ASSUME SendInv, [Next]_vars
    PROVE  /\ SendingHasRunningJob'
           /\ ApproveAndDispatch \/ SendersWereSending
    <1> DEFINE Kept == /\ SendingHasRunningJob'
                       /\ ApproveAndDispatch \/ SendersWereSending
    <1> SUFFICES Kept
        OBVIOUS
    <1> USE DEF SendInv
    <1>t. \A s \in Sessions : session[s] \in SessionRow
        BY DEF JobInv, SlotInv, Typed, DbOK, IsTable, Sessions
    <1>l. {"lost", "closing"} \subseteq SessionStatus
        BY DEF SessionStatus, Active, Terminal
    <1>1. CASE UNCHANGED <<session, job>>
        BY <1>1 DEF SendingHasRunningJob, RunningJobs, Sessions, Jobs,
                    SendersWereSending
    <1>2. ASSUME NEW o \in Observer, CloseSessions(o)
          PROVE  Kept
        <2> DEFINE ending == {s \in ActiveOf(Watches[o]) :
                                 CloseDecision(session[s]) # "wait_for_sending"}
                   lost == {s \in ending :
                               \/ CloseDecision(session[s]) = "force_close"
                               \/ nodeRow[session[s].node] = "absent"}
                   told == ending \ lost
        <2>1. /\ session' = [s \in Sessions |->
                                IF s \in lost THEN WithStatus(session[s], "lost")
                                ELSE IF s \in told
                                     THEN WithStatus(session[s], "closing")
                                     ELSE session[s]]
              /\ job' = JobsFailed(lost)
            BY <1>2 DEF CloseSessions
        <2> HIDE DEF lost, told
        <2>2. \A s \in Sessions :
                  /\ WithStatus(session[s], "lost").status = "lost"
                  /\ WithStatus(session[s], "closing").status = "closing"
            BY <1>t, <1>l, WithStatusIsRow
        <2>3. /\ Sessions' = Sessions
              /\ \A s \in Sessions :
                     session'[s].status = "sending" =>
                         s \notin lost /\ session[s].status = "sending"
            BY <2>1, <2>2 DEF Sessions
        <2>4. \A j \in Jobs :
                  job[j].sess \notin lost => j \in Jobs' /\ job'[j] = job[j]
            BY <2>1, FailingJobs DEF Jobs
        <2> QED BY <2>3, <2>4, SendingStays DEF SendersWereSending
    <1>3. ASSUME NEW p \in Worker, ReportSessionStatus(p)
          PROVE  Kept
        <2> DEFINE s == pc[p].sess
                   reported == pc[p].status
        <2>1. s \in Sessions /\ reported \in SessionStatus /\ reported # "sending"
            <3>1. p \in Process /\ PcOK
                BY DEF Process, JobInv, SlotInv, Typed
            <3> QED BY <3>1, <1>3, ContinuationFields
                    DEF ReportSessionStatus, CarriedSends, CarriesJob
        <2>2. CASE /\ session' = [session EXCEPT ![s] = WithStatus(@, reported)]
                   /\ job' = JobsFailed(SessionsFailing(s, reported))
            <3> HIDE DEF s, reported
            <3>1. WithStatus(session[s], reported).status = reported
                BY <2>1, <1>t, WithStatusIsRow
            <3>2. /\ Sessions' = Sessions
                  /\ \A r \in Sessions : session'[r].status = "sending" =>
                         r # s /\ session[r].status = "sending"
                BY <2>1, <2>2, <3>1 DEF Sessions
            <3>3. \A j \in Jobs :
                      job[j].sess \notin {s} => j \in Jobs' /\ job'[j] = job[j]
                BY <2>2, FailingJobs DEF SessionsFailing, Jobs
            <3>4. \A r \in Sessions' : session'[r].status = "sending" =>
                      r \in Sessions \ {s} /\ session[r].status = "sending"
                BY <3>2
            <3> QED BY <3>3, <3>4, SendingStays DEF SendersWereSending
        <2> QED BY <2>2, <1>1, <1>3 DEF ReportSessionStatus
    <1>4. ASSUME NEW p \in Worker, ReportSendResult(p)
          PROVE  Kept
        <2> DEFINE s == pc[p].sess
                   j == pc[p].job
        <2>1. j \in Jobs /\ job[j].sess = s
            <3>1. p \in Process
                BY DEF Process
            <3> QED BY <3>1, <1>4
                    DEF ReportSendResult, CarriedSends, CarriesJob, Jobs
        <2>2. Reported(j, s, pc[p].status)
            BY <1>4, ResultIsReported
        <2> HIDE DEF s, j
        <2>3. CASE ~UNCHANGED <<session, job>>
            <3>1. /\ Sessions' = Sessions /\ Jobs' = Jobs
                  /\ session'[s].status = "waiting"
                  /\ \A r \in Sessions : r # s => session'[r] = session[r]
                  /\ \A i \in Jobs : i # j => job'[i] = job[i]
                BY <2>2, <2>3 DEF Reported
            <3>2. \A i \in Jobs :
                      job[i].sess \notin {s} => i \in Jobs' /\ job'[i] = job[i]
                BY <2>1, <3>1
            <3>3. \A r \in Sessions' : session'[r].status = "sending" =>
                      r \in Sessions \ {s} /\ session[r].status = "sending"
                BY <3>1
            <3> QED BY <3>2, <3>3, SendingStays DEF SendersWereSending
        <2> QED BY <2>3, <1>1
    <1>5. CASE ApproveAndDispatch
        <2>1. PICK use, work : Batch(use, work)
            BY <1>5, ApproveIsBatch
        <2>2. ASSUME NEW s \in Sessions, session'[s].status = "sending"
              PROVE  \/ session[s].status = "sending"
                     \/ \E j \in Jobs' : job'[j].sess = s
                                         /\ job'[j].status = "running"
            <3>1. ASSUME NEW c \in DOMAIN use, use[c] = s
                  PROVE  \E j \in Jobs' : job'[j].sess = s
                                          /\ job'[j].status = "running"
                BY <2>1, <3>1 DEF Batch
            <3> QED BY <2>1, <2>2, <3>1 DEF Batch
        <2>3. /\ Sessions' = Sessions
              /\ \A j \in Jobs :
                     job[j].sess \notin {} => j \in Jobs' /\ job'[j] = job[j]
            BY <2>1 DEF Batch
        <2>4. \A s \in Sessions' : session'[s].status = "sending" =>
                  \/ s \in Sessions \ {} /\ session[s].status = "sending"
                  \/ \E j \in Jobs' : job'[j].sess = s
                                      /\ job'[j].status = "running"
            BY <2>2, <2>3
        <2> DEFINE S == {}
        <2>5. /\ \A j \in Jobs :
                     job[j].sess \notin S => j \in Jobs' /\ job'[j] = job[j]
              /\ \A s \in Sessions' : session'[s].status = "sending" =>
                     \/ s \in Sessions \ S /\ session[s].status = "sending"
                     \/ \E j \in Jobs' : job'[j].sess = s
                                         /\ job'[j].status = "running"
            BY <2>3, <2>4
        <2> HIDE DEF S
        <2> QED BY <2>5, <1>5, SendingStays
    <1>6. ASSUME NEW p \in Process, InsertSessions(p)
          PROVE  Kept
        <2>1. /\ \A s \in Sessions : session'[s] = session[s]
              /\ \A s \in Sessions' \ Sessions : session'[s].status = "planned"
            BY <1>6, InsertionsAreApart DEF JobInv
        <2>2. \A j \in Jobs : j \in Jobs' /\ job'[j] = job[j]
            BY <1>6 DEF InsertSessions, Jobs
        <2>3. \A s \in Sessions' : session'[s].status = "sending" =>
                  s \in Sessions \ {} /\ session[s].status = "sending"
            BY <2>1
        <2> QED BY <2>2, <2>3, SendingStays DEF SendersWereSending
    <1>7. ASSUME NEW s \in Sessions, GraceElapses(s)
          PROVE  Kept
        <2>1. /\ Sessions' = Sessions
              /\ \A r \in Sessions : session'[r].status = session[r].status
            <3>1. [session[s] EXCEPT !.sending = "overdue"].status
                      = session[s].status
                BY <1>t DEF SessionRow
            <3> QED BY <3>1, <1>7 DEF GraceElapses, Sessions
        <2>2. \A j \in Jobs : j \in Jobs' /\ job'[j] = job[j]
            BY <1>7 DEF GraceElapses, Jobs
        <2>3. \A r \in Sessions' : session'[r].status = "sending" =>
                  r \in Sessions \ {} /\ session[r].status = "sending"
            BY <2>1
        <2> QED BY <2>2, <2>3, SendingStays DEF SendersWereSending
    <1> QED BY <1>1, <1>2, <1>3, <1>4, <1>5, <1>6, <1>7
            DEF Next, vars, db, ObserverStep, OperatorObserve, ObserveLive,
                ObserveStillLive, ObserveNotLive, PlanEntries, ScheduleChecks,
                WorkerStep, EnterLiveRoom, SendComment, CheckSession,
                CloseSession, RestartSession, WorkerDies, PublishOne, Abandon,
                GenerateCandidate, Dismiss, EditTask, EditAccount, EditNode,
                CooldownEnds, WorkerHeartbeat

LEMMA SendInit == Init => SendInv
    <1> SUFFICES ASSUME Init PROVE SendInv
        OBVIOUS
    <1>1. Sessions = {}
        BY DEF Init, Sessions
    <1>2. QueuedSends /\ CarriedSends
        BY DEF Init, QueuedSends, CarriedSends, CarriesJob
    <1> QED BY <1>1, <1>2, JobInit DEF SendInv, SendingHasRunningJob

LEMMA SendStep == SendInv /\ [Next]_vars => SendInv'
    BY SendsNext, SendingStep, JobStep DEF SendInv

\* Checks that answer "waiting" during a send, late results and second jobs
\* never leave a session sending for a job that is finished.
THEOREM SendersHaveJobs == Spec => []SendingHasRunningJob
    <1>1. SendInv => SendingHasRunningJob
        BY DEF SendInv
    <1> QED BY <1>1, SendInit, SendStep, PTL DEF Spec
-------------------------------------------------------------------------------
(***************************************************************************)
(* The counters of the accounts.                                           *)
(***************************************************************************)
Successes(a) == {j \in Jobs : /\ job[j].status = "success"
                              /\ session[job[j].sess].account = a}

\* A step that brings no success.
NoSuccess ==
    /\ \A j \in Jobs' : job'[j].status = "success" =>
                            j \in Jobs /\ job[j].status = "success"
    /\ \A a \in Account : acct'[a].sends = acct[a].sends

LEMMA AccountsAreKept ==
    ASSUME SlotInv, [Next]_vars
    PROVE  AccountsStay
    <1>1. CASE SessionsMove
        BY <1>1 DEF SessionsMove, AccountsStay, SlotOf
    <1>2. ASSUME NEW p \in Process, InsertSessions(p)
          PROVE  AccountsStay
        BY <1>2, InsertionsAreApart DEF AccountsStay
    <1> QED BY <1>1, <1>2, MoveOrInsert DEF SlotInv

\* The successes of before are successes of the same accounts.
LEMMA SuccessesStay ==
    ASSUME JobInv, [Next]_vars, NEW a, NEW j \in Jobs
    PROVE  j \in Successes(a) =>
               j \in Jobs' /\ j \in Successes(a)'
    <1>1. JobsStay /\ AccountsStay /\ FinishedStay
        BY JobsAreKept, AccountsAreKept, JobNext DEF JobInv
    <1>2. job[j].sess \in Sessions
        BY DEF JobInv, JobsHaveSessions
    <1> QED BY <1>1, <1>2 DEF JobsStay, AccountsStay, FinishedStay, Successes

\* Only a result brings one.
LEMMA OthersBringNone ==
    ASSUME JobInv, Editable \cap Account = {}, [Next]_vars
    PROVE  NoSuccess \/ \E p \in Worker : ReportSendResult(p)
    <1>u. ASSUME UNCHANGED <<job, acct>> PROVE NoSuccess
        BY <1>u DEF NoSuccess, Jobs
    <1>e. ASSUME NEW S, EndsWithJobs(S), UNCHANGED acct PROVE NoSuccess
        <2>1. \A j \in Jobs : job[j] \in JobRow
            BY DEF JobInv, SlotInv, Typed, DbOK, IsTable, Jobs
        <2>2. /\ Jobs' = Jobs
              /\ \A j \in Jobs : job'[j] = job[j]
                                 \/ job'[j] = Finished(job[j], "failed")
            BY <1>e, FailingJobs DEF EndsWithJobs, Jobs
        <2>3. "failed" \in Outcome
            BY DEF Outcome
        <2> QED BY <2>1, <2>2, <2>3, <1>e, FinishedIsRow DEF NoSuccess
    <1>1. ASSUME NEW o \in Observer, ObserverStep(o) PROVE NoSuccess
        <2>1. UNCHANGED acct
            BY <1>1 DEF ObserverStep, OperatorObserve, ObserveLive,
                    ObserveStillLive, ObserveNotLive, PlanEntries,
                    ScheduleChecks, CloseSessions, db
        <2> QED BY <1>1, <2>1, <1>u, <1>e, ObserverJobs
    <1>2. ASSUME NEW p \in Worker, ReportSessionStatus(p) PROVE NoSuccess
        <2>1. UNCHANGED acct
            BY <1>2 DEF ReportSessionStatus
        <2> QED BY <1>2, <2>1, <1>u, <1>e, StatusJobs
    <1>3. CASE ApproveAndDispatch
        <2>1. PICK use, work : Batch(use, work)
            BY <1>3, ApproveIsBatch
        <2> QED BY <2>1 DEF Batch, NoSuccess
    <1>4. ASSUME NEW a \in Account, EditAccount(a) \/ CooldownEnds(a)
          PROVE  NoSuccess
        <2>1. CooldownEnds(a)
            BY <1>4 DEF EditAccount
        <2>2. \A b \in Account : acct'[b].sends = acct[b].sends
            BY <2>1 DEF CooldownEnds, JobInv, SlotInv, Typed, DbOK, AccountRow
        <2> QED BY <2>1, <2>2 DEF CooldownEnds, NoSuccess, Jobs
    <1> QED BY <1>1, <1>2, <1>3, <1>4, <1>u
            DEF Next, vars, db, WorkerStep, EnterLiveRoom, SendComment,
                CheckSession, CloseSession, RestartSession, WorkerDies,
                InsertSessions, PublishOne, Abandon, GenerateCandidate,
                Dismiss, EditTask, EditNode, WorkerHeartbeat, GraceElapses

LEMMA CountStep ==
    ASSUME SendInv, SendsAreCounted, Editable \cap Account = {},
           IsFiniteSet(JobId), [Next]_vars
    PROVE  SendsAreCounted'
    <1> USE DEF SendInv
    <1>s. \A a : Successes(a) \subseteq Successes(a)'
        BY SuccessesStay DEF Successes
    <1>k. JobsStay /\ AccountsStay /\ JobsHaveSessions
        BY JobsAreKept, AccountsAreKept DEF JobInv
    <1>1. CASE NoSuccess
        <2>1. ASSUME NEW a \in Account
              PROVE  Successes(a)' = Successes(a)
            <3>1. ASSUME NEW j \in Successes(a)'
                  PROVE  j \in Successes(a)
                <4>1. /\ j \in Jobs' /\ job'[j].status = "success"
                      /\ session'[job'[j].sess].account = a
                    BY <3>1 DEF Successes
                <4>2. j \in Jobs /\ job[j].status = "success"
                    BY <4>1, <1>1 DEF NoSuccess
                <4>3. session[job[j].sess].account = a
                    BY <4>1, <4>2, <1>k
                       DEF JobsStay, AccountsStay, JobsHaveSessions
                <4> QED BY <4>2, <4>3 DEF Successes
            <3> QED BY <3>1, <1>s
        <2> QED BY <2>1, <1>1 DEF SendsAreCounted, NoSuccess, Successes
    <1>2. ASSUME NEW p \in Worker, ReportSendResult(p)
          PROVE  SendsAreCounted'
        <2> DEFINE s == pc[p].sess
                   j == pc[p].job
                   outcome == pc[p].status
        <2>1. j \in Jobs /\ job[j].sess = s
            <3>1. p \in Process
                BY DEF Process
            <3> QED BY <3>1, <1>2
                    DEF ReportSendResult, CarriedSends, CarriesJob, Jobs
        <2>2. Reported(j, s, outcome)
            BY <1>2, ResultIsReported
        <2> HIDE DEF s, j, outcome
        <2>3. CASE UNCHANGED <<session, job, acct>>
            BY <2>3 DEF SendsAreCounted, Jobs
        <2>4. CASE ~UNCHANGED <<session, job, acct>>
            <3> DEFINE owner == session[s].account
            <3>1. /\ ResultCounts(j, s) /\ s \in Sessions /\ outcome \in Outcome
                  /\ Jobs' = Jobs /\ job'[j].status = outcome
                  /\ \A i \in Jobs : i # j => job'[i] = job[i]
                  /\ acct' = [acct EXCEPT ![owner] = Counted(@, outcome)]
                BY <2>1, <2>2, <2>4 DEF Reported
            <3>2. owner \in Account
                BY <3>1 DEF JobInv, SlotInv, Typed, DbOK, IsTable, Sessions,
                            SessionRow
            <3>3. session'[job'[j].sess].account = owner
                BY <2>1, <3>1, <1>k DEF JobsStay, AccountsStay
            <3>4. job[j].status = "running"
                BY <3>1 DEF ResultCounts
            <3> HIDE DEF owner
            <3>5. \A i \in Jobs :
                     session'[job'[i].sess].account = session[job[i].sess].account
                BY <1>k DEF JobsStay, AccountsStay, JobsHaveSessions
            <3>6. ASSUME NEW a \in Account
                  PROVE  Successes(a)' =
                             IF a = owner /\ outcome = "success"
                             THEN Successes(a) \cup {j} ELSE Successes(a)
                <4>1. \A i \in Jobs : i # j =>
                         (i \in Successes(a)' <=> i \in Successes(a))
                    BY <3>1, <3>5 DEF Successes
                <4>2. /\ j \notin Successes(a)
                      /\ j \in Successes(a)' <=>
                             a = owner /\ outcome = "success"
                    BY <2>1, <3>1, <3>3, <3>4 DEF Successes
                <4>3. Successes(a)' \subseteq Jobs /\ Successes(a) \subseteq Jobs
                    BY <3>1 DEF Successes
                <4> QED BY <4>1, <4>2, <4>3
            <3>7. \A a \in Account :
                     /\ IsFiniteSet(Successes(a)) /\ j \notin Successes(a)
                     /\ acct[a] \in AccountRow
                <4>1. Jobs \subseteq JobId
                    BY DEF JobInv, SlotInv, Typed, DbOK, IsTable, Jobs
                <4>2. \A a : Successes(a) \in SUBSET JobId
                    BY <4>1 DEF Successes
                <4> QED BY <4>2, <3>4, FS_Subset
                        DEF Successes, JobInv, SlotInv, Typed, DbOK
            <3>8. ASSUME NEW a \in Account
                  PROVE  acct'[a].sends = Cardinality(Successes(a)')
                <4>1. acct[a].sends = Cardinality(Successes(a))
                    BY DEF SendsAreCounted, Successes
                <4>2. CASE a = owner /\ outcome = "success"
                    <5>1. acct'[a].sends = acct[a].sends + 1
                        BY <4>2, <3>1, <3>7
                           DEF Counted, AccountRow, JobInv, SlotInv, Typed, DbOK
                    <5>2. Cardinality(Successes(a) \cup {j})
                              = Cardinality(Successes(a)) + 1
                        BY <3>7, FS_AddElement
                    <5> QED BY <4>1, <4>2, <5>1, <5>2, <3>6
                <4>3. CASE ~(a = owner /\ outcome = "success")
                    <5>1. acct'[a] = acct[a]
                        BY <4>3, <3>1, <3>2
                           DEF Counted, JobInv, SlotInv, Typed, DbOK
                    <5> QED BY <4>1, <4>3, <5>1, <3>6
                <4> QED BY <4>2, <4>3
            <3> QED BY <3>8 DEF SendsAreCounted, Successes
        <2> QED BY <2>3, <2>4
    <1> QED BY <1>1, <1>2, OthersBringNone

\* The counter of an account is the number of its sends that succeeded, as
\* long as nobody edits it: results reported twice, late or not at all, and
\* sends given up at shutdown, leave the two equal.
THEOREM SendsCounted ==
    ASSUME Editable \cap Account = {}, IsFiniteSet(JobId)
    PROVE  Spec => []SendsAreCounted
    <1>1. Init => SendsAreCounted
        <2> SUFFICES ASSUME Init, NEW a \in Account
                     PROVE  acct[a].sends = Cardinality(Successes(a))
            BY DEF SendsAreCounted, Successes
        <2>1. Successes(a) = {}
            BY DEF Init, Successes, Jobs
        <2> QED BY <2>1, FS_EmptySet DEF Init
    <1>2. SendInv /\ SendsAreCounted /\ [Next]_vars => SendsAreCounted'
        BY CountStep
    <1> QED BY <1>1, <1>2, SendInit, SendStep, PTL DEF Spec
-------------------------------------------------------------------------------
(***************************************************************************)
(* The daily limit.                                                        *)
(***************************************************************************)
\* WithinDailyLimit, and room for one more while a session sends.
LimitInv ==
    /\ WithinDailyLimit
    /\ \A s \in Sessions :
           session[s].status = "sending" =>
               acct[session[s].account].sends < DailyLimit

LEMMA SendsDoNotGrow ==
    ASSUME Typed, [Next]_vars, ~\E p \in Worker : ReportSendResult(p)
    PROVE  \A a \in Account : acct'[a].sends <= acct[a].sends
    <1>t. \A a \in Account : acct[a] \in AccountRow /\ acct[a].sends \in Nat
        BY DEF Typed, DbOK, AccountRow
    <1>1. CASE UNCHANGED acct
        BY <1>1, <1>t
    <1>2. ASSUME NEW b \in Account, EditAccount(b)
          PROVE  \A a \in Account : acct'[a].sends <= acct[a].sends
        <2>1. PICK standing \in Standing, sends \in {0, acct[b].sends} :
                  acct' = [acct EXCEPT ![b].standing = standing,
                                       ![b].sends = sends]
            BY <1>2 DEF EditAccount
        <2>2. \A a \in Account : \/ acct'[a] = acct[a]
                                 \/ a = b /\ acct'[a].sends = sends
            BY <2>1, <1>t DEF Typed, DbOK, AccountRow
        <2> QED BY <2>2, <1>t
    <1>3. ASSUME NEW b \in Account, CooldownEnds(b)
          PROVE  \A a \in Account : acct'[a].sends <= acct[a].sends
        <2>1. \A a \in Account : acct'[a].sends = acct[a].sends
            BY <1>3 DEF CooldownEnds, Typed, DbOK, AccountRow
        <2> QED BY <2>1, <1>t
    <1> QED BY <1>1, <1>2, <1>3
            DEF Next, vars, db, ObserverStep, OperatorObserve, ObserveLive,
                ObserveStillLive, ObserveNotLive, PlanEntries, ScheduleChecks,
                CloseSessions, WorkerStep, EnterLiveRoom, SendComment,
                CheckSession, CloseSession, ReportSessionStatus,
                RestartSession, WorkerDies, InsertSessions, PublishOne,
                Abandon, ApproveAndDispatch, GenerateCandidate, Dismiss,
                EditTask, EditNode, WorkerHeartbeat, GraceElapses

LEMMA LimitStep ==
    ASSUME SendInv, LimitInv, \A t, u \in Task : t = u, [Next]_vars
    PROVE  LimitInv'
    <1> USE DEF SendInv
    <1>t. /\ \A a \in Account : acct[a] \in AccountRow /\ acct[a].sends \in Nat
          /\ \A s \in Sessions : /\ session[s].account \in Account
                                 /\ session[s].task \in Task
          /\ DailyLimit \in Nat
        BY DomainAssumption
           DEF DomainAssumption, JobInv, SlotInv, Typed, DbOK, IsTable,
               Sessions, SessionRow, AccountRow
    <1>t2. \A a \in Account : acct'[a].sends \in Nat
        BY JobStep DEF JobInv, SlotInv, Typed, DbOK, AccountRow
    <1>k. AccountsStay
        BY AccountsAreKept DEF JobInv
    <1>1. ASSUME NEW p \in Worker, ReportSendResult(p)
          PROVE  LimitInv'
        <2> DEFINE s == pc[p].sess
                   j == pc[p].job
                   outcome == pc[p].status
        <2>1. Reported(j, s, outcome)
            BY <1>1, ResultIsReported
        <2> HIDE DEF s, j, outcome
        <2>2. CASE UNCHANGED <<session, job, acct>>
            BY <2>2 DEF LimitInv, WithinDailyLimit, Sessions
        <2>3. CASE ~UNCHANGED <<session, job, acct>>
            <3> DEFINE owner == session[s].account
            <3>1. /\ session[s].status = "sending" /\ s \in Sessions
                  /\ Sessions' = Sessions /\ session'[s].status = "waiting"
                  /\ \A r \in Sessions : r # s => session'[r] = session[r]
                  /\ acct' = [acct EXCEPT ![owner] = Counted(@, outcome)]
                BY <2>1, <2>3 DEF Reported, ResultCounts
            <3>2. acct[owner].sends < DailyLimit /\ owner \in Account
                BY <3>1, <1>t DEF LimitInv
            <3>3. \A r \in Sessions :
                     r # s /\ session[r].status = "sending"
                         => session[r].account # owner
                BY <3>1, <1>t, StatusIsActiveOrTerminal
                   DEF JobInv, SlotInv, OneActiveSession, IsActive, SlotOf
            <3> HIDE DEF owner
            <3>4. \A a \in Account : a # owner => acct'[a] = acct[a]
                BY <3>1 DEF JobInv, SlotInv, Typed, DbOK
            <3>5. acct'[owner].sends <= DailyLimit
                <4>1. acct'[owner] = Counted(acct[owner], outcome)
                    BY <3>1, <3>2 DEF JobInv, SlotInv, Typed, DbOK
                <4>2. \/ acct'[owner].sends = acct[owner].sends
                      \/ acct'[owner].sends = acct[owner].sends + 1
                    BY <4>1, <3>2, <1>t DEF Counted, AccountRow
                <4> QED BY <4>2, <3>2, <1>t
            <3>6. WithinDailyLimit'
                BY <3>4, <3>5 DEF LimitInv, WithinDailyLimit
            <3>7. ASSUME NEW r \in Sessions', session'[r].status = "sending"
                  PROVE  acct'[session'[r].account].sends < DailyLimit
                BY <3>1, <3>3, <3>4, <3>7, <1>t DEF LimitInv
            <3> QED BY <3>6, <3>7 DEF LimitInv
        <2> QED BY <2>2, <2>3
    <1>2. CASE ~\E p \in Worker : ReportSendResult(p)
        <2>1. \A a \in Account : acct'[a].sends <= acct[a].sends
            BY <1>2, SendsDoNotGrow DEF JobInv, SlotInv
        <2>2. WithinDailyLimit'
            BY <2>1, <1>t, <1>t2 DEF LimitInv, WithinDailyLimit
        <2>3. ASSUME NEW s \in Sessions', session'[s].status = "sending"
              PROVE  acct'[session'[s].account].sends < DailyLimit
            <3>1. CASE s \in Sessions /\ session[s].status = "sending"
                BY <3>1, <2>1, <1>t, <1>t2, <1>k DEF LimitInv, AccountsStay
            <3>2. CASE ApproveAndDispatch
                <4>1. PICK use, work : Batch(use, work)
                    BY <3>2, ApproveIsBatch
                <4>2. ASSUME NEW c \in DOMAIN use, use[c] = s, s \in Sessions
                      PROVE  acct[session[s].account].sends < DailyLimit
                    BY <4>1, <4>2 DEF Batch, IsAvailable
                <4>3. s \in Sessions /\ UNCHANGED acct
                    BY <4>1 DEF Batch
                <4>4. \/ session[s].status = "sending"
                      \/ \E c \in DOMAIN use : use[c] = s
                    BY <4>1, <4>3, <2>3 DEF Batch
                <4> QED BY <4>2, <4>3, <4>4, <3>1, <1>k DEF AccountsStay
            <3> QED BY <3>1, <3>2, <2>3, SendingStep DEF SendersWereSending
        <2> QED BY <2>2, <2>3 DEF LimitInv
    <1> QED BY <1>1, <1>2

\* In one live task no account exceeds its daily limit, whatever overtakes
\* what: the limit is looked at when a session begins to send, the counter
\* grows when its result arrives, and no other session of the account sends
\* in between.  (In two tasks it may; see OneActiveSession.)
THEOREM DailyLimitHolds ==
    ASSUME \A t, u \in Task : t = u
    PROVE  Spec => []WithinDailyLimit
    <1>1. Init => LimitInv
        BY DomainAssumption
           DEF DomainAssumption, Init, LimitInv, WithinDailyLimit, Sessions
    <1>2. SendInv /\ LimitInv /\ [Next]_vars => LimitInv'
        BY LimitStep
    <1>3. LimitInv => WithinDailyLimit
        BY DEF LimitInv
    <1> QED BY <1>1, <1>2, <1>3, SendInit, SendStep, PTL DEF Spec
-------------------------------------------------------------------------------
(***************************************************************************)
(* LiveCenter implements DispatchLedger.  An approved candidate has one    *)
(* job, so that what happens to jobs happens to candidates: a batch gives  *)
(* the candidates that get one, sessions that end fail those whose jobs    *)
(* they carry, and a result that counts finishes one of them.              *)
(***************************************************************************)
DispatchInv == SendInv /\ ApprovedHaveTheirJob

\* What the chosen job of a candidate is.
LEMMA ChosenJob ==
    ASSUME NEW J, NEW table, NEW c, NEW j \in J, table[j].cand = c,
           \A i \in J : table[i].cand = c => i = j
    PROVE  (CHOOSE i \in J : table[i].cand = c) = j
    OBVIOUS

\* The ledger of a state: a job is the fate of its candidate.
LEMMA FateIs ==
    ASSUME ApprovedHaveTheirJob
    PROVE  /\ DOMAIN Fate = Candidate /\ DOMAIN Sender = Candidate
           /\ \A c \in Candidate : \A j \in Jobs : job[j].cand = c =>
                 /\ cand[c] = "approved"
                 /\ Fate[c] = job[j].status
                 /\ Sender[c] = {session[job[j].sess].account}
           /\ \A c \in Candidate : cand[c] = "approved" =>
                 \E j \in Jobs : job[j].cand = c
           /\ \A c \in Candidate : cand[c] # "approved" =>
                 Fate[c] = Verdict(cand[c]) /\ Sender[c] = {}
    <1>1. ASSUME NEW c \in Candidate, NEW j \in Jobs, job[j].cand = c
          PROVE  cand[c] = "approved" /\ JobOf(c) = j
        <2>1. cand[c] = "approved" /\ \E i \in Jobs : JobsOf(c) = {i}
            BY <1>1 DEF ApprovedHaveTheirJob, JobsOf
        <2>2. \A i \in Jobs : job[i].cand = c => i = j
            BY <1>1, <2>1 DEF JobsOf
        <2> QED BY <1>1, <2>1, <2>2, ChosenJob DEF JobOf
    <1>2. \A c \in Candidate : cand[c] = "approved" =>
              \E j \in Jobs : job[j].cand = c
        BY DEF ApprovedHaveTheirJob, JobsOf
    <1> QED BY <1>1, <1>2 DEF Fate, Sender

LEMMA FateWillBe ==
    ASSUME ApprovedHaveTheirJob'
    PROVE  /\ DOMAIN Fate' = Candidate /\ DOMAIN Sender' = Candidate
           /\ \A c \in Candidate : \A j \in Jobs' : job'[j].cand = c =>
                 /\ Fate'[c] = job'[j].status
                 /\ Sender'[c] = {session'[job'[j].sess].account}
           /\ \A c \in Candidate : cand'[c] # "approved" =>
                 Fate'[c] = Verdict(cand'[c]) /\ Sender'[c] = {}
    <1>1. ASSUME NEW c \in Candidate, NEW j \in Jobs', job'[j].cand = c
          PROVE  cand'[c] = "approved" /\ JobOf(c)' = j
        <2>1. cand'[c] = "approved" /\ \E i \in Jobs' : JobsOf(c)' = {i}
            BY <1>1 DEF ApprovedHaveTheirJob, JobsOf
        <2>2. \A i \in Jobs' : job'[i].cand = c => i = j
            BY <1>1, <2>1 DEF JobsOf
        <2> QED BY <1>1, <2>1, <2>2, ChosenJob DEF JobOf
    <1> QED BY <1>1 DEF Fate, Sender

\* Apart from a batch, no step changes who sends a candidate, and the fate of
\* an approved one changes with its job.
LEMMA SendersStay ==
    ASSUME DispatchInv, DispatchInv', [Next]_vars, ~ApproveAndDispatch
    PROVE  /\ Sender' = Sender
           /\ \A c \in Candidate : cand[c] = "approved" =>
                 \E j \in Jobs : /\ job[j].cand = c
                                 /\ Fate[c] = job[j].status
                                 /\ Fate'[c] = job'[j].status
           /\ \A c \in Candidate : cand[c] # "approved" =>
                 /\ cand'[c] # "approved"
                 /\ Fate[c] = Verdict(cand[c])
                 /\ Fate'[c] = Verdict(cand'[c])
    <1>1. ApprovedHaveTheirJob /\ ApprovedHaveTheirJob' /\ JobInv /\ SlotInv
        BY DEF DispatchInv, SendInv, JobInv
    <1>2. JobsStay /\ AccountsStay
        BY <1>1, JobsAreKept, AccountsAreKept
    <1>3. \A j \in Jobs : job[j].sess \in Sessions
        BY <1>1 DEF JobInv, JobsHaveSessions
    <1>4. \A c \in Candidate : cand'[c] = "approved" <=> cand[c] = "approved"
        BY <1>1, OnlyBatchesApprove DEF SlotInv
    <1>5. ASSUME NEW c \in Candidate, cand[c] = "approved"
          PROVE  /\ Sender'[c] = Sender[c]
                 /\ \E j \in Jobs : /\ job[j].cand = c
                                    /\ Fate[c] = job[j].status
                                    /\ Fate'[c] = job'[j].status
        <2>1. PICK j \in Jobs : job[j].cand = c
            BY <1>1, <1>5, FateIs
        <2>2. /\ j \in Jobs' /\ job'[j].cand = c
              /\ session'[job'[j].sess].account = session[job[j].sess].account
            BY <1>2, <1>3, <2>1 DEF JobsStay, AccountsStay
        <2>3. Fate[c] = job[j].status /\ Sender[c] = {session[job[j].sess].account}
            BY <1>1, <2>1, FateIs
        <2>4. /\ Fate'[c] = job'[j].status
              /\ Sender'[c] = {session'[job'[j].sess].account}
            BY <1>1, <2>2, FateWillBe
        <2> QED BY <2>1, <2>2, <2>3, <2>4
    <1>6. ASSUME NEW c \in Candidate, cand[c] # "approved"
          PROVE  /\ cand'[c] # "approved" /\ Sender'[c] = Sender[c]
                 /\ Fate[c] = Verdict(cand[c]) /\ Fate'[c] = Verdict(cand'[c])
        BY <1>1, <1>4, <1>6, FateIs, FateWillBe
    <1>7. Sender' = Sender
        <2>1. \A c \in Candidate : Sender'[c] = Sender[c]
            BY <1>5, <1>6
        <2> QED BY <2>1 DEF Sender
    <1> QED BY <1>5, <1>6, <1>7

\* A step of the ledger, or none.
Entry ==
    \/ \E S \in SUBSET Candidate :
          Dispatch!Give(S) \/ Dispatch!Dismiss(S) \/ Dispatch!Fail(S)
    \/ \E c \in Candidate : Dispatch!Succeed(c)
    \/ \E a \in Account : Dispatch!SetBack(a)
    \/ UNCHANGED <<Fate, Sender, Counters>>

\* Nothing happens to candidates while jobs and verdicts stay.
LEMMA FatesStay ==
    ASSUME DispatchInv, DispatchInv', [Next]_vars, ~ApproveAndDispatch,
           UNCHANGED job,
           \A c \in Candidate : Verdict(cand'[c]) = Verdict(cand[c])
    PROVE  UNCHANGED <<Fate, Sender>>
    <1>1. \A c \in Candidate : Fate'[c] = Fate[c]
        BY SendersStay
    <1>2. Fate' = Fate
        BY <1>1 DEF Fate
    <1> QED BY <1>2, SendersStay

\* Sessions that end fail the candidates they carry.
LEMMA EndingFails ==
    ASSUME DispatchInv, DispatchInv', [Next]_vars, ~ApproveAndDispatch,
           NEW S, EndsWithJobs(S), UNCHANGED <<cand, acct>>
    PROVE  \E T \in SUBSET Candidate : Dispatch!Fail(T)
    <1> DEFINE T == {c \in Candidate : Fate'[c] # Fate[c]}
    <1>1. \A j \in Jobs : \/ job'[j] = job[j]
                          \/ job[j].status = "running"
                             /\ job'[j].status = "failed"
        <2>1. \A j \in Jobs : job[j] \in JobRow
            BY DEF DispatchInv, SendInv, JobInv, SlotInv, Typed, DbOK, IsTable,
                   Jobs
        <2>2. \A j \in Jobs : \/ job'[j] = job[j]
                              \/ job[j].status = "running"
                                 /\ job'[j] = Finished(job[j], "failed")
            BY FailingJobs DEF EndsWithJobs
        <2>3. "failed" \in Outcome
            BY DEF Outcome
        <2> QED BY <2>1, <2>2, <2>3, FinishedIsRow
    <1>2. \A c \in T : Fate[c] = "running" /\ Fate'[c] = "failed"
        BY <1>1, SendersStay
    <1>3. Fate' = [c \in Candidate |-> IF c \in T THEN "failed" ELSE Fate[c]]
        <2>1. \A c \in Candidate :
                  Fate'[c] = IF c \in T THEN "failed" ELSE Fate[c]
            BY <1>2
        <2> QED BY <2>1 DEF Fate
    <1>4. UNCHANGED <<Sender, Counters>>
        BY SendersStay DEF Counters
    <1>5. T \in SUBSET Candidate
        OBVIOUS
    <1> HIDE DEF T
    <1>6. Dispatch!Fail(T)
        BY <1>2, <1>3, <1>4 DEF Dispatch!Fail, Dispatch!Become
    <1> QED BY <1>5, <1>6

\* A result that counts is the one result of its candidate, and a success
\* counts for the account the candidate was given to.
LEMMA ResultIsEntered ==
    ASSUME DispatchInv, DispatchInv', [Next]_vars, ~ApproveAndDispatch,
           NEW p \in Worker, ReportSendResult(p)
    PROVE  Entry
    <1> DEFINE s == pc[p].sess
               j == pc[p].job
               outcome == pc[p].status
               c == job[j].cand
               a == session[s].account
    <1>i. JobInv /\ CarriedSends /\ p \in Process
        BY DEF DispatchInv, SendInv, Process
    <1>1. Reported(j, s, outcome) /\ UNCHANGED cand
        BY <1>i, ResultIsReported
    <1>2. CASE UNCHANGED <<session, job, acct>>
        <2>1. UNCHANGED Counters
            BY <1>2 DEF Counters
        <2> QED BY <1>1, <1>2, <2>1, FatesStay DEF Entry
    <1>3. CASE ~UNCHANGED <<session, job, acct>>
        <2>1. j \in Jobs /\ job[j].sess = s
            BY <1>i DEF CarriedSends, CarriesJob, ReportSendResult, Jobs
        <2>t. /\ \A i \in Jobs : job[i] \in JobRow
              /\ \A r \in Sessions : session[r] \in SessionRow
              /\ acct \in [Account -> AccountRow]
            BY <1>i DEF JobInv, SlotInv, Typed, DbOK, IsTable, Jobs, Sessions
        <2> HIDE DEF s, j, outcome
        <2>2. /\ job[j].status = "running" /\ job'[j].status = outcome
              /\ s \in Sessions /\ outcome \in Outcome
              /\ \A i \in Jobs : i # j => job'[i] = job[i]
              /\ acct' = [acct EXCEPT ![a] = Counted(@, outcome)]
            BY <1>1, <1>3, <2>1 DEF Reported, ResultCounts
        <2>3. c \in Candidate /\ a \in Account
            BY <2>1, <2>2, <2>t DEF JobRow, SessionRow
        <2>4. Fate[c] = "running" /\ Sender[c] = {a} /\ cand[c] = "approved"
            BY <2>1, <2>2, <2>3, FateIs DEF DispatchInv
        <2>5. ASSUME NEW d \in Candidate
              PROVE  Fate'[d] = IF d \in {c} THEN outcome ELSE Fate[d]
            <3>1. CASE cand[d] = "approved"
                <4>1. PICK i \in Jobs : /\ job[i].cand = d
                                        /\ Fate[d] = job[i].status
                                        /\ Fate'[d] = job'[i].status
                    BY <3>1, SendersStay
                <4>2. CASE i = j
                    BY <4>1, <4>2, <2>2
                <4>3. CASE i # j
                    <5>1. d # c
                        BY <4>1, <4>3, <2>1, <2>4
                           DEF DispatchInv, ApprovedHaveTheirJob, JobsOf
                    <5> QED BY <4>1, <4>3, <5>1, <2>2
                <4> QED BY <4>2, <4>3
            <3>2. CASE cand[d] # "approved"
                BY <3>2, <2>4, <1>1, SendersStay
            <3> QED BY <3>1, <3>2
        <2> HIDE DEF c, a
        <2>6. Fate' = [d \in Candidate |->
                          IF d \in {c} THEN outcome ELSE Fate[d]]
            BY <2>5 DEF Fate
        <2>7. Sender' = Sender
            BY SendersStay
        <2>8. CASE outcome = "success"
            <3>1. acct'[a].sends = acct[a].sends + 1
                BY <2>2, <2>3, <2>8, <2>t DEF Counted, AccountRow
            <3>2. \A b \in Account : b # a => acct'[b] = acct[b]
                BY <2>2, <2>t
            <3>3. Counters' = [Counters EXCEPT ![a] = @ + 1]
                BY <3>1, <3>2, <2>3 DEF Counters
            <3>4. Dispatch!Succeed(c)
                BY <2>4, <2>6, <2>7, <2>8, <3>3
                   DEF Dispatch!Succeed, Dispatch!Become
            <3> QED BY <3>4, <2>3 DEF Entry
        <2>9. CASE outcome = "failed"
            <3>1. \A b \in Account : acct'[b] = acct[b]
                BY <2>2, <2>9, <2>t DEF Counted
            <3>2. Counters' = Counters
                BY <3>1 DEF Counters
            <3>3. Dispatch!Fail({c})
                BY <2>4, <2>6, <2>7, <2>9, <3>2
                   DEF Dispatch!Fail, Dispatch!Become
            <3>4. {c} \in SUBSET Candidate
                BY <2>3
            <3> QED BY <3>3, <3>4 DEF Entry
        <2> QED BY <2>2, <2>8, <2>9 DEF Outcome
    <1> QED BY <1>2, <1>3

\* A batch gives the candidates it takes to the accounts of its sessions.
LEMMA BatchGives ==
    ASSUME DispatchInv, DispatchInv', [Next]_vars, ApproveAndDispatch
    PROVE  Entry
    <1>1. PICK use, work : Batch(use, work)
        BY ApproveIsBatch
    <1> DEFINE S == DOMAIN use
               who == [c \in S |-> session[use[c]].account]
    <1>i. /\ ApprovedHaveTheirJob /\ ApprovedHaveTheirJob'
          /\ JobInv /\ SlotInv /\ AccountsStay
        BY AccountsAreKept DEF DispatchInv, SendInv, JobInv
    <1>2. ASSUME NEW c \in S
          PROVE  /\ c \in Candidate /\ use[c] \in Sessions
                 /\ cand[c] = "pending_review"
                 /\ acct[session[use[c]].account].sends < DailyLimit
                 /\ session[use[c]].account \in Account
        <2>1. \A s \in Sessions : session[s] \in SessionRow
            BY <1>i DEF SlotInv, Typed, DbOK, IsTable, Sessions
        <2> QED BY <1>1, <2>1 DEF Batch, IsReviewable, IsAvailable, SessionRow
    <1>3. ASSUME NEW c \in S
          PROVE  /\ Fate[c] = "open" /\ Fate'[c] = "running"
                 /\ Sender'[c] = {who[c]}
        <2>1. Fate[c] = "open"
            BY <1>2, <1>i, FateIs DEF Verdict
        <2>2. PICK j \in DOMAIN work : work[j] = c
            BY <1>1 DEF Batch
        <2>3. /\ j \in Jobs' /\ job'[j].cand = c /\ job'[j].sess = use[c]
              /\ job'[j].status = "running"
            BY <1>1, <2>2 DEF Batch
        <2>4. session'[use[c]].account = who[c]
            BY <1>i, <1>2 DEF AccountsStay
        <2>5. /\ Fate'[c] = job'[j].status
              /\ Sender'[c] = {session'[job'[j].sess].account}
            BY <1>2, <1>i, <2>3, FateWillBe
        <2> QED BY <2>1, <2>3, <2>4, <2>5
    <1>4. ASSUME NEW c \in Candidate, c \notin S
          PROVE  Fate'[c] = Fate[c] /\ Sender'[c] = Sender[c]
        <2>1. cand'[c] = cand[c]
            BY <1>1, <1>4 DEF Batch
        <2>2. CASE cand[c] = "approved"
            <3>1. PICK j \in Jobs : job[j].cand = c
                BY <1>i, <2>2, FateIs
            <3>2. j \in Jobs' /\ job'[j] = job[j] /\ job[j].sess \in Sessions
                BY <1>1, <1>i, <3>1 DEF Batch, JobInv, JobsHaveSessions
            <3>3. session'[job[j].sess].account = session[job[j].sess].account
                BY <1>i, <3>2 DEF AccountsStay
            <3>4. /\ Fate[c] = job[j].status
                  /\ Sender[c] = {session[job[j].sess].account}
                BY <1>i, <3>1, FateIs
            <3>5. /\ Fate'[c] = job'[j].status
                  /\ Sender'[c] = {session'[job'[j].sess].account}
                BY <1>i, <3>1, <3>2, FateWillBe
            <3> QED BY <3>2, <3>3, <3>4, <3>5
        <2>3. CASE cand[c] # "approved"
            <3>1. Fate[c] = Verdict(cand[c]) /\ Sender[c] = {}
                BY <1>i, <2>3, FateIs
            <3>2. Fate'[c] = Verdict(cand'[c]) /\ Sender'[c] = {}
                BY <1>i, <2>1, <2>3, FateWillBe
            <3> QED BY <2>1, <3>1, <3>2
        <2> QED BY <2>2, <2>3
    <1>5. /\ Fate' = [c \in Candidate |-> IF c \in S THEN "running" ELSE Fate[c]]
          /\ Sender' = [c \in Candidate |->
                            IF c \in S THEN {who[c]} ELSE Sender[c]]
        <2> HIDE DEF S, who
        <2>1. \A c \in Candidate :
                 /\ Fate'[c] = IF c \in S THEN "running" ELSE Fate[c]
                 /\ Sender'[c] = IF c \in S THEN {who[c]} ELSE Sender[c]
            BY <1>3, <1>4
        <2> QED BY <2>1 DEF Fate, Sender
    <1>6. UNCHANGED Counters
        BY <1>1 DEF Batch, Counters
    <1>7. /\ who \in [S -> Account]
          /\ \A c \in S : Counters[who[c]] < DailyLimit
        BY <1>2 DEF Counters
    <1>8. S \in SUBSET Candidate
        BY <1>2
    <1> HIDE DEF S, who
    <1>9. Dispatch!Give(S)
        BY <1>3, <1>5, <1>6, <1>7 DEF Dispatch!Give, Dispatch!Become
    <1> QED BY <1>8, <1>9 DEF Entry

\* A dismissal takes the candidates that are still in review.
LEMMA DismissalIsEntered ==
    ASSUME DispatchInv, DispatchInv', [Next]_vars, ~ApproveAndDispatch, Dismiss
    PROVE  Entry
    <1>1. PICK selected \in SUBSET Candidate,
               verdict \in {"rejected", "ignored"} :
              cand' = Dismissed(selected, verdict)
        BY DEF Dismiss
    <1> DEFINE S == {c \in selected : IsReviewable(c)}
    <1>2. S \in SUBSET Candidate
        OBVIOUS
    <1>3. \A c \in S : Fate[c] = "open"
        BY <1>2, SendersStay DEF IsReviewable, Verdict
    <1>4. \A c \in Candidate :
              Fate'[c] = IF c \in S THEN "dismissed" ELSE Fate[c]
        <2>1. ASSUME NEW c \in Candidate, cand[c] = "approved"
              PROVE  Fate'[c] = Fate[c] /\ c \notin S
            BY <2>1, SendersStay DEF Dismiss, IsReviewable
        <2>2. ASSUME NEW c \in Candidate, cand[c] # "approved"
              PROVE  Fate'[c] = IF c \in S THEN "dismissed" ELSE Fate[c]
            <3>1. /\ Fate[c] = Verdict(cand[c])
                  /\ Fate'[c] = Verdict(cand'[c])
                BY <2>2, SendersStay
            <3>2. cand'[c] = IF c \in S THEN verdict ELSE cand[c]
                BY <1>1 DEF Dismissed
            <3>3. Verdict(verdict) = "dismissed"
                BY DEF Verdict
            <3> QED BY <3>1, <3>2, <3>3
        <2> QED BY <2>1, <2>2
    <1>5. Fate' = [c \in Candidate |->
                      IF c \in S THEN "dismissed" ELSE Fate[c]]
        BY <1>4 DEF Fate
    <1>6. UNCHANGED <<Sender, Counters>>
        BY SendersStay DEF Dismiss, Counters
    <1> HIDE DEF S
    <1>7. Dispatch!Dismiss(S)
        BY <1>3, <1>5, <1>6 DEF Dispatch!Dismiss, Dispatch!Become
    <1> QED BY <1>2, <1>7 DEF Entry

\* The operator may set a counter back, and a cool-down leaves it alone.
LEMMA AccountsAreEntered ==
    ASSUME DispatchInv, DispatchInv', [Next]_vars, ~ApproveAndDispatch,
           NEW a \in Account, EditAccount(a) \/ CooldownEnds(a)
    PROVE  Entry
    <1>1. UNCHANGED <<Fate, Sender>>
        BY FatesStay DEF EditAccount, CooldownEnds
    <1>t. acct \in [Account -> AccountRow]
        BY DEF DispatchInv, SendInv, JobInv, SlotInv, Typed, DbOK
    <1>2. CASE EditAccount(a)
        <2>1. PICK standing \in Standing, sends \in {0, acct[a].sends} :
                  acct' = [acct EXCEPT ![a].standing = standing,
                                       ![a].sends = sends]
            BY <1>2 DEF EditAccount
        <2>2. \A b \in Account :
                  acct'[b].sends = IF b = a THEN sends ELSE acct[b].sends
            BY <2>1, <1>t DEF AccountRow
        <2>3. \/ Counters' = [Counters EXCEPT ![a] = 0]
              \/ Counters' = Counters
            BY <2>2 DEF Counters
        <2> QED BY <1>1, <2>3 DEF Entry, Dispatch!SetBack
    <1>3. CASE CooldownEnds(a)
        <2>1. \A b \in Account : acct'[b].sends = acct[b].sends
            BY <1>3, <1>t DEF CooldownEnds, AccountRow
        <2>2. Counters' = Counters
            BY <2>1 DEF Counters
        <2> QED BY <1>1, <2>2 DEF Entry
    <1> QED BY <1>2, <1>3

LEMMA DispatchStep ==
    ASSUME DispatchInv, DispatchInv', [Next]_vars
    PROVE  Entry
    <1>i. JobInv
        BY DEF DispatchInv, SendInv
    <1>1. CASE ApproveAndDispatch
        BY <1>1, BatchGives
    <1>2. CASE ~ApproveAndDispatch
        <2>e. ASSUME NEW S, EndsWithJobs(S), UNCHANGED <<cand, acct>>
              PROVE  Entry
            BY <1>2, <2>e, EndingFails DEF Entry
        <2>u. ASSUME UNCHANGED <<job, acct>>,
                     \A c \in Candidate : Verdict(cand'[c]) = Verdict(cand[c])
              PROVE  Entry
            <3>1. UNCHANGED Counters
                BY <2>u DEF Counters
            <3> QED BY <1>2, <2>u, <3>1, FatesStay DEF Entry
        <2>n. UNCHANGED <<job, acct, cand>> => Entry
            BY <2>u
        <2>1. ASSUME NEW o \in Observer, ObserverStep(o) PROVE Entry
            <3>1. UNCHANGED <<cand, acct>>
                BY <2>1 DEF ObserverStep, OperatorObserve, ObserveLive,
                            ObserveStillLive, ObserveNotLive, PlanEntries,
                            ScheduleChecks, CloseSessions, db
            <3> QED BY <1>i, <2>1, <2>e, <2>n, <3>1, ObserverJobs
        <2>2. ASSUME NEW p \in Worker, ReportSessionStatus(p) PROVE Entry
            <3>1. UNCHANGED <<cand, acct>>
                BY <2>2 DEF ReportSessionStatus
            <3> QED BY <1>i, <2>2, <2>e, <2>n, <3>1, StatusJobs
        <2>3. ASSUME NEW p \in Worker, ReportSendResult(p) PROVE Entry
            BY <1>2, <2>3, ResultIsEntered
        <2>4. ASSUME NEW c \in Candidate, GenerateCandidate(c) PROVE Entry
            <3>1. \A d \in Candidate : Verdict(cand'[d]) = Verdict(cand[d])
                <4>1. cand \in [Candidate -> CandStatus]
                    BY <1>i DEF JobInv, SlotInv, Typed, DbOK
                <4> QED BY <2>4, <4>1 DEF GenerateCandidate, Verdict
            <3> QED BY <2>4, <2>u, <3>1 DEF GenerateCandidate
        <2>5. CASE Dismiss
            BY <1>2, <2>5, DismissalIsEntered
        <2>6. ASSUME NEW a \in Account, EditAccount(a) \/ CooldownEnds(a)
              PROVE  Entry
            BY <1>2, <2>6, AccountsAreEntered
        <2> QED BY <1>2, <2>n, <2>1, <2>2, <2>3, <2>4, <2>5, <2>6
                DEF Next, vars, db, WorkerStep, EnterLiveRoom, SendComment,
                    CheckSession, CloseSession, RestartSession, WorkerDies,
                    InsertSessions, PublishOne, Abandon, EditTask, EditNode,
                    WorkerHeartbeat, GraceElapses
    <1> QED BY <1>1, <1>2

\* Whatever interleaves, a question is given once, to one account below its
\* limit, it gets one result for good, and the counters grow with successes
\* only: every behaviour of the center is one of DispatchLedger, also where
\* the operator edits accounts and tasks.
THEOREM DispatchIsImplemented == Spec => ImplementsDispatch
    <1>1. Init => DispatchInv /\ Dispatch!Init
        <2> SUFFICES ASSUME Init PROVE DispatchInv /\ Dispatch!Init
            OBVIOUS
        <2>1. ApprovedHaveTheirJob
            BY DEF Init, ApprovedHaveTheirJob, JobsOf, Jobs
        <2>2. SendInv
            BY SendInit
        <2>3. Dispatch!Init
            BY DEF Init, Dispatch!Init, Fate, Sender, Counters, Verdict
        <2> QED BY <2>1, <2>2, <2>3 DEF DispatchInv
    <1>2. DispatchInv /\ [Next]_vars => DispatchInv'
        BY SendStep, ApprovedStep DEF DispatchInv, SendInv
    <1>3. DispatchInv /\ DispatchInv' /\ [Next]_vars
              => [Dispatch!Next]_(Dispatch!ledgerVars)
        BY DispatchStep DEF Entry, Dispatch!Next, Dispatch!ledgerVars
    <1> QED BY <1>1, <1>2, <1>3, PTL DEF Spec, ImplementsDispatch, Dispatch!Spec
===============================================================================
