------------------------------ MODULE LiveCenter ------------------------------
(***************************************************************************)
(* The live core of smhelper: the center (web process and Celery center    *)
(* worker) that keeps the state of record in the database, and the browser *)
(* nodes that act in the live room and report back.                        *)
(*                                                                         *)
(* One database transaction is one step.  A handler that runs several, or  *)
(* that publishes Celery tasks after its commit, is a sequence of steps;   *)
(* what it still has to do is in pc, with the values it carries along.     *)
(*                                                                         *)
(*   pc[p].at    process p ...                                             *)
(*   "idle"      has nothing to do                                         *)
(*   "watching"  (observer) has the room open, waits for an observation    *)
(*   "plan"      has started its task, is about to plan the entries        *)
(*   "insert"    has decided on rows of new sessions, not yet inserted     *)
(*   "check"     is about to schedule health checks                        *)
(*   "closeAll"  has ended its task, is about to close its sessions        *)
(*   "publish"   has committed, still has to publish msgs, then goes on    *)
(*   "status"    (worker) is about to report a session status              *)
(*   "result"    (worker) is about to report the result of a send          *)
(*   "restart"   the center, in the handler of the worker's report, is     *)
(*               about to look whether session sess is rebuilt             *)
(***************************************************************************)
EXTENDS LiveDomain, Sequences

CONSTANTS
    Candidate,      \* candidate questions
    CandTask,       \* the live task of each
    SessionId,      \* ids the center may give to sessions
    JobId,          \* ids the center may give to dispatch jobs
    Observer,       \* runs of the observer task in the center worker
    Watches,        \* the live task each of them observes
    Worker,         \* pool processes of the browser nodes
    Runs,           \* the node each of them belongs to
    Admin,          \* the event loop of the web process, runs admin actions
    Unreliable,     \* whether processes die and reports get lost
    Editable,       \* tasks, accounts and nodes the operator edits
    QueueBound      \* bound of the model: observers wait while a queue is as long

ASSUME CenterAssumption ==
    /\ CandTask \in [Candidate -> Task]
    /\ Watches \in [Observer -> Task]
    /\ Runs \in [Worker -> Node]
    /\ Unreliable \in BOOLEAN
    /\ Editable \subseteq Task \cup Account \cup Node
    /\ QueueBound \in Nat

\* Kept apart from the assumption above: the processes are told apart.
ASSUME ProcessAssumption ==
    /\ Observer \cap Worker = {}
    /\ Admin \notin Observer \cup Worker

VARIABLES
    task,           \* live_tasks.status
    session,        \* account_live_sessions, by id
    job,            \* dispatch_jobs, by id, each with its send_attempts
    cand,           \* candidate_questions.status
    acct,           \* platform_accounts with account_auth_states
    nodeRow,        \* worker_nodes.online, or no row
    queue,          \* Celery: the tasks ready in each node's queue
    delayed,        \* Celery: the entry tasks whose countdown is running
    browsers,       \* XhsLiveRoomBrowserOperator._sessions of each process
    pc              \* what each process still has to do

db == <<task, session, job, cand, acct, nodeRow>>
celery == <<queue, delayed>>
vars == <<db, celery, browsers, pc>>
-------------------------------------------------------------------------------
(***************************************************************************)
(* Rows, messages and continuations.                                       *)
(***************************************************************************)
Process == Observer \cup Worker \cup {Admin}

\* A table: some ids of S have a row of T.
IsTable(f, S, T) == DOMAIN f \subseteq S /\ f \in [DOMAIN f -> T]

TaskStatus == {"pending", "running", "ended"}
CandStatus == {"absent", "pending_review", "approved", "rejected", "ignored"}
NodeStatus == {"absent", "offline", "online"}
Outcome == {"success", "failed"}
JobStatus == {"running"} \cup Outcome

JobRow == [cand : Candidate, sess : SessionId, status : JobStatus,
           attempts : Seq(Outcome)]

Message == [kind : {"enter", "check", "close"}, sess : SessionId]
               \cup [kind : {"send"}, sess : SessionId, job : JobId]

Simple == [at : {"idle", "watching", "plan", "check", "closeAll"}]
Insert == [at : {"insert"}, rows : SUBSET SessionRow]
Publish == [at : {"publish"}, msgs : SUBSET Message,
            then : {"idle", "watching", "check"}]
StatusReport == [at : {"status"}, sess : SessionId, status : SessionStatus]
ResultReport == [at : {"result"}, sess : SessionId, job : JobId,
                 status : Outcome]
Restart == [at : {"restart"}, sess : SessionId]
Continuation == Simple \cup Insert \cup Publish \cup StatusReport
                    \cup ResultReport \cup Restart

TypeOK ==
    /\ task \in [Task -> TaskStatus]
    /\ IsTable(session, SessionId, SessionRow)
    /\ IsTable(job, JobId, JobRow)
    /\ cand \in [Candidate -> CandStatus]
    /\ acct \in [Account -> AccountRow]
    /\ nodeRow \in [Node -> NodeStatus]
    /\ queue \in [Node -> Seq(Message)]
    /\ delayed \in [Node -> SUBSET Message]
    /\ browsers \in [Worker -> SUBSET SessionId]
    /\ pc \in [Process -> Continuation]

Sessions == DOMAIN session
Jobs == DOMAIN job
IsActive(s) == session[s].status \in Active
IsTerminal(s) == session[s].status \in Terminal
ActiveOf(t) == {s \in Sessions : session[s].task = t /\ IsActive(s)}
Load == [n \in Node |->
            Cardinality({s \in Sessions : session[s].node = n /\ IsActive(s)})]
RunningJobs(S) ==
    {j \in Jobs : job[j].sess \in S /\ job[j].status = "running"}

Go(p, label) == pc' = [pc EXCEPT ![p] = [at |-> label]]

\* After its commit a handler publishes msgs one by one, if there are any.
ThenPublish(p, msgs, next) ==
    pc' = [pc EXCEPT ![p] = IF msgs = {} THEN [at |-> next]
                            ELSE [at |-> "publish", msgs |-> msgs,
                                  then |-> next]]

Init ==
    /\ task = [t \in Task |-> "pending"]
    /\ session = [s \in {} |-> {}]
    /\ job = [j \in {} |-> {}]
    /\ cand = [c \in Candidate |-> "absent"]
    /\ acct = [a \in Account |->
                  [standing |-> "good", sends |-> 0, cooling |-> FALSE]]
    /\ nodeRow = [n \in Node |-> "absent"]
    /\ queue = [n \in Node |-> <<>>]
    /\ delayed = [n \in Node |-> {}]
    /\ browsers = [p \in Worker |-> {}]
    /\ pc = [p \in Process |-> [at |-> "idle"]]
-------------------------------------------------------------------------------
(***************************************************************************)
(* The observer of a live task, a long-running task of the center worker.  *)
(***************************************************************************)
\* The operator's "Observe" action; run_until_finished opens the room.
OperatorObserve(o) ==
    /\ pc[o].at = "idle"
    /\ Go(o, "watching")
    /\ UNCHANGED <<db, celery, browsers>>

\* The room is live and its stream URL is known: a task that has not been
\* started is now running.
ObserveLive(o) ==
    LET t == Watches[o] IN
    /\ pc[o].at = "watching"
    /\ task[t] = "pending"
    /\ task' = [task EXCEPT ![t] = "running"]
    /\ Go(o, "plan")
    /\ UNCHANGED <<session, job, cand, acct, nodeRow, celery, browsers>>

\* The room is live, but there is nothing to start: the stream URL is not
\* found yet, or the task is not in a startable status.
ObserveStillLive(o) ==
    /\ pc[o].at = "watching"
    /\ Go(o, "check")
    /\ UNCHANGED <<db, celery, browsers>>

\* The room is not live: the task ends, whatever its status was.
ObserveNotLive(o) ==
    /\ pc[o].at = "watching"
    /\ task' = [task EXCEPT ![Watches[o]] = "ended"]
    /\ Go(o, "closeAll")
    /\ UNCHANGED <<session, job, cand, acct, nodeRow, celery, browsers>>

\* The planner reads accounts, nodes and sessions in one transaction and
\* decides; the dispatcher inserts in another one.  A task that is no longer
\* running gets no plan.
Unseated(t) ==
    {a \in Account : IsAvailable(acct[a])
                     /\ \A s \in ActiveOf(t) : session[s].account # a}

PlanEntries(o) ==
    LET t == Watches[o] IN
    /\ pc[o].at = "plan"
    /\ \/ /\ task[t] = "running"
          /\ \E place \in EntryPlans(Unseated(t), nodeRow, Load) :
                pc' = [pc EXCEPT ![o] =
                          [at |-> "insert",
                           rows |-> {PlannedSession(t, a, place[a], 0) :
                                         a \in DOMAIN place}]]
       \/ /\ task[t] # "running"
          /\ Go(o, "check")
    /\ UNCHANGED <<db, celery, browsers>>

\* A health check for every session that should have a browser and whose
\* node is online.
ScheduleChecks(o) ==
    LET open == {s \in ActiveOf(Watches[o]) :
                    /\ session[s].status \in Checkable
                    /\ nodeRow[session[s].node] = "online"}
    IN  /\ pc[o].at = "check"
        /\ ThenPublish(o, {[kind |-> "check", sess |-> s] : s \in open},
                       "watching")
        /\ UNCHANGED <<db, celery, browsers>>

\* A job is closed with its attempt.
Finished(row, outcome) ==
    [row EXCEPT !.status = outcome, !.attempts = Append(@, outcome)]

\* Running jobs of sessions that end are closed with a failed attempt.
\* (faulty variant: no attempt is recorded)
JobsDropped(S) ==
    [j \in Jobs |-> IF j \in RunningJobs(S)
                    THEN [job[j] EXCEPT !.status = "failed"]
                    ELSE job[j]]
JobsFailed(S) ==
    [j \in Jobs |-> IF j \in RunningJobs(S)
                    THEN Finished(job[j], "failed")
                    ELSE job[j]]

\* close_active_sessions.  A send within its grace period is left alone;
\* sessions without a node to tell, and overdue sends, are given up.
CloseSessions(o) ==
    LET ending == {s \in ActiveOf(Watches[o]) :
                      CloseDecision(session[s]) # "wait_for_sending"}
        lost == {s \in ending : \/ CloseDecision(session[s]) = "force_close"
                                \/ nodeRow[session[s].node] = "absent"}
        told == ending \ lost
    IN  /\ pc[o].at = "closeAll"
        /\ session' = [s \in Sessions |->
                          IF s \in lost THEN WithStatus(session[s], "lost")
                          ELSE IF s \in told
                               THEN WithStatus(session[s], "closing")
                               ELSE session[s]]
        /\ job' = JobsFailed(lost)
        /\ ThenPublish(o, {[kind |-> "close", sess |-> s] : s \in told},
                       "idle")
        /\ UNCHANGED <<task, cand, acct, nodeRow, celery, browsers>>
-------------------------------------------------------------------------------
(***************************************************************************)
(* Inserting new sessions and publishing what a transaction decided.       *)
(***************************************************************************)
\* Rows whose slot is held are skipped, the others get fresh ids.
\* (faulty variant: the keys that are held are not looked up)
AnyRow(rows) == rows
FreeRows(rows) ==
    {r \in rows : \A s \in Sessions :
                      session[s].keyed => SlotOf(session[s]) # SlotOf(r)}

Inserts(p, new) ==
    /\ session' = [s \in Sessions \cup DOMAIN new |->
                      IF s \in DOMAIN new THEN new[s] ELSE session[s]]
    /\ ThenPublish(p, {[kind |-> "enter", sess |-> s] : s \in DOMAIN new},
                   IF p \in Observer THEN "check" ELSE "idle")

InsertSessions(p) ==
    /\ pc[p].at = "insert"
    /\ \E new \in UNION {Bijection(D, FreeRows(pc[p].rows)) :
                             D \in SUBSET (SessionId \ Sessions)} :
          Inserts(p, new)
    /\ UNCHANGED <<task, job, cand, acct, nodeRow, celery, browsers>>

\* Entries of a plan carry a countdown of at least its minimum interval; a
\* rebuilt session enters at once.  QueueBound is a bound of the model: an
\* observer, which may repeat its checks and closes for ever, waits while a
\* queue has that many tasks; entries and sends are as many as there are
\* sessions and jobs.
IsStaggered(m) == m.kind = "enter" /\ session[m.sess].restart = 0

PublishOne(p) ==
    /\ pc[p].at = "publish"
    /\ \E m \in pc[p].msgs :
          LET n == session[m.sess].node IN
          /\ \/ /\ IsStaggered(m)
                /\ delayed' = [delayed EXCEPT ![n] = @ \cup {m}]
                /\ UNCHANGED queue
             \/ /\ ~IsStaggered(m)
                /\ m.kind \in {"check", "close"} => Len(queue[n]) < QueueBound
                /\ queue' = [queue EXCEPT ![n] = Append(@, m)]
                /\ UNCHANGED delayed
          /\ ThenPublish(p, pc[p].msgs \ {m}, pc[p].then)
    /\ UNCHANGED <<db, browsers>>
-------------------------------------------------------------------------------
(***************************************************************************)
(* The operator, through the web process.                                  *)
(***************************************************************************)
\* A segment of the recording has been turned into a candidate question.
GenerateCandidate(c) ==
    /\ cand[c] = "absent"
    /\ task[CandTask[c]] # "pending"
    /\ cand' = [cand EXCEPT ![c] = "pending_review"]
    /\ UNCHANGED <<task, session, job, acct, nodeRow, celery, browsers, pc>>

\* A candidate is reviewed once.
IsReviewable(c) == cand[c] = "pending_review"

\* A waiting session of the candidate's running task can take it, when its
\* account may send and its node is online.
\* (faulty variant: a candidate that has been reviewed is dispatched again)
CanSendAgain(c, s) ==
    /\ cand[c] # "absent"
    /\ task[CandTask[c]] = "running"
    /\ session[s].task = CandTask[c]
    /\ session[s].status = "waiting"
    /\ IsAvailable(acct[session[s].account])
    /\ nodeRow[session[s].node] = "online"
CanSend(c, s) ==
    /\ IsReviewable(c)
    /\ task[CandTask[c]] = "running"
    /\ session[s].task = CandTask[c]
    /\ session[s].status = "waiting"
    /\ IsAvailable(acct[session[s].account])
    /\ nodeRow[session[s].node] = "online"

\* The selected candidates are taken one after the other, each by a session
\* that no earlier one of the batch got; those that find none, and those
\* whose final text is blank or forbidden, stay pending.  use is what the
\* batch ends up with, work names the jobs it creates.
Dispatches(use, work) ==
    /\ \A c \in DOMAIN use : CanSend(c, use[c])
    /\ cand' = [c \in Candidate |->
                   IF c \in DOMAIN use THEN "approved" ELSE cand[c]]
    /\ session' = [s \in Sessions |->
                      IF \E c \in DOMAIN use : use[c] = s
                      THEN [session[s] EXCEPT !.status = "sending",
                                              !.sending = "fresh"]
                      ELSE session[s]]
    /\ job' = [j \in Jobs \cup DOMAIN work |->
                  IF j \in DOMAIN work
                  THEN [cand |-> work[j], sess |-> use[work[j]],
                        status |-> "running", attempts |-> <<>>]
                  ELSE job[j]]
    /\ ThenPublish(Admin, {[kind |-> "send", sess |-> use[work[j]],
                            job |-> j] : j \in DOMAIN work}, "idle")

ApproveAndDispatch ==
    /\ pc[Admin].at = "idle"
    /\ \E use \in UNION {Injection(D, Sessions) :
                             D \in (SUBSET Candidate) \ {{}}} :
       \E work \in UNION {Bijection(J, DOMAIN use) :
                             J \in SUBSET (JobId \ Jobs)} :
          Dispatches(use, work)
    /\ UNCHANGED <<task, acct, nodeRow, celery, browsers>>

\* reject and ignore: of the selected candidates, those still in review.
Dismissed(selected, verdict) ==
    [c \in Candidate |->
        IF c \in selected /\ IsReviewable(c) THEN verdict ELSE cand[c]]

Dismiss ==
    /\ pc[Admin].at = "idle"
    /\ \E selected \in SUBSET Candidate, verdict \in {"rejected", "ignored"} :
          cand' = Dismissed(selected, verdict)
    /\ UNCHANGED <<task, session, job, acct, nodeRow, celery, browsers, pc>>

\* The admin forms: the status of a task, an account with its login state
\* and its counter, the online flag of a node or its row.
EditTask(t) ==
    /\ t \in Editable
    /\ \E status \in TaskStatus : task' = [task EXCEPT ![t] = status]
    /\ UNCHANGED <<session, job, cand, acct, nodeRow, celery, browsers, pc>>

EditAccount(a) ==
    /\ a \in Editable
    /\ \E standing \in Standing, sends \in {0, acct[a].sends} :
          acct' = [acct EXCEPT ![a].standing = standing, ![a].sends = sends]
    /\ UNCHANGED <<task, session, job, cand, nodeRow, celery, browsers, pc>>

EditNode(n) ==
    /\ n \in Editable
    /\ nodeRow[n] # "absent"
    /\ \E status \in {"absent", "offline"} :
          nodeRow' = [nodeRow EXCEPT ![n] = status]
    /\ UNCHANGED <<task, session, job, cand, acct, celery, browsers, pc>>
-------------------------------------------------------------------------------
(***************************************************************************)
(* A pool process of a browser node takes a task of the node's queue, or   *)
(* one whose countdown is over, acts in the browser and reports.  The      *)
(* browsers it has opened are its own: another process of the node does    *)
(* not see them.                                                           *)
(***************************************************************************)
\* Process p takes the task m.
Takes(p, m) ==
    LET n == Runs[p] IN
    /\ pc[p].at = "idle"
    /\ \/ /\ queue[n] # <<>>
          /\ m = Head(queue[n])
          /\ queue' = [queue EXCEPT ![n] = Tail(@)]
          /\ UNCHANGED delayed
       \/ /\ m \in delayed[n]
          /\ delayed' = [delayed EXCEPT ![n] = @ \ {m}]
          /\ UNCHANGED queue

Ready(p) ==
    delayed[Runs[p]]
        \cup (IF queue[Runs[p]] = <<>> THEN {} ELSE {Head(queue[Runs[p]])})

ToReport(p, s, status) ==
    pc' = [pc EXCEPT ![p] = [at |-> "status", sess |-> s, status |-> status]]

ToReportResult(p, s, j, outcome) ==
    pc' = [pc EXCEPT ![p] = [at |-> "result", sess |-> s, job |-> j,
                             status |-> outcome]]

\* What may be reported of an action in a browser: it fails, and in the
\* process that has opened the browser it may succeed.
Results(p, s, good, bad) == {bad} \cup {r \in {good} : s \in browsers[p]}

\* The center hands a login out while it is valid.
LoginIsStored(a) == acct[a].standing # "login_invalid"

\* The room is opened and its player is shown, or the browser is closed again.
OpenLiveRoom(p, s) ==
    \/ /\ browsers' = [browsers EXCEPT ![p] = @ \cup {s}]
       /\ ToReport(p, s, "waiting")
    \/ /\ UNCHANGED browsers
       /\ ToReport(p, s, "failed")

\* The node fetches the stored login and opens the room.
EnterLiveRoom(p) ==
    /\ \E m \in Ready(p) :
          /\ m.kind = "enter"
          /\ Takes(p, m)
          /\ \/ /\ LoginIsStored(session[m.sess].account)
                /\ OpenLiveRoom(p, m.sess)
             \/ /\ UNCHANGED browsers
                /\ ToReport(p, m.sess, "failed")
    /\ UNCHANGED db

SendComment(p) ==
    /\ \E m \in Ready(p) :
          /\ m.kind = "send"
          /\ Takes(p, m)
          /\ \E outcome \in Results(p, m.sess, "success", "failed") :
                ToReportResult(p, m.sess, m.job, outcome)
    /\ UNCHANGED <<db, browsers>>

CheckSession(p) ==
    /\ \E m \in Ready(p) :
          /\ m.kind = "check"
          /\ Takes(p, m)
          /\ \E status \in Results(p, m.sess, "waiting", "lost") :
                ToReport(p, m.sess, status)
    /\ UNCHANGED <<db, browsers>>

\* The browser is forgotten before it is closed, also when closing it fails.
CloseSession(p) ==
    /\ \E m \in Ready(p) :
          /\ m.kind = "close"
          /\ Takes(p, m)
          /\ \E status \in Results(p, m.sess, "closed", "lost") :
                ToReport(p, m.sess, status)
          /\ browsers' = [browsers EXCEPT ![p] = @ \ {m.sess}]
    /\ UNCHANGED db
-------------------------------------------------------------------------------
(***************************************************************************)
(* The API of the center.  The worker waits for the answer, so that the    *)
(* handler's steps are steps of the worker's pc.                           *)
(***************************************************************************)
\* Which running jobs fail with a session that a report ends.
\* (faulty variant: none)
JobsSurvive(s, status) == {}
SessionsFailing(s, status) == IF status \in Terminal THEN {s} ELSE {}

\* A session that failed or is lost may be rebuilt.
AfterReport(s, status) ==
    IF status \in Restartable THEN [at |-> "restart", sess |-> s]
                              ELSE [at |-> "idle"]

ReportSessionStatus(p) ==
    LET s == pc[p].sess
        reported == pc[p].status
    IN  /\ pc[p].at = "status"
        /\ \/ /\ AcceptsReport(session[s], reported)
              /\ session' = [session EXCEPT ![s] = WithStatus(@, reported)]
              /\ job' = JobsFailed(SessionsFailing(s, reported))
              /\ pc' = [pc EXCEPT ![p] = AfterReport(s, reported)]
           \/ /\ ~AcceptsReport(session[s], reported)
              /\ Go(p, "idle")
              /\ UNCHANGED <<session, job>>
        /\ UNCHANGED <<task, cand, acct, nodeRow, celery, browsers>>

\* restart_session reads; the dispatcher inserts in another transaction.
\* The account itself is not looked at again.
\* (faulty variant: the rebuild is not counted)
RestartsUncounted(s) ==
    {PlannedSession(session[s].task, session[s].account, n,
                    session[s].restart) :
        n \in {BestNode(session[s].account,
                   {m \in Node : CanAccept(nodeRow[m], m, Load[m])})}}
Restarts(s) ==
    {PlannedSession(session[s].task, session[s].account, n,
                    session[s].restart + 1) :
        n \in {BestNode(session[s].account,
                   {m \in Node : CanAccept(nodeRow[m], m, Load[m])})}}

MayRestart(s) ==
    /\ task[session[s].task] = "running"
    /\ \A r \in ActiveOf(session[s].task) :
          session[r].account # session[s].account
    /\ CanAutoRestart(session[s])
    /\ \E n \in Node : CanAccept(nodeRow[n], n, Load[n])

RestartSession(p) ==
    /\ pc[p].at = "restart"
    /\ pc' = [pc EXCEPT ![p] =
                 IF MayRestart(pc[p].sess)
                 THEN [at |-> "insert", rows |-> Restarts(pc[p].sess)]
                 ELSE [at |-> "idle"]]
    /\ UNCHANGED <<db, celery, browsers>>

\* The result of a send counts while its job runs and its session sends.
ResultCounts(j, s) ==
    /\ session[s].status \notin Terminal
    /\ job[j].status = "running"
    /\ session[s].status = "sending"

\* A success counts for the account, which then cools down.
\* (faulty variant: a failure counts as well)
CountedAnyway(row, outcome) ==
    [row EXCEPT !.sends = @ + 1, !.cooling = TRUE]
Counted(row, outcome) ==
    IF outcome = "success"
    THEN [row EXCEPT !.sends = @ + 1, !.cooling = TRUE]
    ELSE row

\* (faulty variant: the session stays "sending")
StaysSending(row) == row
SentBy(row) == [WithStatus(row, "waiting") EXCEPT !.sending = "none"]

ReportSendResult(p) ==
    LET s == pc[p].sess
        j == pc[p].job
        outcome == pc[p].status
    IN  /\ pc[p].at = "result"
        /\ \/ /\ ResultCounts(j, s)
              /\ job' = [job EXCEPT ![j] = Finished(@, outcome)]
              /\ session' = [session EXCEPT ![s] = SentBy(@)]
              /\ acct' = [acct EXCEPT ![session[s].account] =
                                          Counted(@, outcome)]
           \/ /\ ~ResultCounts(j, s)
              /\ UNCHANGED <<job, session, acct>>
        /\ Go(p, "idle")
        /\ UNCHANGED <<task, cand, nodeRow, celery, browsers>>

\* The row of a node that announces itself is created or set online.
Announced(n) == [nodeRow EXCEPT ![n] = "online"]

\* A node announces itself when its worker is ready.
WorkerHeartbeat(n) ==
    /\ nodeRow' = Announced(n)
    /\ UNCHANGED <<task, session, job, cand, acct, celery, browsers, pc>>
-------------------------------------------------------------------------------
(***************************************************************************)
(* Time and failures.                                                      *)
(***************************************************************************)
GraceElapses(s) ==
    /\ session[s].status = "sending"
    /\ session[s].sending = "fresh"
    /\ session' = [session EXCEPT ![s].sending = "overdue"]
    /\ UNCHANGED <<task, job, cand, acct, nodeRow, celery, browsers, pc>>

CooldownEnds(a) ==
    /\ acct[a].cooling
    /\ acct' = [acct EXCEPT ![a].cooling = FALSE]
    /\ UNCHANGED <<task, session, job, cand, nodeRow, celery, browsers, pc>>

\* A process dies, the broker refuses a task, or a report does not reach the
\* center: what the process still had to do is not done.  The state of record
\* and the open browsers stay as they are.
Abandon(p) ==
    /\ Unreliable
    /\ pc[p].at # "idle"
    /\ Go(p, "idle")
    /\ UNCHANGED <<db, celery, browsers>>

\* A pool process dies with the browsers it has opened and the report it has
\* not made.  (The handlers of earlier reports run in the center.)
WorkerDies(p) ==
    /\ Unreliable
    /\ pc[p].at \in {"idle", "status", "result"}
    /\ browsers' = [browsers EXCEPT ![p] = {}]
    /\ Go(p, "idle")
    /\ UNCHANGED <<db, celery>>
-------------------------------------------------------------------------------
ObserverStep(o) ==
    \/ OperatorObserve(o) \/ ObserveLive(o) \/ ObserveStillLive(o)
    \/ ObserveNotLive(o) \/ PlanEntries(o) \/ ScheduleChecks(o)
    \/ CloseSessions(o)

WorkerStep(p) ==
    \/ EnterLiveRoom(p) \/ SendComment(p) \/ CheckSession(p)
    \/ CloseSession(p) \/ ReportSessionStatus(p) \/ RestartSession(p)
    \/ ReportSendResult(p)

Next ==
    \/ \E o \in Observer : ObserverStep(o)
    \/ \E p \in Worker : WorkerStep(p) \/ WorkerDies(p)
    \/ \E p \in Process : InsertSessions(p) \/ PublishOne(p) \/ Abandon(p)
    \/ \E c \in Candidate : GenerateCandidate(c)
    \/ ApproveAndDispatch \/ Dismiss
    \/ \E t \in Task : EditTask(t)
    \/ \E a \in Account : EditAccount(a) \/ CooldownEnds(a)
    \/ \E n \in Node : EditNode(n) \/ WorkerHeartbeat(n)
    \/ \E s \in Sessions : GraceElapses(s)

Spec == Init /\ [][Next]_vars
-------------------------------------------------------------------------------
(***************************************************************************)
(* Safety: what the center guarantees in every interleaving, with lost     *)
(* reports and dying processes.                                            *)
(***************************************************************************)
\* An account has at most one active session in a live task, whatever the
\* planner, a rebuild and the closing of the task do at the same time: the
\* dispatcher looks the slot keys up again when it inserts, and the key of a
\* row follows its status through every report and every shutdown.
OneActiveSession ==
    \A r, s \in Sessions :
        r # s /\ IsActive(r) /\ IsActive(s)
            => SlotOf(session[r]) # SlotOf(session[s])

\* The unique key says what the status says: a slot is neither blocked by a
\* session that has ended nor free while its session is closing.
KeyFollowsStatus ==
    \A s \in Sessions : session[s].keyed <=> IsActive(s)

\* No job keeps running for a session that has ended: whoever ends it (a
\* report, an overdue send at shutdown, a missing node) fails its jobs.
RunningJobHasActiveSession ==
    \A j \in Jobs : job[j].status = "running" => IsActive(job[j].sess)

\* A session that is sending does so for a job that is still running, even
\* when checks and late results move it back and forth.
SendingHasRunningJob ==
    \A s \in Sessions :
        session[s].status = "sending" => RunningJobs({s}) # {}

\* The audit trail: a finished job has exactly one attempt, with the status
\* of the job, and a running one has none, although a result and the end of
\* the session may both be reported for it.
OneAttemptPerFinishedJob ==
    \A j \in Jobs :
        job[j].attempts =
            IF job[j].status = "running" THEN <<>> ELSE <<job[j].status>>

\* A candidate is approved together with the one job that sends it.
OneJobPerApprovedCandidate ==
    \A c \in Candidate :
        Cardinality({j \in Jobs : job[j].cand = c}) =
            IF cand[c] = "approved" THEN 1 ELSE 0

\* sends_today of an account is the number of its jobs that succeeded.
SendsAreCounted ==
    \A a \in Account :
        acct[a].sends = Cardinality({j \in Jobs :
            /\ job[j].status = "success"
            /\ session[job[j].sess].account = a})

\* In one live task an account does not exceed its daily limit: it is looked
\* at when a send is dispatched, and counted when the result comes in.
WithinDailyLimit == \A a \in Account : acct[a].sends <= DailyLimit

\* The rebuilds of an account in a live task form one chain: no two of its
\* sessions have the same restart count, so that there are at most
\* MaxRestarts of them, and only the last of the chain may be active.
RestartsFormAChain ==
    \A r, s \in Sessions :
        r # s /\ SlotOf(session[r]) = SlotOf(session[s])
            => /\ session[r].restart # session[s].restart
               /\ session[r].restart < session[s].restart => IsTerminal(r)

\* What is over stays as it is: a session that has ended, a finished job with
\* its attempt, a reviewed candidate.  Late, repeated and reordered reports
\* arrive for all of them.
OverStays ==
    /\ \A s \in Sessions : IsTerminal(s) =>
           s \in DOMAIN session' /\ session'[s] = session[s]
    /\ \A j \in Jobs : job[j].status # "running" =>
           j \in DOMAIN job' /\ job'[j] = job[j]
    /\ \A c \in Candidate : cand[c] \notin {"absent", "pending_review"} =>
           cand'[c] = cand[c]

OverIsOver == [][OverStays]_vars

\* Once a session is closing it sends nothing and does not come back to
\* waiting: the next status of the session is its last one.
ClosingOnlyEnds ==
    [][\A s \in Sessions :
          session[s].status = "closing" =>
              session'[s].status \in {"closing"} \cup Terminal]_vars

\* The sessions of the center implement slots that are occupied by one
\* session at a time and never by one that has ended.
Holders ==
    [k \in Task \X Account |->
        {s \in Sessions : SlotOf(session[s]) = k /\ IsActive(s)}]
Retired == {s \in Sessions : IsTerminal(s)}

Slots == INSTANCE AccountSlots WITH
             Slot <- Task \X Account, holders <- Holders, retired <- Retired

ImplementsSlots == Slots!Spec

\* The center implements DispatchLedger: the fate of a candidate is what the
\* reviewer decided and, once it is approved, the status of its job.  A batch,
\* a result and the end of sessions change several tables each; none of them
\* gives a candidate away twice, changes a result or counts what did not
\* succeed, in any interleaving and with edited accounts.
JobOf(c) == CHOOSE j \in Jobs : job[j].cand = c

Verdict(status) ==
    IF status \in {"absent", "pending_review"} THEN "open" ELSE "dismissed"

Fate ==
    [c \in Candidate |-> IF cand[c] = "approved" THEN job[JobOf(c)].status
                                                 ELSE Verdict(cand[c])]
Sender ==
    [c \in Candidate |-> IF cand[c] = "approved"
                         THEN {session[job[JobOf(c)].sess].account}
                         ELSE {}]
Counters == [a \in Account |-> acct[a].sends]

Dispatch == INSTANCE DispatchLedger WITH
                fate <- Fate, sender <- Sender, sends <- Counters

ImplementsDispatch == Dispatch!Spec
-------------------------------------------------------------------------------
(***************************************************************************)
(* Planning and routing, where nodes are reliable and rooms are contended. *)
(***************************************************************************)
\* What a plan or a rebuild decides fits the nodes as it has counted them: no
\* node gets more new sessions than it has browsers left.  (It counts in one
\* transaction and inserts in another: two that decide at the same time may
\* still overbook a node together.)
DecisionsFit ==
    [][\A p \in Process :
          pc[p].at # "insert" /\ pc'[p].at = "insert" =>
              \A r \in pc'[p].rows :
                  Load[r.node] + Cardinality({q \in pc'[p].rows :
                                                 q.node = r.node})
                      <= MaxBrowser[r.node]]_vars

\* A plan is as large as the nodes allow and follows the ranking: when it is
\* carried out, no account is left out while a node has room, and no account
\* is on a node while one it ranks higher has room.
PlanUsesBestNodes ==
    [][\A o \in Observer :
          pc[o].at = "plan" /\ pc'[o].at = "insert" =>
              LET rows == pc'[o].rows
                  room == {n \in Node :
                              CanAccept(nodeRow[n], n,
                                  Load[n] + Cardinality({r \in rows :
                                                            r.node = n}))}
              IN  /\ room # {} =>
                        \A a \in Unseated(Watches[o]) :
                            \E r \in rows : r.account = a
                  /\ \A r \in rows, n \in room :
                        Score[r.account][n] <= Score[r.account][r.node]]_vars

\* The center's picture of the nodes: a session it sends through has its
\* browser open, in a process of the node it was planned for.
WaitingSessionHasBrowser ==
    \A s \in Sessions :
        session[s].status \in Checkable =>
            \E p \in Worker : s \in browsers[p] /\ Runs[p] = session[s].node
-------------------------------------------------------------------------------
(***************************************************************************)
(* Liveness.  Handlers that have begun run on, and pool processes keep     *)
(* serving their node: the head of the queue, and an entry whose countdown *)
(* is over, are not passed over for ever (Celery serves what it has        *)
(* fetched in order).  Publishing is strongly fair because only the bound  *)
(* of the model on the queue ever disables it.  Nothing is assumed of the  *)
(* operator, of the live room or of nodes that announce themselves.        *)
(***************************************************************************)
Serve(p) ==
    EnterLiveRoom(p) \/ SendComment(p) \/ CheckSession(p) \/ CloseSession(p)

Fairness ==
    /\ \A o \in Observer : WF_vars(PlanEntries(o)) /\ WF_vars(ScheduleChecks(o))
                           /\ WF_vars(CloseSessions(o))
    /\ \A p \in Process : WF_vars(InsertSessions(p)) /\ SF_vars(PublishOne(p))
    /\ \A p \in Worker :
          /\ WF_vars(ReportSessionStatus(p)) /\ WF_vars(RestartSession(p))
          /\ WF_vars(ReportSendResult(p))
          /\ SF_vars(Serve(p) /\ queue' # queue)
          /\ SF_vars(EnterLiveRoom(p) /\ delayed' # delayed)

FairSpec == Spec /\ Fairness

Is(s, statuses) == s \in Sessions /\ session[s].status \in statuses

\* A session the center has asked to close ends, with the node's answer.
ClosingSessionEnds ==
    \A s \in SessionId : Is(s, {"closing"}) ~> Is(s, Terminal)

\* A planned session does not stay planned: its entry is tried, or its task
\* ends first.
PlannedSessionSettles ==
    \A s \in SessionId :
        Is(s, {"planned"}) ~> Is(s, SessionStatus \ {"planned"})
-------------------------------------------------------------------------------
(***************************************************************************)
(* What the design document says and the code does not do.                 *)
(***************************************************************************)
\* "If the page operation completes, success is recorded": the result of a
\* send that the page has carried out, reported while its session lives, is
\* the result of the job.
CompletedSendIsRecorded ==
    [][\A p \in Worker :
          pc[p].at = "result" /\ pc'[p].at # "result"
              /\ pc[p].status = "success" /\ ~IsTerminal(pc[p].sess)
              => job'[pc[p].job].status = "success"]_vars

\* "All active sessions of an ended task converge to an end", those that
\* were sending included.
EndedTaskConverges ==
    \A s \in SessionId :
        (s \in Sessions /\ task[session[s].task] = "ended") ~> Is(s, Terminal)
===============================================================================
