--------------------------- MODULE RowTransactions ---------------------------
(***************************************************************************)
(* The handlers of the center that share rows, with each transaction in    *)
(* two steps: what it reads and decides, and what it commits.  (LiveCenter *)
(* takes a transaction as one step.)  The API handlers run in threads, the *)
(* admin's batch actions on the event loop of the web process, one at a    *)
(* time, and the observer runs in the processes of the center worker.      *)
(*                                                                         *)
(* A read takes no lock, no row has a version, and the mapper writes the   *)
(* columns whose value the handler has changed, over whatever the row has  *)
(* become.  The database refuses a commit that would give the unique key   *)
(* active_slot_key to two rows.                                            *)
(*                                                                         *)
(*   pc[p].at    process p ...                                             *)
(*   "idle"      has nothing to do (an observer run: is not running)       *)
(*   "plan"      (observer) is about to plan the entries of its task       *)
(*   "watching"  (observer) waits for the end of the room                  *)
(*   "closeAll"  (observer) has ended its task, is about to close sessions *)
(*   "restart"   is about to look whether session sess is rebuilt          *)
(*   "insert"    has decided on rows of new sessions                       *)
(*   "form"      (browser tab) shows the form of account with what it was  *)
(*   "commit"    has read and decided: write is about to be committed      *)
(***************************************************************************)
EXTENDS LiveDomain

CONSTANTS
    Candidate,      \* candidate questions, in review
    CandTask,       \* the live task of each
    SessionId,      \* ids the center may give to sessions
    JobId,          \* ids the center may give to dispatch jobs
    Thread,         \* threads of the web process that serve the API
    Reported,       \* bound of the model: what nodes report of sessions
    Tab,            \* forms the operator may have open
    Admin           \* the event loop of the web process

ASSUME RowAssumption ==
    /\ CandTask \in [Candidate -> Task]
    /\ Reported \subseteq {"waiting", "failed", "lost", "closed"}
    /\ IsFiniteSet(JobId)

\* The observer run of a task is named by the task.
ASSUME RowProcessAssumption ==
    /\ Thread \cap Task = {} /\ Thread \cap Tab = {} /\ Task \cap Tab = {}
    /\ Admin \notin Thread \cup Task \cup Tab

VARIABLES
    task,           \* live_tasks.status
    session,        \* account_live_sessions, by id
    job,            \* dispatch_jobs, by id, with the outcomes of their attempts
    cand,           \* candidate_questions.status
    acct,           \* platform_accounts with account_auth_states
    asked,          \* the other tasks of nodes that they have not answered yet
    sends,          \* send tasks that no node has carried out yet
    pc              \* what each process still has to do

vars == <<task, session, job, cand, acct, asked, sends, pc>>
-------------------------------------------------------------------------------
Process == Thread \cup Task \cup Tab \cup {Admin}

\* "dismissed" is rejected or ignored.
CandStatus == {"pending_review", "approved", "dismissed"}
Outcome == {"success", "failed"}
JobRow == [cand : Candidate, sess : SessionId, account : Account,
           status : {"running"} \cup Outcome, attempts : SUBSET Outcome]

\* A node is asked to open a room, to look at a browser, to close it, and
\* answers each of these once.
NodeTask == [kind : {"enter", "check", "close"}, sess : SessionId]
Answers(kind) ==
    CASE kind = "enter" -> {"waiting", "failed"}
      [] kind = "check" -> {"waiting", "lost"}
      [] kind = "close" -> {"closed", "lost"}

\* Some ids of S, each with an element of T.
IsTable(f, S, T) == DOMAIN f \subseteq S /\ f \in [DOMAIN f -> T]
NoRows == [x \in {} |-> {}]

\* Where a process goes after a commit.
Simple == [at : {"idle", "plan", "watching", "closeAll"}]
Resting == Simple \cup [at : {"restart"}, sess : SessionId]

\* What a transaction writes: of rows and accts the row as it was read and as
\* the handler left it, new rows of new and made, an attempt for each job of
\* closed; next is where its process goes on.
IsWrite(w) ==
    /\ IsTable(w.rows, SessionId, [read : SessionRow, left : SessionRow])
    /\ IsTable(w.new, SessionId, SessionRow)
    /\ IsTable(w.made, JobId, JobRow)
    /\ IsTable(w.closed, JobId, Outcome)
    /\ IsTable(w.cands, Candidate, CandStatus)
    /\ IsTable(w.accts, Account, [read : AccountRow, left : AccountRow])
    /\ w.next \in Resting

IsContinuation(k) ==
    CASE k.at = "insert" -> k.rows \subseteq SessionRow /\ k.next \in Simple
      [] k.at = "form"   -> k.account \in Account /\ k.shown \in AccountRow
      [] k.at = "commit" -> IsWrite(k.write)
      [] OTHER           -> k \in Resting

TypeOK ==
    /\ task \in [Task -> {"running", "ended"}]
    /\ IsTable(session, SessionId, SessionRow)
    /\ IsTable(job, JobId, JobRow)
    /\ cand \in [Candidate -> CandStatus]
    /\ acct \in [Account -> AccountRow]
    /\ asked \subseteq NodeTask
    /\ sends \subseteq JobId
    /\ DOMAIN pc = Process
    /\ \A p \in Process : IsContinuation(pc[p])

Sessions == DOMAIN session
Jobs == DOMAIN job
IsActive(s) == session[s].status \in Active
ActiveOf(t) == {s \in Sessions : session[s].task = t /\ IsActive(s)}
RunningJobs(S) ==
    {j \in Jobs : job[j].sess \in S /\ job[j].status = "running"}

\* Ids no row has, and no transaction is about to give to one.
FreshSessions ==
    {s \in SessionId \ Sessions :
        \A p \in Process :
            pc[p].at = "commit" => s \notin DOMAIN pc[p].write.new}

Idle == [at |-> "idle"]
Go(p, next) == pc' = [pc EXCEPT ![p] = next]

\* The tasks have been started and have candidates, nothing else has happened.
Init ==
    /\ task = [t \in Task |-> "running"]
    /\ session = NoRows
    /\ job = NoRows
    /\ cand = [c \in Candidate |-> "pending_review"]
    /\ acct = [a \in Account |->
                  [standing |-> "good", sends |-> 0, cooling |-> FALSE]]
    /\ asked = {}
    /\ sends = {}
    /\ pc = [p \in Process |-> [at |-> IF p \in Task THEN "plan" ELSE "idle"]]
-------------------------------------------------------------------------------
(***************************************************************************)
(* Transactions.                                                           *)
(***************************************************************************)
Nothing == [rows |-> NoRows, new |-> NoRows, made |-> NoRows,
            closed |-> NoRows, cands |-> NoRows, accts |-> NoRows,
            next |-> Idle]

Begin(p, write) ==
    /\ pc' = [pc EXCEPT ![p] = [at |-> "commit", write |-> write]]
    /\ UNCHANGED <<task, session, job, cand, acct>>

Column(now, read, left) == IF left = read THEN now ELSE left

UpdatedSession(now, w) ==
    [now EXCEPT !.status = Column(@, w.read.status, w.left.status),
                !.keyed = Column(@, w.read.keyed, w.left.keyed),
                !.sending = Column(@, w.read.sending, w.left.sending)]

UpdatedAccount(now, w) ==
    [now EXCEPT !.standing = Column(@, w.read.standing, w.left.standing),
                !.sends = Column(@, w.read.sends, w.left.sends),
                !.cooling = Column(@, w.read.cooling, w.left.cooling)]

SessionsAfter(w) ==
    [s \in Sessions \cup DOMAIN w.new |->
        IF s \in DOMAIN w.rows THEN UpdatedSession(session[s], w.rows[s])
        ELSE IF s \in Sessions THEN session[s] ELSE w.new[s]]

\* A job is closed with an attempt.
Finished(row, outcome) ==
    [row EXCEPT !.status = outcome, !.attempts = @ \cup {outcome}]

JobsAfter(w) ==
    [j \in Jobs \cup DOMAIN w.made |->
        IF j \in DOMAIN w.closed THEN Finished(job[j], w.closed[j])
        ELSE IF j \in Jobs THEN job[j] ELSE w.made[j]]

KeysAreUnique(table) ==
    \A r, s \in DOMAIN table :
        table[r].keyed /\ table[s].keyed /\ SlotOf(table[r]) = SlotOf(table[s])
            => r = s

\* The nodes of new sessions are asked to enter, those of sessions that are
\* left closing to close.
Ask(kind, sessions) == [kind : {kind}, sess : sessions]

AskedAfter(w) ==
    Ask("enter", DOMAIN w.new)
        \cup Ask("close", {s \in DOMAIN w.rows :
                              w.rows[s].left.status = "closing"})

\* What is committed for a node is published at once.
CommitTransaction(p) ==
    /\ pc[p].at = "commit"
    /\ LET w == pc[p].write IN
       /\ KeysAreUnique(SessionsAfter(w))
       /\ session' = SessionsAfter(w)
       /\ job' = JobsAfter(w)
       /\ cand' = [c \in Candidate |->
                      IF c \in DOMAIN w.cands THEN w.cands[c] ELSE cand[c]]
       /\ acct' = [a \in Account |->
                      IF a \in DOMAIN w.accts
                      THEN UpdatedAccount(acct[a], w.accts[a])
                      ELSE acct[a]]
       /\ asked' = asked \cup AskedAfter(w)
       /\ sends' = sends \cup DOMAIN w.made
       /\ Go(p, w.next)
    /\ UNCHANGED task

\* The exception ends the request, or the observer run.
RefuseTransaction(p) ==
    /\ pc[p].at = "commit"
    /\ ~KeysAreUnique(SessionsAfter(pc[p].write))
    /\ Go(p, Idle)
    /\ UNCHANGED <<task, session, job, cand, acct, asked, sends>>
-------------------------------------------------------------------------------
(***************************************************************************)
(* The API of the center, in threads.                                      *)
(***************************************************************************)
\* A session that is written as the handler has left it.
Left(s, row) == [r \in {s} |-> [read |-> session[s], left |-> row]]

\* A node reports the status of a session, in answer to a task; which nodes
\* have a browser is in LiveCenter.  A report that changes nothing but the
\* time of the last one writes nothing here.
Changes(s, reported) ==
    /\ AcceptsReport(session[s], reported)
    /\ WithStatus(session[s], reported) # session[s]

ReportSessionStatus(p, ask) ==
    /\ pc[p].at = "idle"
    /\ asked' = asked \ {ask}
    /\ \E reported \in Answers(ask.kind) \cap Reported :
          LET s == ask.sess
              ended == IF reported \in Terminal THEN {s} ELSE {}
          IN
          \/ /\ Changes(s, reported)
             /\ Begin(p, [Nothing EXCEPT
                            !.rows = Left(s, WithStatus(session[s], reported)),
                            !.closed = [j \in RunningJobs(ended) |-> "failed"],
                            !.next = IF reported \in Restartable
                                     THEN [at |-> "restart", sess |-> s]
                                     ELSE Idle])
          \/ /\ ~Changes(s, reported)
             /\ UNCHANGED <<task, session, job, cand, acct, pc>>
    /\ UNCHANGED sends

\* A node has carried out a send and reports its result, once.
ResultCounts(j) ==
    /\ job[j].status = "running"
    /\ session[job[j].sess].status = "sending"

SentBy(row) == [WithStatus(row, "waiting") EXCEPT !.sending = "none"]

\* The time of the cooldown is a new one, whether or not one was running.
\* (faulty variant: a failed send counts as well)
CountedAnyway(a, outcome) ==
    [b \in {a} |-> [read |-> [acct[a] EXCEPT !.cooling = FALSE],
                    left |-> [acct[a] EXCEPT !.sends = @ + 1,
                                             !.cooling = TRUE]]]
Counted(a, outcome) ==
    [b \in {x \in {a} : outcome = "success"} |->
        [read |-> [acct[a] EXCEPT !.cooling = FALSE],
         left |-> [acct[a] EXCEPT !.sends = @ + 1, !.cooling = TRUE]]]

ReportSendResult(p, j) ==
    /\ pc[p].at = "idle"
    /\ j \in sends
    /\ sends' = sends \ {j}
    /\ UNCHANGED asked
    /\ \/ /\ ResultCounts(j)
          /\ \E outcome \in Outcome :
                LET s == job[j].sess IN
                Begin(p, [Nothing EXCEPT
                             !.rows = Left(s, SentBy(session[s])),
                             !.closed = [i \in {j} |-> outcome],
                             !.accts = Counted(job[j].account, outcome)])
       \/ /\ ~ResultCounts(j)
          /\ UNCHANGED <<task, session, job, cand, acct, pc>>

\* restart_session: what it has read is gone when the dispatcher inserts.
\* Nodes and their load are in LiveCenter: here any node may have room.
MayRestart(s) ==
    /\ task[session[s].task] = "running"
    /\ \A r \in ActiveOf(session[s].task) :
          session[r].account # session[s].account
    /\ CanAutoRestart(session[s])

RestartSession(p) ==
    /\ pc[p].at = "restart"
    /\ LET old == session[pc[p].sess] IN
       \/ /\ MayRestart(pc[p].sess)
          /\ \E n \in Node :
                Go(p, [at |-> "insert", next |-> Idle,
                       rows |-> {PlannedSession(old.task, old.account, n,
                                                old.restart + 1)}])
       \/ Go(p, Idle)
    /\ UNCHANGED <<task, session, job, cand, acct, asked, sends>>

\* The dispatcher: rows whose key is held are left out, the others inserted.
FreeRows(rows) ==
    {r \in rows : \A s \in Sessions :
                      session[s].keyed => SlotOf(session[s]) # SlotOf(r)}

InsertSessions(p) ==
    /\ pc[p].at = "insert"
    /\ \E new \in UNION {Bijection(D, FreeRows(pc[p].rows)) :
                             D \in SUBSET FreshSessions} :
          Begin(p, [Nothing EXCEPT !.new = new, !.next = pc[p].next])
    /\ UNCHANGED <<asked, sends>>
-------------------------------------------------------------------------------
(***************************************************************************)
(* The observer run of task t.                                             *)
(***************************************************************************)
PlanEntries(t) ==
    /\ pc[t].at = "plan"
    /\ \E place \in [{a \in Account :
                         /\ IsAvailable(acct[a])
                         /\ \A s \in ActiveOf(t) : session[s].account # a}
                     -> Node] :
          Go(t, [at |-> "insert", next |-> [at |-> "watching"],
                 rows |-> {PlannedSession(t, a, place[a], 0) :
                               a \in DOMAIN place}])
    /\ UNCHANGED <<task, session, job, cand, acct, asked, sends>>

\* The room is live: a health check for every session that should have a
\* browser.
CheckSessions(t) ==
    /\ pc[t].at = "watching"
    /\ asked' = asked \cup Ask("check", {s \in ActiveOf(t) :
                                            session[s].status \in Checkable})
    /\ UNCHANGED <<task, session, job, cand, acct, sends, pc>>

ObserveNotLive(t) ==
    /\ pc[t].at = "watching"
    /\ task' = [task EXCEPT ![t] = "ended"]
    /\ Go(t, [at |-> "closeAll"])
    /\ UNCHANGED <<session, job, cand, acct, asked, sends>>

\* A send within its grace period is left alone, an overdue one given up.
CloseSessions(t) ==
    LET overdue == {s \in ActiveOf(t) :
                       CloseDecision(session[s]) = "force_close"}
        told == {s \in ActiveOf(t) :
                    CloseDecision(session[s]) = "dispatch_close"}
    IN  /\ pc[t].at = "closeAll"
        /\ Begin(t, [Nothing EXCEPT
                       !.rows = [s \in overdue \cup told |->
                                   [read |-> session[s],
                                    left |-> WithStatus(session[s],
                                        IF s \in told THEN "closing"
                                                      ELSE "lost")]],
                       !.closed = [j \in RunningJobs(overdue) |-> "failed"]])
        /\ UNCHANGED <<asked, sends>>

\* The operator observes the task again after its run has ended.
OperatorObserve(t) ==
    /\ pc[t].at = "idle"
    /\ Go(t, [at |-> "watching"])
    /\ UNCHANGED <<task, session, job, cand, acct, asked, sends>>
-------------------------------------------------------------------------------
(***************************************************************************)
(* The operator.  Batches are in LiveCenter: here one candidate at a time. *)
(***************************************************************************)
\* _ensure_pending_review
\* (faulty variant: whatever was decided before)
AnyCandidate(c) == c \in Candidate
IsReviewable(c) == cand[c] = "pending_review"

CanSend(c, s) ==
    /\ IsReviewable(c)
    /\ task[CandTask[c]] = "running"
    /\ session[s].task = CandTask[c]
    /\ session[s].status = "waiting"
    /\ IsAvailable(acct[session[s].account])

\* send_started_at is a new time, whatever was left in the column.
Sending(row) ==
    [read |-> [row EXCEPT !.sending = "none"],
     left |-> [row EXCEPT !.status = "sending", !.sending = "fresh"]]

ApproveAndDispatch(c) ==
    /\ pc[Admin].at = "idle"
    /\ \E s \in Sessions, j \in JobId \ Jobs :
          /\ CanSend(c, s)
          /\ Begin(Admin, [Nothing EXCEPT
                 !.rows = [r \in {s} |-> Sending(session[s])],
                 !.made = [i \in {j} |->
                             [cand |-> c, sess |-> s, status |-> "running",
                              account |-> session[s].account,
                              attempts |-> {}]],
                 !.cands = [d \in {c} |-> "approved"]])
    /\ UNCHANGED <<asked, sends>>

Dismiss(c) ==
    /\ pc[Admin].at = "idle"
    /\ IsReviewable(c)
    /\ Begin(Admin, [Nothing EXCEPT !.cands = [d \in {c} |-> "dismissed"]])
    /\ UNCHANGED <<asked, sends>>

\* The form of an account is filled from the row and, when it is saved, every
\* column is set to what the form says; of these the operator may change the
\* standing of the account.
OpenAccountForm(b, a) ==
    /\ pc[b].at = "idle"
    /\ Go(b, [at |-> "form", account |-> a, shown |-> acct[a]])
    /\ UNCHANGED <<task, session, job, cand, acct, asked, sends>>

SaveAccountForm(b) ==
    /\ pc[b].at = "form"
    /\ \E standing \in {"good", "disabled"} :
          LET a == pc[b].account IN
          Begin(b, [Nothing EXCEPT
                      !.accts = [x \in {a} |->
                          [read |-> acct[a],
                           left |-> [pc[b].shown EXCEPT
                                        !.standing = standing]]]])
    /\ UNCHANGED <<asked, sends>>
-------------------------------------------------------------------------------
(***************************************************************************)
(* Time.                                                                   *)
(***************************************************************************)
GraceElapses(s) ==
    /\ session[s].status = "sending"
    /\ session[s].sending = "fresh"
    /\ session' = [session EXCEPT ![s].sending = "overdue"]
    /\ UNCHANGED <<task, job, cand, acct, asked, sends, pc>>

CooldownEnds(a) ==
    /\ acct[a].cooling
    /\ acct' = [acct EXCEPT ![a].cooling = FALSE]
    /\ UNCHANGED <<task, session, job, cand, asked, sends, pc>>
-------------------------------------------------------------------------------
Api(p) ==
    \/ \E ask \in asked : ReportSessionStatus(p, ask)
    \/ \E j \in sends : ReportSendResult(p, j)
    \/ RestartSession(p)

Observe(t) ==
    PlanEntries(t) \/ CheckSessions(t) \/ ObserveNotLive(t)
        \/ CloseSessions(t) \/ OperatorObserve(t)

Next ==
    \/ \E p \in Process :
          CommitTransaction(p) \/ RefuseTransaction(p) \/ InsertSessions(p)
    \/ \E p \in Thread : Api(p)
    \/ \E t \in Task : Observe(t)
    \/ \E c \in Candidate : ApproveAndDispatch(c) \/ Dismiss(c)
    \/ \E b \in Tab : SaveAccountForm(b) \/ \E a \in Account : OpenAccountForm(b, a)
    \/ \E s \in Sessions : GraceElapses(s)
    \/ \E a \in Account : CooldownEnds(a)

Spec == Init /\ [][Next]_vars
-------------------------------------------------------------------------------
(***************************************************************************)
(* Properties.                                                             *)
(***************************************************************************)
\* A candidate is sent at most once, and only when it was approved: reviews
\* read and write in the same process, one after the other, so that no two
\* of them decide on the same candidate, whatever happens to the sessions.
SentOnceWhenApproved ==
    \A i, j \in Jobs :
        /\ cand[job[j].cand] = "approved"
        /\ job[i].cand = job[j].cand => i = j

\* Updates of sends_today may be lost, by concurrent results and by forms
\* saved late, but a send that did not succeed is never counted, and none is
\* counted twice: the counter stays at or below the jobs that succeeded.
SuccessfulJobs(a) ==
    {j \in Jobs : job[j].account = a /\ "success" \in job[j].attempts}

NeverOvercounted ==
    \A a \in Account : acct[a].sends <= Cardinality(SuccessfulJobs(a))

\* "One active session per account and live task": the unique key is
\* there, but a row may be active without it.
OneActiveSession ==
    \A r, s \in Sessions :
        r # s /\ IsActive(r) /\ IsActive(s)
            => SlotOf(session[r]) # SlotOf(session[s])
===============================================================================
