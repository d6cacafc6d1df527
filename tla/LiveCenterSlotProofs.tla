------------------------- MODULE LiveCenterSlotProofs -------------------------
(***************************************************************************)
(* The types of LiveCenter and the slots of its sessions, proved for any   *)
(* tasks, accounts, nodes, processes and bounds.                           *)
(*                                                                         *)
(* TypeOK is not inductive as it stands: a report in flight, a queued task *)
(* or a plan reads the row of a session, so that the session it names must *)
(* have one.  Typed says so.                                               *)
(*                                                                         *)
(* An account has one active session in a live task.  The argument: a step *)
(* either inserts sessions or moves existing ones, and a move never makes  *)
(* a session active again.  An insertion takes the rows of one plan, whose *)
(* slots are apart from each other, and among them those whose slot no key *)
(* in the table holds; since the keys follow the statuses, no active       *)
(* session has one of these slots.                                         *)
(***************************************************************************)
EXTENDS LiveCenter, LiveDomainProofs

\* A continuation names sessions of S only.
NamesIn(k, S) ==
    /\ k.at = "publish" => \A m \in k.msgs : m.sess \in S
    /\ k.at \in {"status", "result", "restart"} => k.sess \in S

\* Every session that a queued task, an unpublished task or a continuation
\* names has a row.
QueuedExist ==
    /\ \A n \in Node : \A i \in DOMAIN queue[n] : queue[n][i].sess \in Sessions
    /\ \A n \in Node : \A m \in delayed[n] : m.sess \in Sessions

NamedExist == \A p \in Process : NamesIn(pc[p], Sessions)

DbOK ==
    /\ task \in [Task -> TaskStatus]
    /\ IsTable(session, SessionId, SessionRow)
    /\ IsTable(job, JobId, JobRow)
    /\ cand \in [Candidate -> CandStatus]
    /\ acct \in [Account -> AccountRow]
    /\ nodeRow \in [Node -> NodeStatus]
    /\ browsers \in [Worker -> SUBSET SessionId]

CeleryOK ==
    /\ queue \in [Node -> Seq(Message)]
    /\ delayed \in [Node -> SUBSET Message]
    /\ QueuedExist

PcOK == pc \in [Process -> Continuation] /\ NamedExist

\* The type invariant with the references that continuations follow.
Typed == DbOK /\ CeleryOK /\ PcOK

-------------------------------------------------------------------------------
(***************************************************************************)
(* Facts about tables and continuations.                                   *)
(***************************************************************************)
\* A closed job is a row, of the same session and candidate, and has one
\* attempt more.
LEMMA FinishedIsRow ==
    ASSUME NEW row \in JobRow, NEW outcome \in Outcome
    PROVE  /\ Finished(row, outcome) \in JobRow
           /\ Finished(row, outcome).sess = row.sess
           /\ Finished(row, outcome).cand = row.cand
           /\ Finished(row, outcome).status = outcome
           /\ row.attempts = <<>> =>
                  Finished(row, outcome).attempts = <<outcome>>
           /\ outcome # "running"
    <1> DEFINE attempts == Append(row.attempts, outcome)
    <1>1. attempts \in Seq(Outcome)
        <2>1. row.attempts \in Seq(Outcome)
            BY DEF JobRow
        <2> QED BY <2>1
    <1>2. row.attempts = <<>> => attempts = <<outcome>>
        OBVIOUS
    <1>3. Finished(row, outcome) =
              [row EXCEPT !.status = outcome, !.attempts = attempts]
        BY DEF Finished
    <1> HIDE DEF attempts
    <1> QED BY <1>1, <1>2, <1>3 DEF JobRow, JobStatus, Outcome

\* Closing some jobs keeps the table and the sessions of the jobs.
LEMMA JobsFinishedIsTable ==
    ASSUME IsTable(job, JobId, JobRow), NEW outcome \in Outcome,
           NEW table, DOMAIN table = Jobs, table = [j \in Jobs |-> table[j]],
           \A j \in Jobs : \/ table[j] = job[j]
                           \/ table[j] = Finished(job[j], outcome)
    PROVE  IsTable(table, JobId, JobRow)
    <1>1. \A j \in Jobs : table[j] \in JobRow
        BY FinishedIsRow DEF IsTable, Jobs
    <1> QED BY <1>1 DEF IsTable, Jobs

LEMMA JobsFailedIsTable ==
    ASSUME IsTable(job, JobId, JobRow), NEW S
    PROVE  IsTable(JobsFailed(S), JobId, JobRow)
    <1> DEFINE table == JobsFailed(S)
    <1>1. "failed" \in Outcome
        BY DEF Outcome
    <1>2. /\ DOMAIN table = Jobs
          /\ table = [j \in Jobs |-> table[j]]
          /\ \A j \in Jobs : \/ table[j] = job[j]
                             \/ table[j] = Finished(job[j], "failed")
        BY DEF JobsFailed
    <1> HIDE DEF table
    <1>3. IsTable(table, JobId, JobRow)
        BY <1>1, <1>2, JobsFinishedIsTable
    <1> QED BY <1>3 DEF table

\* A step that puts k into pc[p].
LEMMA PcStep ==
    ASSUME PcOK, NEW p \in Process, NEW k \in Continuation,
           pc' = [pc EXCEPT ![p] = k],
           Sessions \subseteq Sessions', NamesIn(k, Sessions')
    PROVE  PcOK'
    <1>1. pc' \in [Process -> Continuation]
        BY DEF PcOK
    <1>2. ASSUME NEW q \in Process PROVE NamesIn(pc'[q], Sessions')
        <2>1. CASE q = p BY <2>1 DEF PcOK
        <2>2. CASE q # p BY <2>2 DEF PcOK, NamedExist, NamesIn
        <2> QED BY <2>1, <2>2
    <1> QED BY <1>1, <1>2 DEF PcOK, NamedExist

LEMMA PcStays ==
    ASSUME PcOK, UNCHANGED pc, Sessions \subseteq Sessions'
    PROVE  PcOK'
    BY DEF PcOK, NamedExist, NamesIn

LEMMA GoStep ==
    ASSUME PcOK, NEW p \in Process, Sessions \subseteq Sessions',
           NEW label \in {"idle", "watching", "plan", "check", "closeAll"},
           Go(p, label)
    PROVE  PcOK'
    <1> DEFINE k == [at |-> label]
    <1>1. k \in Continuation BY DEF Continuation, Simple
    <1>2. NamesIn(k, Sessions') BY DEF NamesIn
    <1>3. pc' = [pc EXCEPT ![p] = k] BY DEF Go
    <1> HIDE DEF k
    <1> QED BY <1>1, <1>2, <1>3, PcStep

LEMMA ThenPublishStep ==
    ASSUME PcOK, NEW p \in Process, Sessions \subseteq Sessions',
           NEW msgs \in SUBSET Message,
           \A m \in msgs : m.sess \in Sessions',
           NEW next \in {"idle", "watching", "check"},
           ThenPublish(p, msgs, next)
    PROVE  PcOK'
    <1> DEFINE k == [at |-> "publish", msgs |-> msgs, then |-> next]
    <1>1. CASE msgs = {}
        BY <1>1, GoStep DEF ThenPublish, Go
    <1>2. CASE msgs # {}
        <2>1. k \in Continuation BY DEF Continuation, Publish
        <2>2. NamesIn(k, Sessions') BY DEF NamesIn
        <2>3. pc' = [pc EXCEPT ![p] = k] BY <1>2 DEF ThenPublish
        <2> HIDE DEF k
        <2> QED BY <2>1, <2>2, <2>3, PcStep
    <1> QED BY <1>1, <1>2

LEMMA CeleryStays ==
    ASSUME CeleryOK, UNCHANGED celery, Sessions \subseteq Sessions'
    PROVE  CeleryOK'
    BY DEF CeleryOK, QueuedExist, celery

\* What the fields of a continuation may be.
LEMMA ContinuationFields ==
    ASSUME PcOK, NEW p \in Process
    PROVE  /\ pc[p].at = "insert" => pc[p].rows \in SUBSET SessionRow
           /\ pc[p].at = "publish" =>
                 /\ pc[p].msgs \in SUBSET Message
                 /\ pc[p].then \in {"idle", "watching", "check"}
                 /\ \A m \in pc[p].msgs : m.sess \in Sessions
           /\ pc[p].at = "status" =>
                 pc[p].sess \in Sessions /\ pc[p].status \in SessionStatus
           /\ pc[p].at = "result" =>
                 /\ pc[p].sess \in Sessions
                 /\ pc[p].job \in JobId
                 /\ pc[p].status \in Outcome
           /\ pc[p].at = "restart" => pc[p].sess \in Sessions
    <1>1. pc[p] \in Continuation BY DEF PcOK
    <1>2. NamesIn(pc[p], Sessions) BY DEF PcOK, NamedExist
    <1> QED BY <1>1, <1>2 DEF Continuation, Simple, Insert, Publish,
            StatusReport, ResultReport, Restart, NamesIn

\* The row that replaces a lost or failed session is a row: the node it gets
\* is one of those that accept, and the rebuild is within the limit.
LEMMA RestartsAreRows ==
    ASSUME NEW s \in Sessions, session[s] \in SessionRow, MayRestart(s)
    PROVE  /\ Restarts(s) \in SUBSET SessionRow
           /\ \A r \in Restarts(s) : /\ r.status = "planned" /\ r.keyed
                                     /\ SlotOf(r) = SlotOf(session[s])
    <1> DEFINE open == {m \in Node : CanAccept(nodeRow[m], m, Load[m])}
               n == BestNode(session[s].account, open)
    <1>1. open # {}
        BY DEF MayRestart
    <1>2. n \in Node
        <2>1. session[s].account \in Account
            BY DEF SessionRow
        <2>2. open \in SUBSET Node
            OBVIOUS
        <2> HIDE DEF open
        <2> QED BY <1>1, <2>1, <2>2, BestNodeIsBest
    <1>3. session[s].restart + 1 \in 0..MaxRestarts
        BY DomainAssumption
           DEF DomainAssumption, MayRestart, CanAutoRestart, SessionRow
    <1>4. session[s].task \in Task /\ session[s].account \in Account
        BY DEF SessionRow
    <1>5. Restarts(s) = {PlannedSession(session[s].task, session[s].account,
                                        n, session[s].restart + 1)}
        BY DEF Restarts
    <1> HIDE DEF n, open
    <1> QED BY <1>2, <1>3, <1>4, <1>5, PlannedSessionIsRow DEF SlotOf

\* A session that has sent is a waiting one, in its slot.
LEMMA SentByIsRow ==
    ASSUME NEW row \in SessionRow
    PROVE  /\ SentBy(row) \in SessionRow
           /\ SentBy(row).status = "waiting"
           /\ SentBy(row).keyed
           /\ SlotOf(SentBy(row)) = SlotOf(row)
    <1> DEFINE w == WithStatus(row, "waiting")
    <1>1. "waiting" \in SessionStatus /\ "waiting" \in Active
        BY DEF SessionStatus, Active
    <1>2. /\ w \in SessionRow /\ w.status = "waiting" /\ w.keyed
          /\ SlotOf(w) = SlotOf(row)
        BY <1>1, WithStatusIsRow
    <1>3. SentBy(row) = [w EXCEPT !.sending = "none"]
        BY DEF SentBy
    <1> HIDE DEF w
    <1> QED BY <1>2, <1>3 DEF SessionRow, SendAge, SlotOf

\* A worker that takes a task takes a message about a session that exists.
LEMMA TakesStep ==
    ASSUME CeleryOK, NEW p \in Worker, NEW m \in Ready(p), Takes(p, m),
           Runs[p] \in Node, UNCHANGED session
    PROVE  m \in Message /\ m.sess \in Sessions /\ CeleryOK'
    <1> DEFINE n == Runs[p]
    <1>1. n \in Node OBVIOUS
    <1>q. queue[n] \in Seq(Message) BY <1>1 DEF CeleryOK
    <1> HIDE DEF n
    <1>2. CASE /\ queue[n] # <<>>
               /\ m = Head(queue[n])
               /\ queue' = [queue EXCEPT ![n] = Tail(@)]
               /\ UNCHANGED delayed
        <2>1. m = queue[n][1] /\ 1 \in DOMAIN queue[n]
            BY <1>2, <1>q
        <2>2. m \in Message /\ m.sess \in Sessions
            BY <2>1, <1>q, <1>1 DEF CeleryOK, QueuedExist
        <2>3. /\ Tail(queue[n]) \in Seq(Message)
              /\ \A i \in DOMAIN Tail(queue[n]) :
                    /\ i + 1 \in DOMAIN queue[n]
                    /\ Tail(queue[n])[i] = queue[n][i + 1]
            BY <1>2, <1>q
        <2>4. queue' \in [Node -> Seq(Message)]
            BY <1>2, <2>3, <1>1 DEF CeleryOK
        <2>5. ASSUME NEW k \in Node, NEW i \in DOMAIN queue'[k]
              PROVE  queue'[k][i].sess \in Sessions
            <3>1. CASE k = n
                <4>1. queue'[k] = Tail(queue[n])
                    BY <3>1, <1>2, <1>1 DEF CeleryOK
                <4> QED BY <4>1, <2>3, <2>5, <1>1 DEF CeleryOK, QueuedExist
            <3>2. CASE k # n
                <4>1. queue'[k] = queue[k]
                    BY <3>2, <1>2, <1>1 DEF CeleryOK
                <4> QED BY <4>1, <2>5 DEF CeleryOK, QueuedExist
            <3> QED BY <3>1, <3>2
        <2> QED BY <2>2, <2>4, <2>5, <1>2 DEF CeleryOK, QueuedExist, Sessions
    <1>3. CASE /\ m \in delayed[n]
               /\ delayed' = [delayed EXCEPT ![n] = @ \ {m}]
               /\ UNCHANGED queue
        BY <1>3, <1>1 DEF CeleryOK, QueuedExist, Sessions
    <1> QED BY <1>2, <1>3 DEF Takes, n
-------------------------------------------------------------------------------
(***************************************************************************)
(* Every step keeps the types.                                             *)
(***************************************************************************)
LEMMA TypedInit == Init => Typed
    <1> SUFFICES ASSUME Init PROVE Typed
        OBVIOUS
    <1>1. DbOK
        BY DEF Init, DbOK, IsTable, TaskStatus, CandStatus, NodeStatus,
               AccountRow, Standing
    <1>2. CeleryOK
        BY DEF Init, CeleryOK, QueuedExist
    <1>3. PcOK
        BY DEF Init, PcOK, NamedExist, NamesIn, Continuation, Simple
    <1> QED BY <1>1, <1>2, <1>3 DEF Typed

LEMMA ObserverTyped ==
    ASSUME Typed, NEW o \in Observer, ObserverStep(o)
    PROVE  Typed'
    <1> DEFINE t == Watches[o]
    <1> USE DEF Typed
    <1>p. o \in Process /\ t \in Task
        BY CenterAssumption DEF Process, CenterAssumption
    <1>s. \A s \in Sessions : s \in SessionId /\ session[s] \in SessionRow
        BY DEF DbOK, IsTable, Sessions
    <1>1. CASE OperatorObserve(o)
        BY <1>1, <1>p, GoStep, CeleryStays
           DEF OperatorObserve, DbOK, db, Sessions
    <1>2. CASE ObserveLive(o)
        BY <1>2, <1>p, GoStep, CeleryStays
           DEF ObserveLive, DbOK, TaskStatus, Sessions
    <1>3. CASE ObserveStillLive(o)
        BY <1>3, <1>p, GoStep, CeleryStays
           DEF ObserveStillLive, DbOK, db, Sessions
    <1>4. CASE ObserveNotLive(o)
        BY <1>4, <1>p, GoStep, CeleryStays
           DEF ObserveNotLive, DbOK, TaskStatus, Sessions
    <1>5. CASE PlanEntries(o)
        <2>1. DbOK' /\ CeleryOK'
            BY <1>5, CeleryStays DEF PlanEntries, DbOK, db, Sessions
        <2>2. Sessions' = Sessions
            BY <1>5 DEF PlanEntries, db, Sessions
        <2>3. CASE Go(o, "check")
            BY <2>1, <2>2, <2>3, <1>p, GoStep
        <2>4. ASSUME NEW place \in EntryPlans(Unseated(t), nodeRow, Load),
                     pc' = [pc EXCEPT ![o] =
                               [at |-> "insert",
                                rows |-> {PlannedSession(t, a, place[a], 0) :
                                              a \in DOMAIN place}]]
              PROVE  PcOK'
            <3>1. \A a \in DOMAIN place : a \in Account /\ place[a] \in Node
                BY DEF EntryPlans, Unseated
            <3>2. 0 \in 0..MaxRestarts
                BY DomainAssumption DEF DomainAssumption
            <3> DEFINE rows == {PlannedSession(t, a, place[a], 0) :
                                    a \in DOMAIN place}
                       k == [at |-> "insert", rows |-> rows]
            <3>3. rows \in SUBSET SessionRow
                BY <3>1, <3>2, <1>p, PlannedSessionIsRow
            <3> HIDE DEF rows
            <3>4. k \in Continuation /\ NamesIn(k, Sessions')
                BY <3>3 DEF Continuation, Insert, NamesIn
            <3>5. pc' = [pc EXCEPT ![o] = k]
                BY <2>4 DEF rows
            <3> HIDE DEF k
            <3> QED BY <3>4, <3>5, <1>p, <2>2, PcStep
        <2> QED BY <2>1, <2>3, <2>4, <1>5 DEF PlanEntries
    <1>6. CASE ScheduleChecks(o)
        <2>1. DbOK' /\ CeleryOK' /\ Sessions' = Sessions
            BY <1>6, CeleryStays DEF ScheduleChecks, DbOK, db, Sessions
        <2> DEFINE open == {s \in ActiveOf(t) :
                               /\ session[s].status \in Checkable
                               /\ nodeRow[session[s].node] = "online"}
                   msgs == {[kind |-> "check", sess |-> s] : s \in open}
        <2>2. \A s \in open : s \in Sessions /\ s \in SessionId
            BY <1>s DEF ActiveOf
        <2> HIDE DEF open
        <2>3. msgs \in SUBSET Message /\ \A m \in msgs : m.sess \in Sessions
            BY <2>2 DEF Message
        <2>4. ThenPublish(o, msgs, "watching")
            BY <1>6 DEF ScheduleChecks, open
        <2> HIDE DEF msgs
        <2> QED BY <2>1, <2>3, <2>4, <1>p, ThenPublishStep
    <1>7. CASE CloseSessions(o)
        <2> DEFINE ending == {s \in ActiveOf(t) :
                                 CloseDecision(session[s]) # "wait_for_sending"}
                   lost == {s \in ending :
                               \/ CloseDecision(session[s]) = "force_close"
                               \/ nodeRow[session[s].node] = "absent"}
                   told == ending \ lost
                   msgs == {[kind |-> "close", sess |-> s] : s \in told}
        <2>1. \A s \in told : s \in Sessions /\ s \in SessionId
            BY <1>s DEF ActiveOf
        <2> HIDE DEF ending, lost, told
        <2>2. session' = [s \in Sessions |->
                             IF s \in lost THEN WithStatus(session[s], "lost")
                             ELSE IF s \in told
                                  THEN WithStatus(session[s], "closing")
                                  ELSE session[s]]
            BY <1>7 DEF CloseSessions, ending, lost, told
        <2>3. {"lost", "closing"} \subseteq SessionStatus
            BY DEF SessionStatus, Active, Terminal
        <2>4. IsTable(session', SessionId, SessionRow) /\ Sessions' = Sessions
            BY <2>2, <2>3, <1>s, WithStatusIsRow DEF IsTable, Sessions
        <2>5. IsTable(job', JobId, JobRow)
            BY <1>7, JobsFailedIsTable DEF CloseSessions, DbOK
        <2>6. DbOK'
            BY <1>7, <2>4, <2>5 DEF CloseSessions, DbOK
        <2>7. msgs \in SUBSET Message /\ \A m \in msgs : m.sess \in Sessions
            BY <2>1 DEF Message
        <2>8. ThenPublish(o, msgs, "idle")
            BY <1>7 DEF CloseSessions, ending, lost, told
        <2> HIDE DEF msgs
        <2>9. PcOK'
            BY <2>4, <2>7, <2>8, <1>p, ThenPublishStep
        <2>10. CeleryOK'
            BY <1>7, <2>4, CeleryStays DEF CloseSessions
        <2> QED BY <2>6, <2>9, <2>10
    <1> QED BY <1>1, <1>2, <1>3, <1>4, <1>5, <1>6, <1>7 DEF ObserverStep

LEMMA InsertTyped ==
    ASSUME Typed, NEW p \in Process, InsertSessions(p)
    PROVE  Typed'
    <1> USE DEF Typed
    <1>1. pc[p].rows \in SUBSET SessionRow
        BY ContinuationFields DEF InsertSessions
    <1>d. PICK D \in SUBSET (SessionId \ Sessions) :
              \E new \in Bijection(D, FreeRows(pc[p].rows)) : Inserts(p, new)
        BY DEF InsertSessions
    <1>2. PICK new \in Bijection(D, FreeRows(pc[p].rows)) : Inserts(p, new)
        BY <1>d
    <1>i. /\ session' = [s \in Sessions \cup DOMAIN new |->
                                IF s \in DOMAIN new THEN new[s] ELSE session[s]]
              /\ ThenPublish(p, {[kind |-> "enter", sess |-> s] :
                                     s \in DOMAIN new},
                             IF p \in Observer THEN "check" ELSE "idle")
        BY <1>2 DEF Inserts
    <1>3. new \in [D -> SessionRow]
        BY <1>1, <1>2 DEF Bijection, Injection, FreeRows
    <1>4. Sessions' = Sessions \cup D
        BY <1>i, <1>3 DEF Sessions
    <1>5. IsTable(session', SessionId, SessionRow)
        BY <1>i, <1>3, <1>4 DEF DbOK, IsTable, Sessions
    <1>6. DbOK'
        BY <1>5 DEF InsertSessions, DbOK
    <1>7. CeleryOK'
        BY <1>4, CeleryStays DEF InsertSessions
    <1> DEFINE msgs == {[kind |-> "enter", sess |-> s] : s \in D}
    <1>8. msgs \in SUBSET Message /\ \A m \in msgs : m.sess \in Sessions'
        BY <1>4 DEF Message
    <1>9. ThenPublish(p, msgs, IF p \in Observer THEN "check" ELSE "idle")
        BY <1>i, <1>3
    <1> HIDE DEF msgs
    <1>10. PcOK'
        BY <1>4, <1>8, <1>9, ThenPublishStep
    <1> QED BY <1>6, <1>7, <1>10

LEMMA PublishTyped ==
    ASSUME Typed, NEW p \in Process, PublishOne(p)
    PROVE  Typed'
    <1> USE DEF Typed
    <1>1. DbOK' /\ Sessions' = Sessions
        BY DEF PublishOne, DbOK, db, Sessions
    <1>2. pc[p].at = "publish"
        BY DEF PublishOne
    <1>3. PICK m \in pc[p].msgs :
              LET n == session[m.sess].node IN
              /\ \/ /\ IsStaggered(m)
                    /\ delayed' = [delayed EXCEPT ![n] = @ \cup {m}]
                    /\ UNCHANGED queue
                 \/ /\ ~IsStaggered(m)
                    /\ m.kind \in {"check", "close"} => Len(queue[n]) < QueueBound
                    /\ queue' = [queue EXCEPT ![n] = Append(@, m)]
                    /\ UNCHANGED delayed
              /\ ThenPublish(p, pc[p].msgs \ {m}, pc[p].then)
        BY DEF PublishOne
    <1> DEFINE n == session[m.sess].node
    <1>4. m \in Message /\ m.sess \in Sessions
        BY <1>2, <1>3, ContinuationFields
    <1>5. n \in Node
        BY <1>4 DEF DbOK, IsTable, Sessions, SessionRow
    <1> HIDE DEF n
    <1>6. CeleryOK'
        <2>1. CASE /\ delayed' = [delayed EXCEPT ![n] = @ \cup {m}]
                   /\ UNCHANGED queue
            BY <2>1, <1>1, <1>4, <1>5 DEF CeleryOK, QueuedExist
        <2>2. CASE /\ queue' = [queue EXCEPT ![n] = Append(@, m)]
                   /\ UNCHANGED delayed
            <3>q. queue[n] \in Seq(Message) BY <1>5 DEF CeleryOK
            <3>1. /\ Append(queue[n], m) \in Seq(Message)
                  /\ \A i \in DOMAIN Append(queue[n], m) :
                        \/ i \in DOMAIN queue[n]
                           /\ Append(queue[n], m)[i] = queue[n][i]
                        \/ Append(queue[n], m)[i] = m
                BY <3>q, <1>4
            <3>2. queue' \in [Node -> Seq(Message)]
                BY <2>2, <3>1, <1>5 DEF CeleryOK
            <3>3. ASSUME NEW k \in Node, NEW i \in DOMAIN queue'[k]
                  PROVE  queue'[k][i].sess \in Sessions
                <4>1. CASE k = n
                    <5>1. queue'[k] = Append(queue[n], m)
                        BY <4>1, <2>2, <1>5 DEF CeleryOK
                    <5> QED BY <5>1, <3>1, <3>3, <1>4, <1>5
                            DEF CeleryOK, QueuedExist
                <4>2. CASE k # n
                    <5>1. queue'[k] = queue[k]
                        BY <4>2, <2>2, <1>5 DEF CeleryOK
                    <5> QED BY <5>1, <3>3 DEF CeleryOK, QueuedExist
                <4> QED BY <4>1, <4>2
            <3> QED BY <2>2, <3>2, <3>3, <1>1 DEF CeleryOK, QueuedExist
        <2> QED BY <2>1, <2>2, <1>3 DEF n
    <1>7. PcOK'
        <2>1. /\ pc[p].msgs \ {m} \in SUBSET Message
              /\ \A k \in pc[p].msgs \ {m} : k.sess \in Sessions
              /\ pc[p].then \in {"idle", "watching", "check"}
            BY <1>2, ContinuationFields
        <2> QED BY <2>1, <1>1, <1>3, ThenPublishStep
    <1> QED BY <1>1, <1>6, <1>7

LEMMA WorkerTyped ==
    ASSUME Typed, NEW p \in Worker, WorkerStep(p)
    PROVE  Typed'
    <1> USE DEF Typed
    <1>p. p \in Process /\ Runs[p] \in Node
        BY CenterAssumption DEF Process, CenterAssumption
    <1>s. \A s \in Sessions : s \in SessionId /\ session[s] \in SessionRow
        BY DEF DbOK, IsTable, Sessions
    \* What a worker does with the task it takes: it reports.
    <1>t. ASSUME NEW m \in Ready(p), Takes(p, m), UNCHANGED db,
                 browsers' \in [Worker -> SUBSET SessionId],
                 \/ \E status \in SessionStatus : ToReport(p, m.sess, status)
                 \/ \E outcome \in Outcome :
                        /\ m.kind = "send"
                        /\ pc' = [pc EXCEPT ![p] =
                                     [at |-> "result", sess |-> m.sess,
                                      job |-> m.job, status |-> outcome]]
          PROVE  Typed'
        <2>1. /\ m \in Message /\ m.sess \in Sessions /\ CeleryOK'
              /\ Sessions' = Sessions
            BY <1>t, <1>p, TakesStep DEF db, Sessions
        <2>2. DbOK'
            BY <1>t DEF db, DbOK
        <2>3. ASSUME NEW status \in SessionStatus, ToReport(p, m.sess, status)
              PROVE  PcOK'
            <3> DEFINE k == [at |-> "status", sess |-> m.sess,
                             status |-> status]
            <3>1. k \in Continuation /\ NamesIn(k, Sessions)
                BY <2>1, <1>s DEF Continuation, StatusReport, NamesIn
            <3>2. pc' = [pc EXCEPT ![p] = k]
                BY <2>3 DEF ToReport
            <3> HIDE DEF k
            <3> QED BY <3>1, <3>2, <2>1, <1>p, PcStep
        <2>4. ASSUME NEW outcome \in Outcome, m.kind = "send",
                     pc' = [pc EXCEPT ![p] =
                               [at |-> "result", sess |-> m.sess,
                                job |-> m.job, status |-> outcome]]
              PROVE  PcOK'
            <3> DEFINE k == [at |-> "result", sess |-> m.sess, job |-> m.job,
                             status |-> outcome]
            <3>1. m.job \in JobId
                BY <2>1, <2>4 DEF Message
            <3>2. k \in Continuation /\ NamesIn(k, Sessions)
                BY <2>1, <3>1, <1>s DEF Continuation, ResultReport, NamesIn
            <3>3. pc' = [pc EXCEPT ![p] = k]
                BY <2>4
            <3> HIDE DEF k
            <3> QED BY <3>2, <3>3, <2>1, <1>p, PcStep
        <2> QED BY <2>1, <2>2, <2>3, <2>4, <1>t
    <1>m. ASSUME NEW m \in Ready(p), Takes(p, m), UNCHANGED db
          PROVE  m.sess \in SessionId
        BY <1>m, <1>p, <1>s, TakesStep DEF db
    <1>l. {"waiting", "failed", "lost", "closed"} \subseteq SessionStatus
        BY DEF SessionStatus, Active, Terminal
    <1>1. CASE EnterLiveRoom(p)
        <2>1. PICK m \in Ready(p) :
                  /\ Takes(p, m)
                  /\ \/ /\ browsers' = [browsers EXCEPT ![p] = @ \cup {m.sess}]
                        /\ ToReport(p, m.sess, "waiting")
                     \/ UNCHANGED browsers /\ ToReport(p, m.sess, "failed")
            BY <1>1 DEF EnterLiveRoom, OpenLiveRoom
        <2>2. UNCHANGED db
            BY <1>1 DEF EnterLiveRoom
        <2>3. browsers' \in [Worker -> SUBSET SessionId]
            BY <2>1, <2>2, <1>m DEF DbOK
        <2> QED BY <2>1, <2>2, <2>3, <1>l, <1>t
    <1>2. CASE SendComment(p)
        BY <1>2, <1>t DEF SendComment, Results, ToReportResult, Outcome, DbOK
    <1>3. CASE CheckSession(p)
        BY <1>3, <1>l, <1>t DEF CheckSession, Results, DbOK
    <1>4. CASE CloseSession(p)
        BY <1>4, <1>l, <1>t DEF CloseSession, Results, DbOK
    <1>5. CASE ReportSessionStatus(p)
        <2> DEFINE s == pc[p].sess
                   reported == pc[p].status
        <2>1. s \in Sessions /\ reported \in SessionStatus
            BY <1>5, <1>p, ContinuationFields DEF ReportSessionStatus
        <2> HIDE DEF s, reported
        <2>2. CASE /\ session' = [session EXCEPT ![s] = WithStatus(@, reported)]
                   /\ job' = JobsFailed(SessionsFailing(s, reported))
                   /\ pc' = [pc EXCEPT ![p] = AfterReport(s, reported)]
            <3>1. WithStatus(session[s], reported) \in SessionRow
                BY <2>1, <1>s, WithStatusIsRow
            <3>2. IsTable(session', SessionId, SessionRow)
                BY <2>2, <3>1 DEF DbOK, IsTable
            <3>3. Sessions' = Sessions
                BY <2>2 DEF Sessions
            <3>4. IsTable(job', JobId, JobRow)
                BY <2>2, JobsFailedIsTable DEF DbOK
            <3>5. DbOK' /\ CeleryOK'
                BY <3>2, <3>3, <3>4, <1>5, CeleryStays
                   DEF ReportSessionStatus, DbOK
            <3> DEFINE k == AfterReport(s, reported)
            <3>6. k \in Continuation /\ NamesIn(k, Sessions)
                BY <2>1, <1>s
                   DEF AfterReport, Continuation, Restart, Simple, NamesIn
            <3>7. pc' = [pc EXCEPT ![p] = k]
                BY <2>2
            <3> HIDE DEF k
            <3>8. PcOK'
                BY <3>3, <3>6, <3>7, <1>p, PcStep
            <3> QED BY <3>5, <3>8
        <2>3. CASE Go(p, "idle") /\ UNCHANGED <<session, job>>
            BY <2>3, <1>5, <1>p, GoStep, CeleryStays
               DEF ReportSessionStatus, DbOK, Sessions
        <2> QED BY <2>2, <2>3, <1>5 DEF ReportSessionStatus, s, reported
    <1>6. CASE RestartSession(p)
        <2> DEFINE s == pc[p].sess
        <2>1. s \in Sessions
            BY <1>6, <1>p, ContinuationFields DEF RestartSession
        <2>2. DbOK' /\ CeleryOK' /\ Sessions' = Sessions
            BY <1>6, CeleryStays DEF RestartSession, DbOK, db, Sessions
        <2> DEFINE k == IF MayRestart(s)
                        THEN [at |-> "insert", rows |-> Restarts(s)]
                        ELSE [at |-> "idle"]
        <2>3. pc' = [pc EXCEPT ![p] = k]
            BY <1>6 DEF RestartSession
        <2>4. k \in Continuation /\ NamesIn(k, Sessions')
            <3>1. CASE MayRestart(s)
                <4>1. Restarts(s) \in SUBSET SessionRow
                    BY <2>1, <3>1, <1>s, RestartsAreRows
                <4> QED BY <3>1, <4>1 DEF Continuation, Insert, NamesIn
            <3>2. CASE ~MayRestart(s)
                BY <3>2 DEF Continuation, Simple, NamesIn
            <3> QED BY <3>1, <3>2
        <2> HIDE DEF k
        <2>5. PcOK'
            BY <2>2, <2>3, <2>4, <1>p, PcStep
        <2> QED BY <2>2, <2>5
    <1>7. CASE ReportSendResult(p)
        <2> DEFINE s == pc[p].sess
                   j == pc[p].job
                   outcome == pc[p].status
        <2>1. s \in Sessions /\ outcome \in Outcome
            BY <1>7, <1>p, ContinuationFields DEF ReportSendResult
        <2> HIDE DEF s, j, outcome
        <2>2. CASE /\ job' = [job EXCEPT ![j] = Finished(@, outcome)]
                   /\ session' = [session EXCEPT ![s] = SentBy(@)]
                   /\ acct' = [acct EXCEPT ![session[s].account] =
                                               Counted(@, outcome)]
            <3>1. SentBy(session[s]) \in SessionRow
                BY <2>1, <1>s, SentByIsRow
            <3>2. IsTable(session', SessionId, SessionRow) /\ Sessions' = Sessions
                BY <2>2, <3>1 DEF DbOK, IsTable, Sessions
            <3>3. IsTable(job', JobId, JobRow)
                <4>1. /\ DOMAIN job' = Jobs
                      /\ job' = [i \in Jobs |-> job'[i]]
                      /\ \A i \in Jobs : \/ job'[i] = job[i]
                                         \/ job'[i] = Finished(job[i], outcome)
                    BY <2>2 DEF Jobs
                <4> QED BY <4>1, <2>1, JobsFinishedIsTable DEF DbOK
            <3>4. acct' \in [Account -> AccountRow]
                <4>1. ASSUME NEW row \in AccountRow
                      PROVE  Counted(row, outcome) \in AccountRow
                    <5>1. row.sends + 1 \in Nat
                        BY DEF AccountRow
                    <5> QED BY <5>1 DEF Counted, AccountRow
                <4> QED BY <2>2, <4>1 DEF DbOK
            <3>5. DbOK' /\ CeleryOK'
                BY <3>2, <3>3, <3>4, <1>7, CeleryStays DEF ReportSendResult, DbOK
            <3> QED BY <3>2, <3>5, <1>7, <1>p, GoStep DEF ReportSendResult
        <2>3. CASE UNCHANGED <<job, session, acct>>
            BY <2>3, <1>7, <1>p, GoStep, CeleryStays
               DEF ReportSendResult, DbOK, Sessions
        <2> QED BY <2>2, <2>3, <1>7 DEF ReportSendResult, s, j, outcome
    <1> QED BY <1>1, <1>2, <1>3, <1>4, <1>5, <1>6, <1>7 DEF WorkerStep

\* A batch of approved candidates: new jobs, each for a session that sends.
LEMMA ApproveTyped ==
    ASSUME Typed, ApproveAndDispatch
    PROVE  Typed'
    <1> USE DEF Typed
    <1>p. Admin \in Process
        BY DEF Process
    <1>s. \A s \in Sessions : s \in SessionId /\ session[s] \in SessionRow
        BY DEF DbOK, IsTable, Sessions
    <1>1. PICK use \in UNION {Injection(D, Sessions) :
                                  D \in (SUBSET Candidate) \ {{}}} :
              \E work \in UNION {Bijection(J, DOMAIN use) :
                                     J \in SUBSET (JobId \ Jobs)} :
                  Dispatches(use, work)
        BY DEF ApproveAndDispatch
    <1>2. PICK D \in SUBSET Candidate : use \in Injection(D, Sessions)
        BY <1>1
    <1>3. PICK work \in UNION {Bijection(J, DOMAIN use) :
                                   J \in SUBSET (JobId \ Jobs)} :
              Dispatches(use, work)
        BY <1>1
    <1>4. PICK J \in SUBSET (JobId \ Jobs) : work \in Bijection(J, DOMAIN use)
        BY <1>3
    <1>5. use \in [D -> Sessions] /\ work \in [J -> D]
        BY <1>2, <1>4 DEF Injection, Bijection
    <1>6. cand' \in [Candidate -> CandStatus]
        BY <1>3 DEF Dispatches, DbOK, CandStatus
    <1>7. /\ IsTable(session', SessionId, SessionRow)
          /\ Sessions' = Sessions
        <2>1. ASSUME NEW row \in SessionRow
              PROVE  [row EXCEPT !.status = "sending", !.sending = "fresh"]
                         \in SessionRow
            BY DEF SessionRow, SessionStatus, Active, SendAge
        <2> QED BY <2>1, <1>3, <1>s DEF Dispatches, DbOK, IsTable, Sessions
    <1>8. IsTable(job', JobId, JobRow) /\ Jobs' = Jobs \cup J
        <2>1. Jobs' = Jobs \cup J
            BY <1>3, <1>5 DEF Dispatches, Jobs
        <2>2. ASSUME NEW j \in J
              PROVE  [cand |-> work[j], sess |-> use[work[j]],
                      status |-> "running", attempts |-> <<>>] \in JobRow
            <3>1. work[j] \in Candidate /\ use[work[j]] \in SessionId
                BY <1>5, <1>s
            <3> QED BY <3>1 DEF JobRow, JobStatus
        <2>3. Jobs \cup J \subseteq JobId
            BY DEF DbOK, IsTable, Jobs
        <2> QED BY <1>3, <1>5, <2>1, <2>2, <2>3
                DEF Dispatches, DbOK, IsTable, Jobs
    <1>9. DbOK' /\ CeleryOK'
        BY <1>6, <1>7, <1>8, CeleryStays DEF ApproveAndDispatch, DbOK
    <1> DEFINE msgs == {[kind |-> "send", sess |-> use[work[j]], job |-> j] :
                            j \in J}
    <1>10. msgs \in SUBSET Message /\ \A m \in msgs : m.sess \in Sessions
        <2>1. \A j \in J : /\ use[work[j]] \in Sessions
                           /\ use[work[j]] \in SessionId /\ j \in JobId
            BY <1>5, <1>s
        <2> QED BY <2>1 DEF Message
    <1>11. ThenPublish(Admin, msgs, "idle")
        BY <1>3, <1>5 DEF Dispatches
    <1> HIDE DEF msgs
    <1>12. PcOK'
        BY <1>7, <1>10, <1>11, <1>p, ThenPublishStep
    <1> QED BY <1>9, <1>12

LEMMA TypedStep == Typed /\ [Next]_vars => Typed'
    <1> SUFFICES ASSUME Typed, [Next]_vars PROVE Typed'
        OBVIOUS
    <1>s. \A s \in Sessions : s \in SessionId /\ session[s] \in SessionRow
        BY DEF Typed, DbOK, IsTable, Sessions
    <1>c. ASSUME UNCHANGED <<celery, pc>>, Sessions' = Sessions
          PROVE  CeleryOK' /\ PcOK'
        BY <1>c, CeleryStays, PcStays DEF Typed
    <1>1. ASSUME NEW o \in Observer, ObserverStep(o) PROVE Typed'
        BY <1>1, ObserverTyped
    <1>2. ASSUME NEW p \in Worker, WorkerStep(p) PROVE Typed'
        BY <1>2, WorkerTyped
    <1>3. ASSUME NEW p \in Worker, WorkerDies(p) PROVE Typed'
        <2>1. browsers' \in [Worker -> SUBSET SessionId]
            BY <1>3 DEF WorkerDies, Typed, DbOK
        <2> QED BY <1>3, <2>1, GoStep, CeleryStays
                DEF WorkerDies, Typed, DbOK, db, Process, Sessions
    <1>4. ASSUME NEW p \in Process, InsertSessions(p) PROVE Typed'
        BY <1>4, InsertTyped
    <1>5. ASSUME NEW p \in Process, PublishOne(p) PROVE Typed'
        BY <1>5, PublishTyped
    <1>6. ASSUME NEW p \in Process, Abandon(p) PROVE Typed'
        BY <1>6, GoStep, CeleryStays DEF Abandon, Typed, DbOK, db, Sessions
    <1>7. ASSUME Dismiss \/ \E c \in Candidate : GenerateCandidate(c)
          PROVE  Typed'
        <2>1. cand' \in [Candidate -> CandStatus]
            BY <1>7 DEF GenerateCandidate, Dismiss, Dismissed, Typed, DbOK,
                        CandStatus
        <2>2. /\ UNCHANGED <<task, session, job, acct, nodeRow, browsers>>
              /\ UNCHANGED <<celery, pc>>
            BY <1>7 DEF GenerateCandidate, Dismiss
        <2> QED BY <2>1, <2>2, <1>c DEF Typed, DbOK, Sessions
    <1>8. CASE ApproveAndDispatch
        BY <1>8, ApproveTyped
    <1>9. ASSUME NEW t \in Task, EditTask(t) PROVE Typed'
        BY <1>9, <1>c DEF EditTask, Typed, DbOK, Sessions
    <1>10. ASSUME NEW a \in Account, EditAccount(a) \/ CooldownEnds(a)
           PROVE  Typed'
        <2>1. acct' \in [Account -> AccountRow]
            <3>1. CASE EditAccount(a)
                <4>1. PICK standing \in Standing, sends \in {0, acct[a].sends} :
                          acct' = [acct EXCEPT ![a].standing = standing,
                                               ![a].sends = sends]
                    BY <3>1 DEF EditAccount
                <4>2. sends \in Nat
                    BY DEF Typed, DbOK, AccountRow
                <4> QED BY <4>1, <4>2 DEF Typed, DbOK, AccountRow
            <3>2. CASE CooldownEnds(a)
                BY <3>2 DEF CooldownEnds, Typed, DbOK, AccountRow
            <3> QED BY <3>1, <3>2, <1>10
        <2>2. /\ UNCHANGED <<task, session, job, cand, nodeRow, browsers>>
              /\ UNCHANGED <<celery, pc>>
            BY <1>10 DEF EditAccount, CooldownEnds
        <2> QED BY <2>1, <2>2, <1>c DEF Typed, DbOK, Sessions
    <1>11. ASSUME NEW n \in Node, EditNode(n) \/ WorkerHeartbeat(n)
           PROVE  Typed'
        <2>1. nodeRow' \in [Node -> NodeStatus]
            BY <1>11 DEF EditNode, WorkerHeartbeat, Announced, Typed, DbOK,
                         NodeStatus
        <2>2. /\ UNCHANGED <<task, session, job, cand, acct, browsers>>
              /\ UNCHANGED <<celery, pc>>
            BY <1>11 DEF EditNode, WorkerHeartbeat
        <2> QED BY <2>1, <2>2, <1>c DEF Typed, DbOK, Sessions
    <1>12. ASSUME NEW s \in Sessions, GraceElapses(s) PROVE Typed'
        <2>1. [session[s] EXCEPT !.sending = "overdue"] \in SessionRow
            BY <1>s DEF SessionRow, SendAge
        <2>2. /\ IsTable(session', SessionId, SessionRow)
              /\ Sessions' = Sessions
            BY <2>1, <1>12 DEF GraceElapses, Typed, DbOK, IsTable, Sessions
        <2> QED BY <2>2, <1>12, <1>c DEF GraceElapses, Typed, DbOK
    <1>13. CASE UNCHANGED vars
        BY <1>13, <1>c DEF vars, db, Typed, DbOK, Sessions
    <1> QED BY <1>1, <1>2, <1>3, <1>4, <1>5, <1>6, <1>7, <1>8, <1>9, <1>10,
            <1>11, <1>12, <1>13 DEF Next

\* The type invariant holds for any constants, and no report, task in a queue
\* or continuation ever names a session that has no row.
THEOREM TypeCorrect == Spec => []TypeOK
    <1>1. Typed => TypeOK
        BY DEF Typed, DbOK, CeleryOK, PcOK, TypeOK
    <1> QED BY <1>1, TypedInit, TypedStep, PTL DEF Spec
-------------------------------------------------------------------------------
(***************************************************************************)
(* The slots.                                                              *)
(***************************************************************************)

\* Rows on their way into the table are planned, and each has its own slot.
Apart(k) ==
    k.at = "insert" =>
        /\ \A r \in k.rows : r.status = "planned" /\ r.keyed
        /\ \A q, r \in k.rows : SlotOf(q) = SlotOf(r) => q = r

PlansAreApart == \A p \in Process : Apart(pc[p])

SlotInv == Typed /\ PlansAreApart /\ KeyFollowsStatus /\ OneActiveSession

\* Sessions keep their slots, their keys follow their statuses, and none
\* becomes active.
SessionsMove ==
    /\ Sessions' = Sessions
    /\ \A s \in Sessions :
          /\ SlotOf(session'[s]) = SlotOf(session[s])
          /\ session'[s].keyed <=> session'[s].status \in Active
          /\ session'[s].status \in Active => session[s].status \in Active

LEMMA StatusIsActiveOrTerminal ==
    /\ SessionStatus = Active \cup Terminal
    /\ Active \cap Terminal = {}
    /\ "waiting" \in Active /\ "sending" \in Active /\ "closing" \in Active
    /\ "planned" \in Active /\ "lost" \in Terminal
    BY DEF SessionStatus, Active, Terminal
-------------------------------------------------------------------------------
(***************************************************************************)
(* Plans stay apart.                                                       *)
(***************************************************************************)
LEMMA ApartStep ==
    ASSUME PcOK, PlansAreApart, NEW p \in Process, NEW k, Apart(k),
           pc' = [pc EXCEPT ![p] = k]
    PROVE  PlansAreApart'
    <1>1. ASSUME NEW q \in Process PROVE Apart(pc'[q])
        <2>1. CASE q = p BY <2>1 DEF PcOK
        <2>2. CASE q # p BY <2>2 DEF PcOK, PlansAreApart, Apart
        <2> QED BY <2>1, <2>2
    <1> QED BY <1>1 DEF PlansAreApart, Apart

LEMMA ApartGo ==
    ASSUME PcOK, PlansAreApart, NEW p \in Process,
           NEW label \in {"idle", "watching", "plan", "check", "closeAll"},
           Go(p, label)
    PROVE  PlansAreApart'
    <1> DEFINE k == [at |-> label]
    <1>1. Apart(k) BY DEF Apart
    <1>2. pc' = [pc EXCEPT ![p] = k] BY DEF Go
    <1> HIDE DEF k
    <1> QED BY <1>1, <1>2, ApartStep

LEMMA ApartThenPublish ==
    ASSUME PcOK, PlansAreApart, NEW p \in Process, NEW msgs,
           NEW next \in {"idle", "watching", "check"},
           ThenPublish(p, msgs, next)
    PROVE  PlansAreApart'
    <1> DEFINE k == [at |-> "publish", msgs |-> msgs, then |-> next]
    <1>1. CASE msgs = {}
        BY <1>1, ApartGo DEF ThenPublish, Go
    <1>2. CASE msgs # {}
        <2>1. Apart(k) BY DEF Apart
        <2>2. pc' = [pc EXCEPT ![p] = k] BY <1>2 DEF ThenPublish
        <2> HIDE DEF k
        <2> QED BY <2>1, <2>2, ApartStep
    <1> QED BY <1>1, <1>2

LEMMA ApartObserver ==
    ASSUME Typed, PlansAreApart, NEW o \in Observer, ObserverStep(o)
    PROVE  PlansAreApart'
    <1>p. o \in Process /\ PcOK /\ Watches[o] \in Task
        BY CenterAssumption DEF Process, Typed, CenterAssumption
    <1>1. CASE OperatorObserve(o)
        BY <1>1, <1>p, ApartGo DEF OperatorObserve
    <1>2. CASE ObserveLive(o)
        BY <1>2, <1>p, ApartGo DEF ObserveLive
    <1>3. CASE ObserveStillLive(o)
        BY <1>3, <1>p, ApartGo DEF ObserveStillLive
    <1>4. CASE ObserveNotLive(o)
        BY <1>4, <1>p, ApartGo DEF ObserveNotLive
    <1>5. CASE PlanEntries(o)
        <2>1. CASE Go(o, "check")
            BY <2>1, <1>p, ApartGo
        <2>2. ASSUME NEW place \in EntryPlans(Unseated(Watches[o]), nodeRow, Load),
                     pc' = [pc EXCEPT ![o] =
                               [at |-> "insert",
                                rows |-> {PlannedSession(Watches[o], a, place[a], 0) :
                                              a \in DOMAIN place}]]
              PROVE  PlansAreApart'
            <3> DEFINE rows == {PlannedSession(Watches[o], a, place[a], 0) :
                                    a \in DOMAIN place}
                       k == [at |-> "insert", rows |-> rows]
            <3>1. \A a \in DOMAIN place : a \in Account /\ place[a] \in Node
                BY DEF EntryPlans, Unseated
            <3>2. 0 \in 0..MaxRestarts
                BY DomainAssumption DEF DomainAssumption
            <3>3. \A a \in DOMAIN place :
                     LET r == PlannedSession(Watches[o], a, place[a], 0) IN
                     /\ r.status = "planned" /\ r.keyed
                     /\ SlotOf(r) = <<Watches[o], a>>
                BY <3>1, <3>2, <1>p, PlannedSessionIsRow
            <3>4. /\ \A r \in rows : r.status = "planned" /\ r.keyed
                  /\ \A q, r \in rows : SlotOf(q) = SlotOf(r) => q = r
                BY <3>3
            <3> HIDE DEF rows
            <3>5. Apart(k)
                BY <3>4 DEF Apart
            <3>6. pc' = [pc EXCEPT ![o] = k]
                BY <2>2 DEF rows
            <3> HIDE DEF k
            <3> QED BY <3>5, <3>6, <1>p, ApartStep
        <2> QED BY <2>1, <2>2, <1>5 DEF PlanEntries
    <1>6. CASE ScheduleChecks(o)
        BY <1>6, <1>p, ApartThenPublish DEF ScheduleChecks
    <1>7. CASE CloseSessions(o)
        BY <1>7, <1>p, ApartThenPublish DEF CloseSessions
    <1> QED BY <1>1, <1>2, <1>3, <1>4, <1>5, <1>6, <1>7 DEF ObserverStep

LEMMA ApartWorker ==
    ASSUME Typed, PlansAreApart, NEW p \in Worker, WorkerStep(p)
    PROVE  PlansAreApart'
    <1>p. p \in Process /\ PcOK
        BY DEF Process, Typed
    <1>t. ASSUME NEW s, NEW status, ToReport(p, s, status)
          PROVE  PlansAreApart'
        <2> DEFINE k == [at |-> "status", sess |-> s, status |-> status]
        <2>1. Apart(k) BY DEF Apart
        <2>2. pc' = [pc EXCEPT ![p] = k] BY <1>t DEF ToReport
        <2> HIDE DEF k
        <2> QED BY <2>1, <2>2, <1>p, ApartStep
    <1>1. CASE EnterLiveRoom(p)
        BY <1>1, <1>t DEF EnterLiveRoom, OpenLiveRoom
    <1>2. CASE SendComment(p)
        <2>1. PICK m, outcome : ToReportResult(p, m.sess, m.job, outcome)
            BY <1>2 DEF SendComment
        <2> DEFINE k == [at |-> "result", sess |-> m.sess, job |-> m.job,
                         status |-> outcome]
        <2>2. Apart(k) BY DEF Apart
        <2>3. pc' = [pc EXCEPT ![p] = k] BY <2>1 DEF ToReportResult
        <2> HIDE DEF k
        <2> QED BY <2>2, <2>3, <1>p, ApartStep
    <1>3. CASE CheckSession(p)
        BY <1>3, <1>t DEF CheckSession
    <1>4. CASE CloseSession(p)
        BY <1>4, <1>t DEF CloseSession
    <1>5. CASE ReportSessionStatus(p)
        <2> DEFINE k == [at |-> "restart", sess |-> pc[p].sess]
        <2>1. CASE Go(p, "idle")
            BY <2>1, <1>p, ApartGo
        <2>2. CASE pc' = [pc EXCEPT ![p] = k]
            <3>1. Apart(k) BY DEF Apart
            <3> HIDE DEF k
            <3> QED BY <2>2, <3>1, <1>p, ApartStep
        <2> QED BY <2>1, <2>2, <1>5 DEF ReportSessionStatus, AfterReport, Go
    <1>6. CASE RestartSession(p)
        <2> DEFINE s == pc[p].sess
                   k == [at |-> "insert", rows |-> Restarts(s)]
        <2>1. CASE ~MayRestart(s)
            BY <2>1, <1>6, <1>p, ApartGo DEF RestartSession, Go
        <2>2. CASE MayRestart(s)
            <3>1. s \in Sessions /\ session[s] \in SessionRow
                BY <1>6, <1>p, ContinuationFields
                   DEF RestartSession, Typed, DbOK, IsTable, Sessions
            <3>2. \A r \in Restarts(s) : r.status = "planned" /\ r.keyed
                BY <2>2, <3>1, RestartsAreRows
            <3>3. \A q, r \in Restarts(s) : q = r
                BY DEF Restarts
            <3>4. Apart(k)
                BY <3>2, <3>3 DEF Apart
            <3>5. pc' = [pc EXCEPT ![p] = k]
                BY <2>2, <1>6 DEF RestartSession
            <3> HIDE DEF k
            <3> QED BY <3>4, <3>5, <1>p, ApartStep
        <2> QED BY <2>1, <2>2
    <1>7. CASE ReportSendResult(p)
        BY <1>7, <1>p, ApartGo DEF ReportSendResult
    <1> QED BY <1>1, <1>2, <1>3, <1>4, <1>5, <1>6, <1>7 DEF WorkerStep

LEMMA ApartNext ==
    ASSUME Typed, PlansAreApart, [Next]_vars
    PROVE  PlansAreApart'
    <1>p. PcOK
        BY DEF Typed
    <1>1. ASSUME NEW o \in Observer, ObserverStep(o) PROVE PlansAreApart'
        BY <1>1, ApartObserver
    <1>2. ASSUME NEW p \in Worker, WorkerStep(p) PROVE PlansAreApart'
        BY <1>2, ApartWorker
    <1>3. ASSUME NEW p \in Worker, WorkerDies(p) PROVE PlansAreApart'
        BY <1>3, <1>p, ApartGo DEF WorkerDies, Process
    <1>4. ASSUME NEW p \in Process, InsertSessions(p) PROVE PlansAreApart'
        BY <1>4, <1>p, ApartThenPublish DEF InsertSessions, Inserts
    <1>5. ASSUME NEW p \in Process, PublishOne(p) PROVE PlansAreApart'
        <2>1. pc[p].then \in {"idle", "watching", "check"}
            BY <1>5, <1>p, ContinuationFields DEF PublishOne
        <2>2. PICK m \in pc[p].msgs : ThenPublish(p, pc[p].msgs \ {m}, pc[p].then)
            BY <1>5 DEF PublishOne
        <2> QED BY <2>1, <2>2, <1>p, ApartThenPublish
    <1>6. ASSUME NEW p \in Process, Abandon(p) PROVE PlansAreApart'
        BY <1>6, <1>p, ApartGo DEF Abandon
    <1>7. CASE ApproveAndDispatch
        BY <1>7, <1>p, ApartThenPublish
           DEF ApproveAndDispatch, Dispatches, Process
    <1>8. CASE UNCHANGED pc
        BY <1>8 DEF PlansAreApart, Apart
    <1> QED BY <1>1, <1>2, <1>3, <1>4, <1>5, <1>6, <1>7, <1>8
            DEF Next, vars, GenerateCandidate, Dismiss, EditTask, EditAccount,
                EditNode, CooldownEnds, WorkerHeartbeat, GraceElapses
-------------------------------------------------------------------------------
(***************************************************************************)
(* Sessions are inserted or move.                                          *)
(***************************************************************************)
\* A status written to an active session is a move of it.
LEMMA WithStatusMoves ==
    ASSUME NEW row \in SessionRow, row.status \in Active,
           NEW status \in SessionStatus
    PROVE  LET new == WithStatus(row, status) IN
           /\ SlotOf(new) = SlotOf(row)
           /\ new.keyed <=> new.status \in Active
           /\ new.status \in Active => row.status \in Active
    BY WithStatusIsRow

LEMMA ObserverMoves ==
    ASSUME Typed, KeyFollowsStatus, NEW o \in Observer, ObserverStep(o)
    PROVE  SessionsMove
    <1>s. \A s \in Sessions : session[s] \in SessionRow
        BY DEF Typed, DbOK, IsTable, Sessions
    <1>1. CASE UNCHANGED session
        BY <1>1 DEF SessionsMove, Sessions, KeyFollowsStatus, IsActive
    <1>2. CASE CloseSessions(o)
        <2> DEFINE ending == {s \in ActiveOf(Watches[o]) :
                                 CloseDecision(session[s]) # "wait_for_sending"}
                   lost == {s \in ending :
                               \/ CloseDecision(session[s]) = "force_close"
                               \/ nodeRow[session[s].node] = "absent"}
                   told == ending \ lost
        <2>1. \A s \in lost \cup told : session[s].status \in Active
            BY DEF ActiveOf, IsActive
        <2> HIDE DEF ending, lost, told
        <2>2. session' = [s \in Sessions |->
                             IF s \in lost THEN WithStatus(session[s], "lost")
                             ELSE IF s \in told
                                  THEN WithStatus(session[s], "closing")
                                  ELSE session[s]]
            BY <1>2 DEF CloseSessions, ending, lost, told
        <2>3. Sessions' = Sessions
            BY <2>2 DEF Sessions
        <2>4. {"lost", "closing"} \subseteq SessionStatus
            BY StatusIsActiveOrTerminal
        <2>5. ASSUME NEW s \in Sessions
              PROVE  /\ SlotOf(session'[s]) = SlotOf(session[s])
                     /\ session'[s].keyed <=> session'[s].status \in Active
                     /\ session'[s].status \in Active
                            => session[s].status \in Active
            <3>1. CASE s \in lost
                BY <3>1, <2>1, <2>2, <2>4, <1>s, WithStatusMoves
            <3>2. CASE s \notin lost /\ s \in told
                BY <3>2, <2>1, <2>2, <2>4, <1>s, WithStatusMoves
            <3>3. CASE s \notin lost /\ s \notin told
                BY <3>3, <2>2 DEF KeyFollowsStatus, IsActive
            <3> QED BY <3>1, <3>2, <3>3
        <2> QED BY <2>3, <2>5 DEF SessionsMove
    <1> QED BY <1>1, <1>2 DEF ObserverStep, OperatorObserve, ObserveLive,
            ObserveStillLive, ObserveNotLive, PlanEntries, ScheduleChecks, db

\* One row is replaced by a move of it.
LEMMA OneMoves ==
    ASSUME Typed, KeyFollowsStatus, NEW s \in Sessions, NEW row,
           session' = [session EXCEPT ![s] = row],
           SlotOf(row) = SlotOf(session[s]),
           row.keyed <=> row.status \in Active,
           row.status \in Active => session[s].status \in Active
    PROVE  SessionsMove
    BY DEF SessionsMove, Sessions, KeyFollowsStatus, IsActive

LEMMA WorkerMoves ==
    ASSUME Typed, KeyFollowsStatus, NEW p \in Worker, WorkerStep(p)
    PROVE  SessionsMove
    <1> DEFINE s == pc[p].sess
    <1>p. p \in Process /\ PcOK
        BY DEF Process, Typed
    <1>s. \A r \in Sessions : session[r] \in SessionRow
                              /\ session[r].status \in SessionStatus
        BY DEF Typed, DbOK, IsTable, Sessions, SessionRow
    <1>1. CASE UNCHANGED session
        BY <1>1 DEF SessionsMove, Sessions, KeyFollowsStatus, IsActive
    <1>2. CASE ReportSessionStatus(p)
        <2> DEFINE row == WithStatus(session[s], pc[p].status)
        <2>1. s \in Sessions /\ pc[p].status \in SessionStatus
            BY <1>2, <1>p, ContinuationFields DEF ReportSessionStatus
        <2>2. CASE /\ AcceptsReport(session[s], pc[p].status)
                   /\ session' = [session EXCEPT ![s] = row]
            <3>1. session[s].status \in Active
                BY <2>1, <2>2, <1>s, StatusIsActiveOrTerminal DEF AcceptsReport
            <3>2. /\ SlotOf(row) = SlotOf(session[s])
                  /\ row.keyed <=> row.status \in Active
                BY <2>1, <3>1, <1>s, WithStatusMoves
            <3> HIDE DEF row, s
            <3> QED BY <2>1, <2>2, <3>1, <3>2, OneMoves
        <2> HIDE DEF row
        <2> QED BY <2>2, <1>1, <1>2 DEF ReportSessionStatus, row
    <1>3. CASE ReportSendResult(p)
        <2> DEFINE row == SentBy(session[s])
        <2>1. s \in Sessions
            BY <1>3, <1>p, ContinuationFields DEF ReportSendResult
        <2>2. CASE /\ ResultCounts(pc[p].job, s)
                   /\ session' = [session EXCEPT ![s] = row]
            <3>1. session[s].status \in Active
                BY <2>2, StatusIsActiveOrTerminal DEF ResultCounts
            <3>2. /\ SlotOf(row) = SlotOf(session[s])
                  /\ row.keyed <=> row.status \in Active
                BY <2>1, <1>s, SentByIsRow, StatusIsActiveOrTerminal
            <3> HIDE DEF row, s
            <3> QED BY <2>1, <2>2, <3>1, <3>2, OneMoves
        <2> HIDE DEF row
        <2> QED BY <2>2, <1>1, <1>3 DEF ReportSendResult, row
    <1> QED BY <1>1, <1>2, <1>3 DEF WorkerStep, EnterLiveRoom, SendComment,
            CheckSession, CloseSession, RestartSession, db

LEMMA ApproveMoves ==
    ASSUME Typed, KeyFollowsStatus, ApproveAndDispatch
    PROVE  SessionsMove
    <1>1. PICK use \in UNION {Injection(D, Sessions) :
                                  D \in (SUBSET Candidate) \ {{}}} :
              \E work \in UNION {Bijection(J, DOMAIN use) :
                                     J \in SUBSET (JobId \ Jobs)} :
                  Dispatches(use, work)
        BY DEF ApproveAndDispatch
    <1> DEFINE taken == {s \in Sessions : \E c \in DOMAIN use : use[c] = s}
    <1>2. /\ \A c \in DOMAIN use : session[use[c]].status = "waiting"
          /\ session' = [s \in Sessions |->
                            IF s \in taken
                            THEN [session[s] EXCEPT !.status = "sending",
                                                    !.sending = "fresh"]
                            ELSE session[s]]
        BY <1>1 DEF Dispatches, CanSend
    <1>3. \A s \in taken : session[s].status = "waiting"
        BY <1>2
    <1> HIDE DEF taken
    <1>4. Sessions' = Sessions
        BY <1>2 DEF Sessions
    <1>5. ASSUME NEW s \in Sessions
          PROVE  /\ SlotOf(session'[s]) = SlotOf(session[s])
                 /\ session'[s].keyed <=> session'[s].status \in Active
                 /\ session'[s].status \in Active => session[s].status \in Active
        <2>1. session[s] \in SessionRow
            BY DEF Typed, DbOK, IsTable, Sessions
        <2>2. CASE s \in taken
            <3> DEFINE row == [session[s] EXCEPT !.status = "sending",
                                                 !.sending = "fresh"]
            <3>1. session'[s] = row
                BY <1>2, <2>2
            <3>2. /\ row.status = "sending" /\ SlotOf(row) = SlotOf(session[s])
                  /\ row.keyed = session[s].keyed
                BY <2>1 DEF SessionRow, SlotOf
            <3> HIDE DEF row
            <3> QED BY <3>1, <3>2, <2>2, <1>3, StatusIsActiveOrTerminal
                    DEF KeyFollowsStatus, IsActive
        <2>3. CASE s \notin taken
            BY <1>2, <2>3 DEF KeyFollowsStatus, IsActive
        <2> QED BY <2>2, <2>3
    <1> QED BY <1>4, <1>5 DEF SessionsMove

\* Every step that is not an insertion only moves sessions.
LEMMA MoveOrInsert ==
    ASSUME Typed, KeyFollowsStatus, [Next]_vars
    PROVE  SessionsMove \/ \E p \in Process : InsertSessions(p)
    <1>1. CASE UNCHANGED session
        BY <1>1 DEF SessionsMove, Sessions, KeyFollowsStatus, IsActive
    <1>2. ASSUME NEW o \in Observer, ObserverStep(o) PROVE SessionsMove
        BY <1>2, ObserverMoves
    <1>3. ASSUME NEW p \in Worker, WorkerStep(p) PROVE SessionsMove
        BY <1>3, WorkerMoves
    <1>4. CASE ApproveAndDispatch
        BY <1>4, ApproveMoves
    <1>5. ASSUME NEW s \in Sessions, GraceElapses(s) PROVE SessionsMove
        <2> DEFINE row == [session[s] EXCEPT !.sending = "overdue"]
        <2>1. session[s] \in SessionRow
            BY DEF Typed, DbOK, IsTable, Sessions
        <2>2. /\ SlotOf(row) = SlotOf(session[s])
              /\ row.keyed = session[s].keyed
              /\ row.status = session[s].status
            BY <2>1 DEF SessionRow, SlotOf
        <2>3. session' = [session EXCEPT ![s] = row]
            BY <1>5 DEF GraceElapses
        <2> HIDE DEF row
        <2> QED BY <2>2, <2>3, OneMoves DEF KeyFollowsStatus, IsActive
    <1> QED BY <1>1, <1>2, <1>3, <1>4, <1>5
            DEF Next, vars, db, WorkerDies, PublishOne, Abandon,
                GenerateCandidate, Dismiss, EditTask, EditAccount, EditNode,
                CooldownEnds, WorkerHeartbeat
-------------------------------------------------------------------------------
(***************************************************************************)
(* Insertions keep the slots apart.                                        *)
(***************************************************************************)
\* What an insertion does: fresh ids, planned rows, each in a slot that no
\* active session has and no other new row gets.
LEMMA InsertionsAreApart ==
    ASSUME SlotInv, NEW p \in Process, InsertSessions(p)
    PROVE  /\ Sessions \subseteq Sessions'
           /\ \A s \in Sessions : session'[s] = session[s]
           /\ \A s \in Sessions' \ Sessions :
                 /\ session'[s].status = "planned" /\ session'[s].keyed
                 /\ \A r \in Sessions :
                       IsActive(r) => SlotOf(session[r]) # SlotOf(session'[s])
                 /\ \A r \in Sessions' \ Sessions :
                       r # s => SlotOf(session'[r]) # SlotOf(session'[s])
    <1> DEFINE free == FreeRows(pc[p].rows)
    <1>1. PICK D \in SUBSET (SessionId \ Sessions) :
              \E new \in Bijection(D, free) : Inserts(p, new)
        BY DEF InsertSessions
    <1>2. PICK new \in Bijection(D, free) : Inserts(p, new)
        BY <1>1
    <1>3. /\ new \in [D -> free]
          /\ \A q, r \in D : new[q] = new[r] => q = r
        BY <1>2 DEF Bijection, Injection, IsInjective
    <1>4. /\ Sessions' = Sessions \cup D
          /\ \A s \in D : session'[s] = new[s]
          /\ \A s \in Sessions : session'[s] = session[s]
        BY <1>1, <1>2, <1>3 DEF Inserts, Sessions
    <1>5. Apart(pc[p]) /\ pc[p].at = "insert"
        BY DEF SlotInv, PlansAreApart, InsertSessions
    <1>6. ASSUME NEW s \in D
          PROVE  /\ new[s].status = "planned" /\ new[s].keyed
                 /\ \A r \in Sessions :
                       session[r].keyed => SlotOf(session[r]) # SlotOf(new[s])
                 /\ \A r \in D : r # s => SlotOf(new[r]) # SlotOf(new[s])
        BY <1>3, <1>5 DEF Apart, FreeRows
    <1>7. Sessions' \ Sessions = D
        BY <1>1, <1>4
    <1> QED BY <1>4, <1>6, <1>7 DEF SlotInv, KeyFollowsStatus

LEMMA SlotInit == Init => SlotInv
    <1> SUFFICES ASSUME Init PROVE SlotInv
        OBVIOUS
    <1>1. Sessions = {}
        BY DEF Init, Sessions
    <1>2. PlansAreApart
        BY DEF Init, PlansAreApart, Apart
    <1> QED BY <1>1, <1>2, TypedInit
            DEF SlotInv, KeyFollowsStatus, OneActiveSession

LEMMA SlotStep == SlotInv /\ [Next]_vars => SlotInv'
    <1> SUFFICES ASSUME SlotInv, [Next]_vars PROVE SlotInv'
        OBVIOUS
    <1>1. Typed' /\ PlansAreApart'
        BY TypedStep, ApartNext DEF SlotInv
    <1>2. CASE SessionsMove
        BY <1>1, <1>2 DEF SlotInv, SessionsMove, KeyFollowsStatus,
                          OneActiveSession, IsActive
    <1>3. ASSUME NEW p \in Process, InsertSessions(p)
          PROVE  SlotInv'
        <2> DEFINE added == Sessions' \ Sessions
        <2>1. /\ Sessions \subseteq Sessions'
              /\ \A s \in Sessions : session'[s] = session[s]
              /\ \A s \in added :
                    /\ session'[s].status = "planned" /\ session'[s].keyed
                    /\ \A r \in Sessions : IsActive(r)
                           => SlotOf(session[r]) # SlotOf(session'[s])
                    /\ \A r \in added :
                           r # s => SlotOf(session'[r]) # SlotOf(session'[s])
            BY <1>3, InsertionsAreApart
        <2>2. KeyFollowsStatus'
            BY <2>1, StatusIsActiveOrTerminal
               DEF SlotInv, KeyFollowsStatus, IsActive
        <2>3. OneActiveSession'
            BY <2>1 DEF SlotInv, OneActiveSession, IsActive
        <2> QED BY <1>1, <2>2, <2>3 DEF SlotInv
    <1> QED BY <1>2, <1>3, MoveOrInsert DEF SlotInv

\* For any number of observers, workers and reports in flight, an account has
\* at most one active session in a live task.
THEOREM SlotsAreExclusive == Spec => []OneActiveSession
    <1>1. SlotInv => OneActiveSession
        BY DEF SlotInv
    <1> QED BY <1>1, SlotInit, SlotStep, PTL DEF Spec

\* The unique key of a row is there exactly while the session is active.
THEOREM KeysFollowStatuses == Spec => []KeyFollowsStatus
    <1>1. SlotInv => KeyFollowsStatus
        BY DEF SlotInv
    <1> QED BY <1>1, SlotInit, SlotStep, PTL DEF Spec
===============================================================================
