------------------------ MODULE RowTransactionProofs ------------------------
(***************************************************************************)
(* The type invariant of RowTransactions, and that a candidate is sent at  *)
(* most once and the counter of an account never runs ahead of its sends,  *)
(* proved for any number of threads, observers, forms and transactions     *)
(* that overlap.                                                           *)
(*                                                                         *)
(* What a transaction is about to commit was decided on rows that others   *)
(* have changed since.  Each invariant therefore says what stays true of a *)
(* pending write whatever is committed before it: the rows it names remain *)
(* (Named), the counter it will set is covered by the sends that will have *)
(* succeeded then (Covered), and the candidate it approves waits for it    *)
(* (Reserved).                                                             *)
(***************************************************************************)
EXTENDS RowTransactions, LiveDomainProofs

\* A write, and a continuation, name sessions of S and jobs of J.
WriteNames(w, S, J) ==
    /\ DOMAIN w.rows \subseteq S
    /\ DOMAIN w.closed \subseteq J
    /\ \A j \in DOMAIN w.made : w.made[j].sess \in S
    /\ w.next.at = "restart" => w.next.sess \in S

NamesIn(k, S, J) ==
    /\ k.at = "restart" => k.sess \in S
    /\ k.at = "commit" => WriteNames(k.write, S, J)

Named ==
    /\ \A p \in Process : NamesIn(pc[p], Sessions, Jobs)
    /\ \A j \in Jobs : job[j].sess \in Sessions
    /\ \A ask \in asked : ask.sess \in Sessions
    /\ sends \subseteq Jobs

Typed == TypeOK /\ Named

-------------------------------------------------------------------------------
(***************************************************************************)
(* Facts about rows.                                                       *)
(***************************************************************************)
LEMMA UpdatedSessionIsRow ==
    ASSUME NEW now \in SessionRow,
           NEW w \in [read : SessionRow, left : SessionRow]
    PROVE  UpdatedSession(now, w) \in SessionRow
    <1> DEFINE status == Column(now.status, w.read.status, w.left.status)
               keyed == Column(now.keyed, w.read.keyed, w.left.keyed)
               sending == Column(now.sending, w.read.sending, w.left.sending)
    <1>1. status \in SessionStatus /\ keyed \in BOOLEAN /\ sending \in SendAge
        BY DEF Column, SessionRow
    <1>2. UpdatedSession(now, w) = [now EXCEPT !.status = status,
                                               !.keyed = keyed,
                                               !.sending = sending]
        BY DEF UpdatedSession
    <1> HIDE DEF status, keyed, sending
    <1> QED BY <1>1, <1>2 DEF SessionRow

LEMMA UpdatedAccountIsRow ==
    ASSUME NEW now \in AccountRow,
           NEW w \in [read : AccountRow, left : AccountRow]
    PROVE  /\ UpdatedAccount(now, w) \in AccountRow
           /\ UpdatedAccount(now, w).sends \in {now.sends, w.left.sends}
    <1> DEFINE standing == Column(now.standing, w.read.standing, w.left.standing)
               n == Column(now.sends, w.read.sends, w.left.sends)
               cooling == Column(now.cooling, w.read.cooling, w.left.cooling)
    <1>1. /\ standing \in Standing /\ n \in Nat /\ cooling \in BOOLEAN
          /\ n \in {now.sends, w.left.sends}
        BY DEF Column, AccountRow
    <1>2. UpdatedAccount(now, w) = [now EXCEPT !.standing = standing,
                                               !.sends = n,
                                               !.cooling = cooling]
        BY DEF UpdatedAccount
    <1> HIDE DEF standing, n, cooling
    <1> QED BY <1>1, <1>2 DEF AccountRow

\* A closed job is a row of the same candidate, session and account, with
\* the outcome among its attempts.
LEMMA FinishedIsRow ==
    ASSUME NEW row \in JobRow, NEW outcome \in Outcome
    PROVE  /\ Finished(row, outcome) \in JobRow
           /\ Finished(row, outcome).sess = row.sess
           /\ Finished(row, outcome).cand = row.cand
           /\ Finished(row, outcome).account = row.account
           /\ Finished(row, outcome).attempts = row.attempts \cup {outcome}
    BY DEF Finished, JobRow

\* The tables after a commit.
LEMMA SessionsAfterIsTable ==
    ASSUME Typed, NEW w, IsWrite(w), WriteNames(w, Sessions, Jobs)
    PROVE  /\ IsTable(SessionsAfter(w), SessionId, SessionRow)
           /\ DOMAIN SessionsAfter(w) = Sessions \cup DOMAIN w.new
    <1>1. DOMAIN SessionsAfter(w) = Sessions \cup DOMAIN w.new
        BY DEF SessionsAfter
    <1>2. ASSUME NEW s \in Sessions \cup DOMAIN w.new
          PROVE  SessionsAfter(w)[s] \in SessionRow
        <2>1. CASE s \in DOMAIN w.rows
            <3>1. session[s] \in SessionRow
                BY <2>1 DEF Typed, TypeOK, IsTable, Sessions, WriteNames
            <3>2. w.rows[s] \in [read : SessionRow, left : SessionRow]
                BY <2>1 DEF IsWrite, IsTable
            <3> QED BY <2>1, <3>1, <3>2, UpdatedSessionIsRow DEF SessionsAfter
        <2>2. CASE s \notin DOMAIN w.rows
            BY <2>2 DEF SessionsAfter, Typed, TypeOK, IsWrite, IsTable, Sessions
        <2> QED BY <2>1, <2>2
    <1>3. DOMAIN SessionsAfter(w) \subseteq SessionId
        BY <1>1 DEF Typed, TypeOK, IsTable, IsWrite, Sessions
    <1>4. SessionsAfter(w) \in [DOMAIN SessionsAfter(w) -> SessionRow]
        BY <1>1, <1>2 DEF SessionsAfter
    <1> QED BY <1>1, <1>3, <1>4 DEF IsTable

\* Of the jobs that were there, each keeps its candidate, session and account
\* and its attempts, and gets the outcome the write closes it with.
LEMMA JobsAfterIsTable ==
    ASSUME Typed, NEW w, IsWrite(w), WriteNames(w, Sessions, Jobs)
    PROVE  /\ IsTable(JobsAfter(w), JobId, JobRow)
           /\ DOMAIN JobsAfter(w) = Jobs \cup DOMAIN w.made
           /\ \A j \in Jobs :
                 /\ JobsAfter(w)[j].sess = job[j].sess
                 /\ JobsAfter(w)[j].cand = job[j].cand
                 /\ JobsAfter(w)[j].account = job[j].account
                 /\ JobsAfter(w)[j].attempts =
                       job[j].attempts \cup
                           {o \in Outcome : j \in DOMAIN w.closed
                                            /\ w.closed[j] = o}
           /\ \A j \in DOMAIN w.made \ Jobs : JobsAfter(w)[j] = w.made[j]
    <1>1. DOMAIN JobsAfter(w) = Jobs \cup DOMAIN w.made
        BY DEF JobsAfter
    <1>2. ASSUME NEW j \in Jobs
          PROVE  /\ JobsAfter(w)[j] \in JobRow
                 /\ JobsAfter(w)[j].sess = job[j].sess
                 /\ JobsAfter(w)[j].cand = job[j].cand
                 /\ JobsAfter(w)[j].account = job[j].account
                 /\ JobsAfter(w)[j].attempts =
                       job[j].attempts \cup
                           {o \in Outcome : j \in DOMAIN w.closed
                                            /\ w.closed[j] = o}
        <2>1. job[j] \in JobRow
            BY DEF Typed, TypeOK, IsTable, Jobs
        <2>2. CASE j \in DOMAIN w.closed
            <3>1. w.closed[j] \in Outcome
                BY <2>2 DEF IsWrite, IsTable
            <3>2. JobsAfter(w)[j] = Finished(job[j], w.closed[j])
                BY <2>2 DEF JobsAfter
            <3>3. {o \in Outcome : j \in DOMAIN w.closed /\ w.closed[j] = o}
                      = {w.closed[j]}
                BY <2>2, <3>1
            <3> QED BY <2>1, <3>1, <3>2, <3>3, FinishedIsRow
        <2>3. CASE j \notin DOMAIN w.closed
            <3>1. JobsAfter(w)[j] = job[j]
                BY <2>3 DEF JobsAfter
            <3> QED BY <2>1, <2>3, <3>1
        <2> QED BY <2>2, <2>3
    <1>3. ASSUME NEW j \in DOMAIN w.made \ Jobs
          PROVE  JobsAfter(w)[j] = w.made[j] /\ JobsAfter(w)[j] \in JobRow
        <2>1. j \notin DOMAIN w.closed
            BY DEF WriteNames
        <2>2. w.made[j] \in JobRow
            BY DEF IsWrite, IsTable
        <2> QED BY <2>1, <2>2 DEF JobsAfter
    <1>4. DOMAIN JobsAfter(w) \subseteq JobId
        BY <1>1 DEF Typed, TypeOK, IsTable, IsWrite, Jobs
    <1>5. JobsAfter(w) \in [DOMAIN JobsAfter(w) -> JobRow]
        BY <1>1, <1>2, <1>3 DEF JobsAfter
    <1> QED BY <1>1, <1>2, <1>3, <1>4, <1>5 DEF IsTable
-------------------------------------------------------------------------------
(***************************************************************************)
(* The three ways in which an action changes the continuations.            *)
(***************************************************************************)
\* More rows leave a continuation naming rows.
LEMMA NamesStay ==
    ASSUME NEW k, NEW S, NEW J, NamesIn(k, S, J),
           NEW S1, NEW J1, S \subseteq S1, J \subseteq J1
    PROVE  NamesIn(k, S1, J1)
    BY DEF NamesIn, WriteNames

LEMMA GoKeepsTyped ==
    ASSUME Typed, NEW p \in Process, NEW k, Go(p, k),
           IsContinuation(k), NamesIn(k, Sessions, Jobs),
           task' \in [Task -> {"running", "ended"}],
           UNCHANGED <<session, job, cand, acct>>,
           asked' \subseteq asked, sends' \subseteq sends
    PROVE  Typed'
    <1>1. DOMAIN pc' = Process
        BY DEF Typed, TypeOK, Go
    <1>2. ASSUME NEW q \in Process
          PROVE  IsContinuation(pc'[q]) /\ NamesIn(pc'[q], Sessions, Jobs)
        BY DEF Typed, TypeOK, Named, Go
    <1>3. Sessions' = Sessions /\ Jobs' = Jobs
        BY DEF Sessions, Jobs
    <1>4. TypeOK'
        BY <1>1, <1>2 DEF Typed, TypeOK, IsTable
    <1>5. Named'
        BY <1>2, <1>3 DEF Typed, Named
    <1> QED BY <1>4, <1>5 DEF Typed

LEMMA BeginKeepsTyped ==
    ASSUME Typed, NEW p \in Process, NEW w, Begin(p, w),
           IsWrite(w), WriteNames(w, Sessions, Jobs),
           asked' \subseteq asked, sends' \subseteq sends
    PROVE  Typed'
    <1> DEFINE k == [at |-> "commit", write |-> w]
    <1>1. IsContinuation(k) /\ NamesIn(k, Sessions, Jobs)
        BY DEF IsContinuation, NamesIn
    <1>2. Go(p, k) /\ UNCHANGED <<task, session, job, cand, acct>>
        BY DEF Begin, Go
    <1>3. task' \in [Task -> {"running", "ended"}]
        BY <1>2 DEF Typed, TypeOK
    <1> HIDE DEF k
    <1> QED BY <1>1, <1>2, <1>3, GoKeepsTyped

LEMMA CommitKeepsTyped ==
    ASSUME Typed, NEW p \in Process, CommitTransaction(p)
    PROVE  Typed'
    <1> DEFINE w == pc[p].write
    <1>1. IsWrite(w) /\ WriteNames(w, Sessions, Jobs)
        BY DEF Typed, TypeOK, Named, NamesIn, IsContinuation, CommitTransaction
    <1>2. /\ session' = SessionsAfter(w) /\ job' = JobsAfter(w)
          /\ cand' = [c \in Candidate |->
                         IF c \in DOMAIN w.cands THEN w.cands[c] ELSE cand[c]]
          /\ acct' = [a \in Account |->
                         IF a \in DOMAIN w.accts
                         THEN UpdatedAccount(acct[a], w.accts[a]) ELSE acct[a]]
          /\ asked' = asked \cup AskedAfter(w)
          /\ sends' = sends \cup DOMAIN w.made
          /\ pc' = [pc EXCEPT ![p] = w.next] /\ task' = task
        BY DEF CommitTransaction, Go
    <1> HIDE DEF w
    <1>3. /\ IsTable(session', SessionId, SessionRow)
          /\ Sessions' = Sessions \cup DOMAIN w.new
        BY <1>1, <1>2, SessionsAfterIsTable DEF Sessions
    <1>4. /\ IsTable(job', JobId, JobRow)
          /\ Jobs' = Jobs \cup DOMAIN w.made
          /\ \A j \in Jobs : job'[j].sess = job[j].sess
          /\ \A j \in DOMAIN w.made \ Jobs : job'[j] = w.made[j]
        BY <1>1, <1>2, JobsAfterIsTable DEF Jobs
    <1>5. cand' \in [Candidate -> CandStatus]
        BY <1>1, <1>2 DEF Typed, TypeOK, IsWrite, IsTable
    <1>6. acct' \in [Account -> AccountRow]
        <2>1. ASSUME NEW a \in Account PROVE acct'[a] \in AccountRow
            BY <1>1, <1>2, UpdatedAccountIsRow
                DEF Typed, TypeOK, IsWrite, IsTable
        <2> QED BY <1>2, <2>1
    <1>7. sends' \subseteq JobId
        BY <1>1, <1>2 DEF Typed, TypeOK, IsWrite, IsTable
    <1>8. DOMAIN pc' = Process
        BY <1>2 DEF Typed, TypeOK
    <1>9. ASSUME NEW q \in Process
          PROVE  IsContinuation(pc'[q]) /\ NamesIn(pc'[q], Sessions', Jobs')
        <2>1. CASE q = p
            <3>1. pc'[q] = w.next /\ w.next \in Resting
                BY <1>1, <1>2, <2>1 DEF Typed, TypeOK, IsWrite
            <3>2. w.next.at \notin {"insert", "form", "commit"}
                BY <3>1 DEF Resting, Simple
            <3>3. IsContinuation(w.next)
                BY <3>1, <3>2 DEF IsContinuation
            <3>4. NamesIn(w.next, Sessions', Jobs')
                BY <1>1, <1>3, <3>2 DEF NamesIn, WriteNames
            <3> QED BY <3>1, <3>3, <3>4
        <2>2. CASE q # p
            <3>1. pc'[q] = pc[q]
                BY <1>2, <2>2 DEF Typed, TypeOK
            <3>2. IsContinuation(pc[q]) /\ NamesIn(pc[q], Sessions, Jobs)
                BY DEF Typed, TypeOK, Named
            <3>3. Jobs \subseteq Jobs'
                BY <1>4
            <3> QED BY <1>3, <3>1, <3>2, <3>3, NamesStay
        <2> QED BY <2>1, <2>2
    <1>10. ASSUME NEW ask \in asked'
           PROVE  ask \in NodeTask /\ ask.sess \in Sessions'
        <2>1. CASE ask \in asked
            BY <1>3, <2>1 DEF Typed, TypeOK, Named
        <2>2. CASE ask \in AskedAfter(w)
            <3>1. /\ ask.kind \in {"enter", "close"}
                  /\ ask = [kind |-> ask.kind, sess |-> ask.sess]
                  /\ ask.sess \in DOMAIN w.new \cup DOMAIN w.rows
                BY <2>2 DEF AskedAfter, Ask
            <3>2. ask.sess \in Sessions' /\ Sessions' \subseteq SessionId
                BY <1>1, <1>3, <3>1 DEF WriteNames, IsTable, Sessions
            <3> QED BY <3>1, <3>2 DEF NodeTask
        <2> QED BY <1>2, <2>1, <2>2
    <1>11. TypeOK'
        BY <1>2, <1>3, <1>4, <1>5, <1>6, <1>7, <1>8, <1>9, <1>10
            DEF Typed, TypeOK
    <1>12. \A j \in Jobs' : job'[j].sess \in Sessions'
        BY <1>1, <1>3, <1>4 DEF Typed, Named, WriteNames
    <1>13. sends' \subseteq Jobs'
        BY <1>2, <1>4 DEF Typed, Named
    <1>14. Named'
        BY <1>9, <1>10, <1>12, <1>13 DEF Named
    <1> QED BY <1>11, <1>14 DEF Typed
-------------------------------------------------------------------------------
(***************************************************************************)
(* Every step keeps the types.                                             *)
(***************************************************************************)
LEMMA NoRowsIsTable ==
    ASSUME NEW S, NEW T
    PROVE  DOMAIN NoRows = {} /\ IsTable(NoRows, S, T)
    BY DEF NoRows, IsTable

LEMMA IdleIsResting == Idle \in Resting /\ Idle.at = "idle"
    BY DEF Idle, Resting, Simple

LEMMA SimpleIsContinuation ==
    ASSUME NEW k \in Simple, NEW S, NEW J
    PROVE  IsContinuation(k) /\ NamesIn(k, S, J)
    BY DEF Simple, IsContinuation, Resting, NamesIn

\* Node tasks are answered or go on, the rows stay.
LEMMA AnswersKeepTyped ==
    ASSUME Typed, UNCHANGED <<task, session, job, cand, acct, pc>>,
           asked' \subseteq NodeTask,
           \A ask \in asked' : ask.sess \in Sessions, sends' \subseteq sends
    PROVE  Typed'
    <1>1. Sessions' = Sessions /\ Jobs' = Jobs
        BY DEF Sessions, Jobs
    <1>2. TypeOK'
        BY DEF Typed, TypeOK, IsTable
    <1>3. Named'
        BY <1>1 DEF Typed, Named
    <1> QED BY <1>2, <1>3 DEF Typed

\* What a report may write to the rows.
ReportWrite(s, reported) ==
    LET ended == IF reported \in Terminal THEN {s} ELSE {} IN
    [Nothing EXCEPT
        !.rows = Left(s, WithStatus(session[s], reported)),
        !.closed = [j \in RunningJobs(ended) |-> "failed"],
        !.next = IF reported \in Restartable
                 THEN [at |-> "restart", sess |-> s]
                 ELSE Idle]

LEMMA ReportWritesOrNot ==
    ASSUME NEW p \in Thread, NEW ask, ReportSessionStatus(p, ask)
    PROVE  /\ asked' = asked \ {ask} /\ sends' = sends
           /\ \/ \E reported \in Reported :
                    Begin(p, ReportWrite(ask.sess, reported))
              \/ UNCHANGED <<task, session, job, cand, acct, pc>>
    BY DEF ReportSessionStatus, ReportWrite

LEMMA ReportStatusKeepsTyped ==
    ASSUME Typed, NEW p \in Thread, NEW ask \in asked,
           ReportSessionStatus(p, ask)
    PROVE  Typed'
    <1>1. p \in Process /\ asked' \subseteq asked /\ sends' \subseteq sends
        BY ReportWritesOrNot DEF Process
    <1>2. CASE UNCHANGED <<task, session, job, cand, acct, pc>>
        BY <1>1, <1>2, AnswersKeepTyped DEF Typed, TypeOK, Named
    <1>3. ASSUME NEW reported \in Reported,
                 Begin(p, ReportWrite(ask.sess, reported))
          PROVE  Typed'
        <2> DEFINE s == ask.sess
                   ended == IF reported \in Terminal THEN {s} ELSE {}
                   rows == Left(s, WithStatus(session[s], reported))
                   closed == [j \in RunningJobs(ended) |-> "failed"]
                   next == IF reported \in Restartable
                           THEN [at |-> "restart", sess |-> s] ELSE Idle
                   w == [Nothing EXCEPT !.rows = rows, !.closed = closed,
                                        !.next = next]
        <2>1. s \in Sessions
            BY DEF Typed, Named
        <2>2. Begin(p, w)
            BY <1>3 DEF ReportWrite
        <2> HIDE DEF s
        <2>3. session[s] \in SessionRow /\ s \in SessionId
            BY <2>1 DEF Typed, TypeOK, IsTable, Sessions
        <2>4. reported \in SessionStatus
            BY RowAssumption DEF RowAssumption, SessionStatus, Active, Terminal
        <2>5. WithStatus(session[s], reported) \in SessionRow
            BY <2>3, <2>4, WithStatusIsRow
        <2>6. /\ IsTable(rows, SessionId, [read : SessionRow, left : SessionRow])
              /\ DOMAIN rows \subseteq Sessions
            BY <2>1, <2>3, <2>5 DEF IsTable, Left
        <2>7. RunningJobs(ended) \subseteq Jobs /\ Jobs \subseteq JobId
            BY DEF RunningJobs, Jobs, Typed, TypeOK, IsTable
        <2>8. IsTable(closed, JobId, Outcome) /\ DOMAIN closed \subseteq Jobs
            BY <2>7 DEF IsTable, Outcome
        <2>9. next \in Resting /\ (next.at = "restart" => next.sess \in Sessions)
            BY <2>1, <2>3, IdleIsResting DEF Resting
        <2> HIDE DEF ended, rows, closed, next
        <2>10. IsWrite(w) /\ WriteNames(w, Sessions, Jobs)
            BY <2>6, <2>8, <2>9, NoRowsIsTable DEF IsWrite, WriteNames, Nothing
        <2> QED BY <1>1, <2>2, <2>10, BeginKeepsTyped
    <1> QED BY <1>2, <1>3, ReportWritesOrNot

LEMMA CheckKeepsTyped ==
    ASSUME Typed, NEW t \in Task, CheckSessions(t)
    PROVE  Typed'
    <1>1. ASSUME NEW ask \in asked'
          PROVE  ask \in NodeTask /\ ask.sess \in Sessions
        <2>1. Sessions \subseteq SessionId
            BY DEF Typed, TypeOK, IsTable, Sessions
        <2>2. CASE ask \in asked
            BY <2>2 DEF Typed, TypeOK, Named
        <2>3. CASE ask \notin asked
            BY <2>1, <2>3 DEF CheckSessions, Ask, ActiveOf, NodeTask
        <2> QED BY <2>2, <2>3
    <1> QED BY <1>1, AnswersKeepTyped DEF CheckSessions

LEMMA SentByIsRow ==
    ASSUME NEW row \in SessionRow
    PROVE  SentBy(row) \in SessionRow
    <1>1. WithStatus(row, "waiting") \in SessionRow
        BY WithStatusIsRow DEF SessionStatus, Active
    <1> QED BY <1>1 DEF SentBy, SessionRow, SendAge

\* What a result writes to the account: nothing unless it is a success, and
\* then one send more than the account has had.
LEMMA CountedIsTable ==
    ASSUME Typed, NEW a \in Account, NEW outcome \in Outcome
    PROVE  /\ IsTable(Counted(a, outcome), Account,
                      [read : AccountRow, left : AccountRow])
           /\ \A b \in DOMAIN Counted(a, outcome) :
                 /\ b = a /\ outcome = "success"
                 /\ Counted(a, outcome)[b].left.sends = acct[a].sends + 1
    <1> DEFINE read == [acct[a] EXCEPT !.cooling = FALSE]
               left == [acct[a] EXCEPT !.sends = @ + 1, !.cooling = TRUE]
               D == {x \in {a} : outcome = "success"}
    <1>1. acct[a] \in AccountRow
        BY DEF Typed, TypeOK
    <1>2. read \in AccountRow /\ left \in AccountRow
        <2>1. acct[a].sends + 1 \in Nat
            BY <1>1 DEF AccountRow
        <2> DEFINE n == acct[a].sends + 1
        <2>2. n \in Nat /\ left = [acct[a] EXCEPT !.sends = n, !.cooling = TRUE]
            BY <2>1
        <2> HIDE DEF n, left
        <2> QED BY <1>1, <2>2 DEF AccountRow
    <1>3. left.sends = acct[a].sends + 1
        BY <1>1 DEF AccountRow
    <1>4. Counted(a, outcome) = [b \in D |-> [read |-> read, left |-> left]]
        BY DEF Counted
    <1> HIDE DEF read, left
    <1> QED BY <1>2, <1>3, <1>4 DEF IsTable

LEMMA ReportResultKeepsTyped ==
    ASSUME Typed, NEW p \in Thread, NEW j \in sends, ReportSendResult(p, j)
    PROVE  Typed'
    <1>1. p \in Process /\ asked' = asked /\ sends' \subseteq sends
        BY DEF Process, ReportSendResult
    <1>2. CASE UNCHANGED <<task, session, job, cand, acct, pc>>
        BY <1>1, <1>2, AnswersKeepTyped DEF Typed, TypeOK, Named
    <1>3. CASE \E outcome \in Outcome :
                  Begin(p, [Nothing EXCEPT
                      !.rows = Left(job[j].sess, SentBy(session[job[j].sess])),
                      !.closed = [i \in {j} |-> outcome],
                      !.accts = Counted(job[j].account, outcome)])
        <2>1. PICK outcome \in Outcome :
                  Begin(p, [Nothing EXCEPT
                      !.rows = Left(job[j].sess, SentBy(session[job[j].sess])),
                      !.closed = [i \in {j} |-> outcome],
                      !.accts = Counted(job[j].account, outcome)])
            BY <1>3
        <2> DEFINE s == job[j].sess
                   rows == Left(s, SentBy(session[s]))
                   closed == [i \in {j} |-> outcome]
                   accts == Counted(job[j].account, outcome)
                   w == [Nothing EXCEPT !.rows = rows, !.closed = closed,
                                        !.accts = accts]
        <2>2. j \in Jobs /\ j \in JobId /\ job[j].account \in Account
            BY DEF Typed, TypeOK, Named, IsTable, Jobs, JobRow
        <2>3. s \in Sessions /\ s \in SessionId /\ session[s] \in SessionRow
            BY <2>2 DEF Typed, TypeOK, Named, IsTable, Sessions
        <2>4. /\ IsTable(rows, SessionId, [read : SessionRow, left : SessionRow])
              /\ DOMAIN rows \subseteq Sessions
            <3>1. SentBy(session[s]) \in SessionRow
                BY <2>3, SentByIsRow
            <3> HIDE DEF s
            <3> QED BY <2>3, <3>1 DEF IsTable, Left
        <2>5. IsTable(closed, JobId, Outcome) /\ DOMAIN closed \subseteq Jobs
            BY <2>2 DEF IsTable
        <2>6. IsTable(accts, Account, [read : AccountRow, left : AccountRow])
            BY <2>2, CountedIsTable
        <2>7. Begin(p, w)
            BY <2>1
        <2> HIDE DEF s, rows, closed, accts
        <2>8. IsWrite(w) /\ WriteNames(w, Sessions, Jobs)
            BY <2>4, <2>5, <2>6, NoRowsIsTable, IdleIsResting
                DEF IsWrite, WriteNames, Nothing
        <2> QED BY <1>1, <2>7, <2>8, BeginKeepsTyped
    <1> QED BY <1>2, <1>3 DEF ReportSendResult

LEMMA RestartKeepsTyped ==
    ASSUME Typed, NEW p \in Thread, RestartSession(p)
    PROVE  Typed'
    <1> DEFINE old == session[pc[p].sess]
    <1>1. p \in Process
        BY DEF Process
    <1>2. /\ pc[p].sess \in Sessions /\ old \in SessionRow
          /\ UNCHANGED <<task, session, job, cand, acct, asked, sends>>
          /\ task' \in [Task -> {"running", "ended"}]
        BY <1>1 DEF Typed, TypeOK, Named, NamesIn, IsTable, Sessions,
                    RestartSession
    <1>3. CASE Go(p, Idle)
        BY <1>1, <1>2, <1>3, SimpleIsContinuation, GoKeepsTyped
            DEF Idle, Simple
    <1>4. CASE MayRestart(pc[p].sess) /\ \E n \in Node :
                  Go(p, [at |-> "insert", next |-> Idle,
                         rows |-> {PlannedSession(old.task, old.account, n,
                                                  old.restart + 1)}])
        <2>1. PICK n \in Node :
                  Go(p, [at |-> "insert", next |-> Idle,
                         rows |-> {PlannedSession(old.task, old.account, n,
                                                  old.restart + 1)}])
            BY <1>4
        <2> DEFINE row == PlannedSession(old.task, old.account, n,
                                         old.restart + 1)
                   k == [at |-> "insert", next |-> Idle, rows |-> {row}]
        <2>2. /\ old.restart \in 0..MaxRestarts /\ old.restart < MaxRestarts
              /\ old.task \in Task /\ old.account \in Account
            BY <1>2, <1>4 DEF MayRestart, CanAutoRestart, SessionRow
        <2>3. row \in SessionRow
            <3>1. old.restart + 1 \in 0..MaxRestarts
                BY <2>2, DomainAssumption DEF DomainAssumption
            <3> QED BY <2>2, <3>1, PlannedSessionIsRow
        <2> HIDE DEF row
        <2>4. IsContinuation(k) /\ NamesIn(k, Sessions, Jobs)
            BY <2>3 DEF IsContinuation, NamesIn, Idle, Simple
        <2>5. Go(p, k)
            BY <2>1 DEF row
        <2> HIDE DEF k
        <2> QED BY <1>1, <1>2, <2>4, <2>5, GoKeepsTyped
    <1> QED BY <1>3, <1>4 DEF RestartSession

LEMMA InsertKeepsTyped ==
    ASSUME Typed, NEW p \in Process, InsertSessions(p)
    PROVE  Typed'
    <1>0. PICK D \in SUBSET FreshSessions :
              \E new \in Bijection(D, FreeRows(pc[p].rows)) :
                  Begin(p, [Nothing EXCEPT !.new = new, !.next = pc[p].next])
        BY DEF InsertSessions
    <1>1. PICK new \in Bijection(D, FreeRows(pc[p].rows)) :
              Begin(p, [Nothing EXCEPT !.new = new, !.next = pc[p].next])
        BY <1>0
    <1> DEFINE next == pc[p].next
               w == [Nothing EXCEPT !.new = new, !.next = next]
    <1>2. pc[p].at = "insert" /\ asked' = asked /\ sends' \subseteq sends
        BY DEF InsertSessions
    <1>3. pc[p].rows \subseteq SessionRow /\ next \in Simple
        BY <1>2 DEF Typed, TypeOK, IsContinuation
    <1>4. next \in Resting /\ next.at # "restart"
        BY <1>3 DEF Resting, Simple
    <1>5. IsTable(new, SessionId, SessionRow)
        <2>1. new \in [D -> FreeRows(pc[p].rows)]
            BY <1>1 DEF Bijection, Injection
        <2>2. FreeRows(pc[p].rows) \subseteq SessionRow
            BY <1>3 DEF FreeRows
        <2>3. D \subseteq SessionId
            BY DEF FreshSessions
        <2> QED BY <2>1, <2>2, <2>3 DEF IsTable
    <1>6. Begin(p, w)
        BY <1>1
    <1> HIDE DEF next
    <1>7. IsWrite(w) /\ WriteNames(w, Sessions, Jobs)
        BY <1>4, <1>5, NoRowsIsTable DEF IsWrite, WriteNames, Nothing
    <1> QED BY <1>2, <1>6, <1>7, BeginKeepsTyped

LEMMA PlanKeepsTyped ==
    ASSUME Typed, NEW t \in Task, PlanEntries(t)
    PROVE  Typed'
    <1> DEFINE free == {a \in Account :
                          /\ IsAvailable(acct[a])
                          /\ \A s \in ActiveOf(t) : session[s].account # a}
    <1>1. PICK place \in [free -> Node] :
              Go(t, [at |-> "insert", next |-> [at |-> "watching"],
                     rows |-> {PlannedSession(t, a, place[a], 0) :
                                   a \in DOMAIN place}])
        BY DEF PlanEntries
    <1> DEFINE rows == {PlannedSession(t, a, place[a], 0) : a \in DOMAIN place}
               k == [at |-> "insert", next |-> [at |-> "watching"],
                     rows |-> rows]
    <1>2. rows \subseteq SessionRow
        <2>1. ASSUME NEW a \in free
              PROVE  PlannedSession(t, a, place[a], 0) \in SessionRow
            <3>1. 0 \in 0..MaxRestarts
                BY DomainAssumption DEF DomainAssumption
            <3> QED BY <3>1, PlannedSessionIsRow
        <2> QED BY <2>1
    <1> HIDE DEF rows
    <1>3. IsContinuation(k) /\ NamesIn(k, Sessions, Jobs)
        BY <1>2 DEF IsContinuation, NamesIn, Simple
    <1>4. /\ t \in Process /\ task' \in [Task -> {"running", "ended"}]
          /\ UNCHANGED <<session, job, cand, acct, asked, sends>>
        BY DEF Process, PlanEntries, Typed, TypeOK
    <1>5. Go(t, k)
        BY <1>1 DEF rows
    <1> HIDE DEF k
    <1> QED BY <1>3, <1>4, <1>5, GoKeepsTyped

LEMMA ObserveKeepsTyped ==
    ASSUME Typed, NEW t \in Task, ObserveNotLive(t) \/ OperatorObserve(t)
    PROVE  Typed'
    <1>1. PICK k \in Simple : Go(t, k)
        BY DEF ObserveNotLive, OperatorObserve, Simple
    <1>2. /\ t \in Process /\ task' \in [Task -> {"running", "ended"}]
          /\ UNCHANGED <<session, job, cand, acct, asked, sends>>
        BY DEF Process, ObserveNotLive, OperatorObserve, Typed, TypeOK
    <1> QED BY <1>1, <1>2, SimpleIsContinuation, GoKeepsTyped

LEMMA CloseKeepsTyped ==
    ASSUME Typed, NEW t \in Task, CloseSessions(t)
    PROVE  Typed'
    <1> DEFINE overdue == {s \in ActiveOf(t) :
                              CloseDecision(session[s]) = "force_close"}
               told == {s \in ActiveOf(t) :
                           CloseDecision(session[s]) = "dispatch_close"}
               status(s) == IF s \in told THEN "closing" ELSE "lost"
               rows == [s \in overdue \cup told |->
                           [read |-> session[s],
                            left |-> WithStatus(session[s], status(s))]]
               closed == [j \in RunningJobs(overdue) |-> "failed"]
               w == [Nothing EXCEPT !.rows = rows, !.closed = closed]
    <1>1. /\ Begin(t, w) /\ t \in Process
          /\ asked' = asked /\ sends' \subseteq sends
        BY DEF CloseSessions, Process
    <1>2. overdue \cup told \subseteq Sessions
        BY DEF ActiveOf
    <1>3. ASSUME NEW s \in overdue \cup told
          PROVE  /\ s \in SessionId /\ session[s] \in SessionRow
                 /\ WithStatus(session[s], status(s)) \in SessionRow
        <2>1. s \in SessionId /\ session[s] \in SessionRow
            BY <1>2 DEF Typed, TypeOK, IsTable, Sessions
        <2>2. status(s) \in SessionStatus
            BY DEF SessionStatus, Active, Terminal
        <2> HIDE DEF status
        <2> QED BY <2>1, <2>2, WithStatusIsRow
    <1> HIDE DEF status, told
    <1>4. /\ IsTable(rows, SessionId, [read : SessionRow, left : SessionRow])
          /\ DOMAIN rows \subseteq Sessions
        BY <1>2, <1>3 DEF IsTable
    <1>5. RunningJobs(overdue) \subseteq Jobs /\ Jobs \subseteq JobId
        BY DEF RunningJobs, Jobs, Typed, TypeOK, IsTable
    <1>6. IsTable(closed, JobId, Outcome) /\ DOMAIN closed \subseteq Jobs
        BY <1>5 DEF IsTable, Outcome
    <1> HIDE DEF rows, closed
    <1>7. IsWrite(w) /\ WriteNames(w, Sessions, Jobs)
        BY <1>4, <1>6, NoRowsIsTable, IdleIsResting
            DEF IsWrite, WriteNames, Nothing
    <1> QED BY <1>1, <1>7, BeginKeepsTyped

LEMMA ApproveKeepsTyped ==
    ASSUME Typed, NEW c \in Candidate, ApproveAndDispatch(c)
    PROVE  Typed'
    <1>1. PICK s \in Sessions, j \in JobId \ Jobs :
              Begin(Admin, [Nothing EXCEPT
                 !.rows = [r \in {s} |-> Sending(session[s])],
                 !.made = [i \in {j} |->
                             [cand |-> c, sess |-> s, status |-> "running",
                              account |-> session[s].account,
                              attempts |-> {}]],
                 !.cands = [d \in {c} |-> "approved"]])
        BY DEF ApproveAndDispatch
    <1> DEFINE row == [cand |-> c, sess |-> s, status |-> "running",
                       account |-> session[s].account, attempts |-> {}]
               rows == [r \in {s} |-> Sending(session[s])]
               made == [i \in {j} |-> row]
               cands == [d \in {c} |-> "approved"]
               w == [Nothing EXCEPT !.rows = rows, !.made = made,
                                    !.cands = cands]
    <1>2. session[s] \in SessionRow /\ s \in SessionId
        BY DEF Typed, TypeOK, IsTable, Sessions
    <1>3. Sending(session[s]) \in [read : SessionRow, left : SessionRow]
        BY <1>2 DEF Sending, SessionRow, SendAge, SessionStatus, Active
    <1>4. row \in JobRow
        BY <1>2 DEF JobRow, SessionRow
    <1>5. /\ IsTable(rows, SessionId, [read : SessionRow, left : SessionRow])
          /\ DOMAIN rows \subseteq Sessions
        BY <1>2, <1>3 DEF IsTable
    <1>6. /\ IsTable(made, JobId, JobRow)
          /\ \A i \in DOMAIN made : made[i].sess \in Sessions
        BY <1>4 DEF IsTable
    <1>7. IsTable(cands, Candidate, CandStatus)
        BY DEF IsTable, CandStatus
    <1>8. /\ Begin(Admin, w) /\ Admin \in Process
          /\ asked' = asked /\ sends' \subseteq sends
        BY <1>1 DEF ApproveAndDispatch, Process
    <1> HIDE DEF rows, made, cands
    <1>9. IsWrite(w) /\ WriteNames(w, Sessions, Jobs)
        BY <1>5, <1>6, <1>7, NoRowsIsTable, IdleIsResting
            DEF IsWrite, WriteNames, Nothing
    <1> QED BY <1>8, <1>9, BeginKeepsTyped

LEMMA DismissKeepsTyped ==
    ASSUME Typed, NEW c \in Candidate, Dismiss(c)
    PROVE  Typed'
    <1> DEFINE cands == [d \in {c} |-> "dismissed"]
               w == [Nothing EXCEPT !.cands = cands]
    <1>1. /\ Begin(Admin, w) /\ Admin \in Process
          /\ asked' = asked /\ sends' \subseteq sends
        BY DEF Dismiss, Process
    <1>2. IsTable(cands, Candidate, CandStatus)
        BY DEF IsTable, CandStatus
    <1> HIDE DEF cands
    <1>3. IsWrite(w) /\ WriteNames(w, Sessions, Jobs)
        BY <1>2, NoRowsIsTable, IdleIsResting DEF IsWrite, WriteNames, Nothing
    <1> QED BY <1>1, <1>3, BeginKeepsTyped

LEMMA OpenFormKeepsTyped ==
    ASSUME Typed, NEW b \in Tab, NEW a \in Account, OpenAccountForm(b, a)
    PROVE  Typed'
    <1> DEFINE k == [at |-> "form", account |-> a, shown |-> acct[a]]
    <1>1. /\ b \in Process /\ task' \in [Task -> {"running", "ended"}]
          /\ UNCHANGED <<session, job, cand, acct, asked, sends>>
        BY DEF Process, OpenAccountForm, Typed, TypeOK
    <1>2. IsContinuation(k) /\ NamesIn(k, Sessions, Jobs)
        BY DEF IsContinuation, NamesIn, Typed, TypeOK
    <1>3. Go(b, k)
        BY DEF OpenAccountForm
    <1> HIDE DEF k
    <1> QED BY <1>1, <1>2, <1>3, GoKeepsTyped

\* What a saved form writes: the counter as the form showed it.
LEMMA SavedForm ==
    ASSUME Typed, NEW b \in Process, pc[b].at = "form", NEW standing \in Standing
    PROVE  LET left == [pc[b].shown EXCEPT !.standing = standing] IN
           /\ pc[b].account \in Account /\ left \in AccountRow
           /\ left.sends = pc[b].shown.sends
    BY DEF Typed, TypeOK, IsContinuation, AccountRow

LEMMA SaveFormKeepsTyped ==
    ASSUME Typed, NEW b \in Tab, SaveAccountForm(b)
    PROVE  Typed'
    <1> DEFINE a == pc[b].account
    <1>1. PICK standing \in Standing :
              Begin(b, [Nothing EXCEPT
                      !.accts = [x \in {a} |->
                          [read |-> acct[a],
                           left |-> [pc[b].shown EXCEPT
                                        !.standing = standing]]]])
        BY DEF SaveAccountForm, Standing
    <1> DEFINE left == [pc[b].shown EXCEPT !.standing = standing]
               accts == [x \in {a} |-> [read |-> acct[a], left |-> left]]
               w == [Nothing EXCEPT !.accts = accts]
    <1>2. /\ b \in Process /\ pc[b].at = "form"
          /\ asked' = asked /\ sends' \subseteq sends
        BY DEF Process, SaveAccountForm
    <1>3. a \in Account /\ left \in AccountRow
        BY <1>2, SavedForm
    <1>4. acct[a] \in AccountRow
        BY <1>3 DEF Typed, TypeOK
    <1>5. Begin(b, w)
        BY <1>1
    <1> HIDE DEF left, a
    <1>6. IsTable(accts, Account, [read : AccountRow, left : AccountRow])
        BY <1>3, <1>4 DEF IsTable
    <1> HIDE DEF accts
    <1>7. IsWrite(w) /\ WriteNames(w, Sessions, Jobs)
        BY <1>6, NoRowsIsTable, IdleIsResting DEF IsWrite, WriteNames, Nothing
    <1> QED BY <1>2, <1>5, <1>7, BeginKeepsTyped

LEMMA TimeKeepsTyped ==
    ASSUME Typed,
           \/ \E s \in Sessions : GraceElapses(s)
           \/ \E a \in Account : CooldownEnds(a)
    PROVE  Typed'
    <1>1. CASE \E s \in Sessions : GraceElapses(s)
        <2>1. PICK s \in Sessions : GraceElapses(s)
            BY <1>1
        <2>2. \A r \in Sessions : session[r] \in SessionRow
            BY DEF Typed, TypeOK, IsTable, Sessions
        <2>3. [session[s] EXCEPT !.sending = "overdue"] \in SessionRow
            BY <2>2 DEF SessionRow, SendAge
        <2>4. /\ Sessions' = Sessions /\ Jobs' = Jobs
              /\ session' \in [Sessions -> SessionRow]
            BY <2>1, <2>2, <2>3 DEF GraceElapses, Sessions, Jobs
        <2>5. TypeOK'
            BY <2>1, <2>4 DEF GraceElapses, Typed, TypeOK, IsTable, Sessions
        <2>6. Named'
            BY <2>1, <2>4 DEF GraceElapses, Typed, Named
        <2> QED BY <2>5, <2>6 DEF Typed
    <1>2. CASE \E a \in Account : CooldownEnds(a)
        <2>1. PICK a \in Account : CooldownEnds(a)
            BY <1>2
        <2>2. acct' \in [Account -> AccountRow]
            BY <2>1 DEF CooldownEnds, Typed, TypeOK, AccountRow
        <2>3. TypeOK'
            BY <2>1, <2>2 DEF CooldownEnds, Typed, TypeOK, IsTable
        <2>4. Named'
            BY <2>1 DEF CooldownEnds, Typed, Named, Sessions, Jobs
        <2> QED BY <2>3, <2>4 DEF Typed
    <1> QED BY <1>1, <1>2

LEMMA RefuseKeepsTyped ==
    ASSUME Typed, NEW p \in Process, RefuseTransaction(p)
    PROVE  Typed'
    <1>1. /\ Go(p, Idle) /\ task' \in [Task -> {"running", "ended"}]
          /\ UNCHANGED <<session, job, cand, acct, asked, sends>>
        BY DEF RefuseTransaction, Typed, TypeOK
    <1>2. Idle \in Simple
        BY DEF Idle, Simple
    <1> QED BY <1>1, <1>2, SimpleIsContinuation, GoKeepsTyped

LEMMA TypedInit ==
    ASSUME Init
    PROVE  Typed
    <1>1. /\ IsTable(session, SessionId, SessionRow) /\ Sessions = {}
          /\ IsTable(job, JobId, JobRow) /\ Jobs = {}
        BY NoRowsIsTable DEF Init, Sessions, Jobs
    <1>2. acct \in [Account -> AccountRow]
        BY DEF Init, AccountRow, Standing
    <1>3. DOMAIN pc = Process
        BY DEF Init
    <1>4. ASSUME NEW p \in Process
          PROVE  IsContinuation(pc[p]) /\ NamesIn(pc[p], Sessions, Jobs)
        <2>1. pc[p] \in Simple
            BY DEF Init, Simple
        <2> QED BY <2>1, SimpleIsContinuation
    <1>5. TypeOK
        BY <1>1, <1>2, <1>3, <1>4 DEF TypeOK, Init, CandStatus
    <1>6. Named
        BY <1>1, <1>4 DEF Named, Init
    <1> QED BY <1>5, <1>6 DEF Typed

LEMMA TypedStep ==
    ASSUME Typed, [Next]_vars
    PROVE  Typed'
    <1>1. CASE UNCHANGED vars
        <2>1. TypeOK' /\ Sessions' = Sessions /\ Jobs' = Jobs
            BY <1>1 DEF vars, Typed, TypeOK, IsTable, Sessions, Jobs
        <2>2. Named'
            BY <1>1, <2>1 DEF vars, Typed, Named
        <2> QED BY <2>1, <2>2 DEF Typed
    <1>2. ASSUME NEW p \in Process,
                 CommitTransaction(p) \/ RefuseTransaction(p)
                     \/ InsertSessions(p)
          PROVE  Typed'
        BY <1>2, CommitKeepsTyped, RefuseKeepsTyped, InsertKeepsTyped
    <1>3. ASSUME NEW p \in Thread, Api(p)
          PROVE  Typed'
        BY <1>3, ReportStatusKeepsTyped, ReportResultKeepsTyped,
           RestartKeepsTyped DEF Api
    <1>4. ASSUME NEW t \in Task, Observe(t)
          PROVE  Typed'
        BY <1>4, PlanKeepsTyped, CheckKeepsTyped, ObserveKeepsTyped,
           CloseKeepsTyped DEF Observe
    <1>5. ASSUME NEW c \in Candidate, ApproveAndDispatch(c) \/ Dismiss(c)
          PROVE  Typed'
        BY <1>5, ApproveKeepsTyped, DismissKeepsTyped
    <1>6. ASSUME NEW b \in Tab,
                 SaveAccountForm(b) \/ \E a \in Account : OpenAccountForm(b, a)
          PROVE  Typed'
        BY <1>6, OpenFormKeepsTyped, SaveFormKeepsTyped
    <1> QED BY <1>1, <1>2, <1>3, <1>4, <1>5, <1>6, TimeKeepsTyped DEF Next

\* Every variable keeps its type: what is read, what is about to be written
\* and what is stored, however transactions overlap.
THEOREM TypeCorrect == Spec => []TypeOK
    <1>1. Typed => TypeOK
        BY DEF Typed
    <1> QED BY <1>1, TypedInit, TypedStep, PTL DEF Spec
-------------------------------------------------------------------------------
(***************************************************************************)
(* What steps do to candidates, jobs and accounts.                         *)
(***************************************************************************)
\* A process goes on without reading an account or deciding on a write.
Moves(p, k) ==
    /\ Go(p, k) /\ k.at \notin {"commit", "form"}
    /\ UNCHANGED <<job, cand, acct, sends>>

\* A process decides on a write that neither reviews, dispatches nor counts.
Quiet(w) ==
    /\ DOMAIN w.made = {} /\ DOMAIN w.cands = {} /\ DOMAIN w.accts = {}
    /\ \A j \in DOMAIN w.closed : w.closed[j] = "failed"

Decides(p, w) == Begin(p, w) /\ Quiet(w) /\ UNCHANGED sends

\* Time changes none of it.
Elapses ==
    /\ UNCHANGED <<job, cand, sends, pc>>
    /\ \A a \in Account : acct'[a].sends = acct[a].sends

ShapeOfStep ==
    \/ UNCHANGED <<job, cand, acct, sends, pc>>
    \/ Elapses
    \/ \E p \in Process : CommitTransaction(p)
    \/ \E p \in Process : \E k : Moves(p, k)
    \/ \E p \in Process : \E w : Decides(p, w)
    \/ \E p \in Thread, j \in sends : ReportSendResult(p, j)
    \/ \E c \in Candidate : ApproveAndDispatch(c) \/ Dismiss(c)
    \/ \E b \in Tab : SaveAccountForm(b) \/ \E a \in Account : OpenAccountForm(b, a)

LEMMA StatusIsQuiet ==
    ASSUME NEW p \in Thread, NEW ask, ReportSessionStatus(p, ask)
    PROVE  \/ UNCHANGED <<job, cand, acct, sends, pc>>
           \/ \E w : Decides(p, w)
    <1>1. ASSUME NEW reported, Begin(p, ReportWrite(ask.sess, reported))
          PROVE  \E w : Begin(p, w) /\ Quiet(w)
        <2> DEFINE s == ask.sess
                   ended == IF reported \in Terminal THEN {s} ELSE {}
                   rows == Left(s, WithStatus(session[s], reported))
                   closed == [j \in RunningJobs(ended) |-> "failed"]
                   next == IF reported \in Restartable
                           THEN [at |-> "restart", sess |-> s] ELSE Idle
                   w == [Nothing EXCEPT !.rows = rows, !.closed = closed,
                                        !.next = next]
        <2>1. Begin(p, w)
            BY <1>1 DEF ReportWrite
        <2>2. \A j \in DOMAIN closed : closed[j] = "failed"
            OBVIOUS
        <2> HIDE DEF rows, closed, next
        <2>3. Quiet(w)
            BY <2>2 DEF Quiet, Nothing, NoRows
        <2> QED BY <2>1, <2>3
    <1> QED BY <1>1, ReportWritesOrNot DEF Decides

LEMMA CloseIsQuiet ==
    ASSUME NEW t \in Task, CloseSessions(t)
    PROVE  \E w : Decides(t, w)
    <1> DEFINE overdue == {s \in ActiveOf(t) :
                              CloseDecision(session[s]) = "force_close"}
               told == {s \in ActiveOf(t) :
                           CloseDecision(session[s]) = "dispatch_close"}
               rows == [s \in overdue \cup told |->
                           [read |-> session[s],
                            left |-> WithStatus(session[s],
                                IF s \in told THEN "closing" ELSE "lost")]]
               closed == [j \in RunningJobs(overdue) |-> "failed"]
               w == [Nothing EXCEPT !.rows = rows, !.closed = closed]
    <1>1. Begin(t, w) /\ UNCHANGED sends
        BY DEF CloseSessions
    <1>2. \A j \in DOMAIN closed : closed[j] = "failed"
        OBVIOUS
    <1> HIDE DEF rows, closed
    <1>3. Quiet(w)
        BY <1>2 DEF Quiet, Nothing, NoRows
    <1> QED BY <1>1, <1>3 DEF Decides

LEMMA InsertIsQuiet ==
    ASSUME NEW p \in Process, InsertSessions(p)
    PROVE  \E w : Decides(p, w)
    <1>1. PICK new : Begin(p, [Nothing EXCEPT !.new = new, !.next = pc[p].next])
        BY DEF InsertSessions
    <1>2. Quiet([Nothing EXCEPT !.new = new, !.next = pc[p].next])
        BY DEF Quiet, Nothing, NoRows
    <1> QED BY <1>1, <1>2 DEF Decides, InsertSessions

LEMMA StepHasShape ==
    ASSUME Typed, [Next]_vars
    PROVE  ShapeOfStep
    <1>1. CASE UNCHANGED vars
        BY <1>1 DEF vars, ShapeOfStep
    <1>2. ASSUME NEW p \in Process,
                 CommitTransaction(p) \/ RefuseTransaction(p)
                     \/ InsertSessions(p)
          PROVE  ShapeOfStep
        <2>1. CASE RefuseTransaction(p)
            <3>1. Moves(p, Idle)
                BY <2>1 DEF RefuseTransaction, Moves, Idle
            <3> QED BY <3>1 DEF ShapeOfStep
        <2> QED BY <1>2, <2>1, InsertIsQuiet DEF ShapeOfStep
    <1>3. ASSUME NEW p \in Thread, Api(p)
          PROVE  ShapeOfStep
        <2>1. p \in Process
            BY DEF Process
        <2>2. CASE RestartSession(p)
            <3>1. \E k : Moves(p, k)
                BY <2>2 DEF RestartSession, Moves, Idle
            <3> QED BY <2>1, <3>1 DEF ShapeOfStep
        <2> QED BY <1>3, <2>1, <2>2, StatusIsQuiet DEF Api, ShapeOfStep
    <1>4. ASSUME NEW t \in Task, Observe(t)
          PROVE  ShapeOfStep
        <2>1. t \in Process
            BY DEF Process
        <2>2. CASE PlanEntries(t) \/ ObserveNotLive(t) \/ OperatorObserve(t)
            <3>1. \E k : Moves(t, k)
                BY <2>2 DEF PlanEntries, ObserveNotLive, OperatorObserve, Moves
            <3> QED BY <2>1, <3>1 DEF ShapeOfStep
        <2>3. CASE CheckSessions(t)
            BY <2>3 DEF CheckSessions, ShapeOfStep
        <2> QED BY <1>4, <2>1, <2>2, <2>3, CloseIsQuiet DEF Observe, ShapeOfStep
    <1>5. ASSUME \/ \E s \in Sessions : GraceElapses(s)
                 \/ \E a \in Account : CooldownEnds(a)
          PROVE  ShapeOfStep
        <2>1. \A a \in Account : acct[a] \in AccountRow
            BY DEF Typed, TypeOK
        <2>2. Elapses
            BY <1>5, <2>1 DEF GraceElapses, CooldownEnds, Elapses, AccountRow,
                              Typed, TypeOK
        <2> QED BY <2>2 DEF ShapeOfStep
    <1> QED BY <1>1, <1>2, <1>3, <1>4, <1>5 DEF Next, ShapeOfStep
-------------------------------------------------------------------------------
(***************************************************************************)
(* A candidate is sent once.  Only the admin reviews, so that the candidate *)
(* it is about to approve is still in review when it commits.              *)
(***************************************************************************)
WriteReserved(p, w) ==
    /\ p # Admin => DOMAIN w.made = {} /\ DOMAIN w.cands = {}
    /\ \A c \in DOMAIN w.cands : cand[c] = "pending_review"
    /\ \A j \in DOMAIN w.made :
          /\ j \notin Jobs /\ w.made[j].attempts = {}
          /\ w.made[j].cand \in DOMAIN w.cands
          /\ w.cands[w.made[j].cand] = "approved"
    /\ \A i, j \in DOMAIN w.made : i = j

Reserved ==
    \A p \in Process : pc[p].at = "commit" => WriteReserved(p, pc[p].write)

SentInv == Typed /\ SentOnceWhenApproved /\ Reserved

LEMMA BeginKeepsReserved ==
    ASSUME Typed, Reserved, NEW p \in Process, NEW w, Begin(p, w),
           WriteReserved(p, w)
    PROVE  Reserved'
    <1>1. job' = job /\ cand' = cand /\ Jobs' = Jobs
        BY DEF Begin, Jobs
    <1>2. ASSUME NEW q \in Process, pc'[q].at = "commit"
          PROVE  WriteReserved(q, pc'[q].write)
        BY <1>2 DEF Reserved, Begin, Typed, TypeOK
    <1> QED BY <1>1, <1>2 DEF Reserved, WriteReserved

LEMMA GoKeepsReserved ==
    ASSUME Typed, Reserved, NEW p \in Process, NEW k, Go(p, k),
           k.at # "commit", UNCHANGED <<job, cand>>
    PROVE  Reserved'
    <1>1. Jobs' = Jobs
        BY DEF Jobs
    <1>2. ASSUME NEW q \in Process, pc'[q].at = "commit"
          PROVE  pc[q].at = "commit" /\ pc'[q] = pc[q]
        BY <1>2 DEF Go, Typed, TypeOK
    <1> QED BY <1>1, <1>2 DEF Reserved, WriteReserved

LEMMA CommitKeepsSentInv ==
    ASSUME SentInv, NEW p \in Process, CommitTransaction(p)
    PROVE  SentOnceWhenApproved' /\ Reserved'
    <1> DEFINE w == pc[p].write
    <1>1. /\ IsWrite(w) /\ WriteNames(w, Sessions, Jobs) /\ WriteReserved(p, w)
        BY DEF SentInv, Typed, TypeOK, Named, NamesIn, IsContinuation, Reserved,
               CommitTransaction
    <1>2. /\ job' = JobsAfter(w)
          /\ cand' = [c \in Candidate |->
                         IF c \in DOMAIN w.cands THEN w.cands[c] ELSE cand[c]]
          /\ pc' = [pc EXCEPT ![p] = w.next]
        BY DEF CommitTransaction, Go
    <1> HIDE DEF w
    <1>3. /\ Jobs' = Jobs \cup DOMAIN w.made
          /\ \A j \in Jobs : job'[j].cand = job[j].cand
          /\ \A j \in DOMAIN w.made : j \notin Jobs /\ job'[j] = w.made[j]
        <2>1. Typed
            BY DEF SentInv
        <2>2. /\ DOMAIN JobsAfter(w) = Jobs \cup DOMAIN w.made
              /\ \A j \in Jobs : JobsAfter(w)[j].cand = job[j].cand
              /\ \A j \in DOMAIN w.made \ Jobs : JobsAfter(w)[j] = w.made[j]
            BY <1>1, <2>1, JobsAfterIsTable
        <2>3. \A j \in DOMAIN w.made : j \notin Jobs
            BY <1>1 DEF WriteReserved
        <2>4. Jobs' = DOMAIN job'
            BY DEF Jobs
        <2> QED BY <1>2, <2>2, <2>3, <2>4
    <1>4. \A j \in Jobs : job[j].cand \in Candidate
        BY DEF SentInv, Typed, TypeOK, IsTable, Jobs, JobRow
    <1>5. \A j \in Jobs : cand[job[j].cand] = "approved"
                           /\ job[j].cand \notin DOMAIN w.cands
        BY <1>1 DEF SentInv, SentOnceWhenApproved, WriteReserved
    <1>6. \A j \in DOMAIN w.made :
              /\ w.made[j].cand \in Candidate
              /\ cand'[w.made[j].cand] = "approved"
              /\ w.made[j].cand \in DOMAIN w.cands
        BY <1>1, <1>2 DEF IsWrite, IsTable, WriteReserved, JobRow
    <1>7. \A j \in Jobs : cand'[job[j].cand] = "approved"
        BY <1>2, <1>4, <1>5
    <1>8. ASSUME NEW j \in Jobs'
          PROVE  cand'[job'[j].cand] = "approved"
        BY <1>3, <1>6, <1>7
    <1>9. ASSUME NEW i \in Jobs', NEW j \in Jobs', job'[i].cand = job'[j].cand
          PROVE  i = j
        <2>1. CASE i \in Jobs /\ j \in Jobs
            BY <1>3, <1>9, <2>1 DEF SentInv, SentOnceWhenApproved
        <2>2. CASE i \in DOMAIN w.made /\ j \in DOMAIN w.made
            BY <1>1, <2>2 DEF WriteReserved
        <2>3. CASE i \in Jobs /\ j \in DOMAIN w.made
            BY <1>3, <1>5, <1>6, <1>9, <2>3
        <2>4. CASE j \in Jobs /\ i \in DOMAIN w.made
            BY <1>3, <1>5, <1>6, <1>9, <2>4
        <2> QED BY <1>3, <2>1, <2>2, <2>3, <2>4
    <1>10. SentOnceWhenApproved'
        BY <1>8, <1>9 DEF SentOnceWhenApproved
    <1>11. ASSUME NEW q \in Process, pc'[q].at = "commit"
           PROVE  WriteReserved(q, pc[q].write)'
        <2>1. w.next.at # "commit"
            BY <1>1 DEF IsWrite, Resting, Simple
        <2>2. q # p /\ pc'[q] = pc[q]
            BY <1>2, <1>11, <2>1 DEF SentInv, Typed, TypeOK
        <2>3. WriteReserved(q, pc[q].write)
            BY <1>11, <2>2 DEF SentInv, Reserved
        <2>4. CASE q # Admin
            BY <2>2, <2>3, <2>4 DEF WriteReserved
        <2>5. CASE q = Admin
            <3>1. DOMAIN w.made = {} /\ DOMAIN w.cands = {}
                BY <1>1, <2>2, <2>5 DEF WriteReserved
            <3>2. Jobs' = Jobs
                BY <1>3, <3>1
            <3>3. cand' = cand
                BY <1>2, <3>1 DEF SentInv, Typed, TypeOK
            <3> QED BY <2>2, <2>3, <3>2, <3>3 DEF WriteReserved
        <2> QED BY <2>4, <2>5
    <1>12. Reserved'
        BY <1>11 DEF Reserved
    <1> QED BY <1>10, <1>12

LEMMA QuietIsReserved ==
    ASSUME NEW p, NEW w, Quiet(w)
    PROVE  WriteReserved(p, w)
    BY DEF Quiet, WriteReserved

LEMMA ApproveKeepsReserved ==
    ASSUME Typed, Reserved, NEW c \in Candidate,
           ApproveAndDispatch(c) \/ Dismiss(c)
    PROVE  Reserved'
    <1>1. Admin \in Process /\ cand[c] = "pending_review"
        BY DEF Process, ApproveAndDispatch, Dismiss, CanSend, IsReviewable
    <1>2. CASE Dismiss(c)
        <2> DEFINE w == [Nothing EXCEPT !.cands = [d \in {c} |-> "dismissed"]]
        <2>1. Begin(Admin, w)
            BY <1>2 DEF Dismiss
        <2>2. WriteReserved(Admin, w)
            BY <1>1 DEF WriteReserved, Nothing, NoRows
        <2> QED BY <1>1, <2>1, <2>2, BeginKeepsReserved
    <1>3. CASE ApproveAndDispatch(c)
        <2>1. PICK s \in Sessions, j \in JobId \ Jobs :
                  Begin(Admin, [Nothing EXCEPT
                     !.rows = [r \in {s} |-> Sending(session[s])],
                     !.made = [i \in {j} |->
                                 [cand |-> c, sess |-> s, status |-> "running",
                                  account |-> session[s].account,
                                  attempts |-> {}]],
                     !.cands = [d \in {c} |-> "approved"]])
            BY <1>3 DEF ApproveAndDispatch
        <2> DEFINE rows == [r \in {s} |-> Sending(session[s])]
                   w == [Nothing EXCEPT
                     !.rows = rows,
                     !.made = [i \in {j} |->
                                 [cand |-> c, sess |-> s, status |-> "running",
                                  account |-> session[s].account,
                                  attempts |-> {}]],
                     !.cands = [d \in {c} |-> "approved"]]
        <2>2. Begin(Admin, w)
            BY <2>1
        <2> HIDE DEF rows
        <2>3. WriteReserved(Admin, w)
            BY <1>1 DEF WriteReserved, Nothing, NoRows
        <2> QED BY <1>1, <2>2, <2>3, BeginKeepsReserved
    <1> QED BY <1>2, <1>3

LEMMA SentInvStep ==
    ASSUME SentInv, [Next]_vars
    PROVE  SentInv'
    <1>1. Typed /\ Reserved /\ Typed'
        BY TypedStep DEF SentInv
    <1>2. ASSUME UNCHANGED <<job, cand>>
          PROVE  SentOnceWhenApproved'
        BY <1>2 DEF SentInv, SentOnceWhenApproved, Jobs
    <1>3. ASSUME UNCHANGED <<job, cand, pc>>
          PROVE  Reserved'
        BY <1>3 DEF SentInv, Reserved, WriteReserved, Jobs
    <1>4. CASE UNCHANGED <<job, cand, acct, sends, pc>> \/ Elapses
        BY <1>1, <1>2, <1>3, <1>4 DEF SentInv, Elapses
    <1>5. ASSUME NEW p \in Process, CommitTransaction(p)
          PROVE  SentInv'
        BY <1>1, <1>5, CommitKeepsSentInv DEF SentInv
    <1>6. ASSUME NEW p \in Process, NEW k, Moves(p, k)
          PROVE  SentInv'
        BY <1>1, <1>2, <1>6, GoKeepsReserved DEF SentInv, Moves
    <1>7. ASSUME NEW p \in Process, NEW w, Decides(p, w)
          PROVE  SentInv'
        BY <1>1, <1>2, <1>7, QuietIsReserved, BeginKeepsReserved
            DEF SentInv, Decides, Begin
    <1>8. ASSUME NEW p \in Thread, NEW j \in sends, ReportSendResult(p, j)
          PROVE  SentInv'
        <2>1. CASE UNCHANGED <<task, session, job, cand, acct, pc>>
            BY <1>1, <1>2, <1>3, <2>1 DEF SentInv
        <2>2. ASSUME NEW w, Begin(p, w), DOMAIN w.made = {}, DOMAIN w.cands = {}
              PROVE  SentInv'
            <3>1. WriteReserved(p, w) /\ p \in Process
                BY <2>2 DEF WriteReserved, Process
            <3>2. UNCHANGED <<job, cand>>
                BY <2>2 DEF Begin
            <3> QED BY <1>1, <1>2, <2>2, <3>1, <3>2, BeginKeepsReserved
                    DEF SentInv
        <2>3. ASSUME NEW outcome \in Outcome, NEW rows, NEW closed, NEW accts,
                     Begin(p, [Nothing EXCEPT !.rows = rows, !.closed = closed,
                                              !.accts = accts])
              PROVE  SentInv'
            BY <2>2, <2>3 DEF Nothing, NoRows
        <2> QED BY <1>8, <2>1, <2>3 DEF ReportSendResult
    <1>9. ASSUME NEW c \in Candidate, ApproveAndDispatch(c) \/ Dismiss(c)
          PROVE  SentInv'
        <2>1. UNCHANGED <<job, cand>>
            BY <1>9 DEF ApproveAndDispatch, Dismiss, Begin
        <2> QED BY <1>1, <1>2, <1>9, <2>1, ApproveKeepsReserved DEF SentInv
    <1>10. ASSUME NEW b \in Tab,
                  SaveAccountForm(b) \/ \E a \in Account : OpenAccountForm(b, a)
           PROVE  SentInv'
        <2>1. b \in Process
            BY DEF Process
        <2>2. CASE SaveAccountForm(b)
            <3>1. PICK accts : Begin(b, [Nothing EXCEPT !.accts = accts])
                BY <2>2 DEF SaveAccountForm
            <3>2. WriteReserved(b, [Nothing EXCEPT !.accts = accts])
                BY DEF WriteReserved, Nothing, NoRows
            <3>3. UNCHANGED <<job, cand>>
                BY <3>1 DEF Begin
            <3> QED BY <1>1, <1>2, <2>1, <3>1, <3>2, <3>3, BeginKeepsReserved
                    DEF SentInv
        <2>3. CASE \E a \in Account : OpenAccountForm(b, a)
            <3>1. PICK a \in Account : OpenAccountForm(b, a)
                BY <2>3
            <3> DEFINE k == [at |-> "form", account |-> a, shown |-> acct[a]]
            <3>2. Go(b, k) /\ k.at # "commit" /\ UNCHANGED <<job, cand>>
                BY <3>1 DEF OpenAccountForm
            <3> HIDE DEF k
            <3> QED BY <1>1, <1>2, <2>1, <3>2, GoKeepsReserved DEF SentInv
        <2> QED BY <1>10, <2>2, <2>3
    <1> QED BY <1>1, StepHasShape, <1>4, <1>5, <1>6, <1>7, <1>8, <1>9, <1>10
            DEF ShapeOfStep

LEMMA SentInvInit ==
    ASSUME Init
    PROVE  SentInv
    <1>1. Jobs = {}
        BY DEF Init, Jobs, NoRows
    <1>2. \A p \in Process : pc[p].at # "commit"
        BY DEF Init
    <1> QED BY <1>1, <1>2, TypedInit
            DEF SentInv, SentOnceWhenApproved, Reserved

\* A candidate has at most one job, and only when it was approved, whatever
\* becomes of the sessions while the admin decides: reviews and dispatches
\* come from the one event loop of the admin.
THEOREM SentOnce == Spec => []SentOnceWhenApproved
    <1>1. SentInv => SentOnceWhenApproved
        BY DEF SentInv
    <1> QED BY <1>1, SentInvInit, SentInvStep, PTL DEF Spec
-------------------------------------------------------------------------------
(***************************************************************************)
(* The counter of an account.  A result that is about to be committed is   *)
(* of a send that no other result can report, and what it will set the     *)
(* counter to is covered by the sends that have succeeded with its own; a  *)
(* form shows a counter that was covered when it was opened, and sends do  *)
(* not become undone.                                                      *)
(***************************************************************************)
\* The jobs of account a that a write records as sent.
Succeeding(w, a) ==
    {j \in Jobs : /\ job[j].account = a
                  /\ j \in DOMAIN w.closed /\ w.closed[j] = "success"}

WriteCovered(w) ==
    /\ \A a \in DOMAIN w.accts :
          w.accts[a].left.sends
              <= Cardinality(SuccessfulJobs(a) \cup Succeeding(w, a))
    /\ \A j \in DOMAIN w.closed : w.closed[j] = "success" => j \notin sends

FormCovered(k) == k.shown.sends <= Cardinality(SuccessfulJobs(k.account))

Covered ==
    /\ \A p \in Process :
          /\ pc[p].at = "commit" => WriteCovered(pc[p].write)
          /\ pc[p].at = "form" => FormCovered(pc[p])
    /\ \A j \in sends : "success" \notin job[j].attempts

CountInv == SentInv /\ NeverOvercounted /\ Covered

\* Some more jobs count for no less.
LEMMA CountsGrow ==
    ASSUME NEW S, NEW T, S \subseteq T, T \subseteq JobId
    PROVE  /\ Cardinality(S) \in Nat /\ Cardinality(T) \in Nat
           /\ Cardinality(S) <= Cardinality(T)
    <1>1. IsFiniteSet(JobId)
        BY RowAssumption DEF RowAssumption
    <1>2. IsFiniteSet(T)
        BY <1>1, FS_Subset
    <1> QED BY <1>2, FS_Subset, FS_CardinalityType

LEMMA JobsAreIds ==
    ASSUME Typed, NEW a, NEW w
    PROVE  SuccessfulJobs(a) \subseteq JobId /\ Succeeding(w, a) \subseteq JobId
    BY DEF Typed, TypeOK, IsTable, Jobs, SuccessfulJobs, Succeeding

\* Where jobs and sends stay, what was covered is covered; sends that are
\* carried out leave fewer to report.
LEMMA BeginKeepsCovered ==
    ASSUME Typed, Covered, NEW p \in Process, NEW w, Begin(p, w),
           sends' \subseteq sends,
           \A a \in DOMAIN w.accts :
              w.accts[a].left.sends
                  <= Cardinality(SuccessfulJobs(a) \cup Succeeding(w, a)),
           \A j \in DOMAIN w.closed : w.closed[j] = "success" => j \notin sends'
    PROVE  Covered'
    <1>1. /\ job' = job /\ Jobs' = Jobs
          /\ \A a : SuccessfulJobs(a)' = SuccessfulJobs(a)
          /\ \A v, a : Succeeding(v, a)' = Succeeding(v, a)
        BY DEF Begin, Jobs, SuccessfulJobs, Succeeding
    <1>2. ASSUME NEW q \in Process
          PROVE  /\ pc'[q].at = "commit" => WriteCovered(pc[q].write)'
                 /\ pc'[q].at = "form" => FormCovered(pc[q])'
        <2>1. CASE q = p
            <3>1. pc'[q] = [at |-> "commit", write |-> w]
                BY <2>1 DEF Begin, Typed, TypeOK
            <3> QED BY <1>1, <3>1 DEF WriteCovered
        <2>2. CASE q # p
            <3>1. pc'[q] = pc[q]
                BY <2>2 DEF Begin, Typed, TypeOK
            <3>2. /\ pc[q].at = "commit" => WriteCovered(pc[q].write)
                  /\ pc[q].at = "form" => FormCovered(pc[q])
                BY DEF Covered
            <3> QED BY <1>1, <3>1, <3>2 DEF WriteCovered, FormCovered
        <2> QED BY <2>1, <2>2
    <1>3. \A j \in sends' : "success" \notin job'[j].attempts
        BY <1>1 DEF Covered
    <1> QED BY <1>2, <1>3 DEF Covered

LEMMA GoKeepsCovered ==
    ASSUME Typed, Covered, NEW p \in Process, NEW k, Go(p, k),
           UNCHANGED <<job, sends>>, k.at # "commit",
           k.at = "form" => FormCovered(k)
    PROVE  Covered'
    <1>1. /\ job' = job /\ Jobs' = Jobs
          /\ \A a : SuccessfulJobs(a)' = SuccessfulJobs(a)
          /\ \A v, a : Succeeding(v, a)' = Succeeding(v, a)
        BY DEF Jobs, SuccessfulJobs, Succeeding
    <1>2. ASSUME NEW q \in Process
          PROVE  /\ pc'[q].at = "commit" => WriteCovered(pc[q].write)'
                 /\ pc'[q].at = "form" => FormCovered(pc[q])'
        <2>1. CASE q = p
            <3>1. pc'[q] = k
                BY <2>1 DEF Go, Typed, TypeOK
            <3> QED BY <1>1, <3>1 DEF FormCovered
        <2>2. CASE q # p
            <3>1. pc'[q] = pc[q]
                BY <2>2 DEF Go, Typed, TypeOK
            <3>2. /\ pc[q].at = "commit" => WriteCovered(pc[q].write)
                  /\ pc[q].at = "form" => FormCovered(pc[q])
                BY DEF Covered
            <3> QED BY <1>1, <3>1, <3>2 DEF WriteCovered, FormCovered
        <2> QED BY <2>1, <2>2
    <1>3. \A j \in sends' : "success" \notin job'[j].attempts
        BY <1>1 DEF Covered
    <1> QED BY <1>2, <1>3 DEF Covered

LEMMA CommitKeepsCounted ==
    ASSUME CountInv, NEW p \in Process, CommitTransaction(p)
    PROVE  NeverOvercounted' /\ Covered'
    <1> DEFINE w == pc[p].write
    <1>1. /\ Typed /\ Typed' /\ IsWrite(w) /\ WriteNames(w, Sessions, Jobs)
          /\ WriteReserved(p, w) /\ WriteCovered(w)
        BY CommitKeepsTyped
            DEF CountInv, SentInv, Typed, TypeOK, Named, NamesIn,
                IsContinuation, Reserved, Covered, CommitTransaction
    <1>2. /\ job' = JobsAfter(w)
          /\ acct' = [a \in Account |->
                         IF a \in DOMAIN w.accts
                         THEN UpdatedAccount(acct[a], w.accts[a]) ELSE acct[a]]
          /\ sends' = sends \cup DOMAIN w.made
          /\ pc' = [pc EXCEPT ![p] = w.next]
        BY DEF CommitTransaction, Go
    <1> HIDE DEF w
    <1>3. /\ Jobs' = Jobs \cup DOMAIN w.made
          /\ \A j \in Jobs :
                /\ job'[j].account = job[j].account
                /\ job'[j].attempts = job[j].attempts \cup
                       {o \in Outcome : j \in DOMAIN w.closed /\ w.closed[j] = o}
          /\ \A j \in DOMAIN w.made : j \notin Jobs /\ job'[j] = w.made[j]
        <2>1. /\ DOMAIN JobsAfter(w) = Jobs \cup DOMAIN w.made
              /\ \A j \in Jobs :
                    /\ JobsAfter(w)[j].account = job[j].account
                    /\ JobsAfter(w)[j].attempts = job[j].attempts \cup
                         {o \in Outcome : j \in DOMAIN w.closed
                                          /\ w.closed[j] = o}
              /\ \A j \in DOMAIN w.made \ Jobs : JobsAfter(w)[j] = w.made[j]
            BY <1>1, JobsAfterIsTable
        <2>2. \A j \in DOMAIN w.made : j \notin Jobs
            BY <1>1 DEF WriteReserved
        <2>3. Jobs' = DOMAIN job'
            BY DEF Jobs
        <2> QED BY <1>2, <2>1, <2>2, <2>3
    <1>4. ASSUME NEW a
          PROVE  /\ SuccessfulJobs(a) \cup Succeeding(w, a)
                        \subseteq SuccessfulJobs(a)'
                 /\ SuccessfulJobs(a)' \subseteq JobId
        <2>1. ASSUME NEW j \in SuccessfulJobs(a) \cup Succeeding(w, a)
              PROVE  j \in SuccessfulJobs(a)'
            <3>1. j \in Jobs /\ job[j].account = a
                BY DEF SuccessfulJobs, Succeeding
            <3>2. "success" \in job'[j].attempts
                BY <1>3, <2>1, <3>1 DEF SuccessfulJobs, Succeeding, Outcome
            <3> QED BY <1>3, <3>1, <3>2 DEF SuccessfulJobs
        <2>2. SuccessfulJobs(a)' \subseteq JobId
            BY <1>1 DEF Typed, TypeOK, IsTable, Jobs, SuccessfulJobs
        <2> QED BY <2>1, <2>2
    <1>5. ASSUME NEW a \in Account
          PROVE  acct'[a].sends <= Cardinality(SuccessfulJobs(a)')
        <2>1. /\ acct[a] \in AccountRow
              /\ acct[a].sends <= Cardinality(SuccessfulJobs(a))
            BY <1>1 DEF CountInv, NeverOvercounted, Typed, TypeOK
        <2>2. /\ Cardinality(SuccessfulJobs(a)) \in Nat
              /\ Cardinality(SuccessfulJobs(a)')  \in Nat
              /\ Cardinality(SuccessfulJobs(a))
                     <= Cardinality(SuccessfulJobs(a)')
            BY <1>4, CountsGrow
        <2>3. /\ Cardinality(SuccessfulJobs(a) \cup Succeeding(w, a)) \in Nat
              /\ Cardinality(SuccessfulJobs(a) \cup Succeeding(w, a))
                     <= Cardinality(SuccessfulJobs(a)')
            BY <1>4, CountsGrow
        <2>4. CASE a \in DOMAIN w.accts
            <3>1. w.accts[a] \in [read : AccountRow, left : AccountRow]
                BY <1>1, <2>4 DEF IsWrite, IsTable
            <3>2. acct'[a].sends \in {acct[a].sends, w.accts[a].left.sends}
                BY <1>2, <2>1, <2>4, <3>1, UpdatedAccountIsRow
            <3>3. w.accts[a].left.sends
                      <= Cardinality(SuccessfulJobs(a) \cup Succeeding(w, a))
                BY <1>1, <2>4 DEF WriteCovered
            <3>4. acct[a].sends \in Nat /\ w.accts[a].left.sends \in Nat
                BY <2>1, <3>1 DEF AccountRow
            <3> QED BY <2>1, <2>2, <2>3, <3>2, <3>3, <3>4
        <2>5. CASE a \notin DOMAIN w.accts
            <3>1. acct'[a].sends = acct[a].sends /\ acct[a].sends \in Nat
                BY <1>2, <2>1, <2>5 DEF AccountRow
            <3> QED BY <2>1, <2>2, <3>1
        <2> QED BY <2>4, <2>5
    <1>6. NeverOvercounted'
        BY <1>5 DEF NeverOvercounted
    <1>7. ASSUME NEW j \in sends'
          PROVE  "success" \notin job'[j].attempts
        <2>1. CASE j \in sends
            <3>1. j \in Jobs /\ "success" \notin job[j].attempts
                BY <1>1, <2>1 DEF CountInv, Covered, Typed, Named
            <3>2. ~(j \in DOMAIN w.closed /\ w.closed[j] = "success")
                BY <1>1, <2>1 DEF WriteCovered
            <3> QED BY <1>3, <3>1, <3>2
        <2>2. CASE j \in DOMAIN w.made
            BY <1>1, <1>3, <2>2 DEF WriteReserved
        <2> QED BY <1>2, <2>1, <2>2
    <1>8. ASSUME NEW q \in Process, pc'[q].at \in {"commit", "form"}
          PROVE  q # p /\ pc'[q] = pc[q]
        <2>1. w.next.at \notin {"commit", "form"}
            BY <1>1 DEF IsWrite, Resting, Simple
        <2> QED BY <1>1, <1>2, <1>8, <2>1 DEF Typed, TypeOK
    <1>9. ASSUME NEW q \in Process, pc'[q].at = "commit"
          PROVE  WriteCovered(pc[q].write)'
        <2> DEFINE v == pc[q].write
        <2>1. /\ pc'[q] = pc[q] /\ WriteCovered(v) /\ IsWrite(v)
              /\ DOMAIN v.closed \subseteq Jobs
            BY <1>1, <1>8, <1>9 DEF CountInv, Covered, Typed, TypeOK, Named,
                                    NamesIn, WriteNames, IsContinuation
        <2>4. v' = v
            BY <2>1
        <2> HIDE DEF v
        <2>2. ASSUME NEW a \in DOMAIN v.accts
              PROVE  v.accts[a].left.sends <=
                         Cardinality(SuccessfulJobs(a)' \cup Succeeding(v, a)')
            <3>1. SuccessfulJobs(a) \cup Succeeding(v, a)
                      \subseteq SuccessfulJobs(a)' \cup Succeeding(v, a)'
                BY <1>3, <1>4, <2>4 DEF Succeeding
            <3>2. SuccessfulJobs(a)' \cup Succeeding(v, a)' \subseteq JobId
                BY <1>1, <1>4, <2>4 DEF Succeeding, Typed, TypeOK, IsTable, Jobs
            <3>3. v.accts[a].left.sends \in Nat
                BY <2>1 DEF IsWrite, IsTable, AccountRow
            <3>4. v.accts[a].left.sends
                      <= Cardinality(SuccessfulJobs(a) \cup Succeeding(v, a))
                BY <2>1 DEF WriteCovered
            <3> QED BY <3>1, <3>2, <3>3, <3>4, CountsGrow
        <2>3. ASSUME NEW j \in DOMAIN v.closed, v.closed[j] = "success"
              PROVE  j \notin sends'
            BY <1>2, <1>3, <2>1, <2>3 DEF WriteCovered
        <2> QED BY <2>2, <2>3, <2>4 DEF WriteCovered, v
    <1>10. ASSUME NEW q \in Process, pc'[q].at = "form"
           PROVE  FormCovered(pc[q])'
        <2>1. /\ pc'[q] = pc[q] /\ FormCovered(pc[q])
              /\ pc[q].shown \in AccountRow
            BY <1>1, <1>8, <1>10 DEF CountInv, Covered, Typed, TypeOK,
                                     IsContinuation
        <2>2. pc[q].shown.sends \in Nat
            BY <2>1 DEF AccountRow
        <2>3. /\ Cardinality(SuccessfulJobs(pc[q].account)) \in Nat
              /\ Cardinality(SuccessfulJobs(pc[q].account)') \in Nat
              /\ Cardinality(SuccessfulJobs(pc[q].account))
                     <= Cardinality(SuccessfulJobs(pc[q].account)')
            <3> DEFINE a == pc[q].account
            <3>1. a' = a
                BY <2>1
            <3>2. SuccessfulJobs(a) \subseteq SuccessfulJobs(a)'
                BY <1>4, <3>1
            <3>3. SuccessfulJobs(a)' \subseteq JobId
                BY <1>4, <3>1
            <3> QED BY <3>2, <3>3, CountsGrow
        <2> QED BY <2>1, <2>2, <2>3 DEF FormCovered
    <1>11. Covered'
        BY <1>7, <1>9, <1>10 DEF Covered
    <1> QED BY <1>6, <1>11

\* The result of a send counts at most one send more than there were.
LEMMA ResultKeepsCovered ==
    ASSUME Typed, NeverOvercounted, Covered, NEW p \in Thread, NEW j \in sends,
           ReportSendResult(p, j)
    PROVE  Covered'
    <1>1. p \in Process /\ sends' = sends \ {j}
        BY DEF Process, ReportSendResult
    <1>2. CASE UNCHANGED <<task, session, job, cand, acct, pc>>
        BY <1>1, <1>2 DEF Covered, WriteCovered, FormCovered, SuccessfulJobs,
                          Succeeding, Jobs
    <1>3. CASE \E outcome \in Outcome :
                  Begin(p, [Nothing EXCEPT
                      !.rows = Left(job[j].sess, SentBy(session[job[j].sess])),
                      !.closed = [i \in {j} |-> outcome],
                      !.accts = Counted(job[j].account, outcome)])
        <2>1. PICK outcome \in Outcome :
                  Begin(p, [Nothing EXCEPT
                      !.rows = Left(job[j].sess, SentBy(session[job[j].sess])),
                      !.closed = [i \in {j} |-> outcome],
                      !.accts = Counted(job[j].account, outcome)])
            BY <1>3
        <2> DEFINE rows == Left(job[j].sess, SentBy(session[job[j].sess]))
                   closed == [i \in {j} |-> outcome]
                   accts == Counted(job[j].account, outcome)
                   w == [Nothing EXCEPT !.rows = rows, !.closed = closed,
                                        !.accts = accts]
        <2>2. Begin(p, w)
            BY <2>1
        <2>3. j \in Jobs /\ j \in JobId /\ job[j].account \in Account
            BY DEF Typed, TypeOK, Named, IsTable, Jobs, JobRow
        <2>4. \A b \in DOMAIN accts :
                  /\ b = job[j].account /\ outcome = "success"
                  /\ accts[b].left.sends = acct[b].sends + 1
            BY <2>3, CountedIsTable
        <2> HIDE DEF rows, accts
        <2>5. w.accts = accts /\ w.closed = closed
            BY DEF Nothing
        <2>6. ASSUME NEW a \in DOMAIN w.accts
              PROVE  w.accts[a].left.sends
                        <= Cardinality(SuccessfulJobs(a) \cup Succeeding(w, a))
            <3>1. /\ a = job[j].account /\ outcome = "success"
                  /\ w.accts[a].left.sends = acct[a].sends + 1
                BY <2>4, <2>5
            <3>2. Succeeding(w, a) = {j}
                BY <2>3, <2>5, <3>1 DEF Succeeding
            <3>3. j \notin SuccessfulJobs(a) /\ SuccessfulJobs(a) \subseteq JobId
                BY JobsAreIds DEF Covered, SuccessfulJobs
            <3>4. IsFiniteSet(SuccessfulJobs(a))
                BY <3>3, RowAssumption, FS_Subset DEF RowAssumption
            <3>5. Cardinality(SuccessfulJobs(a) \cup {j})
                      = Cardinality(SuccessfulJobs(a)) + 1
                BY <3>3, <3>4, FS_AddElement
            <3>6. /\ acct[a].sends \in Nat
                  /\ acct[a].sends <= Cardinality(SuccessfulJobs(a))
                BY <2>3, <3>1 DEF NeverOvercounted, Typed, TypeOK, AccountRow
            <3>7. Cardinality(SuccessfulJobs(a)) \in Nat
                BY <3>4, FS_CardinalityType
            <3> HIDE DEF w
            <3> QED BY <3>1, <3>2, <3>5, <3>6, <3>7
        <2>7. \A i \in DOMAIN w.closed : i \notin sends'
            BY <1>1, <2>5
        <2> HIDE DEF w
        <2> QED BY <1>1, <2>2, <2>6, <2>7, BeginKeepsCovered
    <1> QED BY <1>2, <1>3 DEF ReportSendResult

LEMMA CountInvStep ==
    ASSUME CountInv, [Next]_vars
    PROVE  CountInv'
    <1>1. Typed /\ SentInv /\ SentInv' /\ Covered /\ NeverOvercounted
        BY SentInvStep DEF CountInv, SentInv
    <1>2. ASSUME UNCHANGED job,
                 \A a \in Account : acct'[a].sends = acct[a].sends
          PROVE  NeverOvercounted'
        BY <1>1, <1>2 DEF NeverOvercounted, SuccessfulJobs, Jobs
    <1>3. ASSUME UNCHANGED <<job, pc, sends>>
          PROVE  Covered'
        BY <1>1, <1>3 DEF Covered, WriteCovered, FormCovered, SuccessfulJobs,
                          Succeeding, Jobs
    <1>4. CASE UNCHANGED <<job, cand, acct, sends, pc>> \/ Elapses
        BY <1>1, <1>2, <1>3, <1>4 DEF CountInv, Elapses
    <1>5. ASSUME NEW p \in Process, CommitTransaction(p)
          PROVE  CountInv'
        BY <1>1, <1>5, CommitKeepsCounted DEF CountInv
    <1>6. ASSUME NEW p \in Process, NEW k, Moves(p, k)
          PROVE  CountInv'
        BY <1>1, <1>2, <1>6, GoKeepsCovered DEF CountInv, Moves
    <1>7. ASSUME NEW p \in Process, NEW w, Decides(p, w)
          PROVE  CountInv'
        BY <1>1, <1>2, <1>7, BeginKeepsCovered
            DEF CountInv, Decides, Begin, Quiet
    <1>8. ASSUME NEW p \in Thread, NEW j \in sends, ReportSendResult(p, j)
          PROVE  CountInv'
        <2>1. UNCHANGED <<job, acct>>
            BY <1>8 DEF ReportSendResult, Begin
        <2> QED BY <1>1, <1>2, <1>8, <2>1, ResultKeepsCovered DEF CountInv
    <1>9. ASSUME NEW c \in Candidate, ApproveAndDispatch(c) \/ Dismiss(c)
          PROVE  CountInv'
        <2>1. ASSUME NEW rows, NEW made, NEW cands
              PROVE  LET w == [Nothing EXCEPT !.rows = rows, !.made = made,
                                              !.cands = cands]
                     IN  DOMAIN w.accts = {} /\ DOMAIN w.closed = {}
            BY DEF Nothing, NoRows
        <2>2. \E w : Begin(Admin, w) /\ DOMAIN w.accts = {}
                     /\ DOMAIN w.closed = {}
            <3>1. CASE ApproveAndDispatch(c)
                BY <2>1, <3>1 DEF ApproveAndDispatch
            <3>2. CASE Dismiss(c)
                <4> DEFINE w == [Nothing EXCEPT
                                    !.cands = [d \in {c} |-> "dismissed"]]
                <4>1. Begin(Admin, w)
                    BY <3>2 DEF Dismiss
                <4>2. DOMAIN w.accts = {} /\ DOMAIN w.closed = {}
                    BY DEF Nothing, NoRows
                <4> QED BY <4>1, <4>2
            <3> QED BY <1>9, <3>1, <3>2
        <2>3. UNCHANGED <<job, acct, sends>> /\ Admin \in Process
            BY <1>9 DEF ApproveAndDispatch, Dismiss, Begin, Process
        <2> QED BY <1>1, <1>2, <2>2, <2>3, BeginKeepsCovered DEF CountInv
    <1>10. ASSUME NEW b \in Tab, SaveAccountForm(b)
           PROVE  CountInv'
        <2> DEFINE a == pc[b].account
        <2>1. PICK standing \in Standing :
                  Begin(b, [Nothing EXCEPT
                      !.accts = [x \in {a} |->
                          [read |-> acct[a],
                           left |-> [pc[b].shown EXCEPT
                                        !.standing = standing]]]])
            BY <1>10 DEF SaveAccountForm, Standing
        <2> DEFINE left == [pc[b].shown EXCEPT !.standing = standing]
                   w == [Nothing EXCEPT
                      !.accts = [x \in {a} |-> [read |-> acct[a], left |-> left]]]
        <2>2. Begin(b, w)
            BY <2>1
        <2>3. /\ b \in Process /\ pc[b].at = "form"
              /\ UNCHANGED <<job, acct, sends>>
            BY <1>10, <2>2 DEF Process, SaveAccountForm, Begin
        <2>4. left.sends = pc[b].shown.sends /\ left \in AccountRow
            BY <1>1, <2>3, SavedForm
        <2>5. left.sends \in Nat /\ left.sends <= Cardinality(SuccessfulJobs(a))
            BY <1>1, <2>3, <2>4 DEF Covered, FormCovered, AccountRow
        <2> HIDE DEF left, a
        <2>6. /\ DOMAIN w.accts = {a} /\ w.accts[a].left = left
              /\ DOMAIN w.closed = {}
            BY DEF Nothing, NoRows
        <2> HIDE DEF w
        <2>7. ASSUME NEW x \in DOMAIN w.accts
              PROVE  w.accts[x].left.sends
                        <= Cardinality(SuccessfulJobs(x) \cup Succeeding(w, x))
            <3>1. x = a /\ w.accts[x].left = left
                BY <2>6
            <3>2. /\ Cardinality(SuccessfulJobs(a)) \in Nat
                  /\ Cardinality(SuccessfulJobs(a) \cup Succeeding(w, a)) \in Nat
                  /\ Cardinality(SuccessfulJobs(a))
                         <= Cardinality(SuccessfulJobs(a) \cup Succeeding(w, a))
                BY <1>1, JobsAreIds, CountsGrow
            <3> QED BY <2>5, <3>1, <3>2
        <2> QED BY <1>1, <1>2, <2>2, <2>3, <2>6, <2>7, BeginKeepsCovered
                DEF CountInv
    <1>11. ASSUME NEW b \in Tab, NEW a \in Account, OpenAccountForm(b, a)
           PROVE  CountInv'
        <2> DEFINE k == [at |-> "form", account |-> a, shown |-> acct[a]]
        <2>1. /\ Go(b, k) /\ k.at # "commit" /\ b \in Process
              /\ UNCHANGED <<job, acct, sends>>
            BY <1>11 DEF OpenAccountForm, Process
        <2>2. FormCovered(k)
            BY <1>1 DEF FormCovered, NeverOvercounted
        <2> HIDE DEF k
        <2> QED BY <1>1, <1>2, <2>1, <2>2, GoKeepsCovered DEF CountInv
    <1> QED BY <1>1, StepHasShape, <1>4, <1>5, <1>6, <1>7, <1>8, <1>9, <1>10,
               <1>11 DEF ShapeOfStep

LEMMA CountInvInit ==
    ASSUME Init
    PROVE  CountInv
    <1>1. SentInv
        BY SentInvInit
    <1>2. /\ \A p \in Process : pc[p].at \notin {"commit", "form"}
          /\ sends = {}
        BY DEF Init
    <1>3. ASSUME NEW a \in Account
          PROVE  acct[a].sends <= Cardinality(SuccessfulJobs(a))
        <2>1. SuccessfulJobs(a) = {}
            BY DEF SuccessfulJobs, Init, Jobs, NoRows
        <2>2. acct[a].sends = 0
            BY DEF Init
        <2> QED BY <2>1, <2>2, FS_EmptySet
    <1> QED BY <1>1, <1>2, <1>3 DEF CountInv, NeverOvercounted, Covered

\* The counter of an account is never ahead of the sends that have succeeded,
\* for any number of results, forms and threads that overlap.
THEOREM CounterIsCovered == Spec => []NeverOvercounted
    <1>1. CountInv => NeverOvercounted
        BY DEF CountInv
    <1> QED BY <1>1, CountInvInit, CountInvStep, PTL DEF Spec
===============================================================================
