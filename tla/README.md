# smhelper: specifications of the live core, its segment pipeline and its command line

smhelper follows live rooms with many platform accounts: a **center** watches a
room, records it, turns the recording into candidate questions for an operator,
and lets remote **browser nodes** keep one logged-in browser per account in the
room, through which approved questions are sent. Before it, and still beside it in
the same command line, is the **live assistant**: commands that log one account
in or hold a console in one room, and share a state file. This directory holds
TLA+ specifications of both, TLC configurations that check them on small
instances, and theorems with proofs for TLAPS. Source paths are relative to
`src/src/smhelper/`.

    tlasany LiveCenter.tla                          parse
    tlc -config core.cfg MCLiveCenter.tla           check one configuration
    tlc -config segments.cfg MCSegmentPipeline.tla
    tlc -config rows.cfg MCRowTransactions.tla
    tlc -config local_state.cfg MCLiveAssistant.tla
    tlapm LiveCenterSlotProofs.tla                  check the proofs of a module

## 1. Inventory

| part | state it keeps | operations | correct when |
|---|---|---|---|
| observer run (`live_task_observer`, `live_task_starter`, `live_task_terminator`; one long Celery task per run) | `live_tasks.status`, the open observer page | start the task, schedule checks, end the task | an ended task gets nothing new; everything of it ends |
| entry planning (`plan_account_entries`, `account_entry_planner`, `rendezvous_hashing`) | none; reads accounts, nodes, sessions | decide which account enters on which node | a decision fits the nodes as counted, ranking followed |
| entry dispatcher (`account_entry_dispatcher`) | `account_live_sessions` | insert planned sessions, publish entries | one active session per account and task |
| restarter (`account_session_restarter`) | as above | rebuild a failed or lost session | bounded chain of rebuilds |
| health checker | none | publish a check per open session | a check does no harm to a send |
| shutdown (`shutdown_policy`, `live_task_shutdown_coordinator`) | sessions, jobs, attempts | close, give up or leave each session | jobs end with their session |
| review and dispatch (`candidate_dispatcher`, `candidate_reviewer`, admin views) | `candidate_questions`, `dispatch_jobs`, sessions | approve and dispatch, reject, ignore | one job per approved candidate, limits kept |
| center API (`web/api`) | sessions, jobs, attempts, accounts, nodes | session status, send result, heartbeat, storage state | late and repeated reports change nothing that is over |
| browser node (`node_tasks`, `node_handler`, `live_room_operator`) | open browsers, per pool process | enter, send, check, close; report | the center's picture of the browsers is right |
| Celery and the broker | a queue per node, countdowns | publish, take | outside `src/` |
| admin forms | every table | edit tasks, accounts, nodes | - |
| segment pipeline (`ffmpeg_process_runner`, `segment_task_scheduler`, `segment_processor`, `process_segment`) | `live_segments`, `transcripts`, files, ffmpeg processes | record, scan, schedule, process | each finished file is processed once |
| page automation, stream discovery | an open page | observe the room | the end of the room is seen |
| media tools, ASR, LLM | none of the center's state | outside calls | - |
| live assistant (`live_assistant/`: CLI, handlers, state file, browser) | one JSON file of accounts and login profiles; browser data per profile | log in by hand, by phone or to observe; room console; enter-room | a login is not forgotten, the file can be read, consoles report what happened |
| configuration, seeding, diagnostics | - | wiring, tools | - |

**How they interact.** The parts of the center share the database and nothing
else. Each handler runs one or several transactions; what it has to tell a node
is published through Celery *after* its commit. A node process takes a task,
acts in a browser and reports over HTTP; the handler of the report may, after
its own commit, read again (rebuild?), insert and publish. The web process (API
threads, admin event loop), the center's pool processes and the node's pool
processes all run at the same time. The center's pool takes observer runs and
segment tasks from one queue; an observer run keeps its process until the room is over,
and ffmpeg is a process of its own that nobody waits for.
The commands of the live assistant share nothing with the center but the entry point
of the program: `cli.py` builds their group, and with it the view of the state file, before
any command runs, so that the web server and the workers read that file when they start, too.

**What is hard.** (1) Between the read of one transaction and the write of the
next, anything may happen: planning against planning, rebuilding against the end
of the task. (2) Reports come late, twice or not at all, and for sessions that
have moved on. (3) Publishing after the commit can fail half-way. (4) Entries
carry a countdown and are overtaken. (5) Browsers live in one process's memory
while tasks go to any process of the node. (6) Timeouts exist in the documents
more than in the code. (7) A directory that ffmpeg writes is the only link between
recording and scheduling: a scan guesses what is finished, and any run starts again
at file 0. (8) Rows are read without locks and written without versions, so that
a decision may be committed over a row it was not made for. (9) The state file is read once
per process and written whole, in place, at the end. `PROJECT.json` lists each hazard at its line with the
properties that watch it.

## 2. Modules

| module | what it is |
|---|---|
| `LiveDomain` | rows, statuses and pure decisions (slot key, report acceptance, restart rule, shutdown policy, node ranking, entry plans, account availability) as constant operators |
| `LiveCenter` | the state machine: database, Celery queues, browsers, and one program counter per process; EXTENDS `LiveDomain` |
| `AccountSlots` | abstract specification: a slot (account in a task) is occupied by one session at a time, each session occupies it once |
| `DispatchLedger` | abstract specification: a question is given once to one account, gets one result, and is counted if it succeeded |
| `SegmentPipeline` | the state machine of one task's recording: ffmpeg, files, rows, queue, and one program counter per process of the center's pool |
| `SegmentLedger` | abstract specification: files are taken in order and without gaps, answers of a taken file are for good and bounded in number |
| `RowTransactions` | the handlers that share rows once more, each transaction split into its read and its commit; EXTENDS `LiveDomain` |
| `LiveAssistant` | processes of the command line, the state file, the browser of a login or a room |
| `MCLiveCenter`, `MCSegmentPipeline`, `MCRowTransactions`, `MCLiveAssistant` | values of the constants, symmetries and bounds for TLC |
| `LiveDomainProofs`, `LiveCenterSlotProofs`, `LiveCenterJobProofs`, `LiveCenterSendProofs`, `LiveCenterNodeProofs`, `SegmentPipelineProofs`, `RowTransactionProofs`, `LiveAssistantProofs` | lemmas and theorems, see section 5 |

### State of `LiveCenter`

| variable | code |
|---|---|
| `task`, `session`, `job`, `cand`, `acct`, `nodeRow` | the tables `live_tasks`, `account_live_sessions`, `dispatch_jobs` with `send_attempts`, `candidate_questions`, `platform_accounts` with `account_auth_states`, `worker_nodes` |
| `queue`, `delayed` | what Celery holds for each node: tasks ready in order, entries whose countdown is running |
| `browsers` | `XhsLiveRoomBrowserOperator._sessions` of each pool process |
| `pc` | what each process still has to do, with the values it has read: the local variables of a handler that survive a commit |

A session row says `keyed` where the column `active_slot_key` is not NULL, and
keeps the age of `send_started_at` relative to the grace period instead of a
time. An account row joins `enabled` with the state of the login
(`standing`) and keeps `cooling` instead of `cooldown_until`.

### Actions

| action | code |
|---|---|
| `OperatorObserve` | "Observe" in the admin; the observer task starts |
| `ObserveLive`, `ObserveStillLive`, `ObserveNotLive` | `_handle_observation` with `start_live_task` (first transaction), nothing to start, `end_live_task` (first transaction) |
| `PlanEntries`, `InsertSessions` | `plan_and_dispatch`: the planner's read, the dispatcher's transaction |
| `PublishOne` | one `send_task` after a commit |
| `ScheduleChecks`, `CloseSessions` | `check_live_task_sessions`, `close_active_sessions` |
| `GenerateCandidate` | the last transaction of `process_segment` |
| `ApproveAndDispatch`, `Dismiss` | the admin's batch actions: `approve_and_dispatch`, `reject` and `ignore` |
| `EditTask`, `EditAccount`, `EditNode` | admin forms (a node row may also be deleted) |
| `EnterLiveRoom`, `SendComment`, `CheckSession`, `CloseSession` | a task of a node process up to its report |
| `ReportSessionStatus`, `RestartSession`, `ReportSendResult`, `WorkerHeartbeat` | the handlers of `web/api.py`, one step per transaction |
| `GraceElapses`, `CooldownEnds` | time passes |
| `Abandon`, `WorkerDies` | a process dies, a publication or report is lost; only where `Unreliable` |

### Abstractions, and what they leave out

* A database transaction is one step, so that the unique key on `active_slot_key`
  never has to refuse a commit. Transactions that read the same row before either
  writes it are the subject of `RowTransactions`; what `LiveCenter` shows of
  sessions and jobs is what holds when they do not meet.
* A worker waits for the answer to its report, so the API handler's later steps
  are kept in the worker's `pc`. The HTTP timeout that lets the worker go on
  while the handler still runs is not modelled.
* Celery acknowledges a task when it is taken (the default, which `app.py` keeps), so
  a task of a node is delivered at most once. A queue is served in order; a countdown ends at any time.
* The status `created`/`ready` of a task behaves like `pending`; an observation of
  unknown status (a room that has not begun) only writes a failure reason and is a
  stuttering step.
* One platform; queue name and number of browsers of a node are constants; the
  column `active_browser_sessions` is 0, which is what a node reports.
* A session's own cooldown is the account's: both are written by the same
  statement, and the account's is looked at as well.
* The batch an operator approves, the final texts and the weighted choice are
  together any injective match of candidates to sessions that may take them.
* Candidate rows are changed by review only (in `RowTransactions` as well). The admin form that edits the final
  text also writes the other columns back; this is in the list of hazards.
* Ids are taken from finite sets: when `SessionId` or `JobId` is used up nothing
  more is created (a bound). `QueueBound` makes an observer wait before it
  publishes a check or close to a queue of that length (a bound: the code would
  publish for ever).

### `SegmentPipeline`

| variable | code |
|---|---|
| `room` | the room, as `PlaywrightLivePageObserver` will find it |
| `status` | `live_tasks.status` of the one task |
| `rec` | ffmpeg processes started by `SubprocessFfmpegRunner`, with the file each has open |
| `files` | the `.mp4` files of the task's directory, by number |
| `seg` | `live_segments` with its `transcripts`: file, completed, outcomes persisted |
| `queue` | tasks of the center in Celery: observe, process segment `s` |
| `pc` | the step each pool process is at, with the paths or rows it holds |

| action | code |
|---|---|
| `RoomChanges` | the anchor (outside) |
| `RecorderOpensFile`, `RecorderStops` | ffmpeg with `-f segment -y` |
| `OperatorObserve`, `EditTask` | the admin |
| `TakeObserve`, `TakeSegment` | Celery hands a task to a process; the kinds in `Redelivered` it may deliver again, also while a process works on one |
| `ObserveLive`, `MarkRunning` | `start_live_task`: ffmpeg first, then the commit of `running` |
| `ObserveStillLive`, `ObserveNotLive` | the observation with nothing to start, and the end of the task |
| `Scan`, `LookUp`, `InsertNew`, `PublishSegment` | `schedule_completed_segments`: list the directory, look which paths have rows, commit rows, publish each |
| `ProcessMedia`, `LookAgain`, `PersistAnswer` | `process_segment` and the transaction that writes its outcome |
| `WorkerDies` | a process dies, or an exception ends its task |

Here a transaction that looks and then writes is two steps, since two processes may
interleave in it. Celery's redelivery is a task that stays in the queue when it is
taken. Frames, audio, text, question and candidate are one `Outcome`, `success` or
`failed`; a failed segment is completed too. An observation is decided from the
signals of the page (`Signals`, `Observation`), which follow the room. Bounds: `LastFile`, `MaxObservers` (observer runs at a time),
the ids `Recorder` and `SegmentId`. `Fails`, `Redelivered`, `Reopens` and `Breaks` say which of the
environment's freedoms an instance has. At the end of the room the last scan takes every file and
nobody looks whether ffmpeg has exited; the model has it write on for as long as it likes.

### `RowTransactions`

`LiveCenter` is about queues, nodes and handlers; `RowTransactions` about what
the handlers do to rows when their transactions overlap. It keeps the tables `task`,
`session`, `job`, `cand`, `acct` and the domain operators, and drops queues and browsers: `asked` are the
tasks other than sends that nodes have not answered, `sends` the send tasks. A new session is asked to
enter once, a session that is left closing to close, one that waits or sends is checked by the observer;
the node answers each task once, with either outcome (`Answers`), in any order and as late as it likes.
So a planned session has one report under way, and reports of one session meet only as the code
lets them. (`Reported` bounds the outcomes an instance looks at. Two checks of a session that are
unanswered at the same time are one element of `asked`; the second is asked when the first is being
handled.)

A handler is a step that reads and decides, and leaves in `pc[p].write` what it will
write: for a changed row the columns as they were read and as the handler left
them, new rows, attempts. `CommitTransaction` applies it to whatever the rows are by then:
a column is written when the handler changed it (`Column`; SQLAlchemy's unit of
work, `autoflush=False`, no version column, no `FOR UPDATE` anywhere in `src/`), unless the
unique key would be in two rows, when `RefuseTransaction` ends the request or the
observer run instead.

| action | code |
|---|---|
| `ReportSessionStatus`, `ReportSendResult` | the handlers of `web/api.py`, in threads |
| `RestartSession`, `InsertSessions` | the restarter's read; the dispatcher's look at the keys and insert |
| `PlanEntries`, `CheckSessions`, `ObserveNotLive`, `CloseSessions`, `OperatorObserve` | the observer run of a task |
| `ApproveAndDispatch`, `Dismiss` | batch actions of the admin; they run on the event loop of the web process, hence one at a time (`Admin`) |
| `OpenAccountForm`, `SaveAccountForm` | the admin form of an account: shown, and later saved with every column as shown |
| `GraceElapses`, `CooldownEnds` | time passes |

Left out: publishing, nodes and their load (any node may have room), batches. A report that changes
nothing but a time, or is ignored, writes nothing. `ObserveNotLive` writes one column of a row nobody else writes and stays one
step.

### `LiveAssistant`

| variable | code |
|---|---|
| `file` | `state.json`: absent, empty, a JSON value or neither, and what it holds |
| `view` | the repositories of `LocalStateUnitOfWork` in each process |
| `at`, `cmd`, `tries` | where each process is, its command, the looks at the page so far |
| `sent`, `room` | `comments_sent` of a console, and the comments that reached the room |
| `loggedIn` | profiles whose browser data hold a login (the site's business) |
| `stored`, `overtaken`, `torn` | history: the last commit, who was running when another one committed, whether a commit was killed or met another |

| action | code |
|---|---|
| `Start` | `create_default_runtime`: the whole file is read, before any command |
| `Launch`, `BrowserFails` | the persistent context of a profile is opened; an exception anywhere in the browser |
| `SiteAccepts` | the site (outside) |
| `OperatorCloses`, `EnterCode`, `CheckLogin` | `login-xhs`: by hand or to observe; the code; one turn of `_wait_for_login_result` |
| `CheckRoom`, `Comment`, `Quit` | `room-console`: one turn of `_wait_for_live_room_status`, a comment, `/quit` |
| `EnterRoom`, `EndReader` | `enter-room`, whose automation is a placeholder that fails; `send-comment` and the rest of the program, which read only |
| `OpenFile`, `WriteFile` | `commit`: `write_text` empties the file, then writes it |
| `Killed` | a process is killed (outside) |

What the pages show is reduced to logged in, refused or neither yet, and live, over or neither yet. The number of
looks is a constant (`Checks`, 30 in the code). Profile directories, window sizes, the
verification code and URLs have no effect on what is kept. `enabled` is always true: no command
clears it.

## 3. Checked with TLC

| run | instance | properties |
|---|---|---|
| `core` | 1 task, account and node, 2 processes, 2 candidates, 2 sessions, 1 rebuild, unreliable | `TypeOK`, `RunningJobHasActiveSession`, `SendingHasRunningJob`, `OneAttemptPerFinishedJob`, `OneJobPerApprovedCandidate`, `SendsAreCounted`, `WithinDailyLimit`, `RestartsFormAChain`, `OverIsOver`, `ClosingOnlyEnds` |
| `edited` | 2 observer runs of one task, 3 sessions, the operator edits the task's status | `OneActiveSession`, `KeyFollowsStatus`, `ImplementsSlots` |
| `planning` | 2 accounts, 2 nodes of one browser each, 2 sessions, 1 rebuild; an account and a node are edited | `WaitingSessionHasBrowser`, `DecisionsFit`, `PlanUsesBestNodes` |
| `liveness` | fair, reliable, 1 rebuild, 1 candidate; the node goes offline, is deleted, comes back | `ClosingSessionEnds`, `PlannedSessionSettles`, `ImplementsDispatch` |
| `segments` | 2 processes, 2 recorders, 2 files and rows, 1 observer run at a time; dying processes, segment tasks delivered again, an ffmpeg that breaks off, a task that is reopened | `OneRowPerFile`, `NoFileSkipped`, `AnswersWithinPool`, `ImplementsLedger`, `OpenFileIsCutOnlyAtTheEnd` |
| `segments_served` | fair, reliable, 2 processes, 1 recorder, 3 files | `FinishedFileIsProcessed` |
| `rows` | 1 task and account, 2 API threads, 2 candidates and jobs, 2 sessions, 1 rebuild, 1 form | `TypeOK`, `SentOnceWhenApproved`, `NeverOvercounted` |
| `local_state` | 2 processes, 1 account on 2 platforms, 2 looks, 1 comment | `TypeOK`, `EveryAccountHasItsProfile`, `ForgetsOnlyWhenOvertaken`, `FileIsTheLastCommit`, `ReportedCommentsWereSent` |

The bounds are the smallest in which the hazards meet. In `core` a session and its
rebuild, each with a job, are served by two processes that may both hold a
report for the same session; a daily limit of one makes the second send the one that
must be refused. `edited` needs no sends, and gets a third session instead so that a
session can be inserted while an ended and an active one of its slot exist. In
`planning` both accounts rank the nodes the same way, so that they contend for the first,
and while the other node is offline one account must stay out.
`DecisionsFit` is about the decision of one plan or rebuild, on the load as it is when it is read: that
the slot a plan has taken counts for its next account, and that a rebuild takes none that is not
there. It does not say that a node is never overbooked: that is false of the code as soon as two
plans, or a plan and a rebuild, decide before either inserts (below). `WaitingSessionHasBrowser`
holds because no process dies. What it needs is proved in section 5; a
second process on a node, for one, does not hurt it: a check that
reaches the wrong process loses the session, and the center then knows that it is lost. In
`liveness` the end of the task finds the node of a session gone; the question it was sending fails.
`ImplementsDispatch` is checked there with one question and one account; for more of them, for the
daily limit, for failing processes and for edited accounts it is a theorem.

`WithinDailyLimit` and `SendsAreCounted` are checked where nobody edits accounts and
the account is in one task only.

`segments` has two pool processes, two files and two recorders: the observer scans on one process while
the other works on a segment, a segment task is delivered a second time and both processes
work on it, and a second recording overwrites files that have rows. Its properties are the ones that
survive. A segment may get two outcomes, since both processes can find the row open for the second
time before either commits; the look `segment.completed` is what keeps the number at one per
process, `AnswersWithinPool`, and what is persisted is never replaced, `ImplementsLedger`. A file that
ffmpeg still writes may be cut, since the last scan takes every file at once;
`OpenFileIsCutOnlyAtTheEnd` says that this, and a second ffmpeg, are the only ways.
There is one observer run at a time: with two of one task nothing in the code keeps a file from two rows
(no unique key, and the look precedes the write); this is in the list of hazards. An observer may still
die at any step and be started again.
`segments_served` has three files, the first number with a file that is neither the first nor
the newest, and the instance in which the pipeline does what it is for: nothing fails, ffmpeg exits
no sooner than the room is over, and a process is left for segments while the other observes.
`FinishedFileIsProcessed` is about the files that are finished before the task ends; a file that
ffmpeg opens after the last scan is never seen.

`rows` has two of everything two transactions can meet over: two threads for reports of
one session, two jobs of one account for the counter, a rebuild for the key; nodes
report `waiting` or `lost`. `FewAtATime` (in the MC module) bounds what overlaps: operations
of at most two processes at a time; at most two tasks that nodes have not answered, sends
included; a second session or a second job, not both; and no form
open once there is a second session, which is planned from the first and never reads the
account. The properties are the ones that
survive: a candidate is sent once because reviews do not overlap with one another,
and `sends_today` is never too high because whoever writes it, a late form
included, writes a value that was true once. What does not survive is one active
session per account and task; see `two_sessions`.

`local_state` has two platforms so that an account can move, and two looks so that one can
be followed by another. `Bounded` (in the MC module): one of the profiles gets a login, at most
one profile is recorded as other than saved, and a console that has ended after comments
is not looked at further. Two processes are enough to overtake, to write over one another and to meet in the
file; the theorems of section 5 are for any number. Deadlock is not checked: a file that
cannot be read stops every later command, and the program has no command that repairs it.

### Where the code and the architecture document disagree

Each of these runs checks one property that
`docs/live-distributed-architecture.md` states, and TLC shows how the code violates it.

| run | property | document | shortest story |
|---|---|---|---|
| `send_not_recorded` | `CompletedSendIsRecorded` | 212 | dispatched, a check answers "waiting", the send succeeds and its result is ignored; meanwhile the session may get a second job (204) |
| `grace_period` | `EndedTaskConverges` | 149, 152 | a send within its grace period is left alone, for ever |
| `two_sessions` | `OneActiveSession` | 138 | the dispatcher reads a waiting session; the answer to a health check commits `lost`, the account is rebuilt; the dispatcher commits `sending` |
| `recorder_exits` | `FinishedFileIsProcessed` | 71, 81, 84 | ffmpeg exits while the room is live; its last file waits for a later file or for the end of the room |

What follows from `two_sessions`: the revived session has no key, since the dispatcher did not change that
column, and gets none back as long as it only changes among active states; a later end of it leaves the key
of its rebuild alone. The other way round a row that ended may keep its key, and the account is then
not planned in that task again. A shutdown that would write one key twice is refused as a
whole, and a job may get a successful and a failed attempt. In `LiveCenter`, where a
transaction is one step, one active session (138) is a theorem: the look at the
keys is enough for that, and what breaks it is only the overlap of transactions.

More promises are seen from the code without a run of their own: two tasks that are planned at
once may give a node more sessions than it has browsers (103, the load is read in one transaction
and used in another); a segment whose task is delivered twice at the same time gets two candidates (166,
one per segment); the last file may be cut before ffmpeg has finished it, and a file it opens later is
never processed (80, 81); two observer runs at once give a file two rows; a rebuild decided while the task ran is inserted after its end (145); a
close overtakes the countdown of the entry, and the browser is opened for an ended session (146);
an account that is in two tasks may send in both at once (203, the limit is looked up
per session); no close is ever timed out (151); a second ffmpeg is started when a task is
set back to pending (77). The bound on automatic rebuilds (140) holds as modelled.

### Fairness

`FairSpec` assumes that a handler that has begun goes on (weak fairness of
each later step), and that the pool processes keep serving their node: the head
of the queue and a countdown that has ended are not passed over for ever
(strong fairness, since another process or another task may be served first;
Celery serves what it has fetched in order and due countdowns as they come).
`PublishOne` is strongly fair because the bound `QueueBound`, which the code does not
have, can disable it again and again. Nothing is assumed of the operator, the
room, the heartbeats or the passing of a grace period. `Abandon` and
`WorkerDies` are never fair; they are disabled in
`liveness`: a lost answer to a close leaves the session closing for ever.

In `SegmentPipeline` a process that has begun a task goes on (outside calls return
or raise), an observer keeps observing and an observer task is taken when a process stays
free (weak fairness). That each segment task is taken at last is strong fairness: with one
process left for segments other tasks come first, but the queue is served in order.
Nothing is assumed of ffmpeg or of the end of the room: a file
followed by a later one is processed while the room is live.

## 4. Abstract specifications

### The slots

`AccountSlots` says what the unique slot key is for, without statuses, keys,
plans or processes: `holders` maps each slot to the session in it (none or one),
`retired` are the sessions that have ended; sessions are created in free slots with
ids nobody has seen, and leave a slot for good. `LiveCenter` implements it with

    holders[k] = the active sessions of slot k        retired = the ended sessions

so that "never two" is part of the abstract behaviour and not of a counting
invariant. A plan that inserts several sessions, and the closing of a task that
gives several up, are single abstract steps; everything else stutters.

### The ledger of questions

`DispatchLedger` is what review, dispatch and results promise together, without jobs,
attempts, statuses of sessions, queues or reports: `fate` of each question (open, dismissed,
running, success or failed), the account it was given to (`sender`, none or one) and the
counter of each account (`sends`). A batch gives open questions to accounts below their limit, a
question that runs fails or succeeds, a success counts for its sender and for
nobody else, and the operator may set a counter back to 0. `LiveCenter` implements it with

    fate[c]   = the status of the one job of c, when c is approved;
                "open" while c is absent or in review, "dismissed" when it was rejected or ignored
    sender[c] = the account of the session of that job
    sends[a]  = the column sends_today

A shutdown or a report that ends sessions fails a set of questions in one abstract step; planning,
checks, entries, closes and lost reports stutter. The ledger does not say that `sends` stays
within the limit: it is looked at when a question is given, and with two tasks
it may be passed (`WithinDailyLimit` is the property for one).

### The ledger of segments

`SegmentLedger` is what the pipeline promises of a recording, without directories, observers,
deliveries or crashes: `ledger` says of each file whether it was taken, always the first ones without a
gap and each once, and which answers it was given; answers are appended, never withdrawn or replaced, and
there are at most `MaxAnswers`. `SegmentPipeline` implements it with

    ledger[n] = not taken without a row of file n, otherwise taken with the outcomes of that row
    MaxAnswers = the number of pool processes

A commit of rows takes files, the persisting of an outcome answers one, everything else
stutters. It does so for any number of processes and overlapping deliveries, as long as observers take
turns. With two observers at once a file can get two rows, and the ledger has no step for that.

## 5. Proved with TLAPS

For every set of tasks, accounts, nodes, processes, candidates, files and ids. The center's
are under `DomainAssumption` (finite sets of nodes and accounts; integers as scores; the bounds are
natural numbers) and `CenterAssumption` (the constant functions have the
types one expects). That the processes are told apart (`ProcessAssumption`) is not needed.
`RowTransactionProofs` needs `DomainAssumption` and `RowAssumption`, also without the
processes told apart; `LiveAssistantProofs` that the bounds are numbers and that "none" is neither an account nor a platform.

| theorem | states |
|---|---|
| `LiveCenterSlotProofs!TypeCorrect` | `Spec => []TypeOK` |
| `LiveCenterSlotProofs!SlotsAreExclusive` | `Spec => []OneActiveSession` |
| `LiveCenterSlotProofs!KeysFollowStatuses` | `Spec => []KeyFollowsStatus` |
| `LiveCenterJobProofs!JobsEndWithSessions` | `Spec => []RunningJobHasActiveSession` |
| `LiveCenterJobProofs!OneAttempt` | `Spec => []OneAttemptPerFinishedJob` |
| `LiveCenterJobProofs!OverStaysOver` | `Spec => OverIsOver` |
| `LiveCenterJobProofs!SlotsAreImplemented` | `Spec => ImplementsSlots` |
| `LiveCenterJobProofs!RebuildsFormAChain` | `Spec => []RestartsFormAChain`, where no task is edited |
| `LiveCenterSendProofs!ApprovedOnce` | `Spec => []OneJobPerApprovedCandidate` |
| `LiveCenterSendProofs!ClosingIsFinal` | `Spec => ClosingOnlyEnds` |
| `LiveCenterSendProofs!SendersHaveJobs` | `Spec => []SendingHasRunningJob` |
| `LiveCenterSendProofs!SendsCounted` | `Spec => []SendsAreCounted`, where no account is edited and job ids are finitely many |
| `LiveCenterSendProofs!DailyLimitHolds` | `Spec => []WithinDailyLimit`, with one task |
| `LiveCenterSendProofs!DispatchIsImplemented` | `Spec => ImplementsDispatch` |
| `LiveCenterNodeProofs!PlansUseBestNodes` | `Spec => PlanUsesBestNodes` |
| `LiveCenterNodeProofs!DecisionsFitNodes` | `Spec => DecisionsFit` |
| `LiveCenterNodeProofs!BrowsersStayOpen` | `Spec /\ DeathsSpareBrowsers => []WaitingSessionHasBrowser` |
| `LiveCenterNodeProofs!ReliableNodesHaveBrowsers` | `Spec => []WaitingSessionHasBrowser`, where nothing fails |
| `SegmentPipelineProofs!TypeCorrect` | `Spec => []TypeOK` of the pipeline |
| `SegmentPipelineProofs!FilesAreScheduledOnce` | `Spec => []OneRowPerFile`, where `ObserversTakeTurns` |
| `SegmentPipelineProofs!NoFileIsSkipped` | `Spec => []NoFileSkipped` |
| `SegmentPipelineProofs!AnswersStayWithinPool` | `Spec => []AnswersWithinPool`, with finitely many processes |
| `SegmentPipelineProofs!LedgerIsImplemented` | `Spec => ImplementsLedger`, where `ObserversTakeTurns` |
| `SegmentPipelineProofs!OpenFilesAreCutLate` | `Spec => OpenFileIsCutOnlyAtTheEnd` |
| `RowTransactionProofs!TypeCorrect`, `SentOnce`, `CounterIsCovered` | `Spec => []TypeOK`, `[]SentOnceWhenApproved`, `[]NeverOvercounted` |
| `LiveAssistantProofs!AssistantTypeCorrect`, `ConsoleReportsWhatItSent` | `Spec => []TypeOK`, `[]ReportedCommentsWereSent` |
| `LiveAssistantProofs!FileHoldsTheLastCommit`, `OnlyOvertakenCommandsForget` | `Spec => []FileIsTheLastCommit`, `[]ForgetsOnlyWhenOvertaken` |
| `LiveAssistantProofs!AccountsHaveProfiles` | `Spec => []EveryAccountHasItsProfile` |

**The inductive invariants.**
`Typed` adds to `TypeOK` that what is queued, counting down, published or
reported names sessions and jobs that exist: a report is a function application
on the tables, so types alone are not inductive. That the restart count stays within
`MaxRestarts` is part of `TypeOK` and rests on the guard `CanAutoRestart` at the time
the row is decided.
`SlotInv` adds `PlansAreApart` (the rows a process carries to its insert are planned, keyed
and of different slots) to `KeyFollowsStatus` and
`OneActiveSession`. This is what makes the insert safe: it looks up *keys*,
while the property speaks of *statuses*, and the two agree only because every
writer of a status writes the key. The insert itself compares with the
table only, not with the other rows it inserts, hence `PlansAreApart`.
`JobInv` adds `JobsHaveSessions` to the two job invariants.
Most actions leave sessions, or their statuses' activity, alone; the lemmas
`MoveOrInsert`, `EndingKeepsJobs`, `InsertOccupies` and `MoveVacates` say once what
a step does to the sessions and are used for each action.

`ChainInv` looks at what is still under way. A process `Rebuilds` a slot with a count when it
carries such a row to its insert or is about to look whether the session before it is rebuilt.
`RebuildsAreNext` says that then all sessions of the slot have ended with lower counts,
`OneRebuild` that at most one process rebuilds a slot, and `UnplannedAreEmpty` that
a task that is not planned yet has no sessions and no rebuilds. The last needs
`PlannedOnce`: a task leaves "pending" in one observer, which plans it. If the
operator set a task back to "pending" a second observer would plan its accounts from 0
again, hence the hypothesis; without it, `OneActiveSession` still holds.

`SendInv` adds to `JobInv` and `SendingHasRunningJob` that every queued or unpublished send and
every result in flight names a job of the session it names (`QueuedSends`, `CarriedSends`). So a
result that counts finishes a job of the session it frees, and cannot
leave another session sending for nothing. For the counter, each success
adds one job to the successful ones of one account, and no other step adds any; that jobs keep their
session and sessions their account is proved once (`JobsStay`, `AccountsStay`). `LimitInv` says that
an account whose session is sending is below its limit: it was when the send was dispatched, and in the
meantime only a result of a sending session of the same account can count, which with one
task is the same session (`SlotsAreExclusive`). With two tasks this fails, as the hazards say.

`DispatchIsImplemented` needs no hypothesis. Its invariant is `SendInv` with `ApprovedHaveTheirJob`
(an approved candidate has one job, any other none), which makes the `CHOOSE` of the mapping
a name for that job (`FateIs`, `FateWillBe`). `SendersStay` says once that no step but a batch changes
who sends a question, and that its fate changes with its job only; each action is then one
entry (`BatchGives`, `EndingFails`, `ResultIsEntered`, `DismissalIsEntered`, `AccountsAreEntered`) or none. The
result is the hard case: it names a session and a job, and the ledger wants the account
the question was given to, which is the same because of `CarriedSends`.

`LiveCenterNodeProofs` is about what the center believes of its nodes. A plan follows the
ranking in every state: `PlanPrefersBest` and its neighbours in `LiveDomainProofs` show it for every
visiting order of the accounts, for finite sets of nodes and accounts (over an infinite set there need
not be a best node), and no other process can disturb it, since the plan is decided in one
transaction. For the same reason its rows fit the nodes as it has counted them, and so does the one row of
a rebuild (`DecisionsFitNodes`); `FiniteInv` says that there are finitely many sessions to count.
The *insertion* comes later, and nothing in the code makes two decisions take turns, so no theorem
says that they fit together.

`BrowserInv` follows a session through the messages about it. A session that waits or sends has its
browser in some process of its node (the property); a session that is about to be reported
as waiting, too (`ReportsAreSeen`); a task is served by the node it was sent to
(`TasksAreRouted`); and a close is on its way only for a session that is closing or over (`ClosesAreMeant`), so
that a browser is never closed under a session the center sends through. A close that overtakes
the entry, a lost report and a process that finds no browser all end in a session that
is closing or over. A process that dies with browsers open is the one exception, and
`DeathsSpareBrowsers` rules out exactly that.

`SegmentPipelineProofs` needs `PipelineAssumption` only for types. `FilesAreScheduledOnce`
is for any number of processes, recorders and files, and has a hypothesis,
`ObserversTakeTurns`: either the pool has one process, or at most one observer run is
asked for at a time and its task is delivered once (segment tasks may be delivered again). Its invariant `RowInv` adds to `OneRowPerFile` that there
is one observer (`OneObserver`), that none waits in the queue while one observes
(`NoneAsked`), and that the paths an observer is about to insert have no row
(`PathsAreNew`). The last is what the look establishes and what must survive until
the write: it does because rows are inserted by the observer alone, and it is the
point where a second observer breaks the property. With one process the
operator may ask and Celery may deliver as often as they like; `segments` has the other case.

`LiveDomainProofs` shows that `BestNode` is a node of the set with the highest
score, for any non-empty set of nodes (finite, by assumption): the `CHOOSE` of the
ranking has a witness. The argument is a minimal counterexample under
strict inclusion, since induction principles with an operator parameter
are out of the provers' reach.

The other theorems of the pipeline have invariants of their own. `OrderInv` needs no hypothesis: the
files of a directory, the paths a scan carries and the files with rows are each an initial
piece, and the union of two initial pieces is one; that is why no number of observers or
crashes can leave a gap, even where they insert a file twice. `AnswerInv` counts: the outcomes of a row
and the processes that are about to commit one more are together at most as many as there are processes
(`AnswersFit`). A process only gets there while the row is open, that is without an outcome, and each of them
commits once. `LedgerInv` joins `RowInv`, `OrderInv` and `AnswerInv`, and the refinement follows step
by step. `WholeInv`, for `OpenFilesAreCutLate`, says that a path a scan carries, and the file of every
row, is whole: a later file exists, or the room is over (`LastScansAreLate`: a scan that takes every file
comes after the end). Neither can be undone, for any observers, crashes and deliveries. A file with a later
one is not the one ffmpeg writes as long as there is one ffmpeg, since it never goes back.

`RowTransactionProofs` has to speak of what is still to be committed. `Typed` adds `Named` (what an open
transaction writes, and what nodes are asked, names rows that exist). `SentInv` adds `Reserved`: an open transaction of the
reviewer that approves a candidate has read it as pending, no job of it exists, and only the admin's process
writes candidates or makes jobs. `CountInv` adds `Covered`: the value a transaction or
a form would write to `sends_today` is at most the number of successful jobs, where the job
the transaction itself closes is counted; successful attempts are never removed, so
a value that was covered when it was read is covered when it is written.

`LiveAssistantProofs` uses three. `Typed` adds `Placed` (a code is submitted by a login by phone only,
a live room is held by a console only, and nobody else has comments) and the count of comments. `Durable` is
`FileIsTheLastCommit` and `ForgetsOnlyWhenOvertaken` together: a process reads what
the file holds, which is `stored` as long as it can be read. `EveryAccountHasItsProfile` is about the file,
the last commit and all views at once, and with `Typed` is inductive as it stands.

**Only model-checked:** liveness (`ClosingSessionEnds`, `PlannedSessionSettles` and
`FinishedFileIsProcessed`), which is out of reach of this prover. Every other property of a
passing run is stated by a theorem above.

## 6. Not modelled

Media tools, ASR, LLM and the pages of the browser are outside calls whose outcome is a
nondeterministic choice. Configuration, `live_doctor` and the read-only admin views have no
state of their own. `live_seed_dev` is a developer's command that overwrites rows whatever their
state (a running task becomes pending again); it is not meant to run beside the program. The policy
`account_entry_policy`, the use case `approve_candidate_question` and the constructors in
`send_attempt` and `dispatch_job` are not called by the program.

The admin form of a candidate writes the status back with the text; with it a candidate could be
sent twice, and `SentOnceWhenApproved` is stated without it. The forms of tasks, sessions and nodes
have the same shape as the account's and are applied at once in `LiveCenter`. Of the live assistant, the
profile directories, the muting of the player and the capture of stream URLs are left out.

## 7. Plan

1. Done: the center, the pipeline, the overlap of transactions and the command line, with their
   runs and proofs.
2. Stale forms of candidates and tasks, as actions of `RowTransactions`.
3. A refinement between `LiveCenter` and `RowTransactions` for runs in which no two transactions
   overlap.
4. `GenerateCandidate` of `LiveCenter` as the pipeline's last step.
