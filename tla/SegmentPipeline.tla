--------------------------- MODULE SegmentPipeline ---------------------------
(***************************************************************************)
(* From the recording of one live task to its candidate questions: ffmpeg  *)
(* cuts the stream into numbered files, the observer run of the task scans *)
(* the directory and gives each finished file a row of live_segments and a *)
(* Celery task, and a process of the center worker turns the file into a   *)
(* transcript and a candidate.                                             *)
(*                                                                         *)
(* Observer runs and segment tasks share one queue and one pool: a process *)
(* that observes serves nothing else until the room is over.  A step is a  *)
(* call that others can see (a commit, a publication, a process started,   *)
(* a directory listed); a transaction that looks and then writes is two.   *)
(*                                                                         *)
(*   pc[p].at    process p ...                                             *)
(*   "idle"      waits for a task                                          *)
(*   "watching"  (observer) waits for the next observation                 *)
(*   "mark"      has started ffmpeg, has not committed "running" yet       *)
(*   "scan"      is about to list the directory                            *)
(*   "lookUp"    has listed paths, is about to look which have rows        *)
(*   "insert"    is about to commit rows for paths                         *)
(*   "publish"   has rows segs to publish                                  *)
(*   "extract"   (segment task) has read the row as open, works on media   *)
(*   "store"     has an outcome, is about to look at the row again         *)
(*   "commit"    has found it open, is about to commit the outcome         *)
(***************************************************************************)
EXTENDS Integers, FiniteSets, Sequences, Functions

CONSTANTS
    Proc,           \* pool processes of the center worker
    Recorder,       \* ffmpeg processes that may be started
    SegmentId,      \* ids that rows of live_segments may get
    LastFile,       \* bound of the model: files are numbered 0..LastFile
    MaxObservers,   \* observer runs the operator asks for at a time
    Fails,          \* processes die, calls raise
    Redelivered,    \* kinds of tasks that Celery may deliver again
    Reopens,        \* the operator edits the status of the task
    Breaks          \* ffmpeg may exit while the room is live

ASSUME PipelineAssumption ==
    /\ LastFile \in Nat
    /\ MaxObservers \in Nat
    /\ {Fails, Reopens, Breaks} \subseteq BOOLEAN
    /\ Redelivered \subseteq {"observe", "process"}

VARIABLES
    room,           \* the live room, as its page will show it
    status,         \* live_tasks.status
    rec,            \* the ffmpeg processes
    files,          \* the files in the directory of the task
    seg,            \* live_segments, by id, with the outcomes persisted
    queue,          \* Celery: tasks in the queue of the center
    pc              \* what each process still has to do

vars == <<room, status, rec, files, seg, queue, pc>>
-------------------------------------------------------------------------------
File == 0..LastFile
TaskStatus == {"pending", "running", "ended"}
Outcome == {"success", "failed"}

\* A file of -1 says that ffmpeg has opened none yet.
RecorderState == [state : {"new", "running", "stopped"}, file : -1..LastFile]

\* The outcomes stand for the transcripts of the segment; a successful one
\* has a candidate question with it.
SegmentRow == [file : File, completed : BOOLEAN, answers : Seq(Outcome)]

Observe == [kind |-> "observe"]
ProcessSegment(s) == [kind |-> "process", seg |-> s]
CenterTask == {Observe} \cup {ProcessSegment(s) : s \in SegmentId}

Continuation ==
    [at : {"idle", "watching", "mark"}]
        \cup [at : {"scan"}, last : BOOLEAN]
        \cup [at : {"lookUp", "insert"}, paths : SUBSET File, last : BOOLEAN]
        \cup [at : {"publish"}, segs : SUBSET SegmentId, last : BOOLEAN]
        \cup [at : {"extract"}, seg : SegmentId]
        \cup [at : {"store", "commit"}, seg : SegmentId, outcome : Outcome]

TypeOK ==
    /\ room \in {"waiting", "live", "over"}
    /\ status \in TaskStatus
    /\ rec \in [Recorder -> RecorderState]
    /\ files \subseteq File
    /\ DOMAIN seg \subseteq SegmentId
    /\ seg \in [DOMAIN seg -> SegmentRow]
    /\ queue \subseteq CenterTask
    /\ pc \in [Proc -> Continuation]

Rows == DOMAIN seg
Running == {r \in Recorder : rec[r].state = "running"}
BeingWritten == {rec[r].file : r \in Running}
Observing ==
    {p \in Proc : pc[p].at \in {"watching", "mark", "scan", "lookUp",
                                "insert", "publish"}}

\* What the page has to show: the text that the room is over, and a player or
\* a stream among its requests.  A stream once requested is remembered.
Signals == [finished |-> room = "over", playing |-> room \in {"live", "over"}]

\* What an observation makes of it: the text comes first, and without any
\* signal nothing is known of the room.
Observation ==
    CASE Signals.finished -> "not_live"
      [] ~Signals.finished /\ Signals.playing -> "live"
      [] OTHER -> "unknown"

Go(p, label) == pc' = [pc EXCEPT ![p] = [at |-> label]]

GoScan(p, last) == pc' = [pc EXCEPT ![p] = [at |-> "scan", last |-> last]]

Init ==
    /\ room = "waiting"
    /\ status = "pending"
    /\ rec = [r \in Recorder |-> [state |-> "new", file |-> -1]]
    /\ files = {}
    /\ seg = [s \in {} |-> {}]
    /\ queue = {}
    /\ pc = [p \in Proc |-> [at |-> "idle"]]
-------------------------------------------------------------------------------
(***************************************************************************)
(* The room and ffmpeg.  Every recorder of the task starts at file 0 in    *)
(* the same directory and overwrites (-y).  Nobody waits for it or kills   *)
(* it: it ends with its stream, and what it has left to read of that it    *)
(* writes when the page already shows the end.                             *)
(***************************************************************************)
RoomChanges ==
    /\ \/ room = "waiting" /\ room' = "live"
       \/ room = "live" /\ room' = "over"
    /\ UNCHANGED <<status, rec, files, seg, queue, pc>>

RecorderOpensFile(r) ==
    LET n == rec[r].file + 1 IN
    /\ r \in Running
    /\ n \in File
    /\ rec' = [rec EXCEPT ![r].file = n]
    /\ files' = files \cup {n}
    /\ UNCHANGED <<room, status, seg, queue, pc>>

RecorderStops(r) ==
    /\ r \in Running
    /\ room = "over" \/ Breaks
    /\ rec' = [rec EXCEPT ![r].state = "stopped"]
    /\ UNCHANGED <<room, status, files, seg, queue, pc>>
-------------------------------------------------------------------------------
(***************************************************************************)
(* The operator.                                                           *)
(***************************************************************************)
OperatorObserve ==
    /\ Cardinality(Observing \cup {m \in queue : m = Observe}) < MaxObservers
    /\ queue' = queue \cup {Observe}
    /\ UNCHANGED <<room, status, rec, files, seg, pc>>

EditTask ==
    /\ Reopens
    /\ status' \in TaskStatus \ {status}
    /\ UNCHANGED <<room, rec, files, seg, queue, pc>>
-------------------------------------------------------------------------------
(***************************************************************************)
(* The center worker: taking a task.  Celery may deliver one again.        *)
(***************************************************************************)
Take(p, m) ==
    /\ pc[p].at = "idle"
    /\ m \in queue
    /\ \/ queue' = queue \ {m}
       \/ m.kind \in Redelivered /\ UNCHANGED queue

TakeObserve(p) ==
    /\ Take(p, Observe)
    /\ Go(p, "watching")
    /\ UNCHANGED <<room, status, rec, files, seg>>

(***************************************************************************)
(* The observer run.  A room of which nothing is known only gets a failure *)
(* reason.  A live room without a stream URL, or with a task that is not   *)
(* startable, starts nothing.  At the end of the room nobody looks whether *)
(* ffmpeg has exited.                                                      *)
(***************************************************************************)
ObserveLive(p) ==
    /\ pc[p].at = "watching"
    /\ Observation = "live"
    /\ status = "pending"
    /\ \E r \in Recorder :
          /\ rec[r].state = "new"
          /\ rec' = [rec EXCEPT ![r].state = "running"]
    /\ Go(p, "mark")
    /\ UNCHANGED <<room, status, files, seg, queue>>

MarkRunning(p) ==
    /\ pc[p].at = "mark"
    /\ status' = "running"
    /\ GoScan(p, FALSE)
    /\ UNCHANGED <<room, rec, files, seg, queue>>

ObserveStillLive(p) ==
    /\ pc[p].at = "watching"
    /\ Observation = "live"
    /\ GoScan(p, FALSE)
    /\ UNCHANGED <<room, status, rec, files, seg, queue>>

\* (faulty variant: the last file is not included at the end)
LastLeftOut == FALSE
LastIncluded == TRUE

ObserveNotLive(p) ==
    /\ pc[p].at = "watching"
    /\ Observation = "not_live"
    /\ status' = "ended"
    /\ GoScan(p, LastIncluded)
    /\ UNCHANGED <<room, rec, files, seg, queue>>
-------------------------------------------------------------------------------
(***************************************************************************)
(* SqlAlchemySegmentTaskScheduler, inside the observer run.                *)
(***************************************************************************)
\* SegmentScanner: a file is finished when there is a later one.
\* (faulty variant: the newest file is taken as finished)
EveryFile(last) == files
CompletedSegments(last) ==
    {n \in files : last \/ \E m \in files : m > n}

Scan(p) ==
    /\ pc[p].at = "scan"
    /\ pc' = [pc EXCEPT ![p] = [at |-> "lookUp", last |-> pc[p].last,
                                paths |-> CompletedSegments(pc[p].last)]]
    /\ UNCHANGED <<room, status, rec, files, seg, queue>>

\* Paths that have no row of this task yet.
\* (faulty variants: no path is looked up; only the newest gets a row)
AnyPath(paths) == paths
NewestPath(paths) ==
    {n \in paths : /\ \A s \in Rows : seg[s].file # n
                   /\ \A m \in paths : m <= n}
NewPaths(paths) == {n \in paths : \A s \in Rows : seg[s].file # n}

LookUp(p) ==
    /\ pc[p].at = "lookUp"
    /\ pc' = [pc EXCEPT ![p] = [at |-> "insert", last |-> pc[p].last,
                                paths |-> NewPaths(pc[p].paths)]]
    /\ UNCHANGED <<room, status, rec, files, seg, queue>>

\* After its last segment is published an observer goes on watching, or ends
\* its run when the room is over.
ThenPublish(p, segs, last) ==
    pc' = [pc EXCEPT ![p] =
              CASE segs # {} -> [at |-> "publish", segs |-> segs,
                                 last |-> last]
                [] segs = {} /\ ~last -> [at |-> "watching"]
                [] OTHER -> [at |-> "idle"]]

InsertNew(p) ==
    /\ pc[p].at = "insert"
    /\ \E new \in UNION {Bijection(D, pc[p].paths) :
                             D \in SUBSET (SegmentId \ Rows)} :
          /\ seg' = [s \in Rows \cup DOMAIN new |->
                        IF s \in DOMAIN new
                        THEN [file |-> new[s], completed |-> FALSE,
                              answers |-> <<>>]
                        ELSE seg[s]]
          /\ ThenPublish(p, DOMAIN new, pc[p].last)
    /\ UNCHANGED <<room, status, rec, files, queue>>

PublishSegment(p) ==
    /\ pc[p].at = "publish"
    /\ \E s \in pc[p].segs :
          /\ queue' = queue \cup {ProcessSegment(s)}
          /\ ThenPublish(p, pc[p].segs \ {s}, pc[p].last)
    /\ UNCHANGED <<room, status, rec, files, seg>>
-------------------------------------------------------------------------------
(***************************************************************************)
(* SqlAlchemySegmentProcessor, a segment task.                             *)
(***************************************************************************)
\* (faulty variant: a row that is there is taken as open)
AnyRow(s) == s \in Rows
IsOpen(s) == s \in Rows /\ ~seg[s].completed

TakeSegment(p, s) ==
    /\ Take(p, ProcessSegment(s))
    /\ \/ /\ IsOpen(s)
          /\ pc' = [pc EXCEPT ![p] = [at |-> "extract", seg |-> s]]
       \/ /\ ~IsOpen(s)
          /\ UNCHANGED pc
    /\ UNCHANGED <<room, status, rec, files, seg>>

\* Frames and audio are cut from the file, the audio is transcribed and the
\* text turned into a question; whichever of them fails, it has failed.
ProcessMedia(p) ==
    /\ pc[p].at = "extract"
    /\ \E outcome \in Outcome :
          pc' = [pc EXCEPT ![p] = [at |-> "store", seg |-> pc[p].seg,
                                   outcome |-> outcome]]
    /\ UNCHANGED <<room, status, rec, files, seg, queue>>

LookAgain(p) ==
    /\ pc[p].at = "store"
    /\ \/ /\ IsOpen(pc[p].seg)
          /\ pc' = [pc EXCEPT ![p].at = "commit"]
       \/ /\ ~IsOpen(pc[p].seg)
          /\ Go(p, "idle")
    /\ UNCHANGED <<room, status, rec, files, seg, queue>>

\* A failed segment is completed too, with a transcript that says why.
\* (faulty variant: the outcome replaces the one that is there)
AnsweredAnew(row, outcome) ==
    [row EXCEPT !.completed = TRUE, !.answers = <<outcome>>]
Answered(row, outcome) ==
    [row EXCEPT !.completed = TRUE, !.answers = Append(@, outcome)]

PersistAnswer(p) ==
    /\ pc[p].at = "commit"
    /\ seg' = [seg EXCEPT ![pc[p].seg] = Answered(@, pc[p].outcome)]
    /\ Go(p, "idle")
    /\ UNCHANGED <<room, status, rec, files, queue>>

\* A process dies, or an exception ends its task: a page that is gone, a
\* broker that refuses the publication, a database that is away.  ffmpeg is
\* a process of its own and goes on.
WorkerDies(p) ==
    /\ Fails
    /\ pc[p].at # "idle"
    /\ Go(p, "idle")
    /\ UNCHANGED <<room, status, rec, files, seg, queue>>
-------------------------------------------------------------------------------
Record(r) == RecorderOpensFile(r) \/ RecorderStops(r)
Watch(p) == ObserveLive(p) \/ ObserveStillLive(p) \/ ObserveNotLive(p)
Schedule(p) ==
    MarkRunning(p) \/ Scan(p) \/ LookUp(p) \/ InsertNew(p) \/ PublishSegment(p)
Work(p) == ProcessMedia(p) \/ LookAgain(p) \/ PersistAnswer(p)

Next ==
    \/ RoomChanges \/ OperatorObserve \/ EditTask
    \/ \E r \in Recorder : Record(r)
    \/ \E p \in Proc :
          \/ TakeObserve(p) \/ Watch(p) \/ Schedule(p) \/ Work(p)
          \/ WorkerDies(p)
          \/ \E s \in SegmentId : TakeSegment(p, s)

Spec == Init /\ [][Next]_vars
-------------------------------------------------------------------------------
(***************************************************************************)
(* Properties.                                                             *)
(***************************************************************************)
\* A file is scheduled once, however often the directory is scanned, the
\* observer dies and is started again, or the task is recorded anew.
OneRowPerFile ==
    \A r, s \in Rows : seg[r].file = seg[s].file => r = s

\* Segments are contiguous: no file is passed over for a later one, whenever
\* the scans happen and wherever an observer dies.
NoFileSkipped ==
    \A s \in Rows : \A n \in 0..seg[s].file : \E r \in Rows : seg[r].file = n

\* A segment counts as processed when an outcome of it is persisted, and
\* however often its task is delivered it gets at most one from each process
\* of the pool: once a row is completed, only deliveries that have already
\* found it open for the second time still write to it.
AnswersWithinPool ==
    \A s \in Rows :
        /\ seg[s].completed <=> seg[s].answers # <<>>
        /\ Len(seg[s].answers) <= Cardinality(Proc)

\* The pipeline implements SegmentLedger: a file is taken when it gets a row
\* and answered when an outcome is persisted.  No file is taken twice or out
\* of order, no answer is withdrawn or replaced and none is given to a file
\* that was not taken, whatever dies, overlaps, is delivered again or is
\* recorded anew.
Untaken == [taken |-> FALSE, answers |-> <<>>]
Taken(row) == [taken |-> TRUE, answers |-> row.answers]

LedgerOfRows ==
    [n \in File |-> IF \E s \in Rows : seg[s].file = n
                    THEN Taken(seg[CHOOSE s \in Rows : seg[s].file = n])
                    ELSE Untaken]

Ledger == INSTANCE SegmentLedger WITH
              ledger <- LedgerOfRows, MaxAnswers <- Cardinality(Proc)

ImplementsLedger == Ledger!Spec

\* The media tools cut a file that ffmpeg is still writing only after the end
\* of the room, when the last scan takes every file, or when ffmpeg has been
\* started again over the files of an earlier recording.
Started == {r \in Recorder : rec[r].state # "new"}

OpenFileIsCutOnlyAtTheEnd ==
    [][\A p \in Proc :
          /\ pc[p].at = "extract" /\ pc'[p].at = "store"
          /\ seg[pc[p].seg].file \in BeingWritten
          => room = "over" \/ \E q, r \in Started : q # r]_vars

(***************************************************************************)
(* Liveness.  A process that has a task runs on (outside calls return or   *)
(* raise), the observer observes again and again, and the queue is served  *)
(* in order.  Nothing is assumed of ffmpeg.                                *)
(***************************************************************************)
Fairness ==
    /\ \A p \in Proc : WF_vars(Watch(p)) /\ WF_vars(Schedule(p))
                       /\ WF_vars(Work(p)) /\ WF_vars(TakeObserve(p))
    /\ \A s \in SegmentId : SF_vars(\E p \in Proc : TakeSegment(p, s))

FairSpec == Spec /\ Fairness

\* "A segment is processed as soon as it is completed, and the last one when
\* the task stops or ffmpeg exits": a file that ffmpeg is done with before
\* the task ends is turned into an outcome.
IsFinished(n) == n \in files /\ n \notin BeingWritten
FinishedFileIsProcessed ==
    \A n \in File :
        (IsFinished(n) /\ status # "ended")
            ~> \E s \in Rows : seg[s].file = n /\ seg[s].completed
===============================================================================
