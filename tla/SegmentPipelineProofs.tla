------------------------ MODULE SegmentPipelineProofs ------------------------
(***************************************************************************)
(* What is proved of SegmentPipeline for any number of processes, files,   *)
(* ids and recorders: its type invariant, that no file is skipped, how     *)
(* many outcomes overlapping deliveries may give a segment, and when the   *)
(* media tools may cut a file that is being written; and, as long as       *)
(* observers take turns, that a file is scheduled once and that the        *)
(* pipeline implements SegmentLedger.                                      *)
(*                                                                         *)
(* OneRowPerFile is not inductive: the rows are inserted in another        *)
(* transaction than the one that looks which paths have none.  The         *)
(* invariant RowInv says that what an observer is about to insert still    *)
(* has no row, and that nobody else can have inserted it meanwhile: there  *)
(* is one observer, and while there is one no other is asked for.          *)
(* OrderInv carries what a process has read in the same way.  AnswerInv    *)
(* counts the processes that have found a row open twice: once it is       *)
(* completed they become fewer with each outcome they commit.  WholeInv    *)
(* carries why a file was taken from the scan through the row to the media *)
(* tools.                                                                  *)
(***************************************************************************)
EXTENDS SegmentPipeline, FiniteSetTheorems, TLAPS

\* What publishing continues with is a continuation; it inserts nothing.
LEMMA ThenPublishIsContinuation ==
    ASSUME TypeOK, NEW p \in Proc, NEW segs \in SUBSET SegmentId,
           NEW last \in BOOLEAN, ThenPublish(p, segs, last)
    PROVE  \E k \in Continuation : /\ pc' = [pc EXCEPT ![p] = k]
                                   /\ k.at \in {"publish", "watching", "idle"}
    <1>1. CASE segs # {}
        <2> DEFINE k == [at |-> "publish", segs |-> segs, last |-> last]
        <2>1. k \in Continuation /\ k.at = "publish"
            BY DEF Continuation
        <2>2. pc' = [pc EXCEPT ![p] = k]
            BY <1>1 DEF ThenPublish
        <2> QED BY <2>1, <2>2
    <1>2. CASE segs = {} /\ ~last
        <2> DEFINE k == [at |-> "watching"]
        <2>1. k \in Continuation /\ k.at = "watching"
            BY DEF Continuation
        <2>2. pc' = [pc EXCEPT ![p] = k]
            BY <1>2 DEF ThenPublish
        <2> QED BY <2>1, <2>2
    <1>3. CASE segs = {} /\ last
        <2> DEFINE k == [at |-> "idle"]
        <2>1. k \in Continuation /\ k.at = "idle"
            BY DEF Continuation
        <2>2. pc' = [pc EXCEPT ![p] = k]
            BY <1>3 DEF ThenPublish
        <2> QED BY <2>1, <2>2
    <1> QED BY <1>1, <1>2, <1>3

\* The rows that an insert leaves behind: the old ones, and one for each of
\* the paths, none of them completed.
LEMMA InsertedRows ==
    ASSUME TypeOK, NEW p \in Proc, pc[p].at = "insert", InsertNew(p)
    PROVE  \E D \in SUBSET (SegmentId \ Rows) :
              /\ Rows' = Rows \cup D
              /\ seg' \in [Rows' -> SegmentRow]
              /\ \A s \in Rows : seg'[s] = seg[s]
              /\ \A s \in D : seg'[s].file \in pc[p].paths
              /\ \A r, s \in D : seg'[r].file = seg'[s].file => r = s
              /\ \A n \in pc[p].paths : \E s \in D : seg'[s].file = n
              /\ \A s \in D : ~seg'[s].completed /\ seg'[s].answers = <<>>
              /\ ThenPublish(p, D, pc[p].last)
    <1>1. PICK D \in SUBSET (SegmentId \ Rows) :
              \E new \in Bijection(D, pc[p].paths) :
                 /\ seg' = [s \in Rows \cup DOMAIN new |->
                               IF s \in DOMAIN new
                               THEN [file |-> new[s], completed |-> FALSE,
                                     answers |-> <<>>]
                               ELSE seg[s]]
                 /\ ThenPublish(p, DOMAIN new, pc[p].last)
        BY DEF InsertNew
    <1>2. PICK new \in Bijection(D, pc[p].paths) :
              /\ seg' = [s \in Rows \cup DOMAIN new |->
                            IF s \in DOMAIN new
                            THEN [file |-> new[s], completed |-> FALSE,
                                  answers |-> <<>>]
                            ELSE seg[s]]
              /\ ThenPublish(p, DOMAIN new, pc[p].last)
        BY <1>1
    <1>3. /\ new \in [D -> pc[p].paths]
          /\ \A r, s \in D : new[r] = new[s] => r = s
          /\ \A n \in pc[p].paths : \E s \in D : new[s] = n
          /\ DOMAIN new = D
        BY DEF Bijection, Injection, Surjection, IsInjective
    <1>4. pc[p].paths \subseteq File
        BY DEF TypeOK, Continuation
    <1>5. Rows' = Rows \cup D
        BY <1>2, <1>3 DEF Rows
    <1>6. \A s \in D : seg'[s] = [file |-> new[s], completed |-> FALSE,
                                  answers |-> <<>>]
        BY <1>2, <1>3
    <1>7. \A s \in Rows : seg'[s] = seg[s]
        BY <1>2, <1>3
    <1>8. seg' \in [Rows' -> SegmentRow]
        <2>1. \A s \in D : seg'[s] \in SegmentRow
            <3>1. \A none \in Seq(Outcome), n \in File :
                      [file |-> n, completed |-> FALSE, answers |-> none]
                          \in SegmentRow
                BY DEF SegmentRow
            <3>2. <<>> \in Seq(Outcome)
                OBVIOUS
            <3>3. \A s \in D : new[s] \in File
                BY <1>3, <1>4
            <3>4. \A n \in File :
                      [file |-> n, completed |-> FALSE, answers |-> <<>>]
                          \in SegmentRow
                BY <3>1, <3>2, Zenon
            <3> QED BY <3>3, <3>4, <1>6, Zenon
        <2>2. \A s \in Rows : seg'[s] \in SegmentRow
            BY <1>7 DEF TypeOK, Rows
        <2>3. DOMAIN seg' = Rows' /\ seg' = [s \in Rows' |-> seg'[s]]
            BY <1>2, <1>3, <1>5
        <2> QED BY <1>5, <2>1, <2>2, <2>3
    <1> QED BY <1>2, <1>3, <1>5, <1>6, <1>7, <1>8
-------------------------------------------------------------------------------
\* Every step keeps the types.
LEMMA TypeStep ==
    ASSUME TypeOK, [Next]_vars
    PROVE  TypeOK'
    <1> USE PipelineAssumption
    <1>1. ASSUME RoomChanges \/ OperatorObserve \/ EditTask
          PROVE  TypeOK'
        <2>1. CASE RoomChanges
            BY <2>1 DEF RoomChanges, TypeOK, Rows
        <2>2. CASE OperatorObserve
            BY <2>2 DEF OperatorObserve, TypeOK, CenterTask
        <2>3. CASE EditTask
            BY <2>3 DEF EditTask, TypeOK
        <2> QED BY <1>1, <2>1, <2>2, <2>3
    <1>2. ASSUME NEW r \in Recorder, Record(r)
          PROVE  TypeOK'
        <2>1. CASE RecorderOpensFile(r)
            <3>1. rec' \in [Recorder -> RecorderState] /\ files' \subseteq File
                BY <2>1 DEF RecorderOpensFile, TypeOK, RecorderState, File
            <3> QED BY <2>1, <3>1 DEF RecorderOpensFile, TypeOK
        <2>2. CASE RecorderStops(r)
            <3>1. rec' \in [Recorder -> RecorderState]
                BY <2>2 DEF RecorderStops, TypeOK, RecorderState
            <3> QED BY <2>2, <3>1 DEF RecorderStops, TypeOK
        <2> QED BY <1>2, <2>1, <2>2 DEF Record
    <1>3. ASSUME NEW p \in Proc, NEW m \in queue, Take(p, m)
          PROVE  queue' \subseteq CenterTask
        BY <1>3 DEF Take, TypeOK
    <1>4. ASSUME NEW p \in Proc, TakeObserve(p)
          PROVE  TypeOK'
        <2>1. queue' \subseteq CenterTask
            BY <1>3, <1>4 DEF TakeObserve, Take
        <2>2. pc' \in [Proc -> Continuation]
            BY <1>4 DEF TakeObserve, Go, TypeOK, Continuation
        <2> QED BY <1>4, <2>1, <2>2 DEF TakeObserve, TypeOK
    <1>5. ASSUME NEW p \in Proc, Watch(p)
          PROVE  TypeOK'
        <2>1. CASE ObserveLive(p)
            <3>1. rec' \in [Recorder -> RecorderState]
                BY <2>1 DEF ObserveLive, TypeOK, RecorderState
            <3>2. pc' \in [Proc -> Continuation]
                BY <2>1 DEF ObserveLive, Go, TypeOK, Continuation
            <3> QED BY <2>1, <3>1, <3>2 DEF ObserveLive, TypeOK
        <2>2. CASE ObserveStillLive(p)
            BY <2>2 DEF ObserveStillLive, GoScan, TypeOK, Continuation
        <2>3. CASE ObserveNotLive(p)
            <3>1. pc' \in [Proc -> Continuation]
                BY <2>3 DEF ObserveNotLive, GoScan, LastIncluded, TypeOK,
                            Continuation
            <3> QED BY <2>3, <3>1 DEF ObserveNotLive, TypeOK, TaskStatus
        <2> QED BY <1>5, <2>1, <2>2, <2>3 DEF Watch
    <1>6. ASSUME NEW p \in Proc, Schedule(p)
          PROVE  TypeOK'
        <2>1. CASE MarkRunning(p)
            <3>1. pc' \in [Proc -> Continuation]
                BY <2>1 DEF MarkRunning, GoScan, TypeOK, Continuation
            <3> QED BY <2>1, <3>1 DEF MarkRunning, TypeOK, TaskStatus
        <2>2. CASE Scan(p)
            <3>1. pc[p].last \in BOOLEAN
                BY <2>2 DEF Scan, TypeOK, Continuation
            <3>2. CompletedSegments(pc[p].last) \in SUBSET File
                BY DEF CompletedSegments, TypeOK
            <3>3. pc' \in [Proc -> Continuation]
                BY <2>2, <3>1, <3>2 DEF Scan, TypeOK, Continuation
            <3> QED BY <2>2, <3>3 DEF Scan, TypeOK
        <2>3. CASE LookUp(p)
            <3>1. pc[p].last \in BOOLEAN /\ pc[p].paths \subseteq File
                BY <2>3 DEF LookUp, TypeOK, Continuation
            <3>2. NewPaths(pc[p].paths) \in SUBSET File
                BY <3>1 DEF NewPaths
            <3>3. pc' \in [Proc -> Continuation]
                BY <2>3, <3>1, <3>2 DEF LookUp, TypeOK, Continuation
            <3> QED BY <2>3, <3>3 DEF LookUp, TypeOK
        <2>4. CASE InsertNew(p)
            <3>1. pc[p].at = "insert"
                BY <2>4 DEF InsertNew
            <3>2. PICK D \in SUBSET (SegmentId \ Rows) :
                      /\ Rows' = Rows \cup D
                      /\ seg' \in [Rows' -> SegmentRow]
                      /\ ThenPublish(p, D, pc[p].last)
                BY <2>4, <3>1, InsertedRows
            <3>3. pc[p].last \in BOOLEAN
                BY <3>1 DEF TypeOK, Continuation
            <3>4. PICK k \in Continuation : pc' = [pc EXCEPT ![p] = k]
                BY <3>2, <3>3, ThenPublishIsContinuation
            <3>5. pc' \in [Proc -> Continuation]
                BY <3>4 DEF TypeOK
            <3>6. DOMAIN seg' \subseteq SegmentId
                BY <3>2 DEF Rows, TypeOK
            <3>7. seg' \in [DOMAIN seg' -> SegmentRow]
                BY <3>2
            <3> QED BY <2>4, <3>5, <3>6, <3>7 DEF InsertNew, TypeOK
        <2>5. CASE PublishSegment(p)
            <3>1. /\ pc[p].at = "publish"
                  /\ pc[p].segs \subseteq SegmentId
                  /\ pc[p].last \in BOOLEAN
                BY <2>5 DEF PublishSegment, TypeOK, Continuation
            <3>2. PICK s \in pc[p].segs :
                      /\ queue' = queue \cup {ProcessSegment(s)}
                      /\ ThenPublish(p, pc[p].segs \ {s}, pc[p].last)
                BY <2>5 DEF PublishSegment
            <3>3. PICK k \in Continuation : pc' = [pc EXCEPT ![p] = k]
                BY <3>1, <3>2, ThenPublishIsContinuation
            <3>4. pc' \in [Proc -> Continuation]
                BY <3>3 DEF TypeOK
            <3>5. queue' \subseteq CenterTask
                BY <3>1, <3>2 DEF TypeOK, CenterTask
            <3> QED BY <2>5, <3>4, <3>5 DEF PublishSegment, TypeOK
        <2> QED BY <1>6, <2>1, <2>2, <2>3, <2>4, <2>5 DEF Schedule
    <1>7. ASSUME NEW p \in Proc, NEW s \in SegmentId, TakeSegment(p, s)
          PROVE  TypeOK'
        <2>1. queue' \subseteq CenterTask
            BY <1>3, <1>7 DEF TakeSegment, Take
        <2>2. pc' \in [Proc -> Continuation]
            BY <1>7 DEF TakeSegment, TypeOK, Continuation
        <2> QED BY <1>7, <2>1, <2>2 DEF TakeSegment, TypeOK
    <1>8. ASSUME NEW p \in Proc, Work(p)
          PROVE  TypeOK'
        <2>1. CASE ProcessMedia(p)
            <3>1. pc' \in [Proc -> Continuation]
                BY <2>1 DEF ProcessMedia, TypeOK, Continuation
            <3> QED BY <2>1, <3>1 DEF ProcessMedia, TypeOK
        <2>2. CASE LookAgain(p)
            <3>1. pc' \in [Proc -> Continuation]
                BY <2>2 DEF LookAgain, Go, TypeOK, Continuation
            <3> QED BY <2>2, <3>1 DEF LookAgain, TypeOK
        <2>3. CASE PersistAnswer(p)
            <3>1. pc[p].outcome \in Outcome /\ pc[p].seg \in SegmentId
                BY <2>3 DEF PersistAnswer, TypeOK, Continuation
            <3>2. \A row \in SegmentRow :
                      Answered(row, pc[p].outcome) \in SegmentRow
                <4> TAKE row \in SegmentRow
                <4> DEFINE more == Append(row.answers, pc[p].outcome)
                <4>1. more \in Seq(Outcome)
                    BY <3>1 DEF SegmentRow
                <4>2. Answered(row, pc[p].outcome) =
                          [row EXCEPT !.completed = TRUE, !.answers = more]
                    BY DEF Answered
                <4> HIDE DEF more
                <4> QED BY <4>1, <4>2 DEF SegmentRow
            <3>3. DOMAIN seg' = DOMAIN seg /\ seg' \in [DOMAIN seg -> SegmentRow]
                BY <2>3, <3>2 DEF PersistAnswer, TypeOK
            <3>4. pc' \in [Proc -> Continuation]
                BY <2>3 DEF PersistAnswer, Go, TypeOK, Continuation
            <3> QED BY <2>3, <3>3, <3>4 DEF PersistAnswer, TypeOK
        <2> QED BY <1>8, <2>1, <2>2, <2>3 DEF Work
    <1>9. ASSUME NEW p \in Proc, WorkerDies(p)
          PROVE  TypeOK'
        <2>1. pc' \in [Proc -> Continuation]
            BY <1>9 DEF WorkerDies, Go, TypeOK, Continuation
        <2> QED BY <1>9, <2>1 DEF WorkerDies, TypeOK
    <1>10. CASE UNCHANGED vars
        BY <1>10 DEF vars, TypeOK
    <1> QED BY <1>1, <1>2, <1>4, <1>5, <1>6, <1>7, <1>8, <1>9, <1>10 DEF Next

\* Type correctness of the pipeline.
THEOREM TypeCorrect == Spec => []TypeOK
    <1>1. Init => TypeOK
        BY PipelineAssumption DEF Init, TypeOK, TaskStatus, RecorderState,
                                  Continuation
    <1>2. TypeOK /\ [Next]_vars => TypeOK'
        BY TypeStep
    <1> QED BY <1>1, <1>2, PTL DEF Spec
-------------------------------------------------------------------------------
(***************************************************************************)
(* A file is scheduled once while observers take turns: there is one       *)
(* process, or the operator asks for one run at a time and the task of it  *)
(* is not delivered twice.  Observers may die, and segment tasks may be    *)
(* delivered again.                                                        *)
(***************************************************************************)
ObserversTakeTurns ==
    /\ IsFiniteSet(Proc)
    /\ \/ \A p, q \in Proc : p = q
       \/ MaxObservers <= 1 /\ "observe" \notin Redelivered

OneObserver == \A p, q \in Observing : p = q

\* While an observer runs no other is in the queue.
NoneAsked ==
    MaxObservers <= 1 /\ "observe" \notin Redelivered /\ Observing # {} =>
        Observe \notin queue

PathsAreNew ==
    \A p \in Proc : pc[p].at = "insert" =>
        \A n \in pc[p].paths, s \in Rows : seg[s].file # n

RowInv == TypeOK /\ OneObserver /\ NoneAsked /\ PathsAreNew /\ OneRowPerFile

\* A step after which no other process observes, and no other observer is
\* asked for, keeps the turns.
LEMMA TurnsAreKept ==
    ASSUME OneObserver, NoneAsked, Observing' \subseteq Observing,
           Observe \in queue' => Observe \in queue
    PROVE  OneObserver' /\ NoneAsked'
    BY DEF OneObserver, NoneAsked

\* Only p goes on, and not to an insert; it observes afterwards only if it
\* did before.
OnlyMoves(p) == \A q \in Proc \ {p} : pc'[q] = pc[q]

Quietly(p) ==
    /\ OnlyMoves(p)
    /\ pc'[p].at # "insert"
    /\ p \in Observing' => p \in Observing

LEMMA OneMoves ==
    ASSUME NEW p \in Proc, OnlyMoves(p), p \in Observing' => p \in Observing
    PROVE  Observing' \subseteq Observing
    BY DEF Observing, OnlyMoves

\* Rows and what is about to be inserted stay apart when no row changes its
\* file and nobody gets to insert.
LEMMA RowsAreKept ==
    ASSUME OneRowPerFile, PathsAreNew,
           NEW p \in Proc, OnlyMoves(p), pc'[p].at # "insert",
           Rows' = Rows, \A s \in Rows : seg'[s].file = seg[s].file
    PROVE  OneRowPerFile' /\ PathsAreNew'
    <1>1. OneRowPerFile'
        BY DEF OneRowPerFile
    <1>2. \A q \in Proc : pc'[q].at = "insert" => pc'[q] = pc[q]
        BY DEF OnlyMoves
    <1>3. PathsAreNew'
        BY <1>2 DEF PathsAreNew
    <1> QED BY <1>1, <1>3

\* The two lemmas together.
LEMMA QuietMove ==
    ASSUME RowInv, TypeOK', NEW p \in Proc, Quietly(p),
           Rows' = Rows, \A s \in Rows : seg'[s].file = seg[s].file,
           Observe \in queue' => Observe \in queue
    PROVE  RowInv'
    <1>1. Observing' \subseteq Observing
        BY OneMoves DEF Quietly
    <1>2. OneObserver' /\ NoneAsked'
        BY <1>1, TurnsAreKept DEF RowInv
    <1>3. OneRowPerFile' /\ PathsAreNew'
        BY RowsAreKept DEF RowInv, Quietly
    <1> QED BY <1>2, <1>3 DEF RowInv

\* The rows an observer inserts are of files that had none, and of different
\* ones.
LEMMA InsertKeepsRows ==
    ASSUME ObserversTakeTurns, RowInv, TypeOK', NEW p \in Proc, InsertNew(p)
    PROVE  RowInv'
    <1>1. pc[p].at = "insert" /\ p \in Observing
        BY DEF InsertNew, Observing
    <1>2. PICK D \in SUBSET (SegmentId \ Rows) :
              /\ Rows' = Rows \cup D
              /\ \A s \in Rows : seg'[s] = seg[s]
              /\ \A s \in D : seg'[s].file \in pc[p].paths
              /\ \A r, s \in D : seg'[r].file = seg'[s].file => r = s
              /\ ThenPublish(p, D, pc[p].last)
        BY <1>1, InsertedRows DEF RowInv
    <1>3. pc[p].last \in BOOLEAN
        BY <1>1 DEF RowInv, TypeOK, Continuation
    <1>4. PICK k \in Continuation : /\ pc' = [pc EXCEPT ![p] = k]
                                    /\ k.at \in {"publish", "watching", "idle"}
        BY <1>2, <1>3, ThenPublishIsContinuation DEF RowInv
    <1>5. Observing' \subseteq Observing
        <2>1. OnlyMoves(p)
            BY <1>4 DEF OnlyMoves, RowInv, TypeOK
        <2> QED BY <1>1, <2>1, OneMoves
    <1>6. OneObserver' /\ NoneAsked'
        BY <1>5, TurnsAreKept DEF RowInv, InsertNew
    <1>7. OneRowPerFile'
        <2>1. \A n \in pc[p].paths, s \in Rows : seg[s].file # n
            BY <1>1 DEF RowInv, PathsAreNew
        <2> QED BY <1>2, <2>1 DEF RowInv, OneRowPerFile
    <1>8. PathsAreNew'
        <2>1. ASSUME NEW q \in Proc, pc'[q].at = "insert"
              PROVE  FALSE
            <3>1. q # p /\ pc[q] = pc'[q]
                BY <1>4, <2>1 DEF RowInv, TypeOK
            <3>2. q \in Observing
                BY <2>1, <3>1 DEF Observing
            <3> QED BY <1>1, <3>1, <3>2 DEF RowInv, OneObserver
        <2> QED BY <2>1 DEF PathsAreNew
    <1> QED BY <1>6, <1>7, <1>8 DEF RowInv

\* A process takes an observe task only when no other observes.
LEMMA ObserversFollow ==
    ASSUME ObserversTakeTurns, RowInv, TypeOK', NEW p \in Proc, TakeObserve(p)
    PROVE  RowInv'
    <1>1. /\ Observe \in queue
          /\ pc' = [pc EXCEPT ![p] = [at |-> "watching"]]
          /\ Rows' = Rows /\ seg' = seg
        BY DEF TakeObserve, Take, Go, Rows
    <1>2. OnlyMoves(p) /\ pc'[p].at # "insert"
        BY <1>1 DEF OnlyMoves, RowInv, TypeOK
    <1>3. OneRowPerFile' /\ PathsAreNew'
        BY <1>1, <1>2, RowsAreKept DEF RowInv
    <1>4. CASE \A q \in Proc : q = p
        <2>1. OneObserver'
            BY <1>4 DEF OneObserver, Observing
        <2>2. NoneAsked'
            BY DEF NoneAsked, TakeObserve, Take, Observe
        <2> QED BY <1>3, <2>1, <2>2 DEF RowInv
    <1>5. CASE MaxObservers <= 1 /\ "observe" \notin Redelivered
        <2>1. Observing = {}
            BY <1>1, <1>5 DEF RowInv, NoneAsked
        <2>2. \A q \in Observing' : q = p
            BY <1>2, <2>1 DEF Observing, OnlyMoves
        <2>3. Observe \notin queue'
            BY <1>5 DEF TakeObserve, Take, Observe
        <2> QED BY <1>3, <2>2, <2>3 DEF RowInv, OneObserver, NoneAsked
    <1> QED BY <1>4, <1>5 DEF ObserversTakeTurns

\* The operator asks for an observer only when there is none.
LEMMA AskedWhenNone ==
    ASSUME ObserversTakeTurns, RowInv, TypeOK', OperatorObserve
    PROVE  RowInv'
    <1> DEFINE there == Observing \cup {m \in queue : m = Observe}
    <1>1. UNCHANGED <<seg, pc>>
        BY DEF OperatorObserve
    <1>2. OneObserver' /\ PathsAreNew' /\ OneRowPerFile'
        BY <1>1 DEF RowInv, OneObserver, PathsAreNew, OneRowPerFile,
                    Observing, Rows
    <1>3. ASSUME MaxObservers <= 1
          PROVE  Observing = {}
        <2>1. IsFiniteSet(there)
            <3>1. IsFiniteSet(Observing)
                BY FS_Subset DEF ObserversTakeTurns, Observing
            <3>2. IsFiniteSet({Observe})
                BY FS_Singleton
            <3>3. IsFiniteSet({m \in queue : m = Observe})
                BY <3>2, FS_Subset
            <3> QED BY <3>1, <3>3, FS_Union
        <2>2. Cardinality(there) \in Nat
            BY <2>1, FS_CardinalityType
        <2>3. Cardinality(there) < 1
            <3>1. Cardinality(there) < MaxObservers
                BY DEF OperatorObserve
            <3>2. MaxObservers \in Nat
                BY PipelineAssumption
            <3> HIDE DEF there
            <3> QED BY <1>3, <2>2, <3>1, <3>2
        <2>4. Cardinality(there) = 0
            BY <2>2, <2>3
        <2>5. there = {}
            BY <2>1, <2>4, FS_EmptySet
        <2> QED BY <2>5
    <1>4. NoneAsked'
        BY <1>1, <1>3 DEF NoneAsked, Observing
    <1> QED BY <1>2, <1>4 DEF RowInv

\* Every step keeps the invariant.
LEMMA RowStep ==
    ASSUME ObserversTakeTurns, RowInv, [Next]_vars
    PROVE  RowInv'
    <1>1. TypeOK'
        BY TypeStep DEF RowInv
    <1>2. ASSUME UNCHANGED <<seg, queue, pc>>
          PROVE  RowInv'
        BY <1>1, <1>2 DEF RowInv, OneObserver, NoneAsked, PathsAreNew,
                          OneRowPerFile, Observing, Rows
    <1>3. ASSUME NEW p \in Proc, Watch(p) \/ MarkRunning(p) \/ Scan(p)
          PROVE  RowInv'
        <2>1. UNCHANGED <<seg, queue>> /\ p \in Observing
            BY <1>3 DEF Watch, ObserveLive, ObserveStillLive, ObserveNotLive,
                        MarkRunning, Scan, Observing
        <2>2. OnlyMoves(p) /\ pc'[p].at # "insert"
            BY <1>3 DEF Watch, ObserveLive, ObserveStillLive, ObserveNotLive,
                        MarkRunning, Scan, Go, GoScan, OnlyMoves, RowInv,
                        TypeOK
        <2> QED BY <1>1, <2>1, <2>2, QuietMove DEF Quietly, Rows
    <1>4. ASSUME NEW p \in Proc, LookUp(p)
          PROVE  RowInv'
        <2> DEFINE k == [at |-> "insert", last |-> pc[p].last,
                         paths |-> NewPaths(pc[p].paths)]
        <2>1. /\ p \in Observing
              /\ pc' = [pc EXCEPT ![p] = k]
              /\ UNCHANGED <<seg, queue>>
            BY <1>4 DEF LookUp, Observing
        <2>2. \A q \in Proc : pc'[q] = IF q = p THEN k ELSE pc[q]
            BY <2>1 DEF RowInv, TypeOK
        <2>3. OneObserver' /\ NoneAsked'
            <3>1. Observing' \subseteq Observing
                BY <2>1, <2>2, OneMoves DEF OnlyMoves
            <3> QED BY <2>1, <3>1, TurnsAreKept DEF RowInv
        <2>4. \A n \in k.paths, s \in Rows : seg[s].file # n
            BY DEF NewPaths
        <2>5. PathsAreNew'
            BY <2>1, <2>2, <2>4 DEF RowInv, PathsAreNew, Rows
        <2>6. OneRowPerFile'
            BY <2>1 DEF RowInv, OneRowPerFile, Rows
        <2> QED BY <1>1, <2>3, <2>5, <2>6 DEF RowInv
    <1>5. ASSUME NEW p \in Proc, PublishSegment(p)
          PROVE  RowInv'
        <2>1. /\ pc[p].at = "publish"
              /\ pc[p].segs \subseteq SegmentId
              /\ pc[p].last \in BOOLEAN
            BY <1>5 DEF PublishSegment, RowInv, TypeOK, Continuation
        <2>2. PICK s \in pc[p].segs :
                  /\ queue' = queue \cup {ProcessSegment(s)}
                  /\ ThenPublish(p, pc[p].segs \ {s}, pc[p].last)
            BY <1>5 DEF PublishSegment
        <2>3. PICK k \in Continuation :
                  /\ pc' = [pc EXCEPT ![p] = k]
                  /\ k.at \in {"publish", "watching", "idle"}
            BY <2>1, <2>2, ThenPublishIsContinuation DEF RowInv
        <2>4. Observe \in queue' => Observe \in queue
            BY <2>2 DEF Observe, ProcessSegment
        <2>5. p \in Observing
            BY <2>1 DEF Observing
        <2>6. Rows' = Rows /\ seg' = seg
            BY <1>5 DEF PublishSegment, Rows
        <2>7. OnlyMoves(p) /\ pc'[p].at # "insert"
            BY <2>3 DEF OnlyMoves, RowInv, TypeOK
        <2> QED BY <1>1, <2>4, <2>5, <2>6, <2>7, QuietMove DEF Quietly
    <1>6. ASSUME NEW p \in Proc, NEW s \in SegmentId, TakeSegment(p, s)
          PROVE  RowInv'
        <2>1. Observe \in queue' => Observe \in queue
            BY <1>6 DEF TakeSegment, Take
        <2>2. Rows' = Rows /\ seg' = seg
            BY <1>6 DEF TakeSegment, Rows
        <2>3. Quietly(p)
            BY <1>6 DEF TakeSegment, Take, Quietly, OnlyMoves, Observing,
                        RowInv, TypeOK
        <2> QED BY <1>1, <2>1, <2>2, <2>3, QuietMove
    <1>7. ASSUME NEW p \in Proc, ProcessMedia(p) \/ LookAgain(p)
                                     \/ WorkerDies(p)
          PROVE  RowInv'
        <2>1. UNCHANGED <<seg, queue>>
            BY <1>7 DEF ProcessMedia, LookAgain, WorkerDies
        <2>2. CASE ProcessMedia(p)
            <3>1. Quietly(p)
                BY <2>2 DEF ProcessMedia, Quietly, OnlyMoves, Observing,
                            RowInv, TypeOK
            <3> QED BY <1>1, <2>1, <3>1, QuietMove DEF Rows
        <2>3. CASE LookAgain(p)
            <3>1. pc[p] \in [at : {"store", "commit"},
                             seg : SegmentId, outcome : Outcome]
                BY <2>3 DEF LookAgain, RowInv, TypeOK, Continuation
            <3>2. pc'[p].at \in {"commit", "idle"} /\ OnlyMoves(p)
                BY <2>3, <3>1 DEF LookAgain, Go, OnlyMoves, RowInv, TypeOK
            <3>3. Quietly(p)
                BY <3>2 DEF Quietly, Observing
            <3> QED BY <1>1, <2>1, <3>3, QuietMove DEF Rows
        <2>4. CASE WorkerDies(p)
            <3>1. Quietly(p)
                BY <2>4 DEF WorkerDies, Go, Quietly, OnlyMoves, Observing,
                            RowInv, TypeOK
            <3> QED BY <1>1, <2>1, <3>1, QuietMove DEF Rows
        <2> QED BY <1>7, <2>2, <2>3, <2>4
    <1>8. ASSUME NEW p \in Proc, PersistAnswer(p)
          PROVE  RowInv'
        <2>1. Quietly(p)
            BY <1>8 DEF PersistAnswer, Go, Quietly, OnlyMoves, Observing,
                        RowInv, TypeOK
        <2>2. Rows' = Rows
            BY <1>8 DEF PersistAnswer, Rows
        <2>3. \A s \in Rows : seg'[s].file = seg[s].file
            <3> TAKE s \in Rows
            <3>1. CASE s = pc[p].seg
                <4> DEFINE more == Append(seg[s].answers, pc[p].outcome)
                <4>1. seg'[s] = [seg[s] EXCEPT !.completed = TRUE,
                                               !.answers = more]
                    BY <1>8, <3>1 DEF PersistAnswer, Answered, Rows
                <4>2. seg[s] \in SegmentRow
                    BY DEF RowInv, TypeOK, Rows
                <4> HIDE DEF more
                <4> QED BY <4>1, <4>2 DEF SegmentRow
            <3>2. CASE s # pc[p].seg
                BY <1>8, <3>2 DEF PersistAnswer, Rows, RowInv, TypeOK
            <3> QED BY <3>1, <3>2
        <2>4. UNCHANGED queue
            BY <1>8 DEF PersistAnswer
        <2> QED BY <1>1, <2>1, <2>2, <2>3, <2>4, QuietMove
    <1>9. CASE RoomChanges \/ EditTask \/ \E r \in Recorder : Record(r)
        BY <1>2, <1>9 DEF RoomChanges, EditTask, Record, RecorderOpensFile,
                          RecorderStops
    <1>10. CASE UNCHANGED vars
        BY <1>2, <1>10 DEF vars
    <1> QED BY <1>1, <1>3, <1>4, <1>5, <1>6, <1>7, <1>8, <1>9, <1>10,
               InsertKeepsRows, ObserversFollow, AskedWhenNone
            DEF Next, Schedule, Work

\* A file is scheduled once, for any number of processes and files.
THEOREM FilesAreScheduledOnce ==
    ASSUME ObserversTakeTurns
    PROVE  Spec => []OneRowPerFile
    <1>1. Init => RowInv
        <2>1. Init => TypeOK
            BY PipelineAssumption DEF Init, TypeOK, TaskStatus, RecorderState,
                                      Continuation
        <2>2. Init => Observing = {} /\ Rows = {}
            BY DEF Init, Observing, Rows
        <2>3. Init => PathsAreNew
            BY DEF Init, PathsAreNew
        <2> QED BY <2>1, <2>2, <2>3 DEF RowInv, OneObserver, NoneAsked,
                                        OneRowPerFile
    <1>2. RowInv /\ [Next]_vars => RowInv'
        BY RowStep
    <1>3. RowInv => OneRowPerFile
        BY DEF RowInv
    <1> QED BY <1>1, <1>2, <1>3, PTL DEF Spec
-------------------------------------------------------------------------------
(***************************************************************************)
(* No file is skipped, for any number of processes, observers and          *)
(* recorders.  ffmpeg numbers its files from 0 and a scan lists the        *)
(* directory in one look, so the paths of a scan have no gap; what is left *)
(* of them after the look for rows has none together with the files that   *)
(* have rows, and rows stay.                                               *)
(***************************************************************************)
WithoutGap(X) == \A n \in X : 0..n \subseteq X

RowFiles == {seg[s].file : s \in Rows}

FilesInOrder ==
    /\ WithoutGap(files)
    /\ \A r \in Recorder : rec[r].file # -1 => rec[r].file \in files

PathsInOrder ==
    \A p \in Proc :
        /\ pc[p].at = "lookUp" => WithoutGap(pc[p].paths)
        /\ pc[p].at = "insert" => WithoutGap(pc[p].paths \cup RowFiles)

OrderInv == TypeOK /\ FilesInOrder /\ PathsInOrder /\ WithoutGap(RowFiles)

LEMMA RowsWithoutGap ==
    ASSUME TypeOK, WithoutGap(RowFiles)
    PROVE  NoFileSkipped
    BY DEF WithoutGap, RowFiles, NoFileSkipped

\* A gap does not open when files without a gap are added.
LEMMA NoGapOpens ==
    ASSUME NEW X, NEW Y, NEW Z, WithoutGap(X \cup Y), WithoutGap(Z), Y \subseteq Z
    PROVE  WithoutGap(X \cup Z)
    BY DEF WithoutGap

LEMMA FilesStayInOrder ==
    ASSUME OrderInv, [Next]_vars
    PROVE  FilesInOrder'
    <1>1. ASSUME NEW r \in Recorder, RecorderOpensFile(r)
          PROVE  FilesInOrder'
        <2> DEFINE n == rec[r].file + 1
        <2>1. /\ rec[r].file \in -1..LastFile /\ n \in File
              /\ files' = files \cup {n} /\ files \subseteq File
              /\ \A q \in Recorder : rec'[q].file = IF q = r THEN n ELSE rec[q].file
            BY <1>1 DEF RecorderOpensFile, OrderInv, TypeOK, RecorderState
        <2>2. \A k \in 0..n : k = n \/ k \in files
            BY <2>1, PipelineAssumption DEF OrderInv, FilesInOrder, WithoutGap, File
        <2>3. WithoutGap(files')
            BY <2>1, <2>2 DEF OrderInv, FilesInOrder, WithoutGap
        <2> QED BY <2>1, <2>3 DEF OrderInv, FilesInOrder
    <1>2. ASSUME UNCHANGED files,
                 \A r \in Recorder : rec'[r].file = rec[r].file
          PROVE  FilesInOrder'
        BY <1>2 DEF OrderInv, FilesInOrder
    <1>3. ASSUME NEW r \in Recorder, RecorderStops(r)
          PROVE  FilesInOrder'
        <2>1. \A q \in Recorder : rec'[q].file = rec[q].file
            BY <1>3 DEF RecorderStops, OrderInv, TypeOK, RecorderState
        <2> QED BY <1>2, <1>3, <2>1 DEF RecorderStops
    <1>4. ASSUME NEW p \in Proc, ObserveLive(p)
          PROVE  FilesInOrder'
        <2>1. \A q \in Recorder : rec'[q].file = rec[q].file
            BY <1>4 DEF ObserveLive, OrderInv, TypeOK, RecorderState
        <2> QED BY <1>2, <1>4, <2>1 DEF ObserveLive
    <1>5. CASE UNCHANGED <<files, rec>>
        BY <1>2, <1>5
    <1>6. \/ UNCHANGED <<files, rec>>
          \/ \E r \in Recorder : RecorderOpensFile(r) \/ RecorderStops(r)
          \/ \E p \in Proc : ObserveLive(p)
        BY DEF Next, Record, Watch, Schedule, Work, RoomChanges, OperatorObserve,
               EditTask, TakeObserve, ObserveStillLive, ObserveNotLive, MarkRunning,
               Scan, LookUp, InsertNew, PublishSegment, ProcessMedia, LookAgain,
               PersistAnswer, WorkerDies, TakeSegment, vars
    <1> QED BY <1>1, <1>3, <1>4, <1>5, <1>6

\* What each step does to the rows ...
LEMMA StepsOnRows ==
    ASSUME [Next]_vars
    PROVE  \/ \E p \in Proc : InsertNew(p) \/ PersistAnswer(p)
           \/ UNCHANGED seg
    BY DEF Next, Record, Watch, Schedule, Work, RoomChanges, OperatorObserve,
           EditTask, RecorderOpensFile, RecorderStops, TakeObserve, ObserveLive,
           ObserveStillLive, ObserveNotLive, MarkRunning, Scan, LookUp,
           PublishSegment, ProcessMedia, LookAgain, WorkerDies, TakeSegment, vars

LEMMA PersistedRow ==
    ASSUME TypeOK, NEW p \in Proc, PersistAnswer(p)
    PROVE  /\ Rows' = Rows
           /\ pc[p].seg \in Rows =>
                 seg'[pc[p].seg] = Answered(seg[pc[p].seg], pc[p].outcome)
           /\ \A s \in Rows : s # pc[p].seg => seg'[s] = seg[s]
           /\ \A s \in Rows : seg'[s].file = seg[s].file
    <1>1. /\ Rows' = Rows
          /\ pc[p].seg \in Rows =>
                seg'[pc[p].seg] = Answered(seg[pc[p].seg], pc[p].outcome)
          /\ \A s \in Rows : s # pc[p].seg => seg'[s] = seg[s]
        BY DEF PersistAnswer, Rows
    <1>2. \A s \in Rows : seg[s] \in SegmentRow
        BY DEF TypeOK, Rows
    <1>3. ASSUME NEW row \in SegmentRow, NEW outcome
          PROVE  Answered(row, outcome).file = row.file
        <2> DEFINE more == Append(row.answers, outcome)
        <2>1. Answered(row, outcome) = [row EXCEPT !.completed = TRUE, !.answers = more]
            BY DEF Answered
        <2> HIDE DEF more
        <2> QED BY <2>1 DEF SegmentRow
    <1>4. \A s \in Rows : seg'[s].file = seg[s].file
        BY <1>1, <1>2, <1>3
    <1> QED BY <1>1, <1>4

\* ... and which steps get a process to look paths up, insert, or commit.
LEMMA StepsOfProcesses ==
    ASSUME TypeOK, [Next]_vars, NEW q \in Proc, pc'[q] # pc[q],
           pc'[q].at \in {"lookUp", "insert", "commit"}
    PROVE  \/ Scan(q) /\ pc'[q].at = "lookUp"
           \/ LookUp(q) /\ pc'[q].at = "insert"
           \/ LookAgain(q) /\ pc'[q].at = "commit"
    <1>1. PICK p \in Proc :
              \/ TakeObserve(p) \/ Watch(p) \/ Schedule(p) \/ Work(p)
              \/ WorkerDies(p)
              \/ \E s \in SegmentId : TakeSegment(p, s)
        BY DEF Next, RoomChanges, OperatorObserve, EditTask, Record,
               RecorderOpensFile, RecorderStops, vars
    <1>2. CASE TakeObserve(p) \/ WorkerDies(p) \/ Watch(p) \/ MarkRunning(p)
        BY <1>2 DEF TakeObserve, WorkerDies, Watch, ObserveLive, ObserveStillLive,
                    ObserveNotLive, MarkRunning, Go, GoScan, TypeOK
    <1>3. CASE \E s \in SegmentId : TakeSegment(p, s)
        BY <1>3 DEF TakeSegment, TypeOK
    <1>4. CASE Scan(p)
        BY <1>4 DEF Scan, TypeOK
    <1>5. CASE LookUp(p)
        BY <1>5 DEF LookUp, TypeOK
    <1>6. CASE InsertNew(p)
        <2>1. pc[p].at = "insert" /\ pc[p].last \in BOOLEAN
            BY <1>6 DEF InsertNew, TypeOK, Continuation
        <2>2. \E D \in SUBSET SegmentId : ThenPublish(p, D, pc[p].last)
            BY <1>6, <2>1, InsertedRows
        <2>3. \E k \in Continuation : /\ pc' = [pc EXCEPT ![p] = k]
                                      /\ k.at \in {"publish", "watching", "idle"}
            BY <2>1, <2>2, ThenPublishIsContinuation
        <2> QED BY <2>3 DEF TypeOK
    <1>7. CASE PublishSegment(p)
        <2>1. pc[p].at = "publish" /\ pc[p].last \in BOOLEAN
              /\ pc[p].segs \subseteq SegmentId
            BY <1>7 DEF PublishSegment, TypeOK, Continuation
        <2>2. \E D \in SUBSET SegmentId : ThenPublish(p, D, pc[p].last)
            BY <1>7, <2>1 DEF PublishSegment
        <2>3. \E k \in Continuation : /\ pc' = [pc EXCEPT ![p] = k]
                                      /\ k.at \in {"publish", "watching", "idle"}
            BY <2>1, <2>2, ThenPublishIsContinuation
        <2> QED BY <2>3 DEF TypeOK
    <1>8. CASE ProcessMedia(p) \/ PersistAnswer(p)
        BY <1>8 DEF ProcessMedia, PersistAnswer, Go, TypeOK
    <1>9. CASE LookAgain(p)
        <2>1. pc[p] \in [at : {"store", "commit"}, seg : SegmentId, outcome : Outcome]
            BY <1>9 DEF LookAgain, TypeOK, Continuation
        <2>2. pc'[p].at \in {"commit", "idle"} /\ \A r \in Proc \ {p} : pc'[r] = pc[r]
            BY <1>9, <2>1 DEF LookAgain, Go, TypeOK
        <2> QED BY <1>9, <2>2
    <1> QED BY <1>1, <1>2, <1>3, <1>4, <1>5, <1>6, <1>7, <1>8, <1>9 DEF Schedule, Work

LEMMA OrderStep ==
    ASSUME OrderInv, [Next]_vars
    PROVE  OrderInv'
    <1>1. TypeOK' /\ FilesInOrder'
        BY TypeStep, FilesStayInOrder DEF OrderInv
    <1>2. /\ RowFiles \subseteq RowFiles' /\ WithoutGap(RowFiles')
        <2>1. CASE UNCHANGED seg
            BY <2>1 DEF OrderInv, RowFiles, Rows
        <2>2. ASSUME NEW p \in Proc, PersistAnswer(p)
              PROVE  RowFiles' = RowFiles
            BY <2>2, PersistedRow DEF OrderInv, RowFiles
        <2>3. ASSUME NEW p \in Proc, InsertNew(p)
              PROVE  RowFiles' = pc[p].paths \cup RowFiles
            <3>1. pc[p].at = "insert"
                BY <2>3 DEF InsertNew
            <3>2. PICK D \in SUBSET (SegmentId \ Rows) :
                      /\ Rows' = Rows \cup D
                      /\ \A s \in Rows : seg'[s] = seg[s]
                      /\ \A s \in D : seg'[s].file \in pc[p].paths
                      /\ \A n \in pc[p].paths : \E s \in D : seg'[s].file = n
                BY <2>3, <3>1, InsertedRows DEF OrderInv
            <3> QED BY <3>2 DEF RowFiles
        <2>4. ASSUME NEW p \in Proc, InsertNew(p)
              PROVE  WithoutGap(pc[p].paths \cup RowFiles)
            BY <2>4 DEF InsertNew, OrderInv, PathsInOrder
        <2> QED BY <2>1, <2>2, <2>3, <2>4, StepsOnRows DEF OrderInv
    <1>3. ASSUME NEW q \in Proc
          PROVE  /\ pc'[q].at = "lookUp" => WithoutGap(pc'[q].paths)
                 /\ pc'[q].at = "insert" => WithoutGap(pc'[q].paths \cup RowFiles')
        <2>1. CASE pc'[q] = pc[q]
            BY <1>2, <2>1, NoGapOpens DEF OrderInv, PathsInOrder
        <2>2. CASE Scan(q)
            <3>1. pc'[q].at = "lookUp" /\ pc'[q].paths = CompletedSegments(pc[q].last)
                BY <2>2 DEF Scan, OrderInv, TypeOK
            <3>2. WithoutGap(CompletedSegments(pc[q].last))
                <4>1. files \subseteq Int
                    BY PipelineAssumption DEF OrderInv, TypeOK, File
                <4> QED BY <4>1 DEF CompletedSegments, OrderInv, FilesInOrder, WithoutGap
            <3> QED BY <3>1, <3>2
        <2>3. CASE LookUp(q)
            <3>1. /\ pc[q].at = "lookUp" /\ pc'[q].at = "insert"
                  /\ pc'[q].paths = NewPaths(pc[q].paths)
                BY <2>3 DEF LookUp, OrderInv, TypeOK
            <3>2. WithoutGap(pc[q].paths)
                BY <3>1 DEF OrderInv, PathsInOrder
            <3>3. /\ pc[q].paths \subseteq NewPaths(pc[q].paths) \cup RowFiles
                  /\ NewPaths(pc[q].paths) \subseteq pc[q].paths
                BY DEF NewPaths, RowFiles
            <3>4. WithoutGap(NewPaths(pc[q].paths) \cup RowFiles)
                BY <3>2, <3>3 DEF OrderInv, WithoutGap
            <3> QED BY <1>2, <3>1, <3>4, NoGapOpens
        <2> QED BY <2>1, <2>2, <2>3, StepsOfProcesses DEF OrderInv
    <1>4. PathsInOrder'
        BY <1>3 DEF PathsInOrder
    <1> QED BY <1>1, <1>2, <1>4 DEF OrderInv

LEMMA OrderInit == Init => OrderInv
    <1> SUFFICES ASSUME Init PROVE OrderInv
        OBVIOUS
    <1>1. TypeOK
        BY PipelineAssumption DEF Init, TypeOK, TaskStatus, RecorderState,
                                  Continuation
    <1>2. RowFiles = {} /\ files = {}
        BY DEF Init, RowFiles, Rows
    <1>3. FilesInOrder /\ PathsInOrder /\ WithoutGap(RowFiles)
        BY <1>2 DEF Init, FilesInOrder, PathsInOrder, WithoutGap
    <1> QED BY <1>1, <1>3 DEF OrderInv

LEMMA AlwaysInOrder == Spec => []OrderInv
    BY OrderInit, OrderStep, PTL DEF Spec

\* No file of the recording is passed over for a later one, whenever scans
\* happen, wherever an observer dies and however many observe.
THEOREM NoFileIsSkipped == Spec => []NoFileSkipped
    <1>1. OrderInv => NoFileSkipped
        BY RowsWithoutGap DEF OrderInv
    <1> QED BY <1>1, AlwaysInOrder, PTL
-------------------------------------------------------------------------------
(***************************************************************************)
(* However often the task of a segment is delivered, and whatever dies, no *)
(* more outcomes of it are persisted than there are processes: a process   *)
(* that is about to commit one found the row open, so it did before the    *)
(* first outcome was there, and each of them commits once.                 *)
(***************************************************************************)
Committing(s) == {p \in Proc : pc[p].at = "commit" /\ pc[p].seg = s}

CommitsRow == \A p \in Proc : pc[p].at = "commit" => pc[p].seg \in Rows

AnsweredRows ==
    \A s \in Rows : seg[s].completed <=> seg[s].answers # <<>>

AnswersFit ==
    \A s \in Rows :
        Len(seg[s].answers) + Cardinality(Committing(s)) <= Cardinality(Proc)

AnswerInv == TypeOK /\ CommitsRow /\ AnsweredRows /\ AnswersFit

LEMMA CommittingIsFinite ==
    ASSUME IsFiniteSet(Proc), NEW s
    PROVE  /\ Cardinality(Proc) \in Nat
           /\ IsFiniteSet(Committing(s)) /\ Cardinality(Committing(s)) \in Nat
           /\ Cardinality(Committing(s)) <= Cardinality(Proc)
           /\ IsFiniteSet(Committing(s)') /\ Cardinality(Committing(s)') \in Nat
           /\ Cardinality(Committing(s)') <= Cardinality(Proc)
    <1>1. Committing(s) \subseteq Proc /\ Committing(s)' \subseteq Proc
        BY DEF Committing
    <1> QED BY <1>1, FS_Subset, FS_CardinalityType

\* A row that is open, or that no process begins to commit to, stays within
\* its number of answers.
LEMMA AnswersStayFit ==
    ASSUME IsFiniteSet(Proc), AnswerInv, TypeOK', NEW s \in Rows, s \in Rows',
           seg'[s] = seg[s],
           seg[s].completed => Committing(s)' \subseteq Committing(s)
    PROVE  Len(seg'[s].answers) + Cardinality(Committing(s)') <= Cardinality(Proc)
    <1>1. CASE seg[s].completed
        <2>1. Cardinality(Committing(s)') <= Cardinality(Committing(s))
            BY <1>1, CommittingIsFinite, FS_Subset
        <2>2. Len(seg[s].answers) \in Nat
            BY DEF AnswerInv, TypeOK, Rows, SegmentRow
        <2>3. Len(seg[s].answers) + Cardinality(Committing(s)) <= Cardinality(Proc)
            BY DEF AnswerInv, AnswersFit
        <2> QED BY <2>1, <2>2, <2>3, CommittingIsFinite
    <1>2. CASE ~seg[s].completed
        <2>1. Len(seg'[s].answers) = 0
            BY <1>2 DEF AnswerInv, AnsweredRows
        <2> QED BY <2>1, CommittingIsFinite
    <1> QED BY <1>1, <1>2

\* A process that gets to its commit has found the row open.
LEMMA CommitsWereOpen ==
    ASSUME TypeOK, [Next]_vars, NEW q \in Proc, pc'[q] # pc[q],
           pc'[q].at = "commit"
    PROVE  IsOpen(pc'[q].seg) /\ LookAgain(q)
    <1>1. LookAgain(q)
        BY StepsOfProcesses
    <1>2. pc[q] \in [at : {"store", "commit"}, seg : SegmentId, outcome : Outcome]
        BY <1>1 DEF LookAgain, TypeOK, Continuation
    <1>3. IsOpen(pc[q].seg) /\ pc'[q].seg = pc[q].seg
        BY <1>1, <1>2 DEF LookAgain, Go, TypeOK
    <1> QED BY <1>1, <1>3

LEMMA CommittingFollows ==
    ASSUME TypeOK, [Next]_vars, NEW s \in Rows, seg[s].completed
    PROVE  Committing(s)' \subseteq Committing(s)
    <1> SUFFICES ASSUME NEW q \in Proc, pc'[q].at = "commit", pc'[q].seg = s
                 PROVE  pc'[q] = pc[q]
        BY DEF Committing
    <1> QED BY CommitsWereOpen DEF IsOpen

LEMMA AnswerStep ==
    ASSUME IsFiniteSet(Proc), AnswerInv, [Next]_vars
    PROVE  AnswerInv'
    <1>1. TypeOK'
        BY TypeStep DEF AnswerInv
    <1>2. Rows \subseteq Rows'
        BY StepsOnRows, PersistedRow, InsertedRows
           DEF AnswerInv, Rows, InsertNew
    <1>3. CommitsRow'
        <2> SUFFICES ASSUME NEW q \in Proc, pc'[q].at = "commit"
                     PROVE  pc'[q].seg \in Rows
            BY <1>2 DEF CommitsRow
        <2>1. CASE pc'[q] = pc[q]
            BY <2>1 DEF AnswerInv, CommitsRow
        <2>2. CASE pc'[q] # pc[q]
            BY <2>2, CommitsWereOpen DEF AnswerInv, IsOpen
        <2> QED BY <2>1, <2>2
    <1>4. ASSUME NEW s \in Rows, seg'[s] = seg[s]
          PROVE  Len(seg'[s].answers) + Cardinality(Committing(s)')
                     <= Cardinality(Proc)
        BY <1>1, <1>2, <1>4, AnswersStayFit, CommittingFollows DEF AnswerInv
    <1>5. CASE UNCHANGED seg
        <2>1. AnsweredRows' /\ AnswersFit'
            BY <1>4, <1>5 DEF AnswerInv, AnsweredRows, AnswersFit, Rows
        <2> QED BY <1>1, <1>3, <2>1 DEF AnswerInv
    <1>6. ASSUME NEW p \in Proc, InsertNew(p)
          PROVE  AnswerInv'
        <2>1. PICK D \in SUBSET (SegmentId \ Rows) :
                  /\ Rows' = Rows \cup D
                  /\ \A s \in Rows : seg'[s] = seg[s]
                  /\ \A s \in D : ~seg'[s].completed /\ seg'[s].answers = <<>>
            BY <1>6, InsertedRows DEF AnswerInv, InsertNew
        <2>2. AnsweredRows'
            BY <2>1 DEF AnswerInv, AnsweredRows
        <2>3. \A s \in D : Len(seg'[s].answers) = 0
            BY <2>1
        <2>4. AnswersFit'
            BY <1>4, <2>1, <2>3, CommittingIsFinite DEF AnswersFit
        <2> QED BY <1>1, <1>3, <2>2, <2>4 DEF AnswerInv
    <1>7. ASSUME NEW p \in Proc, PersistAnswer(p)
          PROVE  AnswerInv'
        <2>1. PICK s \in Rows :
                  /\ s = pc[p].seg /\ seg[s] \in SegmentRow
                  /\ pc[p].at = "commit" /\ pc[p].outcome \in Outcome
            BY <1>7 DEF PersistAnswer, AnswerInv, CommitsRow, TypeOK, Rows,
                        Continuation
        <2>2. /\ seg'[s].completed /\ seg'[s].answers # <<>>
              /\ Len(seg'[s].answers) = Len(seg[s].answers) + 1
              /\ Len(seg[s].answers) \in Nat
            <3> DEFINE more == Append(seg[s].answers, pc[p].outcome)
            <3>1. seg[s].answers \in Seq(Outcome)
                BY <2>1 DEF SegmentRow
            <3>2. Len(more) = Len(seg[s].answers) + 1 /\ Len(seg[s].answers) \in Nat
                BY <2>1, <3>1
            <3>3. more # <<>>
                <4> HIDE DEF more
                <4> QED BY <3>2
            <3>4. seg'[s] = [seg[s] EXCEPT !.completed = TRUE, !.answers = more]
                BY <1>7, <2>1, PersistedRow DEF Answered, AnswerInv
            <3> HIDE DEF more
            <3> QED BY <2>1, <3>2, <3>3, <3>4 DEF SegmentRow
        <2>3. Rows' = Rows /\ \A r \in Rows : r # s => seg'[r] = seg[r]
            BY <1>7, <2>1, PersistedRow DEF AnswerInv
        <2>4. Committing(s)' = Committing(s) \ {p} /\ p \in Committing(s)
            BY <1>7, <2>1 DEF PersistAnswer, Go, Committing, AnswerInv, TypeOK
        <2>5. Cardinality(Committing(s)') = Cardinality(Committing(s)) - 1
            BY <2>4, CommittingIsFinite, FS_RemoveElement
        <2>6. Len(seg[s].answers) + Cardinality(Committing(s)) <= Cardinality(Proc)
            BY <2>1 DEF AnswerInv, AnswersFit
        <2>7. Len(seg'[s].answers) + Cardinality(Committing(s)') <= Cardinality(Proc)
            BY <2>2, <2>5, <2>6, CommittingIsFinite
        <2>8. AnsweredRows'
            BY <2>2, <2>3 DEF AnswerInv, AnsweredRows
        <2>9. AnswersFit'
            BY <1>4, <2>1, <2>3, <2>7 DEF AnswersFit
        <2> QED BY <1>1, <1>3, <2>8, <2>9 DEF AnswerInv
    <1> QED BY <1>5, <1>6, <1>7, StepsOnRows

LEMMA AnswerInit == Init => AnswerInv
    <1> SUFFICES ASSUME Init PROVE AnswerInv
        OBVIOUS
    <1>1. TypeOK
        BY OrderInit DEF OrderInv
    <1>2. Rows = {} /\ \A p \in Proc : pc[p].at = "idle"
        BY DEF Init, Rows
    <1> QED BY <1>1, <1>2 DEF AnswerInv, CommitsRow, AnsweredRows, AnswersFit

\* A segment is completed when it has an outcome and gets at most one from
\* each process of a finite pool, with any deaths and repeated deliveries.
THEOREM AnswersStayWithinPool ==
    ASSUME IsFiniteSet(Proc)
    PROVE  Spec => []AnswersWithinPool
    <1>1. AnswerInv /\ [Next]_vars => AnswerInv'
        BY AnswerStep
    <1>2. ASSUME AnswerInv
          PROVE  AnswersWithinPool
        <2> SUFFICES ASSUME NEW s \in Rows
                     PROVE  /\ seg[s].completed <=> seg[s].answers # <<>>
                            /\ Len(seg[s].answers) <= Cardinality(Proc)
            BY DEF AnswersWithinPool
        <2>1. Len(seg[s].answers) \in Nat
            BY <1>2 DEF AnswerInv, TypeOK, Rows, SegmentRow
        <2>2. Len(seg[s].answers) + Cardinality(Committing(s)) <= Cardinality(Proc)
            BY <1>2 DEF AnswerInv, AnswersFit
        <2> QED BY <1>2, <2>1, <2>2, CommittingIsFinite
                DEF AnswerInv, AnsweredRows
    <1>3. AnswerInv => AnswersWithinPool
        BY <1>2
    <1> QED BY AnswerInit, <1>1, <1>3, PTL DEF Spec
-------------------------------------------------------------------------------
(***************************************************************************)
(* The pipeline implements SegmentLedger.                                  *)
(***************************************************************************)
\* What the ledger says of a file with a row, and of one without.
LEMMA LedgerOfRow ==
    ASSUME TypeOK, OneRowPerFile
    PROVE  /\ \A s \in Rows : LedgerOfRows[seg[s].file] = Taken(seg[s])
           /\ \A n \in File : (\A s \in Rows : seg[s].file # n) => LedgerOfRows[n] = Untaken
           /\ LedgerOfRows = [n \in File |-> LedgerOfRows[n]]
    <1>1. ASSUME NEW s \in Rows
          PROVE  LedgerOfRows[seg[s].file] = Taken(seg[s])
        <2>1. seg[s].file \in File
            BY DEF TypeOK, Rows, SegmentRow
        <2>2. (CHOOSE r \in Rows : seg[r].file = seg[s].file) = s
            BY DEF OneRowPerFile
        <2> QED BY <2>1, <2>2 DEF LedgerOfRows
    <1>2. ASSUME NEW n \in File, \A s \in Rows : seg[s].file # n
          PROVE  LedgerOfRows[n] = Untaken
        BY <1>2 DEF LedgerOfRows
    <1> QED BY <1>1, <1>2 DEF LedgerOfRows

LEMMA LedgerOfRowAfter ==
    ASSUME TypeOK', OneRowPerFile'
    PROVE  /\ \A s \in Rows' : LedgerOfRows'[seg'[s].file] = Taken(seg'[s])
           /\ \A n \in File : (\A s \in Rows' : seg'[s].file # n) => LedgerOfRows'[n] = Untaken
           /\ LedgerOfRows' = [n \in File |-> LedgerOfRows'[n]]
    <1>1. ASSUME NEW s \in Rows'
          PROVE  LedgerOfRows'[seg'[s].file] = Taken(seg'[s])
        <2>1. seg'[s].file \in File
            BY DEF TypeOK, Rows, SegmentRow
        <2>2. (CHOOSE r \in Rows' : seg'[r].file = seg'[s].file) = s
            BY DEF OneRowPerFile
        <2> QED BY <2>1, <2>2 DEF LedgerOfRows
    <1>2. ASSUME NEW n \in File, \A s \in Rows' : seg'[s].file # n
          PROVE  LedgerOfRows'[n] = Untaken
        BY <1>2 DEF LedgerOfRows
    <1> QED BY <1>1, <1>2 DEF LedgerOfRows

LedgerInv == RowInv /\ OrderInv /\ AnswerInv

LEMMA InsertTakes ==
    ASSUME LedgerInv, LedgerInv', NEW p \in Proc, InsertNew(p)
    PROVE  Ledger!Take(pc[p].paths) /\ pc[p].paths \in SUBSET File
    <1> DEFINE S == pc[p].paths
    <1>1. pc[p].at = "insert" /\ S \subseteq File
        BY DEF InsertNew, LedgerInv, OrderInv, TypeOK, Continuation
    <1>2. PICK D \in SUBSET (SegmentId \ Rows) :
              /\ Rows' = Rows \cup D
              /\ \A s \in Rows : seg'[s] = seg[s]
              /\ \A s \in D : seg'[s].file \in S /\ seg'[s].answers = <<>>
              /\ \A n \in S : \E s \in D : seg'[s].file = n
        BY <1>1, InsertedRows DEF LedgerInv, OrderInv
    <1>3. \A n \in S, s \in Rows : seg[s].file # n
        BY <1>1 DEF LedgerInv, RowInv, PathsAreNew
    <1>4. \A n \in S : ~LedgerOfRows[n].taken
        BY <1>1, <1>3, LedgerOfRow DEF LedgerInv, RowInv, Untaken
    <1>5. \A n \in S : \A m \in 0..n : m \in S \/ LedgerOfRows[m].taken
        <2>1. WithoutGap(S \cup RowFiles)
            BY <1>1 DEF LedgerInv, OrderInv, PathsInOrder
        <2>2. ASSUME NEW s \in Rows
              PROVE  LedgerOfRows[seg[s].file].taken
            <3>1. LedgerOfRows[seg[s].file] = Taken(seg[s])
                BY LedgerOfRow DEF LedgerInv, RowInv
            <3> QED BY <3>1 DEF Taken
        <2> QED BY <2>1, <2>2 DEF WithoutGap, RowFiles
    <1>6. ASSUME NEW n \in File
          PROVE  LedgerOfRows'[n] = IF n \in S THEN Ledger!Entry(TRUE, <<>>) ELSE LedgerOfRows[n]
        <2>1. CASE n \in S
            <3>1. PICK s \in D : seg'[s].file = n
                BY <1>2, <2>1
            <3>2. LedgerOfRows'[n] = Taken(seg'[s])
                BY <1>2, <3>1, LedgerOfRowAfter DEF LedgerInv, RowInv
            <3> QED BY <1>2, <2>1, <3>1, <3>2 DEF Taken, Ledger!Entry
        <2>2. CASE n \notin S /\ \E s \in Rows : seg[s].file = n
            <3>1. PICK s \in Rows : seg[s].file = n
                BY <2>2
            <3>2. LedgerOfRows[n] = Taken(seg[s])
                BY <3>1, LedgerOfRow DEF LedgerInv, RowInv
            <3>3. LedgerOfRows'[n] = Taken(seg[s])
                BY <1>2, <3>1, LedgerOfRowAfter DEF LedgerInv, RowInv
            <3> QED BY <2>2, <3>2, <3>3
        <2>3. CASE n \notin S /\ \A s \in Rows : seg[s].file # n
            <3>1. \A s \in Rows' : seg'[s].file # n
                BY <1>2, <2>3
            <3>2. LedgerOfRows[n] = Untaken /\ LedgerOfRows'[n] = Untaken
                BY <2>3, <3>1, LedgerOfRow, LedgerOfRowAfter DEF LedgerInv, RowInv
            <3> QED BY <2>3, <3>2
        <2> QED BY <2>1, <2>2, <2>3
    <1>7. LedgerOfRows' = [n \in File |-> IF n \in S THEN Ledger!Entry(TRUE, <<>>) ELSE LedgerOfRows[n]]
        BY <1>6, LedgerOfRowAfter DEF LedgerInv, RowInv
    <1> QED BY <1>1, <1>4, <1>5, <1>7 DEF Ledger!Take, Ledger!Numbers, File

LEMMA PersistAnswers ==
    ASSUME IsFiniteSet(Proc), LedgerInv, LedgerInv', NEW p \in Proc,
           PersistAnswer(p)
    PROVE  \E n \in File : Ledger!Answer(n)
    <1> DEFINE s == pc[p].seg
               f == seg[s].file
               outcome == pc[p].outcome
               more == Append(seg[s].answers, outcome)
    <1>1. /\ s \in Rows /\ outcome \in Outcome
          /\ p \in Committing(s)
        BY DEF PersistAnswer, LedgerInv, AnswerInv, CommitsRow, TypeOK,
               Continuation, Committing
    <1>2. seg[s] \in SegmentRow /\ f \in File
        BY <1>1 DEF LedgerInv, OrderInv, TypeOK, Rows, SegmentRow
    <1>3. LedgerOfRows[f] = [taken |-> TRUE, answers |-> seg[s].answers]
        BY <1>1, LedgerOfRow DEF LedgerInv, RowInv, Taken
    <1>4. Len(seg[s].answers) < Cardinality(Proc)
        <2>1. Cardinality(Committing(s)) # 0
            BY <1>1, CommittingIsFinite, FS_EmptySet
        <2>2. Len(seg[s].answers) + Cardinality(Committing(s)) <= Cardinality(Proc)
            BY <1>1 DEF LedgerInv, AnswerInv, AnswersFit
        <2>3. Len(seg[s].answers) \in Nat
            BY <1>2 DEF SegmentRow
        <2> HIDE DEF s
        <2> QED BY <2>1, <2>2, <2>3, CommittingIsFinite
    <1>5. seg'[s].answers = more
        <2>1. seg'[s] = [seg[s] EXCEPT !.completed = TRUE, !.answers = more]
            BY <1>1, PersistedRow DEF Answered, LedgerInv, OrderInv
        <2> HIDE DEF more
        <2> QED BY <1>2, <2>1 DEF SegmentRow
    <1>6. /\ Rows' = Rows
          /\ \A r \in Rows : seg'[r].file = seg[r].file
          /\ \A r \in Rows : r # s => seg'[r] = seg[r]
        BY PersistedRow DEF LedgerInv, OrderInv
    <1>7. \A r \in Rows : seg[r].file = f => r = s
        BY <1>1 DEF LedgerInv, RowInv, OneRowPerFile
    <1> HIDE DEF s, f, outcome, more
    <1>8. ASSUME NEW n \in File
          PROVE  LedgerOfRows'[n] = IF n = f THEN Ledger!Entry(TRUE, more)
                                             ELSE LedgerOfRows[n]
        <2>1. CASE n = f
            <3>1. LedgerOfRows'[n] = Taken(seg'[s])
                BY <1>1, <1>6, <2>1, LedgerOfRowAfter DEF LedgerInv, RowInv, f
            <3> QED BY <1>5, <2>1, <3>1 DEF Taken, Ledger!Entry
        <2>2. CASE n # f /\ \E r \in Rows : seg[r].file = n
            <3>1. PICK r \in Rows : seg[r].file = n
                BY <2>2
            <3>2. r # s
                BY <2>2, <3>1 DEF f
            <3>3. LedgerOfRows[n] = Taken(seg[r])
                BY <3>1, LedgerOfRow DEF LedgerInv, RowInv
            <3>4. LedgerOfRows'[n] = Taken(seg[r])
                BY <1>6, <3>1, <3>2, LedgerOfRowAfter DEF LedgerInv, RowInv
            <3> QED BY <2>2, <3>3, <3>4
        <2>3. CASE n # f /\ \A r \in Rows : seg[r].file # n
            BY <1>6, <2>3, LedgerOfRow, LedgerOfRowAfter DEF LedgerInv, RowInv
        <2> QED BY <2>1, <2>2, <2>3
    <1>9. LedgerOfRows' = [LedgerOfRows EXCEPT ![f] = Ledger!Entry(TRUE, more)]
        BY <1>2, <1>8, LedgerOfRow, LedgerOfRowAfter DEF LedgerInv, RowInv
    <1>10. Ledger!Answer(f)
        <2>1. LedgerOfRows[f].taken /\ LedgerOfRows[f].answers = seg[s].answers
            BY <1>3
        <2>2. more = Append(LedgerOfRows[f].answers, outcome)
            BY <2>1 DEF more
        <2> QED BY <1>1, <1>4, <1>9, <2>1, <2>2 DEF Ledger!Answer, Outcome
    <1> QED BY <1>2, <1>10

LEMMA LedgerStep ==
    ASSUME IsFiniteSet(Proc), LedgerInv, LedgerInv', [Next]_vars
    PROVE  [Ledger!Next]_LedgerOfRows
    <1>1. ASSUME NEW p \in Proc, InsertNew(p)
          PROVE  Ledger!Next
        BY <1>1, InsertTakes DEF Ledger!Next, Ledger!Numbers, File
    <1>2. ASSUME NEW p \in Proc, PersistAnswer(p)
          PROVE  Ledger!Next
        BY <1>2, PersistAnswers DEF Ledger!Next, Ledger!Numbers, File
    <1>3. CASE UNCHANGED seg
        BY <1>3 DEF LedgerOfRows, Rows
    <1> QED BY <1>1, <1>2, <1>3, StepsOnRows

\* As long as observers take turns the pipeline implements SegmentLedger, for
\* any number of processes, overlapping deliveries, deaths and recordings:
\* files are taken in order and each once, and no answer is withdrawn.
THEOREM LedgerIsImplemented ==
    ASSUME ObserversTakeTurns
    PROVE  Spec => ImplementsLedger
    <1>f. IsFiniteSet(Proc)
        BY DEF ObserversTakeTurns
    <1>1. Init => LedgerInv
        BY OrderInit, AnswerInit
           DEF OrderInv, LedgerInv, RowInv, Init, OneObserver, NoneAsked, PathsAreNew,
               OneRowPerFile, Observing, Rows
    <1>2. LedgerInv /\ [Next]_vars => LedgerInv'
        BY <1>f, RowStep, OrderStep, AnswerStep DEF LedgerInv
    <1>3. Init => Ledger!Init
        BY DEF Init, Ledger!Init, Ledger!Numbers, Ledger!Entry, LedgerOfRows,
               Untaken, Rows, File
    <1>4. LedgerInv /\ LedgerInv' /\ [Next]_vars => [Ledger!Next]_LedgerOfRows
        BY <1>f, LedgerStep
    <1> QED BY <1>1, <1>2, <1>3, <1>4, PTL DEF Spec, ImplementsLedger, Ledger!Spec
-------------------------------------------------------------------------------
(***************************************************************************)
(* When a file that ffmpeg still writes may be cut.  A scan takes a file   *)
(* because a later one is there, and a recorder that nobody follows writes *)
(* a file as late as any; or it takes all of them because the room is      *)
(* over.  Either stays true while the file waits for its row, its task and *)
(* its process.                                                            *)
(***************************************************************************)
IsStarted(r) == r \in Started

\* No two of the ffmpeg processes have been started.
OneRecording == \A q, r \in Started : q = r

IsWhole(n) == room = "over" \/ \E m \in files : m > n

FilesAreRecorded ==
    \A m \in files : \E r \in Recorder : IsStarted(r) /\ m <= rec[r].file

LastScansAreLate ==
    \A p \in Proc : pc[p].at = "scan" /\ pc[p].last => room = "over"

PathsAreWhole ==
    \A p \in Proc : pc[p].at \in {"lookUp", "insert"} =>
        \A n \in pc[p].paths : IsWhole(n)

RowsAreWhole == \A s \in Rows : IsWhole(seg[s].file)

ExtractsRow == \A p \in Proc : pc[p].at = "extract" => pc[p].seg \in Rows

WholeInv ==
    /\ TypeOK /\ FilesAreRecorded /\ LastScansAreLate
    /\ PathsAreWhole /\ RowsAreWhole /\ ExtractsRow

\* What an observation says of the room.
LEMMA ObservationIsTrue ==
    /\ Observation = "live" => room # "over"
    /\ Observation = "not_live" => room = "over"
    <1>1. Signals.finished = (room = "over")
        BY DEF Signals
    <1>2. CASE room = "over"
        BY <1>1, <1>2 DEF Observation
    <1>3. CASE room # "over"
        <2>1. Observation = IF Signals.playing THEN "live" ELSE "unknown"
            BY <1>1, <1>3 DEF Observation, Signals
        <2> QED BY <2>1, <1>3
    <1> QED BY <1>2, <1>3

\* What each step does to the recording ...
LEMMA StepsOnRecording ==
    ASSUME [Next]_vars
    PROVE  \/ \E r \in Recorder : RecorderOpensFile(r) \/ RecorderStops(r)
           \/ \E p \in Proc : ObserveLive(p)
           \/ RoomChanges
           \/ UNCHANGED <<room, rec, files>>
    BY DEF Next, Record, Watch, Schedule, Work, OperatorObserve, EditTask,
           TakeObserve, ObserveStillLive, ObserveNotLive, MarkRunning, Scan,
           LookUp, InsertNew, PublishSegment, ProcessMedia, LookAgain,
           PersistAnswer, WorkerDies, TakeSegment, vars

\* ... and which steps get a process to a scan or a segment.
LEMMA StepsToWork ==
    ASSUME TypeOK, [Next]_vars, NEW q \in Proc, pc'[q] # pc[q],
           pc'[q].at \in {"scan", "extract"}
    PROVE  \/ ObserveNotLive(q) /\ pc'[q].at = "scan"
           \/ pc'[q] = [at |-> "scan", last |-> FALSE]
           \/ \E s \in SegmentId : /\ IsOpen(s)
                                   /\ pc'[q] = [at |-> "extract", seg |-> s]
    <1>1. PICK p \in Proc :
              \/ TakeObserve(p) \/ Watch(p) \/ Schedule(p) \/ Work(p)
              \/ WorkerDies(p)
              \/ \E s \in SegmentId : TakeSegment(p, s)
        BY DEF Next, RoomChanges, OperatorObserve, EditTask, Record,
               RecorderOpensFile, RecorderStops, vars
    <1>2. CASE \/ TakeObserve(p) \/ WorkerDies(p) \/ ObserveLive(p)
               \/ Scan(p) \/ LookUp(p) \/ ProcessMedia(p) \/ PersistAnswer(p)
        BY <1>2 DEF TakeObserve, WorkerDies, ObserveLive, Scan, LookUp,
                    ProcessMedia, PersistAnswer, Go, TypeOK
    <1>3. CASE ObserveStillLive(p) \/ MarkRunning(p)
        BY <1>3 DEF ObserveStillLive, MarkRunning, GoScan, TypeOK
    <1>4. CASE ObserveNotLive(p)
        BY <1>4 DEF ObserveNotLive, GoScan, TypeOK
    <1>5. CASE \E s \in SegmentId : TakeSegment(p, s)
        BY <1>5 DEF TakeSegment, TypeOK
    <1>6. CASE InsertNew(p) \/ PublishSegment(p)
        <2>1. /\ pc[p].at \in {"insert", "publish"} /\ pc[p].last \in BOOLEAN
              /\ pc[p].at = "publish" => pc[p].segs \subseteq SegmentId
            BY <1>6 DEF InsertNew, PublishSegment, TypeOK, Continuation
        <2>2. \E D \in SUBSET SegmentId : ThenPublish(p, D, pc[p].last)
            <3>1. CASE InsertNew(p)
                BY <3>1, InsertedRows DEF InsertNew
            <3>2. CASE PublishSegment(p)
                BY <3>2, <2>1 DEF PublishSegment
            <3> QED BY <1>6, <3>1, <3>2
        <2>3. \E k \in Continuation : /\ pc' = [pc EXCEPT ![p] = k]
                                      /\ k.at \in {"publish", "watching", "idle"}
            BY <2>1, <2>2, ThenPublishIsContinuation
        <2> QED BY <2>3 DEF TypeOK
    <1>7. CASE LookAgain(p)
        <2>1. pc[p] \in [at : {"store", "commit"}, seg : SegmentId, outcome : Outcome]
            BY <1>7 DEF LookAgain, TypeOK, Continuation
        <2>2. pc'[p].at \in {"commit", "idle"} /\ \A r \in Proc \ {p} : pc'[r] = pc[r]
            BY <1>7, <2>1 DEF LookAgain, Go, TypeOK
        <2> QED BY <1>7, <2>2
    <1> QED BY <1>1, <1>2, <1>3, <1>4, <1>5, <1>6, <1>7
            DEF Schedule, Work, Watch

\* A room that is over stays over, and what is whole stays whole.
LEMMA WholeStays ==
    ASSUME TypeOK, [Next]_vars
    PROVE  /\ room = "over" => room' = "over"
           /\ \A n : IsWhole(n) => IsWhole(n)'
    <1>1. (room = "over" => room' = "over") /\ files \subseteq files'
        BY StepsOnRecording
           DEF RecorderOpensFile, RecorderStops, ObserveLive, RoomChanges
    <1> QED BY <1>1 DEF IsWhole

LEMMA FilesStayRecorded ==
    ASSUME TypeOK, FilesAreRecorded, [Next]_vars
    PROVE  FilesAreRecorded'
    <1>f. files \subseteq Int
        BY PipelineAssumption DEF TypeOK, File
    <1>1. ASSUME UNCHANGED files,
                 \A r \in Recorder : /\ rec'[r].file = rec[r].file
                                     /\ IsStarted(r) => rec'[r].state # "new"
          PROVE  FilesAreRecorded'
        BY <1>1 DEF FilesAreRecorded, IsStarted, Started
    <1>2. ASSUME NEW r \in Recorder, RecorderOpensFile(r)
          PROVE  FilesAreRecorded'
        <2> DEFINE n == rec[r].file + 1
        <2>1. /\ rec[r].file \in Int /\ files' = files \cup {n}
              /\ rec[r].state = "running"
              /\ \A q \in Recorder :
                    /\ rec'[q].state = rec[q].state
                    /\ rec'[q].file = IF q = r THEN n ELSE rec[q].file
            BY <1>2, PipelineAssumption
               DEF RecorderOpensFile, TypeOK, RecorderState, Running
        <2>2. \A q \in Recorder : rec[q].file \in Int
            BY PipelineAssumption DEF TypeOK, RecorderState
        <2>3. ASSUME NEW m \in files'
              PROVE  \E q \in Recorder : rec'[q].state # "new" /\ m <= rec'[q].file
            <3>1. CASE m \in files
                <4>1. PICK q \in Recorder : IsStarted(q) /\ m <= rec[q].file
                    BY <3>1 DEF FilesAreRecorded
                <4> QED BY <2>1, <2>2, <3>1, <4>1, <1>f DEF IsStarted, Started
            <3>2. CASE m = n
                BY <2>1, <3>2
            <3> QED BY <2>1, <3>1, <3>2
        <2> QED BY <2>3 DEF FilesAreRecorded, IsStarted, Started
    <1>3. ASSUME NEW r \in Recorder, RecorderStops(r)
          PROVE  FilesAreRecorded'
        <2>1. \A q \in Recorder : /\ rec'[q].file = rec[q].file
                                  /\ rec[q].state # "new" => rec'[q].state # "new"
            BY <1>3 DEF RecorderStops, TypeOK, RecorderState
        <2> QED BY <1>1, <1>3, <2>1 DEF RecorderStops, IsStarted, Started
    <1>4. ASSUME NEW p \in Proc, ObserveLive(p)
          PROVE  FilesAreRecorded'
        <2>1. \A q \in Recorder : /\ rec'[q].file = rec[q].file
                                  /\ rec[q].state # "new" => rec'[q].state # "new"
            BY <1>4 DEF ObserveLive, TypeOK, RecorderState
        <2> QED BY <1>1, <1>4, <2>1 DEF ObserveLive, IsStarted, Started
    <1>5. CASE RoomChanges \/ UNCHANGED <<room, rec, files>>
        BY <1>1, <1>5 DEF RoomChanges, IsStarted, Started
    <1> QED BY <1>2, <1>3, <1>4, <1>5, StepsOnRecording

LEMMA WholeStep ==
    ASSUME WholeInv, [Next]_vars
    PROVE  WholeInv'
    <1> USE DEF WholeInv
    <1>1. TypeOK' /\ FilesAreRecorded'
        BY TypeStep, FilesStayRecorded
    <1>2. LastScansAreLate'
        <2> SUFFICES ASSUME NEW q \in Proc, pc'[q].at = "scan", pc'[q].last
                     PROVE  room' = "over"
            BY DEF LastScansAreLate
        <2>1. CASE pc'[q] = pc[q]
            BY <2>1, WholeStays DEF LastScansAreLate
        <2>2. CASE ObserveNotLive(q)
            BY <2>2, ObservationIsTrue DEF ObserveNotLive
        <2>3. CASE pc'[q] = [at |-> "scan", last |-> FALSE]
            BY <2>3
        <2>4. ASSUME NEW s \in SegmentId, pc'[q] = [at |-> "extract", seg |-> s]
              PROVE  FALSE
            BY <2>4
        <2> QED BY <2>1, <2>2, <2>3, <2>4, StepsToWork
    <1>3. PathsAreWhole'
        <2> SUFFICES ASSUME NEW q \in Proc, pc'[q].at \in {"lookUp", "insert"},
                            NEW n \in pc'[q].paths
                     PROVE  IsWhole(n)'
            BY DEF PathsAreWhole
        <2>1. CASE pc'[q] = pc[q]
            BY <2>1, WholeStays DEF PathsAreWhole
        <2>2. CASE Scan(q)
            <3>1. pc[q].at = "scan" /\ n \in CompletedSegments(pc[q].last)
                BY <2>2 DEF Scan, TypeOK
            <3>2. IsWhole(n)
                BY <3>1 DEF CompletedSegments, LastScansAreLate, IsWhole
            <3> QED BY <3>2, WholeStays
        <2>3. CASE LookUp(q)
            <3>1. pc[q].at = "lookUp" /\ n \in NewPaths(pc[q].paths)
                BY <2>3 DEF LookUp, TypeOK
            <3>2. IsWhole(n)
                BY <3>1 DEF NewPaths, PathsAreWhole
            <3> QED BY <3>2, WholeStays
        <2> QED BY <2>1, <2>2, <2>3, StepsOfProcesses
    <1>4. RowsAreWhole' /\ Rows \subseteq Rows'
        <2>1. CASE UNCHANGED seg
            BY <2>1, WholeStays DEF RowsAreWhole, Rows
        <2>2. ASSUME NEW p \in Proc, PersistAnswer(p)
              PROVE  RowsAreWhole' /\ Rows \subseteq Rows'
            BY <2>2, PersistedRow, WholeStays DEF RowsAreWhole
        <2>3. ASSUME NEW p \in Proc, InsertNew(p)
              PROVE  RowsAreWhole' /\ Rows \subseteq Rows'
            <3>1. pc[p].at = "insert"
                BY <2>3 DEF InsertNew
            <3>2. PICK D \in SUBSET (SegmentId \ Rows) :
                      /\ Rows' = Rows \cup D
                      /\ \A s \in Rows : seg'[s] = seg[s]
                      /\ \A s \in D : seg'[s].file \in pc[p].paths
                BY <2>3, <3>1, InsertedRows
            <3>3. \A n \in pc[p].paths : IsWhole(n)
                BY <3>1 DEF PathsAreWhole
            <3>4. \A s \in Rows' : IsWhole(seg'[s].file)
                BY <3>2, <3>3 DEF RowsAreWhole
            <3> QED BY <3>2, <3>4, WholeStays DEF RowsAreWhole
        <2> QED BY <2>1, <2>2, <2>3, StepsOnRows
    <1>5. ExtractsRow'
        <2> SUFFICES ASSUME NEW q \in Proc, pc'[q].at = "extract"
                     PROVE  pc'[q].seg \in Rows'
            BY DEF ExtractsRow
        <2>1. CASE pc'[q] = pc[q]
            BY <2>1, <1>4 DEF ExtractsRow
        <2>2. CASE pc'[q] # pc[q]
            <3>1. PICK s \in SegmentId :
                      IsOpen(s) /\ pc'[q] = [at |-> "extract", seg |-> s]
                BY <2>2, StepsToWork
            <3> QED BY <3>1, <1>4 DEF IsOpen
        <2> QED BY <2>1, <2>2
    <1> QED BY <1>1, <1>2, <1>3, <1>4, <1>5

LEMMA WholeInit == Init => WholeInv
    <1> SUFFICES ASSUME Init PROVE WholeInv
        OBVIOUS
    <1>1. TypeOK
        BY OrderInit DEF OrderInv
    <1>2. Rows = {} /\ files = {} /\ \A p \in Proc : pc[p].at = "idle"
        BY DEF Init, Rows
    <1> QED BY <1>1, <1>2 DEF WholeInv, FilesAreRecorded, LastScansAreLate,
                              PathsAreWhole, RowsAreWhole, ExtractsRow

\* The only recorder has left behind what is whole while the room is live.
LEMMA WholeIsLeft ==
    ASSUME TypeOK, FilesAreRecorded, OneRecording, room # "over",
           NEW n \in File, IsWhole(n)
    PROVE  n \notin BeingWritten
    <1>1. ASSUME NEW m \in files, m > n, NEW r \in Running
          PROVE  rec[r].file # n
        <2>1. PICK q \in Recorder : IsStarted(q) /\ m <= rec[q].file
            BY <1>1 DEF FilesAreRecorded
        <2>2. q = r
            BY <2>1 DEF OneRecording, IsStarted, Started, Running
        <2>3. m \in Int /\ n \in Int /\ rec[r].file \in Int
            BY <1>1, PipelineAssumption
               DEF TypeOK, File, RecorderState, Running
        <2> QED BY <1>1, <2>1, <2>2, <2>3
    <1> QED BY <1>1 DEF IsWhole, BeingWritten

\* Whatever processes die, tasks are delivered twice or observers race, the
\* media tools cut a file that ffmpeg still writes only when the room is over
\* or when another ffmpeg has been started over the same files.
THEOREM OpenFilesAreCutLate == Spec => OpenFileIsCutOnlyAtTheEnd
    <1> DEFINE CutLate ==
            \A p \in Proc :
                /\ pc[p].at = "extract" /\ pc'[p].at = "store"
                /\ seg[pc[p].seg].file \in BeingWritten
                => room = "over" \/ \E q, r \in Started : q # r
    <1>1. WholeInv /\ [Next]_vars => WholeInv'
        BY WholeStep
    <1>2. WholeInv => CutLate
        <2> SUFFICES ASSUME WholeInv, NEW p \in Proc, pc[p].at = "extract",
                            room # "over", OneRecording
                     PROVE  seg[pc[p].seg].file \notin BeingWritten
            BY DEF OneRecording
        <2>1. pc[p].seg \in Rows
            BY DEF WholeInv, ExtractsRow
        <2>2. seg[pc[p].seg].file \in File /\ IsWhole(seg[pc[p].seg].file)
            BY <2>1 DEF WholeInv, RowsAreWhole, TypeOK, Rows, SegmentRow
        <2> QED BY <2>2, WholeIsLeft DEF WholeInv
    <1> QED BY <1>1, <1>2, WholeInit, PTL DEF Spec, OpenFileIsCutOnlyAtTheEnd
===============================================================================
