------------------------- MODULE LiveAssistantProofs -------------------------
(***************************************************************************)
(* Proofs that the invariants of LiveAssistant hold for every number of    *)
(* processes, accounts, platforms, looks and comments.                     *)
(***************************************************************************)
EXTENDS LiveAssistant, TLAPS

\* What the place of a process says of its command and its counters.
Placed ==
    \A p \in Process :
        /\ at[p] = "submitted" => cmd[p].kind = "phone"
        /\ at[p] = "live" => cmd[p].kind = "console"
        /\ at[p] \notin {"off", "live"} => sent[p] = 0 /\ room[p] = 0

Typed == TypeOK /\ Placed /\ ReportedCommentsWereSent

LEMMA NothingIsAState == Nothing \in State
BY DEF Nothing, State, Login

LEMMA WithLoginIsAState ==
    ASSUME NEW state \in State, NEW login \in Login, NEW status \in Status
    PROVE  WithLogin(state, login, status) \in State
BY DEF WithLogin, State, Login, Status

LEMMA LoadedIsAState ==
    ASSUME NEW f \in File
    PROVE  Loaded(f) \in State
BY NothingIsAState DEF Loaded, File

\* The command of a login names an account and a platform.
LEMMA LoginHasKey ==
    ASSUME NEW p \in Process, TypeOK, IsLogin(p)
    PROVE  Key(p) \in Login
<1>1. cmd[p] \in Command /\ cmd[p] # Reader
  BY DEF TypeOK, IsLogin, LoginKind, Reader
<1> QED
  BY <1>1 DEF Command, Key, Login

LEMMA CommandParts ==
    ASSUME NEW p \in Process, TypeOK
    PROVE  /\ cmd[p].account \in Account \cup {"none"}
           /\ cmd[p].platform \in Platform \cup {"none"}
BY DEF TypeOK, Command, Reader

-------------------------------------------------------------------------------
(* What the parts of the actions do to the types *)

\* The variables Moves, Ends, Record and LooksAgain change.
OwnTyped ==
    /\ at \in [Process -> Place]
    /\ cmd \in [Process -> Command]
    /\ view \in [Process -> State]
    /\ tries \in [Process -> 0 .. Checks - 1]
    /\ overtaken \subseteq Process

LEMMA MovesTyped ==
    ASSUME TypeOK, NEW p \in Process, NEW place \in Place, Moves(p, place)
    PROVE  OwnTyped'
BY DEF TypeOK, Moves, OwnTyped

LEMMA EndsTyped ==
    ASSUME TypeOK, NEW p \in Process, Ends(p)
    PROVE  OwnTyped'
<1>1. Reader \in Command /\ "off" \in Place /\ 0 \in 0 .. Checks - 1
  BY AssistantAssumption DEF Command, Place
<1> QED
  BY <1>1, NothingIsAState DEF TypeOK, Ends, OwnTyped

LEMMA RecordTyped ==
    ASSUME TypeOK, NEW p \in Process, NEW status \in Status, IsLogin(p), Record(p, status)
    PROVE  OwnTyped'
<1>1. WithLogin(view[p], Key(p), status) \in State
  BY WithLoginIsAState, LoginHasKey DEF TypeOK
<1>2. "commit" \in Place
  BY DEF Place
<1> QED
  BY <1>1, <1>2 DEF TypeOK, Record, OwnTyped

LEMMA LooksAgainTyped ==
    ASSUME TypeOK, NEW p \in Process, LooksAgain(p)
    PROVE  OwnTyped'
<1>1. tries[p] + 1 \in 0 .. Checks - 1
  BY AssistantAssumption DEF TypeOK, LooksAgain, LastLook
<1> QED
  BY <1>1 DEF TypeOK, LooksAgain, OwnTyped

LEMMA FailsTyped ==
    ASSUME TypeOK, NEW p \in Process, Fails(p)
    PROVE  OwnTyped'
<1>1. "failed" \in Status
  BY DEF Status
<1> QED
  BY <1>1, RecordTyped, EndsTyped DEF Fails
-------------------------------------------------------------------------------
(* Types *)

LEMMA InitTyped == Init => Typed
<1> SUFFICES ASSUME Init PROVE Typed
  OBVIOUS
<1>1. TypeOK
  <2>1. Reader \in Command /\ "off" \in Place /\ 0 \in 0 .. Checks - 1
        /\ 0 \in 0 .. MaxComments
    BY AssistantAssumption DEF Command, Place
  <2>2. file \in File
    BY NothingIsAState DEF Init, File
  <2> QED
    BY <2>1, <2>2, NothingIsAState DEF Init, TypeOK
<1>2. Placed /\ ReportedCommentsWereSent
  BY DEF Init, Placed, ReportedCommentsWereSent
<1> QED
  BY <1>1, <1>2 DEF Typed

\* Steps that leave the file, the site and the comments alone.
LEMMA QuietStepTyped ==
    ASSUME TypeOK, OwnTyped', UNCHANGED <<file, sent, room, loggedIn, stored, torn>>
    PROVE  TypeOK'
BY DEF TypeOK, OwnTyped

\* A process that leaves its place for another, with its counters untouched.
LEMMA MoveKeepsPlaced ==
    ASSUME Typed, NEW p \in Process, NEW place \in Place,
           at' = [at EXCEPT ![p] = place],
           \A q \in Process \ {p} : cmd'[q] = cmd[q],
           place = "submitted" => cmd'[p].kind = "phone",
           place = "live" => cmd'[p].kind = "console",
           place # "off" => at[p] \notin {"off", "live"},
           UNCHANGED <<sent, room>>
    PROVE  Placed' /\ ReportedCommentsWereSent'
<1> USE DEF Typed, TypeOK, Placed, ReportedCommentsWereSent
<1>1. at'[p] = place /\ \A q \in Process \ {p} : at'[q] = at[q]
  OBVIOUS
<1>2. Placed'
  <2> SUFFICES ASSUME NEW q \in Process
               PROVE  /\ at'[q] = "submitted" => cmd'[q].kind = "phone"
                      /\ at'[q] = "live" => cmd'[q].kind = "console"
                      /\ at'[q] \notin {"off", "live"} => sent'[q] = 0 /\ room'[q] = 0
    OBVIOUS
  <2> QED
    BY <1>1
<1>3. ReportedCommentsWereSent'
  BY <1>1
<1> QED
  BY <1>2, <1>3

\* The five ways in which an action leaves the place of a process.
LEMMA PartsKeepPlaced ==
    ASSUME Typed, NEW p \in Process, UNCHANGED <<sent, room>>,
           \/ Ends(p)
           \/ \E place \in {"page", "commit", "write"} :
                 Moves(p, place) /\ at[p] \notin {"off", "live"}
           \/ Moves(p, "submitted") /\ at[p] = "page" /\ cmd[p].kind = "phone"
           \/ Moves(p, "live") /\ at[p] = "page" /\ cmd[p].kind = "console"
           \/ \E status \in Status : Record(p, status) /\ at[p] \notin {"off", "live"}
           \/ LooksAgain(p)
    PROVE  Placed' /\ ReportedCommentsWereSent'
<1>0. {"off", "page", "commit", "write", "submitted", "live"} \subseteq Place
  BY DEF Place
<1>1. CASE Ends(p)
  BY <1>0, <1>1, MoveKeepsPlaced DEF Ends, Typed, TypeOK
<1>2. ASSUME NEW place \in {"page", "commit", "write"},
             Moves(p, place), at[p] \notin {"off", "live"}
      PROVE  Placed' /\ ReportedCommentsWereSent'
  BY <1>0, <1>2, MoveKeepsPlaced DEF Moves
<1>3. CASE Moves(p, "submitted") /\ at[p] = "page" /\ cmd[p].kind = "phone"
  BY <1>0, <1>3, MoveKeepsPlaced DEF Moves
<1>4. CASE Moves(p, "live") /\ at[p] = "page" /\ cmd[p].kind = "console"
  BY <1>0, <1>4, MoveKeepsPlaced DEF Moves
<1>5. ASSUME NEW status \in Status, Record(p, status), at[p] \notin {"off", "live"}
      PROVE  Placed' /\ ReportedCommentsWereSent'
  BY <1>0, <1>5, MoveKeepsPlaced DEF Record
<1>6. CASE LooksAgain(p)
  BY <1>6 DEF LooksAgain, Typed, Placed, ReportedCommentsWereSent
<1> QED
  BY <1>1, <1>2, <1>3, <1>4, <1>5, <1>6

\* A failure in the browser keeps the types: a console is not recorded.
LEMMA FailsKeepsPlaced ==
    ASSUME Typed, NEW p \in Process, at[p] # "off", Fails(p), UNCHANGED <<sent, room>>
    PROVE  Placed' /\ ReportedCommentsWereSent'
<1>1. CASE IsLogin(p)
  <2>1. at[p] # "live"
    BY <1>1 DEF Typed, Placed, IsLogin, LoginKind
  <2>2. "failed" \in Status
    BY DEF Status
  <2> QED
    BY <1>1, <2>1, <2>2, PartsKeepPlaced DEF Fails
<1>2. CASE ~IsLogin(p)
  BY <1>2, PartsKeepPlaced DEF Fails
<1> QED
  BY <1>1, <1>2

LEMMA StepTyped == Typed /\ [Next]_vars => Typed'
<1> SUFFICES ASSUME Typed, [Next]_vars PROVE Typed'
  OBVIOUS
<1>0. TypeOK
  BY DEF Typed
<1>1. ASSUME NEW p \in Process, NEW command \in Command, Start(p, command)
      PROVE  Typed'
  <2>1. FirstPlace(command.kind) \in {"launch", "command"}
    BY DEF FirstPlace
  <2>2. Loaded(file) \in State
    BY <1>0, LoadedIsAState DEF TypeOK
  <2>3. 0 \in 0 .. MaxComments
    BY AssistantAssumption
  <2>4. TypeOK'
    BY <1>0, <1>1, <2>1, <2>2, <2>3 DEF TypeOK, Start, Place
  <2>5. \A q \in Process : IF q = p
            THEN at'[q] = FirstPlace(command.kind) /\ sent'[q] = 0 /\ room'[q] = 0
            ELSE /\ at'[q] = at[q] /\ sent'[q] = sent[q] /\ room'[q] = room[q]
                 /\ cmd'[q] = cmd[q]
    BY <1>0, <1>1 DEF TypeOK, Start
  <2>6. Placed' /\ ReportedCommentsWereSent'
    BY <2>1, <2>5 DEF Typed, Placed, ReportedCommentsWereSent
  <2> QED
    BY <2>4, <2>6 DEF Typed
<1>2. ASSUME NEW p \in Process, Launch(p) \/ BrowserFails(p)
      PROVE  Typed'
  <2>1. "page" \in Place /\ at[p] # "off"
    BY <1>2 DEF Place, Launch, BrowserFails, Browsing
  <2>2. CASE Fails(p)
    <3>1. UNCHANGED <<file, sent, room, loggedIn, stored, torn>>
      BY <1>2 DEF Launch, BrowserFails
    <3> QED
      BY <1>0, <2>1, <2>2, <3>1, FailsTyped, FailsKeepsPlaced, QuietStepTyped DEF Typed
  <2>3. CASE Moves(p, "page") /\ Launch(p)
    <3>1. UNCHANGED <<file, sent, room, loggedIn, stored, torn>> /\ at[p] = "launch"
      BY <2>3 DEF Launch
    <3> QED
      BY <1>0, <2>1, <2>3, <3>1, MovesTyped, PartsKeepPlaced, QuietStepTyped DEF Typed
  <2> QED
    BY <1>2, <2>2, <2>3 DEF Launch, BrowserFails
<1>3. ASSUME NEW p \in Process, SiteAccepts(p)
      PROVE  Typed'
  <2>1. IsLogin(p)
    BY <1>3 DEF SiteAccepts, IsLogin, LoginKind, Typed, Placed
  <2>2. Key(p) \in Login
    BY <1>0, <2>1, LoginHasKey
  <2> QED
    BY <1>3, <2>2 DEF SiteAccepts, Typed, TypeOK, Placed, ReportedCommentsWereSent
<1>4. ASSUME NEW p \in Process,
             OperatorCloses(p) \/ EnterCode(p) \/ CheckLogin(p)
      PROVE  Typed'
  <2>1. IsLogin(p) /\ at[p] \notin {"off", "live"}
    BY <1>4 DEF OperatorCloses, EnterCode, CheckLogin, IsLogin, LoginKind, Typed, Placed
  <2>2. {"saved", "failed", "observed"} \subseteq Status /\ "submitted" \in Place
    BY DEF Status, Place
  <2>3. UNCHANGED <<file, sent, room, loggedIn, stored, torn>>
    BY <1>4 DEF OperatorCloses, EnterCode, CheckLogin
  <2>4. \/ \E status \in Status : Record(p, status)
        \/ Moves(p, "submitted") /\ at[p] = "page" /\ cmd[p].kind = "phone"
        \/ LooksAgain(p)
    BY <1>4, <2>2 DEF OperatorCloses, EnterCode, CheckLogin
  <2>5. OwnTyped'
    BY <1>0, <2>1, <2>2, <2>4, RecordTyped, MovesTyped, LooksAgainTyped
  <2>6. Placed' /\ ReportedCommentsWereSent'
    BY <2>1, <2>3, <2>4, PartsKeepPlaced
  <2> QED
    BY <1>0, <2>3, <2>5, <2>6, QuietStepTyped DEF Typed
<1>5. ASSUME NEW p \in Process,
             CheckRoom(p) \/ Quit(p) \/ EnterRoom(p) \/ EndReader(p)
      PROVE  Typed'
  <2>1. UNCHANGED <<file, sent, room, loggedIn, stored, torn>>
    BY <1>5 DEF CheckRoom, Quit, EnterRoom, EndReader
  <2>2. \/ Moves(p, "live") /\ at[p] = "page" /\ cmd[p].kind = "console"
        \/ Moves(p, "commit") /\ at[p] \notin {"off", "live"}
        \/ Ends(p)
        \/ LooksAgain(p)
    BY <1>5 DEF CheckRoom, Quit, EnterRoom, EndReader
  <2>3. "live" \in Place /\ "commit" \in Place
    BY DEF Place
  <2>4. OwnTyped'
    BY <1>0, <2>2, <2>3, MovesTyped, EndsTyped, LooksAgainTyped
  <2>5. Placed' /\ ReportedCommentsWereSent'
    BY <2>1, <2>2, PartsKeepPlaced
  <2> QED
    BY <1>0, <2>1, <2>4, <2>5, QuietStepTyped DEF Typed
<1>6. ASSUME NEW p \in Process, Comment(p)
      PROVE  Typed'
  <2>1. PICK raised \in BOOLEAN, reached \in BOOLEAN :
            /\ raised \/ reached
            /\ room' = [room EXCEPT ![p] = IF reached THEN @ + 1 ELSE @]
            /\ sent' = [sent EXCEPT ![p] = CountComment(@, raised)]
            /\ IF raised THEN Ends(p) ELSE Moves(p, "live")
    BY <1>6 DEF Comment
  <2>2. /\ at[p] = "live" /\ room[p] < MaxComments /\ sent[p] = room[p]
        /\ cmd[p].kind = "console"
        /\ UNCHANGED <<file, loggedIn, stored, torn>>
    BY <1>6 DEF Comment, Typed, Placed, ReportedCommentsWereSent
  <2>3. OwnTyped'
    BY <1>0, <2>1, MovesTyped, EndsTyped DEF Place
  <2>4. room'[p] \in 0 .. MaxComments /\ sent'[p] \in 0 .. MaxComments
    BY <1>0, <2>1, <2>2, AssistantAssumption DEF TypeOK, CountComment
  <2>5. /\ sent'[p] <= room'[p] /\ room'[p] <= sent'[p] + 1
        /\ ~raised => sent'[p] = room'[p]
    BY <1>0, <2>1, <2>2, AssistantAssumption DEF TypeOK, CountComment
  <2>6. TypeOK'
    BY <1>0, <2>1, <2>2, <2>3, <2>4 DEF TypeOK, OwnTyped
  <2>7. \A q \in Process \ {p} :
            at'[q] = at[q] /\ cmd'[q] = cmd[q] /\ sent'[q] = sent[q] /\ room'[q] = room[q]
    BY <1>0, <2>1 DEF TypeOK, Ends, Moves
  <2>8. IF raised THEN at'[p] = "off" ELSE at'[p] = "live" /\ cmd'[p] = cmd[p]
    BY <1>0, <2>1 DEF TypeOK, Ends, Moves
  <2>9. Placed' /\ ReportedCommentsWereSent'
    BY <2>2, <2>5, <2>7, <2>8 DEF Typed, Placed, ReportedCommentsWereSent
  <2> QED
    BY <2>6, <2>9 DEF Typed
<1>7. ASSUME NEW p \in Process, OpenFile(p)
      PROVE  Typed'
  <2>1. Moves(p, "write") /\ at[p] = "commit" /\ UNCHANGED <<sent, room>>
    BY <1>7 DEF OpenFile
  <2>2. OwnTyped'
    BY <1>0, <2>1, MovesTyped DEF Place
  <2>3. file' \in File
    BY <1>7, NothingIsAState DEF OpenFile, File
  <2>4. TypeOK'
    BY <1>0, <1>7, <2>2, <2>3 DEF TypeOK, OwnTyped, OpenFile
  <2> QED
    BY <2>1, <2>4, PartsKeepPlaced DEF Typed
<1>8. ASSUME NEW p \in Process, WriteFile(p)
      PROVE  Typed'
  <2>1. view[p] \in State
    BY <1>0 DEF TypeOK
  <2>2. file' \in File
    BY <1>8, <2>1, NothingIsAState DEF WriteFile, File, Serialized
  <2>3. Reader \in Command /\ "off" \in Place /\ 0 \in 0 .. Checks - 1
    BY AssistantAssumption DEF Command, Place
  <2>4. TypeOK'
    BY <1>0, <1>8, <2>1, <2>2, <2>3, NothingIsAState DEF TypeOK, WriteFile
  <2>5. Placed' /\ ReportedCommentsWereSent'
    BY <1>8, <2>3, MoveKeepsPlaced DEF WriteFile, Typed, TypeOK
  <2> QED
    BY <2>4, <2>5 DEF Typed
<1>9. ASSUME NEW p \in Process, Killed(p)
      PROVE  Typed'
  <2>1. OwnTyped' /\ Placed' /\ ReportedCommentsWereSent'
    BY <1>0, <1>9, EndsTyped, PartsKeepPlaced DEF Killed
  <2>2. TypeOK'
    BY <1>0, <1>9, <2>1 DEF TypeOK, OwnTyped, Killed
  <2> QED
    BY <2>1, <2>2 DEF Typed
<1>10. CASE UNCHANGED vars
  BY <1>10 DEF vars, Typed, TypeOK, Placed, ReportedCommentsWereSent
<1> QED
  BY <1>1, <1>2, <1>3, <1>4, <1>5, <1>6, <1>7, <1>8, <1>9, <1>10 DEF Next

LEMMA AlwaysTyped == Spec => []Typed
BY InitTyped, StepTyped, PTL DEF Spec

\* The variables keep their types, whatever commands run together.
THEOREM AssistantTypeCorrect == Spec => []TypeOK
BY AlwaysTyped, PTL DEF Typed

\* The console never reports a comment that did not reach the room, and misses
\* at most the last one.
THEOREM ConsoleReportsWhatItSent == Spec => []ReportedCommentsWereSent
BY AlwaysTyped, PTL DEF Typed
-------------------------------------------------------------------------------
(* The state file *)

Durable == FileIsTheLastCommit /\ ForgetsOnlyWhenOvertaken

\* What the file, the last commit and every view have in common.
Matched(state) ==
    /\ \A a \in Account :
           state.owner[a] # "none" => state.profile[<<a, state.owner[a]>>] # "none"
    /\ \A l \in Login : state.profile[l] # "none" => state.owner[l[1]] # "none"

LEMMA NothingIsMatched == Matched(Nothing)
BY DEF Matched, Nothing, Login

LEMMA WithLoginIsMatched ==
    ASSUME NEW state \in State, NEW login \in Login, NEW status \in Status,
           Matched(state)
    PROVE  Matched(WithLogin(state, login, status))
<1> DEFINE new == WithLogin(state, login, status)
<1>1. /\ new.owner = [state.owner EXCEPT ![login[1]] = login[2]]
      /\ new.profile = [state.profile EXCEPT ![login] = status]
  BY DEF WithLogin
<1>2. /\ login[1] \in Account /\ login[2] \in Platform /\ login = <<login[1], login[2]>>
      /\ status # "none" /\ login[2] # "none"
  BY AssistantAssumption DEF Login, Status
<1>3. state.owner \in [Account -> Platform \cup {"none"}]
      /\ state.profile \in [Login -> Status \cup {"none"}]
  BY DEF State
<1> HIDE DEF new
<1>4. ASSUME NEW a \in Account, new.owner[a] # "none"
      PROVE  new.profile[<<a, new.owner[a]>>] # "none"
  <2>1. CASE a = login[1]
    BY <1>1, <1>2, <1>3, <2>1
  <2>2. CASE a # login[1]
    <3>1. new.owner[a] = state.owner[a] /\ state.owner[a] \in Platform
      BY <1>1, <1>3, <1>4, <2>2
    <3>2. <<a, state.owner[a]>> \in Login /\ <<a, state.owner[a]>> # login
      BY <1>2, <2>2, <3>1 DEF Login
    <3>3. state.profile[<<a, state.owner[a]>>] # "none"
      BY <1>4, <3>1 DEF Matched
    <3> QED
      BY <1>1, <1>3, <3>1, <3>2, <3>3
  <2> QED
    BY <2>1, <2>2
<1>5. ASSUME NEW l \in Login, new.profile[l] # "none"
      PROVE  new.owner[l[1]] # "none"
  <2>1. l[1] \in Account
    BY DEF Login
  <2>2. CASE l[1] = login[1]
    BY <1>1, <1>2, <1>3, <2>2
  <2>3. CASE l[1] # login[1]
    <3>1. l # login
      BY <2>3
    <3>2. state.profile[l] # "none"
      BY <1>1, <1>3, <1>5, <3>1
    <3> QED
      BY <1>1, <1>3, <2>1, <2>3, <3>2 DEF Matched
  <2> QED
    BY <2>2, <2>3
<1> QED
  BY <1>4, <1>5 DEF Matched, new

\* The steps of a process between its start and its commit.
Working(p) ==
    /\ at[p] \notin {"off", "commit", "write"}
    /\ UNCHANGED <<file, stored, torn>>
    /\ \/ Ends(p)
       \/ \E place \in {"page", "submitted", "live", "commit"} : Moves(p, place)
       \/ IsLogin(p) /\ \E status \in Status : Record(p, status)
       \/ LooksAgain(p)

LEMMA StepsOfNext ==
    ASSUME Typed, Next
    PROVE  \E p \in Process :
               \/ \E command \in Command : Start(p, command)
               \/ Working(p)
               \/ SiteAccepts(p) \/ OpenFile(p) \/ WriteFile(p) \/ Killed(p)
<1>1. PICK p \in Process :
          \/ \E command \in Command : Start(p, command)
          \/ Launch(p) \/ BrowserFails(p)
          \/ SiteAccepts(p) \/ OperatorCloses(p) \/ EnterCode(p) \/ CheckLogin(p)
          \/ CheckRoom(p) \/ Comment(p) \/ Quit(p)
          \/ EnterRoom(p) \/ EndReader(p)
          \/ OpenFile(p) \/ WriteFile(p) \/ Killed(p)
  BY DEF Next
<1>2. /\ {"saved", "failed", "observed"} \subseteq Status
      /\ "failed" # "saved"
  BY DEF Status
<1>3. ASSUME Launch(p) \/ BrowserFails(p)
      PROVE  Working(p)
  BY <1>2, <1>3 DEF Launch, BrowserFails, Working, Fails, Browsing
<1>4. ASSUME OperatorCloses(p) \/ EnterCode(p) \/ CheckLogin(p)
      PROVE  Working(p)
  <2>1. IsLogin(p)
    BY <1>4 DEF OperatorCloses, EnterCode, CheckLogin, IsLogin, LoginKind, Typed, Placed
  <2> QED
    BY <1>2, <1>4, <2>1 DEF OperatorCloses, EnterCode, CheckLogin, Working
<1>5. ASSUME CheckRoom(p) \/ Comment(p) \/ Quit(p) \/ EnterRoom(p) \/ EndReader(p)
      PROVE  Working(p)
  BY <1>5 DEF CheckRoom, Comment, Quit, EnterRoom, EndReader, Working
<1> QED
  BY <1>1, <1>3, <1>4, <1>5

LEMMA InitDurable == Init => Durable
BY DEF Init, Durable, FileIsTheLastCommit, ForgetsOnlyWhenOvertaken, Readable, Loaded

LEMMA StepDurable == Typed /\ Durable /\ [Next]_vars => Durable'
<1> SUFFICES ASSUME Typed, Durable, [Next]_vars PROVE Durable'
  OBVIOUS
<1> USE DEF Durable
<1>0. TypeOK
  BY DEF Typed
<1>1. ASSUME NEW p \in Process, NEW command \in Command, Start(p, command)
      PROVE  Durable'
  <2>1. FileIsTheLastCommit'
    BY <1>0, <1>1 DEF TypeOK, Start, FileIsTheLastCommit, Readable, Loaded
  <2>2. view'[p] = stored' /\ \A q \in Process \ {p} :
            at'[q] = at[q] /\ view'[q] = view[q] /\ cmd'[q] = cmd[q]
    BY <1>0, <1>1 DEF TypeOK, Start, FileIsTheLastCommit
  <2>3. ForgetsOnlyWhenOvertaken'
    BY <1>1, <2>2 DEF Start, ForgetsOnlyWhenOvertaken, IsLogin, Key
  <2> QED
    BY <2>1, <2>3
<1>2. ASSUME NEW p \in Process, Working(p)
      PROVE  Durable'
  <2>1. \A q \in Process \ {p} :
            /\ at'[q] = at[q] /\ view'[q] = view[q] /\ cmd'[q] = cmd[q]
            /\ q \in overtaken' <=> q \in overtaken
    BY <1>0, <1>2 DEF TypeOK, Working, Ends, Moves, Record, LooksAgain
  <2>2. FileIsTheLastCommit'
    BY <1>2, <2>1 DEF Working, FileIsTheLastCommit, Readable, Loaded
  <2>3. ASSUME at'[p] # "off", p \notin overtaken'
        PROVE  \/ view'[p] = stored'
               \/ /\ IsLogin(p)' /\ at'[p] \in {"commit", "write"}
                  /\ \E status \in Status : view'[p] = WithLogin(stored', Key(p)', status)
    <3>1. p \notin overtaken /\ cmd'[p] = cmd[p]
      BY <1>0, <1>2, <2>3 DEF TypeOK, Working, Ends, Moves, Record, LooksAgain
    <3>2. view[p] = stored
      BY <1>2, <3>1 DEF Working, ForgetsOnlyWhenOvertaken
    <3>3. CASE \E status \in Status : IsLogin(p) /\ Record(p, status)
      <4>1. at'[p] = "commit" /\ IsLogin(p)'
        BY <1>0, <3>1, <3>3 DEF TypeOK, Record, IsLogin
      <4>2. \E status \in Status : view'[p] = WithLogin(stored', Key(p)', status)
        BY <1>0, <1>2, <3>1, <3>2, <3>3 DEF TypeOK, Record, Working, Key
      <4> QED
        BY <4>1, <4>2
    <3>4. CASE ~\E status \in Status : IsLogin(p) /\ Record(p, status)
      BY <1>0, <1>2, <2>3, <3>2, <3>4 DEF TypeOK, Working, Ends, Moves, LooksAgain
    <3> QED
      BY <3>3, <3>4
  <2>4. ForgetsOnlyWhenOvertaken'
    BY <1>2, <2>1, <2>3 DEF Working, ForgetsOnlyWhenOvertaken, IsLogin, Key
  <2> QED
    BY <2>2, <2>4
<1>3. ASSUME NEW p \in Process, SiteAccepts(p)
      PROVE  Durable'
  BY <1>3 DEF SiteAccepts, FileIsTheLastCommit, ForgetsOnlyWhenOvertaken, Readable,
              Loaded, IsLogin, Key
<1>4. ASSUME NEW p \in Process, OpenFile(p)
      PROVE  Durable'
  <2>1. at'[p] = "write" /\ \A q \in Process \ {p} : at'[q] = at[q]
    BY <1>0, <1>4 DEF TypeOK, OpenFile, Moves
  <2>2. ~Readable(file)'
    BY <1>4 DEF OpenFile, Readable
  <2>3. ForgetsOnlyWhenOvertaken'
    BY <1>4, <2>1 DEF OpenFile, Moves, ForgetsOnlyWhenOvertaken, IsLogin, Key
  <2> QED
    BY <2>1, <2>2, <2>3 DEF FileIsTheLastCommit
<1>5. ASSUME NEW p \in Process, WriteFile(p)
      PROVE  Durable'
  <2>1. FileIsTheLastCommit'
    <3>1. CASE file' = [form |-> "json", state |-> Serialized(view[p])]
      BY <1>5, <3>1 DEF WriteFile, FileIsTheLastCommit, Readable, Loaded, Serialized
    <3>2. CASE file.form # "empty" /\ file' = [form |-> "garbage", state |-> Nothing]
      <4>1. torn' = TRUE
        BY <1>5, <3>2 DEF WriteFile
      <4>2. ~Readable(file)'
        BY <3>2 DEF Readable
      <4> QED
        BY <4>1, <4>2 DEF FileIsTheLastCommit
    <3> QED
      BY <1>5, <3>1, <3>2 DEF WriteFile
  <2>2. at'[p] = "off" /\ \A q \in Process \ {p} : at'[q] = at[q]
    BY <1>0, <1>5 DEF TypeOK, WriteFile
  <2>3. ForgetsOnlyWhenOvertaken'
    BY <1>5, <2>2 DEF WriteFile, ForgetsOnlyWhenOvertaken
  <2> QED
    BY <2>1, <2>3
<1>6. ASSUME NEW p \in Process, Killed(p)
      PROVE  Durable'
  <2>1. /\ at'[p] = "off"
        /\ \A q \in Process \ {p} :
              at'[q] = at[q] /\ view'[q] = view[q] /\ cmd'[q] = cmd[q]
        /\ overtaken' = overtaken \ {p}
    BY <1>0, <1>6 DEF TypeOK, Killed, Ends
  <2>2. FileIsTheLastCommit'
    BY <1>6, <2>1 DEF Killed, FileIsTheLastCommit, Readable, Loaded
  <2>3. ForgetsOnlyWhenOvertaken'
    BY <1>6, <2>1 DEF Killed, ForgetsOnlyWhenOvertaken, IsLogin, Key
  <2> QED
    BY <2>2, <2>3
<1>7. CASE UNCHANGED vars
  BY <1>7 DEF vars, FileIsTheLastCommit, ForgetsOnlyWhenOvertaken, Readable, Loaded,
              IsLogin, Key
<1> QED
  BY <1>1, <1>2, <1>3, <1>4, <1>5, <1>6, <1>7, StepsOfNext

LEMMA AlwaysDurable == Spec => []Durable
BY AlwaysTyped, InitDurable, StepDurable, PTL DEF Spec

\* Between commits the file holds what the last one wrote and the program can
\* be started, unless a commit was killed or met another.
THEOREM FileHoldsTheLastCommit == Spec => []FileIsTheLastCommit
BY AlwaysDurable, PTL DEF Durable

\* Only a command that another one's commit overtook forgets logins.
THEOREM OnlyOvertakenCommandsForget == Spec => []ForgetsOnlyWhenOvertaken
BY AlwaysDurable, PTL DEF Durable
-------------------------------------------------------------------------------
(* Accounts and profiles *)

LEMMA MatchedEverywhere ==
    EveryAccountHasItsProfile <=>
        Matched(file.state) /\ Matched(stored) /\ \A p \in Process : Matched(view[p])
BY DEF EveryAccountHasItsProfile, Matched

LEMMA MatchedAfter ==
    ASSUME Matched(file'.state), Matched(stored'), \A p \in Process : Matched(view'[p])
    PROVE  EveryAccountHasItsProfile'
BY DEF EveryAccountHasItsProfile, Matched

LEMMA InitMatched == Init => EveryAccountHasItsProfile
BY NothingIsMatched, MatchedEverywhere DEF Init

LEMMA StepMatched ==
    ASSUME Typed, EveryAccountHasItsProfile, [Next]_vars
    PROVE  EveryAccountHasItsProfile'
<1>0. TypeOK
  BY DEF Typed
<1>1. Matched(file.state) /\ Matched(stored) /\ \A p \in Process : Matched(view[p])
  BY MatchedEverywhere
<1>2. Matched(Loaded(file))
  BY <1>1, NothingIsMatched DEF Loaded
<1>3. ASSUME NEW p \in Process, NEW command \in Command, Start(p, command)
      PROVE  EveryAccountHasItsProfile'
  <2>1. at'[p] \in {"launch", "command"} /\ view'[p] = Loaded(file)
    BY <1>0, <1>3 DEF TypeOK, Start, FirstPlace
  <2>2. \A q \in Process \ {p} :
            view'[q] = view[q]
    BY <1>0, <1>3 DEF TypeOK, Start
  <2>3. file' = file /\ stored' = stored /\ \A q \in Process : Matched(view'[q])
    BY <1>1, <1>2, <1>3, <2>1, <2>2 DEF Start
  <2> QED
    BY <1>1, <2>3, MatchedAfter
<1>4. ASSUME NEW p \in Process, Working(p)
      PROVE  EveryAccountHasItsProfile'
  <2>1. \A q \in Process \ {p} :
            view'[q] = view[q]
    BY <1>0, <1>4 DEF TypeOK, Working, Ends, Moves, Record, LooksAgain
  <2>2. ASSUME NEW status \in Status, IsLogin(p), Record(p, status)
        PROVE  Matched(view'[p])
    <3>1. /\ view'[p] = WithLogin(view[p], Key(p), status)
          /\ view[p] \in State /\ Key(p) \in Login
      BY <1>0, <2>2, LoginHasKey DEF TypeOK, Record
    <3> QED
      BY <1>1, <3>1, WithLoginIsMatched
  <2>3. ASSUME \/ Ends(p)
               \/ \E place \in {"page", "submitted", "live", "commit"} : Moves(p, place)
               \/ LooksAgain(p)
        PROVE  Matched(view'[p])
    <3>1. view'[p] \in {view[p], Nothing}
      BY <1>0, <2>3 DEF TypeOK, Ends, Moves, LooksAgain
    <3> QED
      BY <1>1, <3>1, NothingIsMatched
  <2>4. file' = file /\ stored' = stored /\ \A q \in Process : Matched(view'[q])
    <3>1. Matched(view'[p])
      BY <1>4, <2>2, <2>3 DEF Working
    <3> QED
      BY <1>1, <1>4, <2>1, <3>1 DEF Working
  <2> QED
    BY <1>1, <2>4, MatchedAfter
<1>5. ASSUME NEW p \in Process, SiteAccepts(p)
      PROVE  EveryAccountHasItsProfile'
  BY <1>5 DEF SiteAccepts, EveryAccountHasItsProfile
<1>6. ASSUME NEW p \in Process, OpenFile(p)
      PROVE  EveryAccountHasItsProfile'
  <2>1. at' = [at EXCEPT ![p] = "write"] /\ at[p] = "commit" /\ file'.state = Nothing
        /\ UNCHANGED <<cmd, view, stored>>
    BY <1>6 DEF OpenFile, Moves
  <2> QED
    BY <1>1, <2>1, NothingIsMatched, MatchedAfter
<1>7. ASSUME NEW p \in Process, WriteFile(p)
      PROVE  EveryAccountHasItsProfile'
  <2>1. /\ file'.state \in {view[p], Nothing} /\ stored' = view[p]
        /\ at'[p] = "off" /\ view'[p] = Nothing
        /\ \A q \in Process \ {p} :
              view'[q] = view[q]
    BY <1>0, <1>7 DEF TypeOK, WriteFile, Serialized
  <2>2. Matched(file'.state) /\ Matched(stored') /\ \A q \in Process : Matched(view'[q])
    BY <1>1, <2>1, NothingIsMatched
  <2> QED
    BY <2>2, MatchedAfter
<1>8. ASSUME NEW p \in Process, Killed(p)
      PROVE  EveryAccountHasItsProfile'
  <2>1. /\ at'[p] = "off" /\ view'[p] = Nothing
        /\ UNCHANGED <<file, stored>>
        /\ \A q \in Process \ {p} :
              view'[q] = view[q]
    BY <1>0, <1>8 DEF TypeOK, Killed, Ends
  <2>2. \A q \in Process : Matched(view'[q])
    BY <1>1, <2>1, NothingIsMatched
  <2> QED
    BY <1>1, <2>1, <2>2, MatchedAfter
<1>9. CASE UNCHANGED vars
  BY <1>9 DEF vars, EveryAccountHasItsProfile
<1> QED
  BY <1>3, <1>4, <1>5, <1>6, <1>7, <1>8, <1>9, StepsOfNext

\* However the commits of processes overwrite each other, accounts and profiles
\* in the file and in every view belong together.
THEOREM AccountsHaveProfiles == Spec => []EveryAccountHasItsProfile
<1>1. Typed /\ EveryAccountHasItsProfile /\ [Next]_vars => EveryAccountHasItsProfile'
  BY StepMatched
<1> QED
  BY <1>1, AlwaysTyped, InitMatched, PTL DEF Spec
===============================================================================
