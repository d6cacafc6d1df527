---------------------------- MODULE LiveAssistant ----------------------------
(***************************************************************************)
(* The command line of the live assistant and the state file its commands  *)
(* share.  Every process of the program (these commands, but also the web  *)
(* server, the workers and the maintenance commands, which import the same *)
(* command line) reads the whole file when it starts.  A command works on  *)
(* that view, for as long as the operator keeps its browser open, and      *)
(* commits by writing the whole view back.  The file is opened, which      *)
(* empties it, and then written; nothing locks it.                         *)
(*                                                                         *)
(*   at[p]        process p ...                                            *)
(*   "off"        is not running                                           *)
(*   "launch"     is about to open a browser on the profile of Key(p)      *)
(*   "page"       has the page of the login, or of the room, open          *)
(*   "submitted"  has submitted a verification code                        *)
(*   "live"       is in a room that is live, taking comments               *)
(*   "command"    runs a command that needs no browser                     *)
(*   "commit"     is about to open the file for its view                   *)
(*   "write"      has opened (emptied) the file, is about to write         *)
(***************************************************************************)
EXTENDS Naturals

CONSTANTS
    Account,
    Platform,       \* values of the settings' default platform
    Process,
    Checks,         \* looks at a page before a wait is given up
    MaxComments     \* bound: comments of one console run

ASSUME AssistantAssumption ==
    /\ Checks \in Nat \ {0} /\ MaxComments \in Nat
    /\ "none" \notin Account /\ "none" \notin Platform

VARIABLES
    file,           \* the state file: its form, and what it holds
    at,             \* see above
    cmd,            \* the command of each process
    view,           \* the accounts and profiles as each process has them
    tries,          \* looks at the page so far
    sent,           \* comments the console has counted
    room,           \* comments of that run that reached the room
    loggedIn,       \* profiles whose browser data hold a login of the site
    stored,         \* history: what the last commit wrote
    overtaken,      \* history: processes that another one's commit overtook
    torn            \* history: the last commit was killed, or met another

vars == <<file, at, cmd, view, tries, sent, room, loggedIn, stored, overtaken, torn>>
-------------------------------------------------------------------------------
Login == Account \X Platform
Status == {"saved", "failed", "observed"}

\* What a state file holds: the platform of each account, the status of each
\* profile ("none": there is no such record).
State == [owner: [Account -> Platform \cup {"none"}],
          profile: [Login -> Status \cup {"none"}]]

Nothing == [owner |-> [a \in Account |-> "none"], profile |-> [l \in Login |-> "none"]]

\* "garbage" is what two overlapping writes may leave: not one JSON value.
File == [form: {"absent", "empty", "json", "garbage"}, state: State]

\* A "reader" is a command that reads the file and writes nothing: the rest of
\* the program, and send-comment, which never finds its session.
LoginKind == {"manual", "phone", "observe"}
Reader == [kind |-> "reader", account |-> "none", platform |-> "none"]
Command ==
    [kind: LoginKind \cup {"console", "enter-room"}, account: Account, platform: Platform]
        \cup {Reader}

Place == {"off", "launch", "page", "submitted", "live", "command", "commit", "write"}

Browsing == {"page", "submitted", "live"}

Key(p) == <<cmd[p].account, cmd[p].platform>>
IsLogin(p) == cmd[p].kind \in LoginKind

FirstPlace(kind) ==
    IF kind \in LoginKind \cup {"console"} THEN "launch" ELSE "command"

Readable(f) == f.form \in {"absent", "json"}

\* (faulty variant: the accounts are looked up under another name than they are written)
LoadedProfiles(f) ==
    [owner |-> Nothing.owner,
     profile |-> IF f.form = "json" THEN f.state.profile ELSE Nothing.profile]

Loaded(f) == IF f.form = "json" THEN f.state ELSE Nothing

\* (faulty variant: only a login that succeeded gets its profile)
WithSavedLogin(state, login, status) ==
    [owner |-> [state.owner EXCEPT ![login[1]] = login[2]],
     profile |-> [state.profile EXCEPT ![login] = IF status = "saved" THEN status ELSE @]]

\* An account and its profile are recorded together, whatever came of the
\* login; the account moves to the platform of the command.
WithLogin(state, login, status) ==
    [owner |-> [state.owner EXCEPT ![login[1]] = login[2]],
     profile |-> [state.profile EXCEPT ![login] = status]]

\* (faulty variant: profiles that are not saved are left out of the file)
SerializedSaved(state) ==
    [state EXCEPT !.profile = [l \in Login |-> IF @[l] = "saved" THEN "saved" ELSE "none"]]

Serialized(state) == state

\* (faulty variant: one look too many)
LooksOnceMore(n) == n >= Checks

\* Looks after which a wait is given up.
LastLook(n) == n + 1 >= Checks

\* (faulty variant: it is counted before)
CountBeforeClick(n, raised) == n + 1

\* A comment is counted after the click, when that has not raised.
CountComment(n, raised) == IF raised THEN n ELSE n + 1

\* The page of a profile whose data hold a login shows the navigation entry.
ShowsLogin(login) == login \in loggedIn
-------------------------------------------------------------------------------
Init ==
    /\ file = [form |-> "absent", state |-> Nothing]
    /\ at = [p \in Process |-> "off"]
    /\ cmd = [p \in Process |-> Reader]
    /\ view = [p \in Process |-> Nothing]
    /\ tries = [p \in Process |-> 0]
    /\ sent = [p \in Process |-> 0]
    /\ room = [p \in Process |-> 0]
    /\ loggedIn = {}
    /\ stored = Nothing
    /\ overtaken = {}
    /\ torn = FALSE

\* A process that cannot read the file does not start.
Start(p, command) ==
    /\ at[p] = "off"
    /\ Readable(file)
    /\ at' = [at EXCEPT ![p] = FirstPlace(command.kind)]
    /\ cmd' = [cmd EXCEPT ![p] = command]
    /\ view' = [view EXCEPT ![p] = Loaded(file)]
    /\ sent' = [sent EXCEPT ![p] = 0]
    /\ room' = [room EXCEPT ![p] = 0]
    /\ UNCHANGED <<file, tries, loggedIn, stored, overtaken, torn>>

Moves(p, place) ==
    /\ at' = [at EXCEPT ![p] = place]
    /\ UNCHANGED <<cmd, view, tries, overtaken>>

Ends(p) ==
    /\ at' = [at EXCEPT ![p] = "off"]
    /\ cmd' = [cmd EXCEPT ![p] = Reader]
    /\ view' = [view EXCEPT ![p] = Nothing]
    /\ tries' = [tries EXCEPT ![p] = 0]
    /\ overtaken' = overtaken \ {p}

\* The login handler after the browser is closed, with the browser's result.
Record(p, status) ==
    /\ at' = [at EXCEPT ![p] = "commit"]
    /\ view' = [view EXCEPT ![p] = WithLogin(@, Key(p), status)]
    /\ UNCHANGED <<cmd, tries, overtaken>>

LooksAgain(p) ==
    /\ ~LastLook(tries[p])
    /\ tries' = [tries EXCEPT ![p] = @ + 1]
    /\ UNCHANGED <<at, cmd, view, overtaken>>

\* An exception in the browser, or a wait given up: a login records a
\* failure, a console ends.
Fails(p) == IF IsLogin(p) THEN Record(p, "failed") ELSE Ends(p)

\* A browser refuses a profile that another one has open.
Launch(p) ==
    /\ at[p] = "launch"
    /\ \/ /\ \A q \in Process : at[q] \in Browsing => Key(q) # Key(p)
          /\ Moves(p, "page")
       \/ Fails(p)
    /\ UNCHANGED <<file, sent, room, loggedIn, stored, torn>>

BrowserFails(p) ==
    /\ at[p] \in Browsing
    /\ Fails(p)
    /\ UNCHANGED <<file, sent, room, loggedIn, stored, torn>>
-------------------------------------------------------------------------------
(* login-xhs *)

\* The site takes a login: typed in by the operator, or by its code.
SiteAccepts(p) ==
    /\ \/ at[p] = "page" /\ cmd[p].kind = "manual"
       \/ at[p] = "submitted"
    /\ loggedIn' = loggedIn \cup {Key(p)}
    /\ UNCHANGED <<file, at, cmd, view, tries, sent, room, stored, overtaken, torn>>

\* The operator closes the browser: what the page showed is not looked at.
OperatorCloses(p) ==
    /\ at[p] = "page"
    /\ \/ cmd[p].kind = "manual" /\ Record(p, "saved")
       \/ cmd[p].kind = "observe" /\ Record(p, "observed")
    /\ UNCHANGED <<file, sent, room, loggedIn, stored, torn>>

\* The operator types the code; a blank one ends the login.
EnterCode(p) ==
    /\ at[p] = "page" /\ cmd[p].kind = "phone"
    /\ Moves(p, "submitted") \/ Record(p, "failed")
    /\ UNCHANGED <<file, sent, room, loggedIn, stored, torn>>

\* One look at the page after the code: logged in, refused (an error, or the
\* login button again), or neither.
CheckLogin(p) ==
    /\ at[p] = "submitted"
    /\ \/ ShowsLogin(Key(p)) /\ Record(p, "saved")
       \/ Record(p, "failed")
       \/ LooksAgain(p)
    /\ UNCHANGED <<file, sent, room, loggedIn, stored, torn>>
-------------------------------------------------------------------------------
(* room-console *)

\* One look at the room: it plays, it has ended (or this was the last look),
\* or neither yet.
CheckRoom(p) ==
    /\ at[p] = "page" /\ cmd[p].kind = "console"
    /\ Moves(p, "live") \/ Ends(p) \/ LooksAgain(p)
    /\ UNCHANGED <<file, sent, room, loggedIn, stored, torn>>

\* A comment is typed and its button clicked.  A click that raises may have
\* sent the comment or not; the console ends.
Comment(p) ==
    /\ at[p] = "live" /\ room[p] < MaxComments
    /\ \E raised, reached \in BOOLEAN :
          /\ raised \/ reached
          /\ room' = [room EXCEPT ![p] = IF reached THEN @ + 1 ELSE @]
          /\ sent' = [sent EXCEPT ![p] = CountComment(@, raised)]
          /\ IF raised THEN Ends(p) ELSE Moves(p, "live")
    /\ UNCHANGED <<file, loggedIn, stored, torn>>

Quit(p) ==
    /\ at[p] = "live"
    /\ Ends(p)
    /\ UNCHANGED <<file, sent, room, loggedIn, stored, torn>>
-------------------------------------------------------------------------------
(* enter-room, and the commands that only read the file *)

\* The account must be known, on the platform of the room.  The automation is
\* a placeholder that fails; the failed session is kept in memory only, and
\* the whole view is committed.
EnterRoom(p) ==
    /\ at[p] = "command" /\ cmd[p].kind = "enter-room"
    /\ IF view[p].owner[cmd[p].account] = cmd[p].platform THEN Moves(p, "commit") ELSE Ends(p)
    /\ UNCHANGED <<file, sent, room, loggedIn, stored, torn>>

EndReader(p) ==
    /\ at[p] = "command" /\ cmd[p].kind = "reader"
    /\ Ends(p)
    /\ UNCHANGED <<file, sent, room, loggedIn, stored, torn>>
-------------------------------------------------------------------------------
(* The commit *)

OpenFile(p) ==
    /\ at[p] = "commit"
    /\ Moves(p, "write")
    /\ file' = [form |-> "empty", state |-> Nothing]
    /\ UNCHANGED <<sent, room, loggedIn, stored, torn>>

\* Where another process has written in the meantime, the rest of a longer
\* text stays behind this one.
WriteFile(p) ==
    /\ at[p] = "write"
    /\ \/ file' = [form |-> "json", state |-> Serialized(view[p])]
       \/ file.form # "empty" /\ file' = [form |-> "garbage", state |-> Nothing]
    /\ stored' = view[p]
    /\ torn' = (file.form # "empty")
    /\ at' = [at EXCEPT ![p] = "off"]
    /\ cmd' = [cmd EXCEPT ![p] = Reader]
    /\ view' = [view EXCEPT ![p] = Nothing]
    /\ tries' = [tries EXCEPT ![p] = 0]
    /\ overtaken' = {q \in Process \ {p} : at[q] # "off"}
    /\ UNCHANGED <<sent, room, loggedIn>>

\* A process may be killed anywhere; its browser goes with it.
Killed(p) ==
    /\ at[p] # "off"
    /\ Ends(p)
    /\ torn' = (torn \/ at[p] = "write")
    /\ UNCHANGED <<file, sent, room, loggedIn, stored>>

Next ==
    \E p \in Process :
        \/ \E command \in Command : Start(p, command)
        \/ Launch(p) \/ BrowserFails(p)
        \/ SiteAccepts(p) \/ OperatorCloses(p) \/ EnterCode(p) \/ CheckLogin(p)
        \/ CheckRoom(p) \/ Comment(p) \/ Quit(p)
        \/ EnterRoom(p) \/ EndReader(p)
        \/ OpenFile(p) \/ WriteFile(p) \/ Killed(p)

Spec == Init /\ [][Next]_vars
-------------------------------------------------------------------------------
(* Properties *)

TypeOK ==
    /\ file \in File
    /\ at \in [Process -> Place]
    /\ cmd \in [Process -> Command]
    /\ view \in [Process -> State]
    /\ tries \in [Process -> 0 .. Checks - 1]
    /\ sent \in [Process -> 0 .. MaxComments]
    /\ room \in [Process -> 0 .. MaxComments]
    /\ loggedIn \subseteq Login
    /\ stored \in State
    /\ overtaken \subseteq Process
    /\ torn \in BOOLEAN

\* However commits of different processes overwrite each other, no account is
\* on a platform it has no profile of, and no profile is without its account:
\* a view is written as a whole.
EveryAccountHasItsProfile ==
    \A state \in {file.state, stored} \cup {view[p] : p \in Process} :
        /\ \A a \in Account :
               state.owner[a] # "none" => state.profile[<<a, state.owner[a]>>] # "none"
        /\ \A l \in Login : state.profile[l] # "none" => state.owner[l[1]] # "none"

\* A command forgets no login unless another process committed while it ran:
\* its view then has everything the last commit wrote, but for the login it
\* is about to commit itself.
ForgetsOnlyWhenOvertaken ==
    \A p \in Process : (at[p] # "off" /\ p \notin overtaken) =>
        \/ view[p] = stored
        \/ /\ IsLogin(p) /\ at[p] \in {"commit", "write"}
           /\ \E status \in Status : view[p] = WithLogin(stored, Key(p), status)

\* Between commits the file holds what the last one wrote, and the program
\* can be started, unless a process was killed in the middle of its commit or
\* two commits met.
FileIsTheLastCommit ==
    /\ Readable(file) => Loaded(file) = stored
    /\ Readable(file) \/ torn \/ \E p \in Process : at[p] = "write"

\* The console reports no comment that did not reach the room, and misses at
\* most the one during which it ended.
ReportedCommentsWereSent ==
    \A p \in Process :
        /\ sent[p] <= room[p] /\ room[p] <= sent[p] + 1
        /\ at[p] = "live" => sent[p] = room[p]
===============================================================================
