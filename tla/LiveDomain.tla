------------------------------ MODULE LiveDomain ------------------------------
(***************************************************************************)
(* The vocabulary of the live domain and its pure decisions: what the      *)
(* domain objects and policies of smhelper decide without touching the     *)
(* database.  Everything here is a constant operator on rows; the modules  *)
(* that own state (LiveCenter) apply them.                                 *)
(*                                                                         *)
(* The data that no decision depends on (room URLs, texts, timestamps      *)
(* other than the age of a send, failure reasons) is left out.  A clock    *)
(* value that is only ever compared with a deadline is kept as the result  *)
(* of that comparison.                                                     *)
(***************************************************************************)
EXTENDS Integers, FiniteSets, Functions

CONSTANTS
    Task,           \* live tasks (one live room to follow)
    Account,        \* platform accounts, all of the platform of the tasks
    Node,           \* remote browser nodes; a node's queue is its own
    MaxBrowser,     \* WorkerNode.max_browser_sessions of each node
    Score,          \* the rendezvous hash of an account and a node
    MaxRestarts,    \* automatic rebuilds of one account in one task
    DailyLimit      \* daily_send_limit of an account

ASSUME DomainAssumption ==
    /\ IsFiniteSet(Node) /\ IsFiniteSet(Account)
    /\ MaxBrowser \in [Node -> Nat]
    /\ Score \in [Account -> [Node -> Int]]
    /\ MaxRestarts \in Nat
    /\ DailyLimit \in Nat

(***************************************************************************)
(* Sessions of an account in a live room.                                  *)
(***************************************************************************)
Active == {"planned", "starting", "waiting", "sending", "closing"}
Terminal == {"closed", "failed", "lost"}
Restartable == {"failed", "lost"}
Checkable == {"waiting", "sending"}
SessionStatus == Active \cup Terminal

\* The age of send_started_at: not set, at most the grace period ago, older.
SendAge == {"none", "fresh", "overdue"}

\* A row of account_live_sessions.  The column active_slot_key holds the pair
\* of task and account or NULL; both are columns of the row too, so that the
\* field keyed only says whether the key is there.
SessionRow == [task : Task, account : Account, node : Node,
               status : SessionStatus, keyed : BOOLEAN,
               restart : 0..MaxRestarts, sending : SendAge]

\* build_active_slot_key, up to NULL: the unique key is held while active.
HoldsSlot(status) == status \in Active

SlotOf(row) == <<row.task, row.account>>

PlannedSession(t, a, n, restarts) ==
    [task |-> t, account |-> a, node |-> n, status |-> "planned",
     keyed |-> HoldsSlot("planned"), restart |-> restarts, sending |-> "none"]

\* The answer of the center to a worker that reports a session status: a
\* terminal session stays as it is, and a closing one only terminates.
\* (faulty variants: one guard dropped, the other dropped, a guard too wide,
\* a session that has not entered yet is not expected to report)
ReopensTerminal(row, reported) ==
    row.status = "closing" => reported \in Terminal
ReopensClosing(row, reported) == row.status \notin Terminal
ClosingIsDeaf(row, reported) == row.status \notin Terminal \cup {"closing"}
PlannedIsDeaf(row, reported) == row.status \notin Terminal \cup {"planned"}
AcceptsReport(row, reported) ==
    /\ row.status \notin Terminal
    /\ row.status = "closing" => reported \in Terminal

\* The row after a status is written with its slot key; a session that ends
\* forgets the send in progress.
\* (faulty variant: the key is not rebuilt)
KeepsKey(row, status) ==
    [row EXCEPT !.status = status,
                !.sending = IF status \in Terminal THEN "none" ELSE @]
WithStatus(row, status) ==
    [row EXCEPT !.status = status,
                !.keyed = HoldsSlot(status),
                !.sending = IF status \in Terminal THEN "none" ELSE @]

\* can_auto_restart
\* (faulty variant: one rebuild too many)
RestartsOnceMore(row) ==
    row.status \in Restartable /\ row.restart <= MaxRestarts
CanAutoRestart(row) ==
    row.status \in Restartable /\ row.restart < MaxRestarts

\* LiveTaskShutdownPolicy for one active session.
CloseDecision(row) ==
    CASE row.status # "sending"   -> "dispatch_close"
      [] row.status = "sending" /\ row.sending = "fresh" -> "wait_for_sending"
      [] OTHER                    -> "force_close"

(***************************************************************************)
(* Nodes.  HRW ranks the nodes that can accept a browser session.          *)
(***************************************************************************)
\* WorkerNode.can_accept, for a node row and its number of active sessions.
\* (faulty variant: off by one at the capacity)
AcceptsWhenFull(row, n, load) == row = "online" /\ load <= MaxBrowser[n]
CanAccept(row, n, load) == row = "online" /\ load < MaxBrowser[n]

\* RendezvousHashingNodeSelector.select_node over nodes that can accept.
\* (faulty variant: sorted the other way round)
WorstNode(a, nodes) ==
    CHOOSE n \in nodes : \A m \in nodes : Score[a][n] <= Score[a][m]
BestNode(a, nodes) ==
    CHOOSE n \in nodes : \A m \in nodes : Score[a][m] <= Score[a][n]

(***************************************************************************)
(* PlanAccountEntriesUseCase: the available accounts that have no active   *)
(* session are visited in a shuffled order, each takes a slot of its best  *)
(* node among those that still accept, or stays out.  place is the         *)
(* resulting assignment (its domain: the accounts that got a node) if some *)
(* visiting order explains it.  rows and load are what the planner has     *)
(* read: the node rows and the active sessions per node.                   *)
(***************************************************************************)
OpenNodes(rows, load, place, earlier) ==
    {n \in Node :
        CanAccept(rows[n], n,
            load[n] + Cardinality({b \in earlier \cap DOMAIN place :
                                       place[b] = n}))}

IsEntryPlan(place, accounts, rows, load) ==
    \E visit \in Bijection(accounts, 1..Cardinality(accounts)) :
        \A a \in accounts :
            LET earlier == {b \in accounts : visit[b] < visit[a]}
                open == OpenNodes(rows, load, place, earlier)
            IN  /\ a \in DOMAIN place <=> open # {}
                /\ open # {} => place[a] = BestNode(a, open)

EntryPlans(accounts, rows, load) ==
    {place \in UNION {[D -> Node] : D \in SUBSET accounts} :
        IsEntryPlan(place, accounts, rows, load)}

(***************************************************************************)
(* Accounts.  standing combines the enabled flag with the state of the     *)
(* stored login: a disabled account with a valid login can still be let    *)
(* into a room by its node, one with an invalid login cannot.              *)
(***************************************************************************)
Standing == {"good", "disabled", "login_invalid"}
AccountRow == [standing : Standing, sends : Nat, cooling : BOOLEAN]

\* PlatformAccount.is_available
\* (faulty variant: the limit is off by one)
AvailableAtLimit(row) ==
    row.standing = "good" /\ ~row.cooling /\ row.sends <= DailyLimit
IsAvailable(row) ==
    row.standing = "good" /\ ~row.cooling /\ row.sends < DailyLimit
===============================================================================
