--------------------------- MODULE MCLiveAssistant ---------------------------
(***************************************************************************)
(* Values for the constants of LiveAssistant.                              *)
(***************************************************************************)
EXTENDS LiveAssistant, FiniteSets, TLC

\* Processes, accounts and platforms are interchangeable; no property names one.
Names == Permutations(Process) \cup Permutations(Account) \cup Permutations(Platform)

\* Bounds: one profile gets a login, and at most one has a record of another
\* outcome than "saved".  A console that has ended with comments is
\* followed no further: what comes after is as after one that ended with none.
Bounded ==
    /\ Cardinality(loggedIn) <= 1
    /\ Cardinality({l \in Login : stored.profile[l] \in {"failed", "observed"}}) <= 1
    /\ \A p \in Process : room[p] > 0 => at[p] = "live"
===============================================================================
