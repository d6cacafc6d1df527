----------------------------- MODULE AccountSlots -----------------------------
(***************************************************************************)
(* What the center promises about browser sessions, without saying how: a  *)
(* slot is one account in one live task, and at any time at most one       *)
(* session occupies it.  A session occupies its slot once: it is created   *)
(* in a free slot, holds it until it has ended, and never comes back.      *)
(* Replacing a session therefore means ending the old one first.           *)
(***************************************************************************)
CONSTANTS
    Slot,           \* the pairs of a live task and an account
    SessionId       \* the sessions that may ever exist

VARIABLES
    holders,        \* the sessions that occupy each slot: none or one
    retired         \* the sessions that have ended

slotVars == <<holders, retired>>

AbstractTypeOK ==
    /\ holders \in [Slot -> SUBSET SessionId]
    /\ retired \in SUBSET SessionId

Init ==
    /\ holders = [k \in Slot |-> {}]
    /\ retired = {}

Held == UNION {holders[k] : k \in Slot}

\* Sessions are created in the slots S, all free before, each with a session
\* nobody has seen yet and that no other slot gets.
Occupy(S) ==
    /\ \A k \in S : /\ holders[k] = {}
                    /\ \E id \in SessionId \ (Held \cup retired) :
                            holders'[k] = {id}
    /\ \A j, k \in S : j # k => holders'[j] \cap holders'[k] = {}
    /\ \A k \in Slot \ S : holders'[k] = holders[k]
    /\ retired' = retired

\* The sessions in the slots S end.
Vacate(S) ==
    /\ holders' = [k \in Slot |-> IF k \in S THEN {} ELSE holders[k]]
    /\ retired' = retired \cup UNION {holders[k] : k \in S}

Next == \E S \in SUBSET Slot : Occupy(S) \/ Vacate(S)

Spec == Init /\ [][Next]_slotVars
===============================================================================
