---------------------------- MODULE DispatchLedger ----------------------------
(***************************************************************************)
(* What the center promises of the questions an operator reviews, without  *)
(* saying how: a question is given once to one account that is below its   *)
(* daily limit, it gets one result, for good, and the counter of that      *)
(* account grows with a success and with nothing else.  Only the operator  *)
(* sets a counter back.                                                    *)
(***************************************************************************)
EXTENDS Naturals

CONSTANTS
    Candidate,      \* the questions
    Account,        \* the accounts that may send them
    DailyLimit      \* of each account

VARIABLES
    fate,           \* of each question: open, dismissed, running, or its result
    sender,         \* the account it was given to: none or one
    sends           \* the counter of each account

ledgerVars == <<fate, sender, sends>>

\* What S becomes, where all of S has been before.
Become(S, before, after) ==
    /\ \A c \in S : fate[c] = before
    /\ fate' = [c \in Candidate |-> IF c \in S THEN after ELSE fate[c]]

Init ==
    /\ fate = [c \in Candidate |-> "open"]
    /\ sender = [c \in Candidate |-> {}]
    /\ sends = [a \in Account |-> 0]

\* The questions in S are given to accounts.
Give(S) ==
    /\ Become(S, "open", "running")
    /\ \E who \in [S -> Account] :
          /\ \A c \in S : sends[who[c]] < DailyLimit
          /\ sender' = [c \in Candidate |->
                           IF c \in S THEN {who[c]} ELSE sender[c]]
    /\ UNCHANGED sends

Dismiss(S) ==
    /\ Become(S, "open", "dismissed")
    /\ UNCHANGED <<sender, sends>>

Fail(S) ==
    /\ Become(S, "running", "failed")
    /\ UNCHANGED <<sender, sends>>

Succeed(c) ==
    /\ Become({c}, "running", "success")
    /\ \E a \in sender[c] : sends' = [sends EXCEPT ![a] = @ + 1]
    /\ UNCHANGED sender

SetBack(a) ==
    /\ sends' = [sends EXCEPT ![a] = 0]
    /\ UNCHANGED <<fate, sender>>

Next ==
    \/ \E S \in SUBSET Candidate : Give(S) \/ Dismiss(S) \/ Fail(S)
    \/ \E c \in Candidate : Succeed(c)
    \/ \E a \in Account : SetBack(a)

Spec == Init /\ [][Next]_ledgerVars
===============================================================================
