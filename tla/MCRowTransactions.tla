-------------------------- MODULE MCRowTransactions --------------------------
(***************************************************************************)
(* Values for the constants of RowTransactions.                            *)
(***************************************************************************)
EXTENDS RowTransactions, TLC

CONSTANT t1     \* the live task

CandOfTask == [c \in Candidate |-> t1]

OneBrowser == [n \in Node |-> 1]
NoRanking == [a \in Account |-> [n \in Node |-> 0]]

\* Ids, threads and the candidates of the one task are interchangeable; no
\* property names one.
Interchangeable ==
    Permutations(SessionId) \cup Permutations(JobId) \cup Permutations(Thread)
        \cup Permutations(Candidate)

\* Bounds: operations of two processes overlap, not of three (the third
\* waits); nodes owe the answers to two tasks at most, sends included; there is
\* a second session or a second job, not both; and no form is open once there
\* is a second session, which is planned from the first one and never reads
\* the account.
FewAtATime ==
    /\ Cardinality({p \in Process :
           pc[p].at \in {"restart", "insert", "form", "commit"}}) <= 2
    /\ Cardinality(asked) + Cardinality(sends) <= 2
    /\ Cardinality(Sessions) + Cardinality(Jobs) <= 3
    /\ \A b \in Tab : pc[b].at # "idle" => Cardinality(Sessions) <= 1
===============================================================================
