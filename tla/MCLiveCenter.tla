----------------------------- MODULE MCLiveCenter -----------------------------
(***************************************************************************)
(* Values for the constants of LiveCenter.  The configurations name the    *)
(* sets of model values; what relates them is defined here for whatever    *)
(* sets a configuration chooses.                                           *)
(***************************************************************************)
EXTENDS LiveCenter, TLC

CONSTANTS t1, n1, w1   \* model values the definitions name

\* Every node has room for one browser.
OneBrowser == [n \in Node |-> 1]

\* All accounts rank the nodes in the same order: the contended case.
SameRanking ==
    [a \in Account |-> [n \in Node |-> IF n = n1 THEN 2 ELSE 1]]

CandInT1 == [c \in Candidate |-> t1]
WatchT1 == [o \in Observer |-> t1]
\* Every worker process belongs to node n1.
AllOnN1 == [p \in Worker |-> n1]
\* Worker w1 belongs to n1, the others to the other node.
W1OnN1 == [p \in Worker |-> IF p = w1 THEN n1
                            ELSE CHOOSE n \in Node : n # n1]

\* Ids, candidates, observers of one task and processes of one node are
\* interchangeable; no property names one.
SessionIds == Permutations(SessionId)
SessionsAndObservers == SessionIds \cup Permutations(Observer)
Ids == SessionIds \cup Permutations(JobId) \cup Permutations(Candidate)
IdsAndWorkers == Ids \cup Permutations(Worker)
===============================================================================
