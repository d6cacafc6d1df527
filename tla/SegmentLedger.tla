----------------------------- MODULE SegmentLedger -----------------------------
(***************************************************************************)
(* What the pipeline promises of the files of a recording, without saying  *)
(* how: they are taken in order and each once, and a file that was taken   *)
(* is given its answers for good.  Deliveries of the same segment that     *)
(* overlap each give one; there are never more than MaxAnswers.            *)
(***************************************************************************)
EXTENDS Naturals, Sequences

CONSTANTS LastFile, MaxAnswers

VARIABLE ledger     \* of each file: whether it was taken, and its answers

Numbers == 0..LastFile

Entry(taken, answers) == [taken |-> taken, answers |-> answers]

Init == ledger = [n \in Numbers |-> Entry(FALSE, <<>>)]

\* The files in S are taken, and every earlier one is or has been.
Take(S) ==
    /\ \A n \in S : /\ ~ledger[n].taken
                    /\ \A m \in 0..n : m \in S \/ ledger[m].taken
    /\ ledger' = [n \in Numbers |-> IF n \in S THEN Entry(TRUE, <<>>)
                                               ELSE ledger[n]]

Answer(n) ==
    /\ ledger[n].taken
    /\ Len(ledger[n].answers) < MaxAnswers
    /\ \E answer \in {"success", "failed"} :
          ledger' = [ledger EXCEPT ![n] =
                        Entry(TRUE, Append(@.answers, answer))]

Next ==
    \/ \E S \in SUBSET Numbers : Take(S)
    \/ \E n \in Numbers : Answer(n)

Spec == Init /\ [][Next]_ledger
===============================================================================
