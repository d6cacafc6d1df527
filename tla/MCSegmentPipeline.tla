-------------------------- MODULE MCSegmentPipeline --------------------------
(***************************************************************************)
(* Segments, recorders and processes are interchangeable: no property      *)
(* names one.                                                              *)
(***************************************************************************)
EXTENDS SegmentPipeline, TLC

SegmentIds ==
    Permutations(SegmentId) \cup Permutations(Recorder) \cup Permutations(Proc)
===============================================================================
