---------------------------- MODULE MCVizContext ----------------------------
(***************************************************************************)
(* Small instances of VizContext for TLC.                                  *)
(***************************************************************************)
EXTENDS VizContext, TLC

CONSTANTS c1, d1, d2, t1, t2, v1, v2

OneQueue     == {c1}
OneGraph     == {d1}
TwoGraphs    == {d1, d2}
OneInstance  == {v1}
TwoInstances == {v1, v2}
TwoThreads   == {t1, t2}

\* Threads and addresses are interchangeable.
Symmetry ==
  Permutations(TwoThreads) \cup Permutations(TwoGraphs) \cup Permutations(TwoInstances)
=============================================================================
