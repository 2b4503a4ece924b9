--------------------------- MODULE MCVizInstance ---------------------------
(***************************************************************************)
(* Small instances of VizInstance for TLC.                                 *)
(***************************************************************************)
EXTENDS VizInstance, TLC

CONSTANTS c1, c2, e1, e2, t1

OneQueue  == {c1}
TwoQueues == {c1, c2}
NoEvent   == {}
OneEvent  == {e1}
TwoEvents == {e1, e2}
OneThread == {t1}

\* Pointer values are interchangeable.
Symmetry == Permutations(CLQueue) \cup Permutations(Event)
=============================================================================
