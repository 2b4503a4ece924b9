---------------------------- MODULE MCLayerCalls ----------------------------
(***************************************************************************)
(* Small instances of LayerCalls for TLC.                                  *)
(***************************************************************************)
EXTENDS LayerCalls, TLC

CONSTANTS c1, c2, e1, t1, t2

OneQueue   == {c1}
TwoQueues  == {c1, c2}
NoEvent    == {}
OneEvent   == {e1}
TwoThreads == {t1, t2}

\* Pointer values and threads are interchangeable.
Symmetry == Permutations(CLQueue) \cup Permutations(Thread)
=============================================================================
