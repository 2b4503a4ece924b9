----------------------------- MODULE MCDotFile -----------------------------
(***************************************************************************)
(* Small instances of DotFile for TLC.                                     *)
(***************************************************************************)
EXTENDS DotFile, TLC

CONSTANTS p1, p2, v1, v2, crimson, cyan, stray

TwoProcesses == {p1, p2}
TwoQueues    == {v1, v2}

\* A part of the code's pool, around the first name that is there twice, and a
\* text that is in no pool.
ColorNames  == {crimson, cyan, stray}
CrimsonCyanCyan == 0 :> crimson @@ 1 :> cyan @@ 2 :> cyan

\* Processes and queues are interchangeable.
Symmetry == Permutations(Process) \cup Permutations(VizQueue)
=============================================================================
