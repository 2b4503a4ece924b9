-------------------------- MODULE MCCommandBuffer --------------------------
(***************************************************************************)
(* Small instances of CommandBuffer for TLC.                               *)
(***************************************************************************)
EXTENDS CommandBuffer, TLC

CONSTANTS p1, p2, t1

TwoBuffers == {p1, p2}
OneThread  == {t1}

Symmetry == Permutations(CLCommandBuffer)

=============================================================================
