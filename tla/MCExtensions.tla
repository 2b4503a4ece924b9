---------------------------- MODULE MCExtensions ----------------------------
(***************************************************************************)
(* Small instances of Extensions for TLC.                                  *)
(***************************************************************************)
EXTENDS Extensions, TLC

CONSTANTS p1, p2, t1

TwoPlatforms == {p1, p2}
OneThread    == {t1}

\* With and without each, both orders, and cl_khr_command_buffer_multi_device,
\* whose name begins with that of cl_khr_command_buffer.
SmallLists == {<< >>, <<USM>>, <<CB>>, <<USM, CB>>, <<CBMulti, CB>>, <<CB, USM, CBMulti>>}

Symmetry == Permutations(Platform)
=============================================================================
