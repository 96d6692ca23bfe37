--------------------------- MODULE MCMiscDrawpad ----------------------------
(* Small instances of MiscDrawpad for TLC.                                 *)
EXTENDS MiscDrawpad, TLC

Symmetry == Permutations(Proc)
=============================================================================
