------------------------------ MODULE MCKeeper ------------------------------
(***************************************************************************)
(* Small instances of the keepers for TLC.                                 *)
(***************************************************************************)
EXTENDS Keeper, TLC

Symmetry == Permutations(Proc)
=============================================================================
