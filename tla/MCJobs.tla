------------------------------- MODULE MCJobs -------------------------------
(***************************************************************************)
(* Small instances of the JobManager for TLC.                              *)
(***************************************************************************)
EXTENDS JobsProperties

Symmetry == Permutations(Job) \cup Permutations(Cancel)
=============================================================================
