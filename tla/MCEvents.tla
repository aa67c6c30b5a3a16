------------------------------ MODULE MCEvents ------------------------------
(***************************************************************************)
(* Small instances of the event feed for TLC.                              *)
(***************************************************************************)
EXTENDS EventFollower

JobsOnly == [f \in Follower |-> {"job"}]
=============================================================================
