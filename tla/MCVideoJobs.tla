---------------------------- MODULE MCVideoJobs ----------------------------
(* VideoJobs for TLC: two jobs, one crash, one failed stop. *)
EXTENDS VideoJobs

SmallSizes == {1, 2}
=============================================================================
