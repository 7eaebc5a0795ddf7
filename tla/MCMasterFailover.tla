-------------------------- MODULE MCMasterFailover --------------------------
(***************************************************************************)
(* MasterFailover on a cluster of three nodes, all of them candidates.     *)
(***************************************************************************)
EXTENDS MasterFailover
=============================================================================
