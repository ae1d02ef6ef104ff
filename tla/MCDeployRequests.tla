-------------------------- MODULE MCDeployRequests --------------------------
(***************************************************************************)
(* DeployRequests for TLC.                                                 *)
(***************************************************************************)
EXTENDS DeployRequests
=============================================================================
