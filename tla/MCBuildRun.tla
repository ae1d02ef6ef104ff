----------------------------- MODULE MCBuildRun -----------------------------
(***************************************************************************)
(* BuildRun for TLC.                                                       *)
(***************************************************************************)
EXTENDS BuildRun
=============================================================================
