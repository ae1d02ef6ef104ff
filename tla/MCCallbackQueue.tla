--------------------------- MODULE MCCallbackQueue ---------------------------
(***************************************************************************)
(* CallbackQueue for TLC.  The constants are given in QueueLogs.cfg,       *)
(* QueueEvents.cfg and QueueTwoRestarts.cfg.                               *)
(***************************************************************************)
EXTENDS CallbackQueue
===============================================================================
