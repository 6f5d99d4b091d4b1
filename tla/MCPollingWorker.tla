-------------------------- MODULE MCPollingWorker --------------------------
(***************************************************************************)
(* PollingWorker with jobs of different intervals.                         *)
(***************************************************************************)
EXTENDS PollingWorker, TLC

CONSTANTS fast, slow, other

MCJobs == {fast, slow, other}
MCInterval == fast :> 1 @@ slow :> 3 @@ other :> 2
=============================================================================
