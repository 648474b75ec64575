----------------------------- MODULE MCScheduler -----------------------------
(* One default job and one slot for its runs.                              *)
EXTENDS Scheduler

CONSTANTS s1
=============================================================================
