---------------------------- MODULE MCScheduler ----------------------------
(***************************************************************************)
(* Instances of Scheduler for TLC.  In the kernel as kernel_main sets it   *)
(* up, processes call nothing besides scheduler_yield.                     *)
(***************************************************************************)
EXTENDS Scheduler

NoCalls == {}
=============================================================================
