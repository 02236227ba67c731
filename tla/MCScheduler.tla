----------------------------- MODULE MCScheduler -----------------------------
(***************************************************************************)
(* Instances of Scheduler for TLC.  Four processes as in the source, the   *)
(* processes 1 and 2 (processA, processB) print; two register values are   *)
(* enough to tell a kept register from a lost one.                         *)
(***************************************************************************)
EXTENDS Scheduler

MCPrinters == {1, 2}
MCTimerOnly == {TimerVector}
MCWithSpurious == {TimerVector, SpuriousVector}
MCWithHalt == {TimerVector, SpuriousVector, HaltVector}
==============================================================================
