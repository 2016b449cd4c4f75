---------------------------- MODULE MCScheduler ----------------------------
(* Scheduler on the graphs and providers of ScheduleInstances. *)
EXTENDS Scheduler, ScheduleInstances
============================================================================
