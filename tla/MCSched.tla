------------------------------- MODULE MCSched -------------------------------
(* Four user tasks: two can be queued while one runs and one sleeps.       *)
EXTENDS Sched
=============================================================================
