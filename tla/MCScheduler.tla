---------------------------- MODULE MCScheduler -----------------------------
(* Instances of Scheduler for TLC: two workers beside each other, and the      *)
(* loop alone among faults and long waits.                                   *)
EXTENDS Scheduler

Together == Ops \ {"fault", "crash", "hours", "death"}
Faults == Ops \ {"tick", "now", "scan"}
=============================================================================
