------------------------------ MODULE MCScheduler -----------------------------
(* Scheduler for TLC. *)
EXTENDS Scheduler, TLC

\* Requests and table rows differ only in what happens to them.
SchedulerSymmetry == Permutations(Uids) \cup Permutations(Slots)
===============================================================================
