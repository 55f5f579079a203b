--------------------------- MODULE MCCronScheduler ---------------------------
(* A process with two jobs of the same schedule. *)
EXTENDS CronScheduler

MCBounds == {[slots |-> {<<"web", 1>>}, minutes |-> 1, edits |-> 2, faults |-> 0, crashes |-> 0]}
MCSchedule == [j \in Jobs |-> {[from |-> 0, to |-> 1, step |-> 1]}]
=============================================================================
