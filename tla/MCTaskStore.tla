---------------------------- MODULE MCTaskStore ----------------------------
(* Small instances of TaskStore for TLC. *)
EXTENDS TaskStore, TLC

\* One task that may be retried once.
LoneTask   == {"a"}
LoneDeps   == [t \in LoneTask |-> {}]
LoneRole   == [t \in LoneTask |-> "developer"]
LoneRetries == [t \in LoneTask |-> 1]

\* c waits for the success of a and for b to be finished.
JoinTasks    == {"a", "b", "c"}
JoinSuccess  == [t \in JoinTasks |-> IF t = "c" THEN {"a"} ELSE {}]
JoinFinished == [t \in JoinTasks |-> IF t = "c" THEN {"b"} ELSE {}]
JoinRole     == [t \in JoinTasks |-> t]
JoinRetries  == [t \in JoinTasks |-> 0]

Symmetry == Permutations(Workers)
=============================================================================
