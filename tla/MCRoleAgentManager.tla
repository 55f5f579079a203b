------------------------- MODULE MCRoleAgentManager -------------------------
(* Small instances of RoleAgentManager for TLC. *)
EXTENDS RoleAgentManager

\* Two tasks of one role, neither of which may be retried: each is claimed once.
PairTasks   == {"a", "b"}
PairRole    == [t \in PairTasks |-> "developer"]
PairRetries == [t \in PairTasks |-> 0]

\* The same with one that may be retried, more often than two claims can fail: no task
\* comes to an inspection, for which there is no row.
RequeueRetries == [t \in PairTasks |-> IF t = "a" THEN 5 ELSE 0]

\* A task that is inspected when its worker is gone, and the row for its inspector.
LoneTasks   == {"a", "i"}
LoneRole    == [t \in LoneTasks |-> IF t = "i" THEN "inspector" ELSE "developer"]
LoneRetries == [t \in LoneTasks |-> IF t = "i" THEN 0 ELSE 1]

\* Three tasks of one role.
TrioTasks   == {"a", "b", "c"}
TrioRole    == [t \in TrioTasks |-> "developer"]
TrioRetries == [t \in TrioTasks |-> 0]

\* Tasks of two roles, of which one may be retried twice.
TwinTasks   == {"a", "b"}
TwinRole    == [t \in TwinTasks |-> IF t = "a" THEN "developer" ELSE "reviewer"]
TwinRetries == [t \in TwinTasks |-> IF t = "a" THEN 1 ELSE 2]
=============================================================================
