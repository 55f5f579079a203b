--------------------------- MODULE TaskLifecycle ---------------------------
(***************************************************************************)
(* What the task store promises its callers about the statuses, with every *)
(* lease, queue row, retry and process forgotten: a task moves along        *)
(* ALLOWED_TRANSITIONS one task at a time, and enters the queue or runs     *)
(* only after its "success" dependencies are done.                          *)
(***************************************************************************)
EXTENDS TaskRules

CONSTANTS
  Tasks,        \* the task rows
  SuccessDeps   \* [Tasks -> SUBSET Tasks]: dependencies of type "success"

VARIABLE status   \* [Tasks -> TaskStatuses]

Init == status = [t \in Tasks |-> "pending"]

DependenciesDone(t) == \A d \in SuccessDeps[t] : status[d] = "done"

Move(t, to) ==
  /\ to \in ALLOWED_TRANSITIONS[status[t]]
  /\ to \in {"queued", "running"} => DependenciesDone(t)
  /\ status' = [status EXCEPT ![t] = to]

Next == \E t \in Tasks, to \in TaskStatuses : Move(t, to)

Spec == Init /\ [][Next]_status

-----------------------------------------------------------------------------
TypeOK == status \in [Tasks -> TaskStatuses]

\* The statuses a task only reaches by having been queued.
StartedStatuses == {"queued", "running", "needs_inspection", "done", "failed"}

\* A task is queued, runs or has an outcome only after its "success"
\* dependencies are done.
StartedAfterDependencies ==
  \A t \in Tasks : status[t] \in StartedStatuses => DependenciesDone(t)
=============================================================================
