----------------------------- MODULE TaskRules -----------------------------
(***************************************************************************)
(* The status rules of a task row: the part of src/tasks/TaskStore.ts that *)
(* is pure, shared by every module that touches tasks.                     *)
(***************************************************************************)
EXTENDS Integers

TaskStatuses ==
  {"pending", "queued", "running", "blocked", "needs_inspection",
   "done", "failed", "cancelled", "dead_letter"}

\* What waitForTask, the executor and "finished" dependencies call terminal.
\* `failed` and `blocked` are in the set although a task may still leave them.
TERMINAL_STATUSES == {"done", "failed", "blocked", "cancelled", "dead_letter"}

\* The statuses no transition leaves.
FinalStatuses == {"done", "cancelled", "dead_letter"}

ALLOWED_TRANSITIONS ==
  [s \in TaskStatuses |->
     CASE s = "pending" -> {"queued", "running", "blocked", "cancelled", "dead_letter"}
       [] s = "queued"  -> {"running", "pending", "cancelled", "dead_letter"}
       [] s = "running" -> {"done", "failed", "blocked", "needs_inspection",
                            "cancelled", "dead_letter"}
       [] s = "blocked" -> {"pending", "queued", "cancelled", "dead_letter"}
       [] s = "needs_inspection" -> {"queued", "running", "done", "failed",
                                     "cancelled", "dead_letter"}
       [] s = "failed"  -> {"queued", "dead_letter"}
       [] OTHER         -> {}]

\* transitionTask accepts an unchanged status besides the listed ones.
Allowed(from, to) == to \in ALLOWED_TRANSITIONS[from] \/ from = to

QueueStatuses == {"none", "queued", "running", "done", "failed", "cancelled", "dead_letter"}

\* Mutant: the queue row takes the status of its task.
MutQueueStatusForTask(status) == status

QueueStatusForTask(status) ==
  IF status \in {"done", "cancelled", "dead_letter"} THEN status ELSE "failed"

\* A lease token; 0 stands for NULL. Tokens are random UUIDs, so a token also
\* determines the agent it was minted for and the owner column is left out.
NoToken == 0

\* leaseMatches: a NULL column matches anything.
LeaseMatches(rowToken, token) == rowToken = NoToken \/ rowToken = token

-----------------------------------------------------------------------------
(* RecoveryPolicy.decideWorkerExit: what to do with a task whose worker is gone. *)

RecoveryDecision(hasResult, retryable, retryCount, maxRetries) ==
  IF hasResult THEN "finish"
  ELSE IF retryable /\ retryCount < maxRetries THEN "retry"
  ELSE IF retryCount >= maxRetries /\ maxRetries = 0 THEN "dead_letter"
  ELSE "inspect"
=============================================================================
