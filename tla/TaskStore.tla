----------------------------- MODULE TaskStore -----------------------------
(***************************************************************************)
(* The task life cycle of src/tasks/TaskStore.ts as several processes      *)
(* drive it: the main process, and one forked worker process per attempt.  *)
(* They share one SQLite file and hold no transaction around a method, so  *)
(* every SQL statement is one atomic step here and the statements of       *)
(* different processes interleave freely.                                  *)
(***************************************************************************)
EXTENDS TaskRules, FiniteSets

CONSTANTS
  Tasks,         \* the task rows
  Mains,         \* main processes (one in normal use)
  Workers,       \* slots for worker processes, dead or alive
  Inspectors,    \* slots for worker processes that run an inspector task
  SuccessDeps,   \* [Tasks -> SUBSET Tasks]: dependencies of type "success"
  FinishedDeps,  \* [Tasks -> SUBSET Tasks]: dependencies of type "finished"
  Role,          \* [Tasks -> STRING]: the role column
  MaxRetries,    \* [Tasks -> Nat]: the max_retries column
  Retryable,     \* the tasks whose metadata.retryable is true
  MaxTokens      \* bound: lease tokens minted in a behaviour

Procs == Mains \union Workers \union Inspectors

ASSUME TaskStoreAssumption ==
  /\ Tasks # {}
  /\ SuccessDeps \in [Tasks -> SUBSET Tasks]
  /\ FinishedDeps \in [Tasks -> SUBSET Tasks]
  /\ MaxRetries \in [Tasks -> Nat]
  /\ Retryable \subseteq Tasks
  /\ MaxTokens \in Nat
  /\ Mains \intersect Workers = {}
  /\ Mains \intersect Inspectors = {}
  /\ Workers \intersect Inspectors = {}

VARIABLES
  task,         \* [Tasks -> Row]: table tasks
  queue,        \* [Tasks -> QueueStatuses]: table role_queues, "none" is no row
  call,         \* [Procs -> Call]: the store method each process is executing
  run,          \* [Workers -> Run]: runTask of subagentWorker.ts
  retrying,     \* [Mains -> SUBSET Tasks]: failed by recovery, enqueue still to come
  inspections,  \* [Tasks -> Inspection]: the inspector task of a task
  minted,       \* lease tokens minted so far
  aborted       \* ghost: dependents whose release a crash or an exception cut off

vars == <<task, queue, call, run, retrying, inspections, minted, aborted>>

-----------------------------------------------------------------------------
Tokens == 0..MaxTokens

\* "marked": metadata.inspectionTaskId is written; "open": the inspector task is
\* enqueued; "run": its worker has started.
Inspection == {"none", "marked", "open", "run"}

\* A result is represented by the lease token of the attempt that wrote it, 0 for
\* NULL. A worker that was never told its token writes an anonymous one.
Anonymous == MaxTokens + 1
Results == Tokens \union {Anonymous}

Row == [status : TaskStatuses, retry : Nat, token : Tokens, result : Results]

NewRow == [status |-> "pending", retry |-> 0, token |-> NoToken, result |-> NoToken]

Ops == {"none", "enqueue", "claimNext", "claim", "finish", "fail", "recover",
        "cancel", "inspect", "verdict", "block"}

FailOps == {"fail", "recover"}

Pcs == {"idle", "row", "read", "check", "transition", "update", "upsert",
        "markRunning", "reread", "complete", "dependents", "release"}

\* A method call: `cur` is the row the current transition is about (`task`, or
\* one of its dependents during a release), `row` transitionTask's snapshot of it.
Call == [op : Ops, pc : Pcs, task : Tasks, cur : Tasks, token : Tokens,
         expect : BOOLEAN, retry : Nat, result : Results, to : TaskStatuses,
         row : Row, todo : SUBSET Tasks]

AnyTask == CHOOSE t \in Tasks : TRUE

IdleCall == [op |-> "none", pc |-> "idle", task |-> AnyTask, cur |-> AnyTask,
             token |-> NoToken, expect |-> FALSE, retry |-> 0, result |-> NoToken,
             to |-> "pending", row |-> NewRow, todo |-> {}]

RunPcs == {"off", "started", "working", "failing", "cancelling", "finally", "closing"}

Run == [pc : RunPcs, task : Tasks, token : Tokens, cancelled : BOOLEAN]

NoRun == [pc |-> "off", task |-> AnyTask, token |-> NoToken, cancelled |-> FALSE]

\* Mutant: a "success" dependency is satisfied by any terminal status.
MutDependenciesSatisfied(t) ==
  \A d \in SuccessDeps[t] \union FinishedDeps[t] : task[d].status \in TERMINAL_STATUSES

\* dependenciesSatisfied
DependenciesSatisfied(t) ==
  /\ \A d \in SuccessDeps[t] : task[d].status = "done"
  /\ \A d \in FinishedDeps[t] : task[d].status \in TERMINAL_STATUSES

Dependents(t) == {x \in Tasks : t \in SuccessDeps[x] \union FinishedDeps[x]}

Idle(p) == call[p].pc = "idle"

At(p, pc) == call[p].pc = pc

Becomes(p, c) == call' = [call EXCEPT ![p] = c]

Begin(p, op, pc, t, token) ==
  Becomes(p, [IdleCall EXCEPT !.op = op, !.pc = pc, !.task = t, !.cur = t, !.token = token])

Goto(p, pc) == Becomes(p, [call[p] EXCEPT !.pc = pc])

-----------------------------------------------------------------------------
(* How a call ends. A worker's runTask continues according to the call: the  *)
(* claim leads to the work, a refused claim or finish to the catch block,    *)
(* everything else to the finally block. safeTaskMutation turns a refused    *)
(* fail or cancel into an event.                                             *)

AfterCall(w, ok) ==
  CASE run[w].pc = "started" -> IF ok THEN "working" ELSE "failing"
    [] run[w].pc = "working" -> IF ok THEN "finally" ELSE "failing"
    [] run[w].pc \in {"failing", "cancelling"} -> "finally"
    [] OTHER -> "off"

End(p, ok) ==
  /\ Becomes(p, IdleCall)
  /\ run' = IF p \in Workers
            THEN [run EXCEPT ![p] = IF AfterCall(p, ok) = "off" THEN NoRun
                                    ELSE [@ EXCEPT !.pc = AfterCall(p, ok)]]
            ELSE run
  \* recoverTask re-reads the task after failTask and enqueues it when it failed.
  /\ retrying' = IF /\ p \in Mains
                    /\ ok
                    /\ call[p].op = "recover"
                    /\ task[call[p].task].status = "failed"
                 THEN [retrying EXCEPT ![p] = @ \union {call[p].task}]
                 ELSE retrying

\* The dependents a process still has to look at when its call is cut off.
Unreleased(p) ==
  LET c == call[p] IN
  {x \in Dependents(c.task) :
     /\ c.op \in FailOps \union {"finish"}
     /\ task[x].status \in {"pending", "blocked"}
     /\ \/ c.pc \in {"complete", "dependents"}
        \/ c.pc = "release" /\ x \in c.todo
        \/ c.pc # "release" /\ c.to = "queued" /\ x \in c.todo \union {c.cur}}

\* An IllegalTaskTransitionError or TaskTransitionConflictError leaves the method,
\* except in claimNextQueuedTask, which repairs the queue row and goes on.
Throw(p) ==
  /\ IF call[p].op = "claimNext"
     THEN /\ Becomes(p, [call[p] EXCEPT !.pc = "complete",
                                        !.to = task[call[p].cur].status])
          /\ UNCHANGED <<run, retrying, aborted>>
     ELSE /\ End(p, FALSE)
          /\ aborted' = aborted \union Unreleased(p)
  /\ UNCHANGED <<task, queue, inspections, minted>>

-----------------------------------------------------------------------------
(* The statements of the store methods, one action each.                    *)

LeaseAccepted(p, row) ==
  p \notin Workers \/ row.status # "running" \/ LeaseMatches(row.token, call[p].token)

\* Whether the UPDATE carries the lease columns in its WHERE clause.
ExpectedLease(p, row) ==
  row.status = "running" /\ (p \in Workers \/ call[p].op = "claimNext")

\* Mutant: failTask compares the new count with max_retries by >=.
MutTarget(p, row) ==
  CASE call[p].op \in {"claim", "claimNext"} -> "running"
    [] call[p].op = "finish" -> "done"
    [] call[p].op \in FailOps ->
         IF row.retry + 1 >= MaxRetries[call[p].task] THEN "dead_letter" ELSE "failed"
    [] call[p].op = "cancel"  -> "cancelled"
    [] call[p].op = "inspect" -> "needs_inspection"
    [] OTHER -> "failed"

\* First read of the method: getTaskOrThrow, the lease assertion, and the
\* status the method asks transitionTask for.
Target(p, row) ==
  CASE call[p].op \in {"claim", "claimNext"} -> "running"
    [] call[p].op = "finish" -> "done"
    [] call[p].op \in FailOps ->
         IF row.retry + 1 > MaxRetries[call[p].task] THEN "dead_letter" ELSE "failed"
    [] call[p].op = "cancel"  -> "cancelled"
    [] call[p].op = "inspect" -> "needs_inspection"
    [] OTHER -> "failed"

\* Claiming a running task needs its own lease, whoever claims.
ReadRefused(p, row) ==
  \/ ~LeaseAccepted(p, row)
  \/ /\ call[p].op = "claimNext"
     /\ row.status = "running"
     /\ ~LeaseMatches(row.token, call[p].token)

\* cancelTask on a terminal task only records an event; inspectTask leaves a
\* finished task with a result alone.
ReadReturns(p, row) ==
  \/ call[p].op = "cancel" /\ row.status \in TERMINAL_STATUSES
  \/ call[p].op = "verdict" /\ row.status = "done" /\ row.result # NoToken

\* What the transition is to write besides: failTask patches the count and the
\* result it read, a finish by recovery the result of the row recovery looked at.
PatchedRetry(p, row) == IF call[p].op \in FailOps THEN row.retry + 1 ELSE 0

PatchedResult(p, row) == IF call[p].op \in FailOps THEN row.result ELSE call[p].result

ReadTask(p) ==
  LET row == task[call[p].cur] IN
  /\ At(p, "read")
  /\ \/ /\ ReadReturns(p, row)
        /\ End(p, TRUE)
        /\ UNCHANGED <<task, queue, inspections, minted, aborted>>
     \/ /\ ~ReadReturns(p, row)
        /\ ReadRefused(p, row)
        /\ Throw(p)
     \/ /\ ~ReadReturns(p, row)
        /\ ~ReadRefused(p, row)
        /\ Becomes(p, [call[p] EXCEPT !.pc = "transition",
                                      !.to = Target(p, row),
                                      !.expect = ExpectedLease(p, row),
                                      !.retry = PatchedRetry(p, row),
                                      !.result = PatchedResult(p, row)])
        /\ UNCHANGED <<task, queue, run, retrying, inspections, minted, aborted>>

\* enqueueTask's own read: with unsatisfied dependencies it only records an event.
CheckDependencies(p) ==
  /\ At(p, "check")
  /\ \/ /\ DependenciesSatisfied(call[p].cur)
        /\ Becomes(p, [call[p] EXCEPT !.pc = "transition", !.to = "queued"])
        /\ UNCHANGED <<run, retrying>>
     \/ /\ ~DependenciesSatisfied(call[p].cur)
        /\ End(p, TRUE)
  /\ UNCHANGED <<task, queue, inspections, minted, aborted>>

\* transitionTask, first statement: the snapshot everything unpatched is
\* written back from, and the check against ALLOWED_TRANSITIONS.
ReadTransition(p) ==
  LET row == task[call[p].cur] IN
  /\ At(p, "transition")
  /\ IF Allowed(row.status, call[p].to)
     THEN /\ Becomes(p, [call[p] EXCEPT !.pc = "update", !.row = row])
          /\ UNCHANGED <<task, queue, run, retrying, inspections, minted, aborted>>
     ELSE Throw(p)

\* Mutant: a terminal status keeps the lease columns of the snapshot.
MutWrittenRow(c, byWorker) ==
  [status |-> c.to,
   retry  |-> IF c.op \in FailOps /\ c.to # "queued" THEN c.retry ELSE c.row.retry,
   token  |-> IF c.to = "running" /\ c.token # NoToken THEN c.token ELSE c.row.token,
   result |-> c.row.result]

\* The row transitionTask writes. The failing methods patch the retry count
\* they computed from their first read; a worker's outcome sets the result.
WrittenRow(c, byWorker) ==
  [status |-> c.to,
   retry  |-> IF c.op \in FailOps /\ c.to # "queued" THEN c.retry ELSE c.row.retry,
   token  |-> IF c.to \in TERMINAL_STATUSES THEN NoToken
              ELSE IF c.to = "running" /\ c.token # NoToken THEN c.token
              ELSE c.row.token,
   result |-> IF c.to = "queued" THEN c.row.result
              ELSE IF byWorker /\ c.op \in {"finish", "fail"}
                   THEN IF c.token = NoToken THEN Anonymous ELSE c.token
              ELSE IF c.op \in FailOps \union {"finish"} /\ c.result # NoToken THEN c.result
              ELSE c.row.result]

\* Mutant: the UPDATE has no status in its WHERE clause.
MutCasHolds(c) == c.expect => task[c.cur].token = c.token

\* WHERE status = <the snapshot's> AND, when a lease is expected, the lease is ours.
CasHolds(c) ==
  /\ task[c.cur].status = c.row.status
  /\ c.expect => task[c.cur].token = c.token

AfterUpdate(c) ==
  IF c.to = "queued" THEN "upsert"
  ELSE CASE c.op = "claimNext" -> "markRunning"
         [] c.op \in {"finish", "fail", "recover", "cancel", "inspect"} -> "complete"
         [] OTHER -> "idle"

UpdateTask(p) ==
  LET c == call[p] IN
  /\ At(p, "update")
  /\ IF CasHolds(c)
     THEN /\ task' = [task EXCEPT ![c.cur] = WrittenRow(c, p \in Workers)]
          /\ IF AfterUpdate(c) = "idle" THEN End(p, TRUE)
             ELSE /\ Becomes(p, [IdleCall EXCEPT !.op = c.op, !.pc = AfterUpdate(c),
                                                 !.task = c.task, !.cur = c.cur,
                                                 !.to = c.to, !.todo = c.todo])
                  /\ UNCHANGED <<run, retrying>>
          /\ inspections' = IF c.op = "inspect"
                            THEN [inspections EXCEPT ![c.cur] = "marked"]
                            ELSE inspections
          /\ aborted' = IF c.to \in {"queued", "cancelled"} THEN aborted \ {c.cur} ELSE aborted
          /\ UNCHANGED <<queue, minted>>
     ELSE Throw(p)

\* enqueueTask, second statement: insert or reset the role_queues row.
UpsertQueue(p) ==
  /\ At(p, "upsert")
  /\ queue' = [queue EXCEPT ![call[p].cur] = "queued"]
  /\ IF call[p].op = "enqueue" THEN End(p, TRUE)
     ELSE Goto(p, "release") /\ UNCHANGED <<run, retrying>>
  /\ UNCHANGED <<task, inspections, minted, aborted>>

\* completeQueueItem: an UPDATE, so without a row it does nothing.
CompleteQueueItem(p) ==
  LET c == call[p] IN
  /\ At(p, "complete")
  /\ queue' = [queue EXCEPT ![c.cur] = IF @ = "none" THEN "none" ELSE QueueStatusForTask(c.to)]
  /\ CASE c.op = "claimNext" ->
            Goto(p, "row") /\ UNCHANGED <<run, retrying>>
       [] c.op \in {"finish", "fail", "recover"} ->
            Goto(p, "dependents") /\ UNCHANGED <<run, retrying>>
       [] OTHER -> End(p, TRUE)
  /\ inspections' = IF c.op = "inspect" THEN [inspections EXCEPT ![c.cur] = "open"]
                    ELSE inspections
  /\ UNCHANGED <<task, minted, aborted>>

\* Mutant: blocked dependents are skipped.
MutReadDependents(p) ==
  /\ At(p, "dependents")
  /\ Becomes(p, [call[p] EXCEPT !.pc = "release",
                                !.todo = {x \in Dependents(call[p].task) :
                                            task[x].status = "pending"}])
  /\ UNCHANGED <<task, queue, run, retrying, inspections, minted, aborted>>

\* releaseReadyDependents: one SELECT of the dependents and their statuses ...
ReadDependents(p) ==
  /\ At(p, "dependents")
  /\ Becomes(p, [call[p] EXCEPT !.pc = "release",
                                !.todo = {x \in Dependents(call[p].task) :
                                            task[x].status \in {"pending", "blocked"}}])
  /\ UNCHANGED <<task, queue, run, retrying, inspections, minted, aborted>>

\* ... then each of them is enqueued if its dependencies are satisfied. (enqueueTask
\* repeats that query; of the two identical reads the second one decides, so
\* they are one step.)
ReleaseDependent(p) ==
  /\ At(p, "release")
  /\ \/ /\ call[p].todo = {}
        /\ End(p, TRUE)
     \/ \E x \in call[p].todo :
          /\ IF DependenciesSatisfied(x)
             THEN Becomes(p, [call[p] EXCEPT !.pc = "transition", !.to = "queued",
                                             !.cur = x, !.todo = @ \ {x}])
             ELSE Becomes(p, [call[p] EXCEPT !.todo = @ \ {x}])
          /\ UNCHANGED <<run, retrying>>
  /\ UNCHANGED <<task, queue, inspections, minted, aborted>>

-----------------------------------------------------------------------------
(* claimNextQueuedTask                                                       *)

StartClaimNext(m) ==
  /\ Idle(m)
  /\ minted < MaxTokens
  /\ \E r \in {Role[t] : t \in Tasks} :
       LET rows == {t \in Tasks : Role[t] = r /\ queue[t] = "queued"} IN
       /\ rows # {}
       /\ Becomes(m, [IdleCall EXCEPT !.op = "claimNext", !.pc = "row", !.todo = rows])
  /\ UNCHANGED <<task, queue, run, retrying, inspections, minted, aborted>>

\* One row of the list: repair it when its task is not queued, else claim the
\* task with a fresh token. (The code goes through the rows by priority.)
ClaimRow(m) ==
  /\ At(m, "row")
  /\ \/ /\ call[m].todo = {}
        /\ End(m, TRUE)
        /\ UNCHANGED minted
     \/ \E t \in call[m].todo :
          /\ \/ /\ task[t].status # "queued"
                /\ Becomes(m, [call[m] EXCEPT !.pc = "complete", !.to = task[t].status,
                                              !.cur = t, !.todo = @ \ {t}])
                /\ UNCHANGED minted
             \/ /\ task[t].status = "queued"
                /\ minted < MaxTokens
                /\ minted' = minted + 1
                /\ Becomes(m, [call[m] EXCEPT !.pc = "read", !.token = minted + 1,
                                              !.cur = t, !.todo = @ \ {t}])
          /\ UNCHANGED <<run, retrying>>
  /\ UNCHANGED <<task, queue, inspections, aborted>>

MarkRunning(m) ==
  /\ At(m, "markRunning")
  /\ queue' = [queue EXCEPT ![call[m].cur] = "running"]
  /\ Goto(m, "reread")
  /\ UNCHANGED <<task, run, retrying, inspections, minted, aborted>>

\* The claimed row is read once more and its lease token sent to a worker; the
\* worker may die before it reads the message.
StartWorker(m) ==
  LET t == call[m].cur IN
  /\ At(m, "reread")
  /\ Becomes(m, IdleCall)
  /\ \/ UNCHANGED run
     \/ \E w \in Workers :
          /\ run[w].pc = "off"
          /\ run' = [run EXCEPT ![w] = [pc |-> "started", task |-> t,
                                        token |-> task[t].token, cancelled |-> FALSE]]
  /\ UNCHANGED <<task, queue, retrying, inspections, minted, aborted>>

-----------------------------------------------------------------------------
(* What the main process calls.                                              *)

\* runTask of a task that is ready, or the second half of a recovery's retry.
StartEnqueue(m, t) ==
  /\ Idle(m)
  /\ t \in retrying[m] \/ task[t].status \in {"pending", "queued"}
  /\ Begin(m, "enqueue", "check", t, NoToken)
  /\ retrying' = [retrying EXCEPT ![m] = @ \ {t}]
  /\ UNCHANGED <<task, queue, run, inspections, minted, aborted>>

\* cancelTask: the worker gets task.cancel before it is killed, or it does not.
StartCancel(m, t) ==
  /\ Idle(m)
  /\ task[t].status \notin TERMINAL_STATUSES
  /\ Begin(m, "cancel", "read", t, NoToken)
  /\ \E S \in SUBSET {w \in Workers : run[w].pc # "off" /\ run[w].task = t} :
       run' = [w \in Workers |-> IF w \in S THEN [run[w] EXCEPT !.cancelled = TRUE]
                                 ELSE run[w]]
  /\ UNCHANGED <<task, queue, retrying, inspections, minted, aborted>>

\* recoverTask, on a row read as running: reconcile may read it long before.
StartRecover(m, t) ==
  LET decision == RecoveryDecision(task[t].result # NoToken, t \in Retryable,
                                   task[t].retry, MaxRetries[t])
  IN
  /\ Idle(m)
  /\ task[t].status = "running"
  /\ \/ /\ decision = "finish"
        /\ Becomes(m, [IdleCall EXCEPT !.op = "finish", !.pc = "read", !.task = t,
                                       !.cur = t, !.result = task[t].result])
     \/ decision = "retry" /\ Begin(m, "recover", "read", t, NoToken)
     \/ decision = "dead_letter" /\ Begin(m, "fail", "read", t, NoToken)
     \/ /\ decision = "inspect"
        /\ inspections[t] = "none"
        /\ Begin(m, "inspect", "read", t, NoToken)
  /\ UNCHANGED <<task, queue, run, retrying, inspections, minted, aborted>>

\* blockTask of the graph executor.
StartBlock(m, t) ==
  /\ Idle(m)
  /\ task[t].status = "pending"
  /\ Becomes(m, [IdleCall EXCEPT !.op = "block", !.pc = "transition", !.task = t,
                                 !.cur = t, !.to = "blocked"])
  /\ UNCHANGED <<task, queue, run, retrying, inspections, minted, aborted>>

-----------------------------------------------------------------------------
(* runTask of a worker process, and inspectTask.                             *)

\* Without a token in the start message claimTask mints one the worker never learns.
WorkerClaim(w) ==
  /\ Idle(w)
  /\ run[w].pc = "started"
  /\ IF run[w].token # NoToken
     THEN Begin(w, "claim", "read", run[w].task, run[w].token) /\ UNCHANGED minted
     ELSE /\ minted < MaxTokens
          /\ Begin(w, "claim", "read", run[w].task, minted + 1)
          /\ minted' = minted + 1
  /\ UNCHANGED <<task, queue, run, retrying, inspections, aborted>>

WorkerFinish(w) ==
  /\ Idle(w)
  /\ run[w].pc = "working"
  /\ Begin(w, "finish", "read", run[w].task, run[w].token)
  /\ UNCHANGED <<task, queue, run, retrying, inspections, minted, aborted>>

\* The work throws: a TaskCancelledError if task.cancel arrived, or any error.
WorkThrows(w) ==
  /\ Idle(w)
  /\ run[w].pc = "working"
  /\ \/ run' = [run EXCEPT ![w].pc = "failing"]
     \/ run[w].cancelled /\ run' = [run EXCEPT ![w].pc = "cancelling"]
  /\ UNCHANGED <<task, queue, call, retrying, inspections, minted, aborted>>

WorkerCatch(w) ==
  /\ Idle(w)
  /\ \/ run[w].pc = "failing" /\ Begin(w, "fail", "read", run[w].task, run[w].token)
     \/ run[w].pc = "cancelling" /\ Begin(w, "cancel", "read", run[w].task, run[w].token)
  /\ UNCHANGED <<task, queue, run, retrying, inspections, minted, aborted>>

WorkerFinally(w) ==
  LET row == task[run[w].task] IN
  /\ Idle(w)
  /\ run[w].pc = "finally"
  /\ \/ /\ row.status = "running" /\ LeaseMatches(row.token, run[w].token)
        /\ Begin(w, "fail", "read", run[w].task, run[w].token)
        /\ run' = [run EXCEPT ![w].pc = "closing"]
     \/ /\ ~(row.status = "running" /\ LeaseMatches(row.token, run[w].token))
        /\ run' = [run EXCEPT ![w] = NoRun]
        /\ UNCHANGED call
  /\ UNCHANGED <<task, queue, retrying, inspections, minted, aborted>>

\* The inspector task of t runs; inspectTask moves t to `failed` without a lease.
StartVerdict(i, t) ==
  /\ Idle(i)
  /\ inspections[t] = "open"
  /\ Begin(i, "verdict", "read", t, NoToken)
  /\ inspections' = [inspections EXCEPT ![t] = "run"]
  /\ UNCHANGED <<task, queue, run, retrying, minted, aborted>>

\* A process dies between two statements. A main process comes back empty-handed,
\* its workers outlive it.
Crash(p) ==
  /\ \/ ~Idle(p)
     \/ p \in Workers /\ run[p].pc # "off"
     \/ p \in Mains /\ retrying[p] # {}
  /\ Becomes(p, IdleCall)
  /\ run' = IF p \in Workers THEN [run EXCEPT ![p] = NoRun] ELSE run
  /\ retrying' = IF p \in Mains THEN [retrying EXCEPT ![p] = {}] ELSE retrying
  /\ aborted' = aborted \union Unreleased(p)
  /\ UNCHANGED <<task, queue, inspections, minted>>

-----------------------------------------------------------------------------
Init ==
  /\ task = [t \in Tasks |-> NewRow]
  /\ queue = [t \in Tasks |-> "none"]
  /\ call = [p \in Procs |-> IdleCall]
  /\ run = [w \in Workers |-> NoRun]
  /\ retrying = [m \in Mains |-> {}]
  /\ inspections = [t \in Tasks |-> "none"]
  /\ minted = 0
  /\ aborted = {}

Statement(p) ==
  \/ ReadTask(p)          \/ CheckDependencies(p)
  \/ ReadTransition(p)    \/ UpdateTask(p)
  \/ UpsertQueue(p)       \/ CompleteQueueItem(p)
  \/ ReadDependents(p)    \/ ReleaseDependent(p)

MainStep(m) ==
  \/ StartClaimNext(m) \/ ClaimRow(m) \/ MarkRunning(m) \/ StartWorker(m)
  \/ \E t \in Tasks : \/ StartEnqueue(m, t) \/ StartCancel(m, t)
                      \/ StartRecover(m, t) \/ StartBlock(m, t)

WorkerStep(w) ==
  \/ WorkerClaim(w) \/ WorkerFinish(w) \/ WorkThrows(w)
  \/ WorkerCatch(w) \/ WorkerFinally(w)

Next ==
  \/ \E p \in Procs : Statement(p) \/ Crash(p)
  \/ \E m \in Mains : MainStep(m)
  \/ \E w \in Workers : WorkerStep(w)
  \/ \E i \in Inspectors, t \in Tasks : StartVerdict(i, t)

Spec == Init /\ [][Next]_vars

-----------------------------------------------------------------------------
(* What the store promises whatever the interleaving.                        *)

\* Every variable stays in its type.
TypeOK ==
  /\ task \in [Tasks -> Row]
  /\ queue \in [Tasks -> QueueStatuses]
  /\ call \in [Procs -> Call]
  /\ run \in [Workers -> Run]
  /\ retrying \in [Mains -> SUBSET Tasks]
  /\ inspections \in [Tasks -> Inspection]
  /\ minted \in Tokens
  /\ aborted \in SUBSET Tasks

\* A running task carries a lease and a terminal one carries none, although
\* transitionTask writes the lease columns back from an older snapshot of the row.
LeaseMatchesStatus ==
  \A t \in Tasks : /\ task[t].status = "running" => task[t].token # NoToken
                   /\ task[t].status \in TERMINAL_STATUSES => task[t].token = NoToken

\* A task is dead-lettered exactly when its failures exceed max_retries, although
\* failTask computes the count and the verdict from one read and writes after others.
DeadLetterIffExhausted ==
  \A t \in Tasks : (task[t].retry > MaxRetries[t]) <=> (task[t].status = "dead_letter")

\* A task is queued, runs or has an outcome only after its "success"
\* dependencies are done: claimTask itself never looks at them.
DependenciesDone(t) == \A d \in SuccessDeps[t] : task[d].status = "done"

StartedStatuses == {"queued", "running", "needs_inspection", "done", "failed"}

StartedAfterDependencies ==
  \A t \in Tasks : task[t].status \in StartedStatuses => DependenciesDone(t)

\* When the last dependency of a waiting task gets its final outcome, some process
\* still has that task to release, whichever of several processes came last; only
\* a crash or an exception inside releaseReadyDependents (aborted) breaks this.
NoLostRelease ==
  \A x \in Tasks :
    /\ SuccessDeps[x] \union FinishedDeps[x] # {}
    /\ \A d \in SuccessDeps[x] : task[d].status = "done"
    /\ \A d \in FinishedDeps[x] : task[d].status \in {"done", "dead_letter"}
    /\ task[x].status \in {"pending", "blocked"}
    /\ x \notin aborted
    => \E p \in Procs : x \in Unreleased(p)

\* No process, however late, moves a task out of done, cancelled or dead_letter.
FinalStatusesStay ==
  [][\A t \in Tasks : task[t].status \in FinalStatuses => task'[t].status = task[t].status]_vars

\* The store implements the abstract life cycle: every statement of every process
\* changes at most one status, along ALLOWED_TRANSITIONS, dependencies first.
Lifecycle == INSTANCE TaskLifecycle WITH status <- [t \in Tasks |-> task[t].status]

ImplementsLifecycle == Lifecycle!Spec

\* README.md:30: "worker heartbeat, finish, fail, and cancel paths require the
\* current lease token, so stale workers cannot overwrite a retried task." A worker
\* whose token is not the row's leaves a running task, and the outcome of a task
\* that is done, as they are.
StaleWorkersCannotOverwrite ==
  [][\A w \in Workers :
       LET t == call[w].task IN
       /\ call[w].pc = "update" /\ call'[w] # call[w]
       /\ call[w].op \in {"finish", "fail", "cancel"} /\ call[w].to # "queued"
       /\ task[t].status \in {"running", "done"}
       /\ task[t].token # run[w].token
       => task'[t] = task[t]]_vars

-----------------------------------------------------------------------------
(* The inductive invariant behind them.                                      *)

\* transitionTask's snapshot: an older version of a row, whose status allows the
\* transition and whose retry count agrees with its status.
SnapshotOK(c) ==
  c.pc = "update" => /\ Allowed(c.row.status, c.to)
                     /\ (c.row.retry > MaxRetries[c.cur]) <=> (c.row.status = "dead_letter")

\* A call asks for `running` with a token, and for `dead_letter` exactly when it
\* is a failure whose count, about to be written, is exhausted.
TargetOK(c) ==
  /\ c.pc = "row" => c.op = "claimNext"
  /\ c.op \in FailOps /\ c.pc = "read" => c.cur = c.task
  /\ c.op \in {"claim", "claimNext"} /\ c.pc = "read" => c.token # NoToken
  /\ c.pc \in {"transition", "update"} =>
       /\ c.to = "running" => c.token # NoToken
       /\ c.op \in FailOps /\ c.to # "queued" =>
            /\ c.cur = c.task
            /\ (c.to = "dead_letter") <=> (c.retry > MaxRetries[c.task])
       /\ c.op \notin FailOps => c.to # "dead_letter"

\* Whoever queues or claims a task has seen it started, or its dependencies done.
GateOK(c) ==
  /\ c.pc \in {"transition", "update"} /\ c.to = "queued" => DependenciesDone(c.cur)
  /\ c.pc \in {"transition", "update"} /\ c.to = "running" => c.op \in {"claim", "claimNext"}
  /\ c.pc \in {"read", "transition", "update"} /\ c.op \in {"claim", "claimNext"}
     => DependenciesDone(c.cur)
  /\ c.pc \in {"markRunning", "reread"} => DependenciesDone(c.cur)

CallOK(c) == SnapshotOK(c) /\ TargetOK(c) /\ GateOK(c)

RunsOK == \A w \in Workers : run[w].pc # "off" => DependenciesDone(run[w].task)

IInv ==
  /\ TypeOK
  /\ LeaseMatchesStatus
  /\ DeadLetterIffExhausted
  /\ StartedAfterDependencies
  /\ \A p \in Procs : CallOK(call[p])
  /\ RunsOK
=============================================================================
