# Verification of the Emily AgentOS runtime

This directory holds TLA+ models of `src/`, the TLC configurations that check
them and the TLAPS proofs about them. Paths below are relative to the
repository, line numbers are those of `PROJECT.json`.

Run `tlc -config X.cfg M` for a run of the table below and `tlapm M_proofs.tla` for
the proofs about module `M`.

## The system

Emily is a Node.js runtime: one main process talks to the user, plans, and hands
tasks to *role subagents*, one forked worker process per role. All of them share
one SQLite file. IPC messages are notifications; the database is the truth.

| component | state | operations | interacts with |
| --- | --- | --- | --- |
| task rows and role queues (`tasks/TaskStore.ts`) | tables `tasks`, `role_queues`, `task_dependencies`, `task_events` | create, enqueue, claim, heartbeat, finish, fail, cancel, mark for inspection, release dependents | called by the main process and by every worker; no transaction spans two statements |
| sessions and runs (`tasks/TaskStore.ts`, `runtime/SessionOps.ts`) | tables `sessions`, `runs`, `messages` | create, hide, restore, trash, prune; complete, cancel, recover a run | main agent, gateway, several processes |
| memory candidates (`tasks/TaskStore.ts`, `memory/*`) | table `memory_candidates`, memory files | propose, approve, reject | main agent after a run, user commands |
| role agent manager (`tasks/RoleAgentManager.ts`) | a slot per role (child, active task, lease, idle timer), the reconcile flag | runTask, drainRole, ensureWorker, message and exit handlers, cancelTask, recoverTask, reconcile, idle release | task store; worker processes by IPC, exit events and signals |
| recovery policy (`recovery/RecoveryPolicy.ts`) | none | finish, retry, dead-letter or inspect | manager |
| subagent worker (`workers/subagentWorker.ts`) | the task and token it was sent | claim, work, finish or fail, `finally`, notify; inspectTask | task store, manager |
| task graph executor (`tasks/TaskGraphExecutor.ts`) | pending keys, recorded tasks, parallel limit | wave loop, block, replan, expand, pause | manager, task store, planner tasks |
| task mind map (`tasks/TaskMindMap.ts`) | the graph in the store | add, update, delete nodes while the graph runs | task store, user |
| main agent (`agents/MainAgent.ts`) | none of its own between awaits | plan, execute, review, summarise, learn | all of the above |
| cron scheduler (`cron/CronScheduler.ts`) | jobs in memory and in a file, dirty marks, running set, file lock | tick, execute, save, edit | several processes through the file |
| provider runtime and usage (`llm/ProviderRuntime.ts`, `llm/ProviderUsageStore.ts`) | circuit per provider, usage rows | call with retries, quota check, record | all agents |
| provider registry (`llm/ProviderRegistry.ts`) | settings in memory and on disk | load, change, merge under a lock | several processes |
| planning (`planning/*`, `routing/*`) | none | normalise, validate and rewrite plans and patches, narrow permissions | main agent, executor |
| tools and permissions (`tools/*`) | events of a call | check, approve, perform, time out | workers, main process, files, hosts |
| gateway and web server (`adapters/web.ts`, `gateway/*`) | connections, requests in flight, rate windows | authenticate, dispatch, stream, close | runtime, clients |
| commands (`commands/*`) | none | resolve a name, check inputs and permission, call an operation | gateway, terminal |
| skills (`skills/*`) | table `skill_candidates`, skill files, a registry per process | propose, approve, reject | main agent, user commands, several processes |
| roles (`roles/RoleManager.ts`) | role files | add, bind to a provider | provider registry |
| experience store, memory system, context engine | tables and texts | store, rank, assemble | main agent |
| terminal, page, audit, updater, migration | output, or run once | | user |

What is hard: every store method is several SQL statements and any other process
may run between two of them; a worker may outlive its lease, its role's slot or
the main process; exit events, messages and timers arrive in any order, and the
handlers await file writes in the middle; recovery works from lists and rows it
read before such an await. `PROJECT.json` lists these hazards at their lines,
with the property that
covers each or the reason why none does.

What makes a component correct:

* task store: a task runs only under a lease and only after its dependencies, an
  outcome is never overwritten, retries are counted exactly, the last dependency
  to finish releases the dependents whichever process finishes it;
* manager: a busy slot has a worker that will free it, a worker has one task, a
  queued task is served, a lease ends, idle workers go away;
* executor and mind map: the graph stays a graph whatever patches and edits do to
  it, nothing starts early, nothing of the plan is forgotten, execute comes back;
* main agent and sessions: a run ends, as its handler decided, and "done" means the
  work is done; a candidate becomes one memory;
* planning: every plan that is executed is valid, also those nobody validates;
* cron: saved jobs are kept, due jobs run, once;
* providers: settings of several processes merge, limits hold under concurrent
  calls, the circuit opens for a reason;
* tools: the record of a call tells what it did; gateway and commands: no way to an
  operation is laxer than another, every message is answered;
* skills: a decision stands, an approved skill is written.

## Modules

| module | models | checked by |
| --- | --- | --- |
| `TaskRules` | the status table, transitions, lease comparison and recovery policy | `TaskStore`, `RoleAgentManager` |
| `TaskLifecycle` | abstract specification: what callers may assume about the statuses | refined by `TaskStore` |
| `TaskStore` | the store, one SQL statement per step, with main, worker and inspector processes and crashes | `MCTaskStore` |
| `TaskStore_proofs` | theorems about `TaskStore` | tlapm |
| `RoleAgentManager` | slots, worker processes and recovery, one turn of the event loop per step | `MCRoleAgentManager` |
| `RoleAgentManager_proofs` | theorems about `RoleAgentManager` | tlapm |
| `PlanSpec` | plans and patches: fields, normalisation, validation, fallbacks | by the three below |
| `PlanTransforms` | what a validated plan is rewritten into: minimum of nodes, materialization, permissions | `PlanPipeline` |
| `PlanTransforms_proofs` | lemmas about the operators of these two and a theorem, used by the proofs about `Services` and `TaskGraphExecutor` | tlapm |
| `PlanPipeline` | from a request to the task graph | `Services` (inputs in `MCPlans`) |
| `GraphStore` | the rows of a graph, workers, edits of the mind map | `TaskGraphExecutor` |
| `TaskGraphExecutor` | one call of execute on that graph | `MCTaskGraph` |
| `TaskGraphExecutor_proofs` | theorems about `TaskGraphExecutor` and `GraphStore` | tlapm |
| `Conversation` | messages from arrival to answer, runs, sessions, candidates, maintenance, cancellation | `MCConversation` |
| `Conversation_proofs` | theorems about `Conversation` | tlapm |
| `CronScheduler` | jobs in memory and in the file | `Services`, `MCCronScheduler` |
| `ProviderRegistry` | settings in memory and in the file, roles bound to providers | `Services` |
| `ProviderRuntime` | calls of model providers: choice, quota, circuit, retries, records | `Services` |
| `ToolRules`, `ToolExecutor` | what a tool call may do; the call | `Services` |
| `CommandRules`, `GatewayRules`, `Gateway` | commands; methods, routes and scopes; the server and a connection | `Services` |
| `Gateway_proofs` | the invariant of `Gateway` and what it rests on | tlapm |
| `SkillCandidates` | candidates of skills and their files | `Services` |
| `SkillCandidates_proofs` | a theorem about `SkillCandidates` | tlapm |
| `Services` | the services around the task core side by side, and their properties | `MCServices` |
| `Services_proofs` | theorems about the services | tlapm |

`GraphStore` extends `PlanSpec` and `TaskGraphExecutor` extends `GraphStore`: executor,
workers and edits interleave in one state. `PlanPipeline` composes routing, planning and
rewriting. `Gateway` uses `GatewayRules`, `CommandRules` and `ToolRules`, so that a request
is followed from its frame to the tool. The services share no state that is
modelled with the task core or each other. `Services` instantiates them all with constants and
variables of their own (`Http` and `Socket` are two instances of `Gateway`), and the variable
`focus` names the service a behaviour is of; the variables of the others are 0. `MCServices`
gives small values to its constants, for one run; the theorems are about all values.

### TaskStore

`task` and `queue` are the two tables. `call[p]` is the method process `p` is in:
its name (`op`), the statement it is about to execute (`pc`), the row it read and
what it is going to write. A method such as `finishTask` goes through `read`
(the lease check's SELECT), `transition` (transitionTask's own SELECT and the
check of the transition), `update` (the conditional UPDATE), `complete`
(completeQueueItem), `dependents` and `release` (releaseReadyDependents, which
enters `enqueueTask` for each). Each `pc` is an action: `ReadTask`,
`ReadTransition`, `UpdateTask`, `CompleteQueueItem` and so on. A conditional UPDATE
that matches no row throws, like every refused check; `Throw` and `AfterCall` say what
the callers do then. `run[w]` is `runTask` of the worker: claim, work, finish, catch,
finally. `Crash` ends a process between any two statements. `Start...` actions are the callers: the
manager's enqueue, cancel, claim and recovery, the executor's blockTask, and the
inspector's verdict. The main process is one process, since its calls are
synchronous; the model admits several.

`retrying` holds the tasks that recovery has failed and has yet to enqueue;
`aborted` is a ghost that names dependents whose release a crash or an exception cut off.

### RoleAgentManager

Here a store method is one step, and what interleaves are the turns of the main
process and the workers. Each action of the main process runs to its next
`await`: `HandleFinished` is handleWorkerMessage up to the markdown write and
`FinishedTurn` the rest, with the status read at the start kept in `conts`;
`EnqueueInspection` and `EnqueueTurn` are the two parts of enqueueInspection;
`StartReconcile` and `ReconcileNext` are the rounds of the loop over the list that
`getExpiredLeaseTasks` returned, with the rows as they were then. A drain is
noted in `due` and done by `DrainRole` later, because most drains follow an await
of their own. Slots are records of child, active task, lease, idle timer and
releasingIdle; children are numbered by the claim they were forked for. A child
is alive, dead (its exit event is still to come) or gone; killed and linked are
separate, since a killed process runs on for a while and a worker may outlive the
main process. The worker's steps are `JobClaims`, `JobInspects`, `JobFinishes`,
`JobThrows` and `JobFails`.

The hooks of `LifecycleHooks` are awaited in enqueue and handleWorkerMessage, but
nothing in the repository registers one, so no event gets in there.

### PlanSpec, PlanTransforms, PlanPipeline

A task is a record of its key, role, parent, dependencies, wave, limits and
permission mode; a goal is the set of groups of words the code's expressions look for.
`normalizePlanSpec`, `validatePlanSpec`, `detectCycles`, the fallbacks and the patches'
counterparts are operators named as in the source. `PlanPipeline` is `delegateTasks`
up to the executor: `step` says where it is, `plan` is what it holds, `graph` what it
created. The planner answers with any member of `RawPlans`, also broken ones.

### GraphStore and TaskGraphExecutor

`node` are the rows in order of creation (the index is the id), `edge` the table of
dependencies. A transition of a row is one step here, since `TaskStore` is about
its statements, and failures are final. An edit of the mind map is a sequence of
statements in `edit`: the main process does nothing else meanwhile, but a worker may
finish, release or start a task between two of them. `releasing` holds the dependents a
worker has yet to look at. `cut` are the tasks whose dependencies
`replaceTaskDependencies` has deleted and not inserted yet; `torn` (those queued
meanwhile) and `touched` (those an edit changed) are history.

The executor is at one of its awaits: `pc` is `top`, `blocking`, `stopping`,
`pausing`, `waiting`, `collecting`, `planning`, `finishing`, `done` or `thrown`. `tasksByKey`,
`pending` and `recorded` are its maps and sets, `wave` the promises of the wave it waits for.
blockTask is cut at its statements: `doomed` is the task a loop has found to be blocked
(`Look`), `BlockTask` reads it again and writes it, and `ReadBlocked` is the row read after the
await, by which it is recorded. A worker's release in between makes transitionTask throw out of
execute, which ends at `thrown`; after the write, an edit can make the row read back `queued`.
`Launch`, `Resolve` and `Timeout` are runTask, its resolution by the manager and its timer. At
`planning` it waits for a planner whose patch, a member of `Patches`, is validated
against the graph as it was read. Its own planner tasks have no rows in the model.

### Conversation

`todo[m]` is the list of steps the handler of message `m` has still to take; a step ends at
an await, and `Path`, `Ending` and `ErrorPath` are the lists for each kind of message. What a
graph does is reduced to two tasks, the second waiting for the first. `results[m]` are the tasks
whose results the handler has; execute may come back without that of the second (`Overlooked`): it does
not wait for a task that a worker released and the manager runs already. `verdict` is the status the handler has decided for
its run, kept to compare it with what the row says. `queue` and `committing` are the
loops over candidates, of each handler and of maintenance; `sweep` is maintenance, `cancel` is
cancelRun with the tasks its loop has still to visit. `left` bounds events: edits,
cancellations, maintenance, failures of a hook, the memory or a wait, and the death of the process.

### CronScheduler and ProviderRegistry

Both are processes that share a file and a lock, each with several operations in flight, since
neither has a mutex; an operation is in a slot of its process (`op`). Waiting for the lock is three
steps in both: `Lock` creates the file, `SeeStale` finds that it is old, `RemoveStale` deletes the one
there is by then; `Unlock` deletes it as well, whosever it is. `saved` and `removed` are history;
`shared` are the writes that run at the same time, `lost` what these have taken out of the file.

An operation of the scheduler is at a step of `save` or `executeJob`: `attached` says
whether the job object it holds is still the one in the map, since `save` replaces them. `jobs`,
`dirty` and `gone` are the process's maps, `disk` the file. An execution whose save or event throws goes
through the catch and a second save (`ErrorCaught`, `ExecutionEnds`); one whose start event throws
ends with its job in `running` (`StartFails`), which `stuck` remembers. `fired` counts
what timers executed.

In `ProviderRegistry`, `memory` and `base` are what a registry holds and what it last read or
wrote. A write takes its copy of the settings (`desired`) before it waits for the lock and merges what
differs from `base`, as that is then, into the file; a copy is `fresh` until another write of the
process has loaded something, and `outdated` is what copies that are not take out of the file.

### ProviderRuntime

A caller is idle, has made its provider (`made`), waits for the reply (`waiting`) or
sleeps before a retry; `complete` checks the quota and the circuit between `made` and
`waiting`. `usage` are the records of each provider, of which `countCalls` counts the last minute's,
`circuit` the counters of the process. A record may not be written; when that of an answer is not, the
call counts as a failure, whose record may be lost as well. `begun` (calls let through) and `streak`
(failures since the last answer) are what the code does not keep.

### ToolRules and ToolExecutor

A request names a tool, a mode, the role's lists, an approval and arguments by kind
(a path inside, outside, escaping or a link; a host by name). `executeAllowed`
is the list of operations a tool will perform; the executor's steps take them one by one:
`WorkOnFile`, `RunCommand`, `Send` with redirects, and the task store's operations. A timeout
(`withToolCallTimeout`) answers and leaves the rest of the list to be performed. A request may fail
before or after the server has it (`SendFails`: errors, the request's own timer), and so may the
writes of a new task, its dependency and its event (`CreateOrDependFails`). `events` are the
recorded events, `performed` the effects.

### CommandRules, GatewayRules, Gateway

`Commands` is the registry as a set of records; a method, a route or a command resolves to
the operation of the runtime it calls and the permission it needs. `last` is the outcome of the last
step. A connection counts its requests in flight and the messages of its window; `owed` and
`pending` are what it really owes and runs.

### SkillCandidates

`approveCandidate` is cut at its awaits: the row is read, the file emptied, filled, the
row updated if it is still proposed. A file is absent, empty or full; `cut` are the skills whose file a
write that failed or a process that died has left empty. `decided` is the first decision about a
candidate.

## Runs

| run | instance | shows |
| --- | --- | --- |
| `graph` | three plans of two or three tasks, one expanded, one replanned, one with a join; two workers' worth of parallelism; an edit at any await | start order, an acyclic graph, no planned key lost, the budget of nodes, nothing left pending, execute returns or throws |
| `conversation` | one message that is worked on, or two answered at once; any two events; one proposal | candidates become one memory, runs end as decided, done means done, every run ends |
| `manager_dispatch` | two tasks of one role, one of them queued again when its worker is lost; one restart of the main process | slots and workers agree, queued tasks with a queue row are served, leases end |
| `manager_recovery` | a task that is inspected, its inspector, two roles, one restart of the main process | slots are freed, leases end |
| `store_retry` | one task, one retry, two workers, an inspector | types, leases, retry counts and final statuses under every interleaving of statements and crashes |
| `store_release` | three tasks, `c` after success of `a` and end of `b`, one main process and one worker | dependencies first, no lost release, refinement of `TaskLifecycle` |
| `services` | eight small instances, see `MCServices` | thirteen properties of the services, each stated and explained in its module |
| `store_stale` | as `store_retry` | violation: a stale worker overwrites a retried task |
| `manager_solo` | three tasks of one role | violation: two active workers of one role |
| `manager_idle` | two tasks of one role | violation: an idle worker that is never released |
| `manager_row` | two tasks of two roles, retries | violation: a queued task without a queue row |
| `cron_twice` | one process, two jobs due at once | violation: a due time is executed twice |

The violations are described under `findings` in `PROJECT.json` with the lines of
the code and of the documentation or assertion they disagree with. Deadlock is not checked:
with bounded tokens, events, edits and calls the instances come to rest.

The properties say what they leave out, because the code does not provide it:

* `StartedAfterDependencies` of `TaskGraphExecutor` exempts the tasks a worker queued
  between the DELETE and the INSERT of `replaceTaskDependencies`.
* `NoPendingLeft` is about pending tasks. Tasks that workers released may still be
  queued or running when execute returns: the executor does not wait for them
  (TaskGraphExecutor.ts:167). It exempts tasks an edit has reopened.
* `DependenciesAcyclic` is about the tasks the user sees. It leaves out deleted tasks, which the
  checks do not look at and which may be on a cycle, and the edges to a materialization task, which
  nobody checks; the theorem `CyclesFromReviews` says when the rewriting of a plan makes a cycle. It
  needs `KeysApart`, that users give a node no key a planner may bring, as on the instance:
  `assertNoDependencyCycle` (TaskMindMap.ts:803) looks nodes up by key. With a planner's key `p`
  among `NewKeys` and two edits, TLC finds a cycle: the user adds a node `p` while a planner
  is at work, its patch, validated against `tasksByKey`, which lacks the node, brings another `p`, and
  a rewiring is checked against one of the two. With one edit there is none.
* The README of the repository (lines 25 and 414) calls the task graph of a run a DAG. Rewriting makes
  it cyclic: when files are to be written and work waits for a review, the review waits for the task
  that writes the files and that task for the work. `CycleExactlyFromReviewedWork` (`Services`) says that
  there is no other way to a cycle, and is proved as `CyclesFromReviews`; it looks at the plan with the
  supplementary nodes in it, since the planner may mark the task that writes the files by its key alone, and
  these nodes may then wait for it. The executor blocks the tasks of such a cycle (`blockRemaining`).
  No run is made of this disagreement, since the executor is built to end such waits.
* `ExecutorReturns` counts a throw out of execute as its end; MainAgent's error path deals with it.
* `DoneMeansTasksDone` is about the tasks the handler has results of, as `runStatusFrom` is. It exempts
  drafts of a plan that was only asked for, work that was cancelled before the executor looked at it, and
  the dependent that execute does not wait for: a run may be answered as done while that task still runs.
* `QueuedServed` is about queued tasks that have their queue row. A task that is queued again can lose it
  to an older outcome, which is the finding of `manager_row`, and is not claimed then.
* `SavedJobsAreKept` and `SavedProvidersAreKept` speak of what has reached the file, and exempt what
  is `lost` to writes that run at the same time, which takes a process that died with the lock (the
  properties say so) and two waiters that found its lock file old. `SavedProvidersAreKept` also exempts
  `outdated`: two edits of one process can take out of the file what the other has just loaded or written.
* `DueJobsRun` exempts jobs whose start event could not be written (`stuck`): they stay in the set
  of running ones until the process ends.
* `CallsStayNearLimit` allows the overshoot of a check that precedes the record by a call.
* `RunEndsAsDecided` allows a cancellation, `RunsEnd` a beforeRun hook that throws.
* `ScopesHold` rates work by the mode that the request itself names. Modes that come from elsewhere are
  outside of it: that of the task a tool runs for (createRuntime.ts:307), of a cron job's action
  (createRuntime.ts:428), of the run whose graph is edited, and what `doctor` repairs when it looks deep.
  `TasksWithinRunMode` is about graphs when they are created, not about patches of the executor.
* `DecisionsStand` exempts a candidate that was given another name during its approval, and says when the
  file of an approved skill may be empty: while a second approval, begun before the decision, writes it
  again (`Rewriting`), or after one was cut off there (`cut`).
* `NoLostRelease` exempts releases cut off by a crash and is about one main process, `LeaseResolved` is explained below.

### Bounds

* `MaxTokens = 2` in the store: two claims of the task meet each other, which is
  what every lease race needs. A third claim repeats the second's situation.
* Two workers: one stale and one current. An inspector is a further process that
  writes to the task without a lease.
* Three tasks in `store_release`: a dependent with two dependencies finished by
  different processes is the smallest case of a lost release.
* `MaxClaims` is 2 in `manager_dispatch`: a task, its retry or the other task, so that two of the three
  meet; a queued task for which no claim is left is not asked to be served. In `manager_recovery` it is 2
  as well, one claim of the task and one of it again or of its inspector. In the violation
  runs the bounds only shorten the search.
* `MaxRestarts = 1` in both: one main process's workers outlive it into the next.
* The retried task of `manager_dispatch` is not inspected, the inspected one of `manager_recovery` not
  retried: the two ways of recovery are the branches of one decision (`TaskRules`), and together
  with a restart exceed what can be checked in minutes.
* `graph`: five rows are a plan and one patch or edit with room for a refused
  second one; one edit can come at every await of the executor and between the steps of
  every worker. `MaxReplanAttempts = 1` lets a replan happen and be refused.
* `conversation`: two events are any pair of an edit, a cancellation, maintenance, a
  failure and the death of the process; every race here is of two parties. A message
  that is worked on passes through all steps of the pipeline; two messages at once share
  the session and the approval of candidates.
* `services`, cron: two jobs of one schedule and a minute, and `MCCronBounds` for what happens together:
  one operation at a time with a failing event store and a crash, two operations of one process, one of each
  of two processes, with and without a crash, and three edits with a crash, for two waiters at the lock
  of a third. Registry: one provider beside `echo`, `MCRegBounds`: two processes with an edit and a crash or
  two edits, one process with two writes in flight and three edits. Models: two callers,
  three calls, a circuit that opens after two failures and closes after one moment, one call per
  minute of one moment, two records that cannot be written (those of one answer, or of two calls). Tools: every kind of tool with and without its approval for one call, five of them
  for the other; one write to the store that fails and one crash; any request may fail. Web server: every route, method
  and command with harmless and far-reaching parameters, one request, all ways to
  authenticate; connection: five inputs, two in flight, three messages in a window, so that busy,
  rate limit, idle time and close all occur. Skills: two processes, one workflow with
  two names, two proposals, one write that fails, empty or full, or restart.

### Fairness

`FairSpec` of the manager assumes what Node and the operating system give: each
pending event is handled (messages, exits, continuations, drains, idle timers),
the reconcile interval recurs, a worker's job proceeds (`withTimeout` bounds it),
a killed process dies, a worker that has lost its main process ends when its job does,
and a lease that no live worker renews expires. Fairness is weak and per role, task or child.
Nothing is assumed of users, restarts, crashes, failing sends or
timing out. The worker's own file writes are assumed to
succeed: if they fail, no task.finished is ever sent (a hazard listed without a property).

`LeaseResolved` leaves out tasks with an inspection behind them. Without that clause
it does not hold: a lease that expires before the worker's claim sends the task to
inspection, the late claim takes it back to running, and if its worker dies then,
recoverTask does nothing, because `inspectionTaskId` is set.

`FairSpec` of `TaskGraphExecutor` is weak fairness of the main process's steps alone:
its timers fire and its callbacks are served. Workers may do nothing for ever, and
`ExecutorReturns` holds by the timeout of each wait.

`FairSpec` of `Conversation`: handlers, approval loops and a begun cancellation proceed
when they can, and each task ends, since the executor's waits are bounded. Nobody is assumed to
start maintenance, so `RunsEnd` does not rest on the recovery of runs.

`CronFairness`: the timer recurs and a begun operation proceeds, per process and slot. A dead
process's lock is removed by those that wait for it. Nothing is assumed of waits that time out.

## Proofs

`TaskStore_proofs` proves, for all finite or infinite sets of tasks and
processes, any dependencies, retries and number of tokens, under
`TaskStoreAssumption` (the constants have their types and the kinds of
process are disjoint):

| theorem | statement |
| --- | --- |
| `TypeCorrect` | `Spec => []TypeOK` |
| `Invariance` | `Spec => []IInv` |
| `LeaseSafety` | a running task has a lease, a terminal one has none |
| `DeadLetterSafety` | dead-lettered exactly when retries are exhausted |
| `DependencySafety` | nothing starts before its success dependencies are done |
| `FinalSafety` | done, cancelled and dead_letter are never left |
| `Refinement` | `Spec => TaskLifecycle!Spec` |
| `NoReleaseLost` | with one main process, no release of a dependent is lost |

None of the safety invariants is inductive: each depends on what half-done calls
will write. `IInv` adds, for every process, what its call knows. `SnapshotOK`: the
row transitionTask read allowed the transition and its retry count agreed with its
status; since the UPDATE is conditional on that status, the row it meets agrees
too. `TargetOK`: a call about to write `running` holds a token, and one about to
write `dead_letter` carries the exhausted count. `GateOK`: whoever is about to
queue or claim a task has seen its dependencies done; this stays true because
`done` is final, which is the lemma `FinalStays`. `RunsOK` says the same of a
worker that was sent a task. The proof goes action by action (`StatementKeeps`,
`MainKeeps`, `WorkerKeeps`); `UpdateRows` is its core, the only step that writes a
task. `Refinement` and `FinalSafety` follow from the invariant and from
`UpdateRows`-style facts about the single row a statement writes.

`NoReleaseLost` has an invariant of its own, `ReleaseInv`. `Owed` is what a call has still to
look at; `StepsOK` says which methods can be at which statement (who gives a task its final
status goes on to its dependents), and `WaitingUnclaimed` that a pending or blocked task was never
sent to a worker, so that nothing makes a queued task wait again. All steps but a
successful UPDATE are instances of `QuietStep`, which drops no dependent that could be released.
The proof showed what the theorem needs: one main process (`\A m, n \in Mains : m = n`, as
on every instance). With two, blockTask of the one may meet a task that the other has
queued and started meanwhile; running to blocked is an allowed transition, and nobody releases
the task then.

`RoleAgentManager_proofs` proves, for all tasks and roles (`RoleAgentManagerAssumption`: there is a
role, and "no task" is no task), any number of worker processes and of restarts:

| theorem | statement |
| --- | --- |
| `ManagerTypes` | `Spec => []TypeOK` |
| `SlotsAlways` | `Spec => []SlotsInv` |
| `BusySlots` | a busy slot has a worker that will free it |
| `OneTaskEach` | a worker process has at most one task |

Neither safety property is inductive: that a task.finished or an exit event will free a slot
depends on the event still naming what the slot holds when it comes. `SlotsInv` has three parts
beside `ActiveSlotHasWorker`. `Tokened`: claim tokens are numbered in order, each job and message
carries the token of one claim, and no two jobs share it, so an old message never frees a newer
claim. `SlotKnowsChild`: a child that may be given work is the one its role's slot names.
`SlotKnowsJob`: such a child has no job but the one its slot names. `OneTaskEach` follows from the last two. There is a lemma for every
step that writes a slot or a child; the steps that write neither are dealt with at once.

`Conversation_proofs` proves, for all sets of messages, any kinds of request and any bounds of events
(`ConversationAssumption`):

| theorem | statement |
| --- | --- |
| `ConversationTypes` | `Spec => []TypeOK` |
| `StoredOnce` | a candidate is stored once at most, and only when approved |
| `NoneForgotten` | an approved candidate is stored or on its way |
| `DecidedOnce` | the run ends as its handler decided, or cancelled |
| `DoneIsDone` | a handler that says done has its tasks done, with the exemptions of the property |
| `ConversationInvariant` | `Spec => []IInv` |

Two arguments meet in `IInv`. `Remembering` is about the loops over candidates: what an approver
is committing is approved and not stored (`CommitsApproved`), and no two commit the same
(`CommitsApart`), since only the one that changed the row from proposed goes on. `HandlersInv`
is about the steps a handler has still to take: they come in an order (`Ordered`) in which at
most one decides the run (`Settled` after it), a plain message has no steps with tasks, and no
step that reviews or completes is reached before the planner task has ended. From it `TaskStep`
says all a step of anybody can do to a task, and `VerdictStep` all it can do to a run
and its verdict. `DoneIsDone` also needs `AccountedInv`: results are of tasks that are over, and when the
run is decided from them, those that are missing are the ones execute may overlook. The last three
theorems follow from these.

`TaskGraphExecutor_proofs` proves, for all plans, patches, users' keys and edits and any limits of
nodes, attempts and parallel tasks, under `TaskGraphExecutorAssumption` (the limits are numbers and
there is room for one task at a time; the plans are those the rewriting of a valid plan gives, see
`ExecutablePlans`, and fit the budget; numbered keys are told apart by their number):

| theorem | statement |
| --- | --- |
| `GraphTypes` | `Spec => []TypeOK` |
| `DependenciesFirst` | nothing starts before its dependencies, but for the tasks an edit leaves bare |
| `PlannedHeld` | a planned key is in the executor's map, pending or recorded until it ends |
| `GraphWithinBudget` | plans and patches together stay within the budget of nodes |
| `NothingLeftPending` | execute leaves no task pending that it could start |
| `GraphInvariant` | `Spec => []Invariant` |
| `GraphAcyclic` | the tasks the user sees never wait for each other in a cycle, under `KeysApart` |

`Invariant` has five parts. `Tables`: rows, edges and the edit in progress have their types, and an edit
knows what it has deleted. `DependenciesInv`: what the executor or a worker is about to queue has
seen its dependencies end well; an edge is only added to a task that has not started. `KeysInv`:
each key that was planned is the key of a row, the executor's map leads to the last row with that key,
and a patch, validated against the rows of the time, brings keys no row has. `BudgetInv`
counts rows by distinct keys. `PendingInv`: while execute runs, a task that has not
started is one it will still look at, or the one it has looked at and is about to block (`LookKept`,
`BlockKept`, `ReadKept`). A step may do many things to rows, but
all are instances of three: `Moves` (statuses advance), `NodeAdded` and `TasksAdded`; each part is
shown once for each of these, and each action is shown to be one of them.

`GraphAcyclic` has an invariant of its own beside that one, `AcyclicInv`. A cycle is a set of rows each
of which waits for another of the set (`Loop`); `HasCycle`, the recursion the code's search is modelled
by, finds one exactly when there is such a set (`CycleIsCircle`). `assertNoDependencyCycle` looks
at keys, so the invariant says that no two visible rows share one and that every row's key is in
`tasksByKey` or one a user gave; this is where `KeysApart` is needed. The check is made before the
edges are deleted, and they are inserted in a later step: the invariant keeps, for an edit that is about
to insert, that there is no cycle with the new edges either, whatever workers do in between. The
tasks of a patch have new keys, so that a cycle through one of them would be one of the patch alone, which
`validateGraphPatchSpec` has excluded (`GrowsAcyclic`).

`SkillCandidates_proofs` proves `DecisionsAreKept`: `Init /\ [][Next]_vars` implies
`[]DecisionsStand`, for all sets of processes, workflows and names ("none" stands for no name
and is none) and all bounds. The property is not inductive: an approval decides by what it read
before it wrote the file. `IInv` adds that a row and the first decision about it agree
(`RowsTell`), that an approval past its first write has its file (`Written`), that it
writes the file its candidate names unless the candidate was renamed (`SameName`), and that an empty
file is being filled by somebody or was cut off (`Emptied`). There is a
lemma for each action; `DecisionTells` is what approving and rejecting have in common.

`PlanTransforms_proofs` is about the operators on plans, for plans of any size. Most are recursive
functions, folds or `CHOOSE`s of a least element, so it first shows by induction over sets of
numbers (`SetInduction`, from the library's `WFMin`) that least members and values of recursions
exist (`MinExists`, `Recursion`). On them rest `CycleIsCircle` for `HasCycle`, `ReachedClosed` for
`ReachedFrom`, `UniqueKey` (the key found is new, and one of the numbered ones), `MinimumPlan` and
`ArtifactPlan` (what the two rewritings do to tasks, dependencies and keys), `FallbackPlanValid`
and `PlanningOnlyPlanValid` (the plans the runtime makes itself are valid; a plan whose tasks wait only for earlier
ones has no cycle, `OrderedPlanValid`). Its theorem `ExecutablePlans` joins the two halves of the model: what a
valid plan is rewritten into satisfies what `TaskGraphExecutorAssumption` asks of plans.

`Gateway_proofs` is about a connection and the requests to the web server, for any frames,
requests, credentials and limits (`Given`: the limits are numbers, and parameters have the fields of an
invocation). `IInv` has three parts beside `ScopesHold`. `Balanced`: what is owed, what handlers
work on and what the code counts are one number. `Authenticated`: a connection that is not closed
has a scope. The proof about scopes follows a request the way the code does: `CommandsGuarded`,
`MethodsPartial` and `RoutesPartial` go through the tables of commands, methods and routes once,
`RunCovered`, `DispatchCovered` and `HandleCovered` say that whatever one of them calls is `Covered` by
the caller's permission.

`Services_proofs` carries these and more to `ServicesSpec`, for all values of the constants that
`ServicesAssumption` allows: runs have one of the three modes, names that stand for nothing are not
names, there is an echo provider, descriptions of providers and parameters of requests have their
fields, the callers of models are finitely many, and limits are numbers. The theorems about plans also
use `PlanningAssumption`: a planner's tasks are a list, and no two keys the runtime makes up next
to a plan of that length are the same text (`MadeUpKeysApart`), with `LeafKeysApart` for the keys of templates. The
prover knows nothing of strings, so these are assumptions, which TLC evaluates for the lengths of the instance.

| theorem | statement |
| --- | --- |
| `SavedJobs` | a job in the file stays there until somebody deletes it, or saves meet after a crash |
| `Decisions` | the theorem above about candidates |
| `SavedProviders` | a provider in the file stays there until somebody removes it, but for outdated copies and writes that meet after a crash |
| `Defaults` | the default provider of the file and of each registry is configured there |
| `OpenCircuits` | a circuit is open only after enough failures in a row |
| `CallLimits` | concurrent calls and lost records are all that can exceed a provider's limit |
| `TaskModes` | no task of a graph may do more than its run |
| `ValidPlans` | every plan held by `delegateTasks` is valid, also those nobody validates |
| `CreatedGraphs` | the graph of a plan can be created and is as large as the request asked for |
| `CyclesFromReviews` | a graph has a cycle exactly when work waits for a review or for the final task, and files are to be written |
| `ToolEvents` | the events of a tool call tell what it did |
| `CallersScopes` | nothing is done that the caller's permission does not cover, by the mode the request names |
| `MessagesAnswered` | each message has one answer, or a handler that will give it |

Each is `focus = "..." => Inv`: `OneService` says that a step is one of the service in focus. What
other modules prove is taken over through an instance of the proof module, or, for plans, by extending it; the
lemmas `SkillsSame`, `HttpSame`, `SocketSame` and those named `Same...` say that the definitions of both agree.

* `CronInv`: of two saves at the same time each is known to be (`SharedAreKnown`), and without a process that
  died there are none, the lock excludes them (`LockExcludes`). A process marks as deleted only what
  was deleted (`MarksTell`), and what a save that is alone is about to write has every saved job
  (`FileKeeps`), which the merge establishes and its being alone keeps true until the rename.
* `PlanInv`: the plan is valid, has the shape of a plan and no two keys made up next to it are the
  same, and the graph is that of the rewritten plan. A cycle of the rewritten plan must pass through the
  final task, since without it the dependencies are those of the plan (`RewrittenWork`), and so
  goes from work to a review and back.
* `RegInv`: what a registry holds and the file are `Configured` (`FilesConfigured`), what it has read
  and holds no longer was removed by somebody (`OnlyRemovedMissing`), and the same of the copies that
  wait for the lock, as long as they are fresh (`CopiesConfigured`). What a write that is alone and
  fresh is about to write has all that was saved (`MergedKeep`); writes at the same time are known
  (`SharedWritesKnown`) and need a process that died (`RegLockExcludes`). The lemma about the merge,
  `MergeConfigured`, says that it loses from the file only what was read and is gone from the copy,
  and that a default survives whichever side lost it.
* `CircuitCounts`: the failures a circuit counts are those since the last answer. It holds for any
  interleaving of callers, because counting is one turn of the event loop.
* `ModelsInv` adds `Matches` for each provider: since any moment, the calls let through are no more than
  the records since then, the calls still going on and the records lost (`RecordMatches`, `BeginMatches`
  and `StillMatched` keep it). It has to be about any moment, because the last minute moves on:
  when `complete` lets a call through, the records of the last minute are below the limit and the
  calls going on are those of other callers, which is the bound, and a bound on what was let
  through stays one as time passes. Cardinalities of the sets of indices are all the arithmetic it needs.
* `ToolInv`: `Tells` relates the events of a call to its answer, its step and what is left to be
  done. A call that runs on after its timeout has its ending already, and whatever it still performs
  is harmless or approved (`HarmlessWork`: tools that need no approval perform nothing that does).
* `TaskModes` needs no strengthening: `ModeNarrowed` holds for whatever mode a plan asks for.

Only model-checked: liveness (`ExecutorReturns`, `RunsEnd`, `QueuedServed`, `LeaseResolved`,
`SlotFreed`, `DueJobsRun`), which rests on fairness and `ENABLED` and is out of the prover's reach. Every
safety property that a passing run checks is stated by one of the theorems above.

## What could follow

The models are complete as far as "Not modelled" below says, and their safety properties are proved.
What is left to prove is how the parts fit together: the executor's `Moves` against
`TaskLifecycle`, as `TaskStore` is, and the manager's one-step store methods against the
statements of `TaskStore`.

## Not modelled

* Model calls, prompts, summaries and the judgement of answers: an arbitrary success or
  failure. Markdown, JSON text and its extraction, splitting of command lines, layout, reports.
* The experience store, the memory system and the context engine: scores, decay and
  similarity in floating point over texts, and budgets of characters. Their state is written by
  one process at a time, and what could go wrong with them is in data TLC cannot enumerate.
* The terminal, the text of the page and the dialogue for model settings: input and output.
* Storage migration (once, at start-up), the security audit, the updater (git and npm), timelines.
* Of the task store: updateTaskMetadata, the queries of diagnostics and its repairs, pruning of
  deleted sessions, titles and search. Of the manager: the `agents` table, a display of the slots.
* Of the providers: limits in tokens and costs, back-off times, formats of the clients
  other than OpenAI's. Of the registry: the normalisation of each single setting.
* Of the gateway: fragmented frames, connections reset by the peer, static files, the
  event stream of the page. Of the file locks: a holder so slow that its lock is found old while it lives.
* Of tools: contents of files, pages and answers, and limits of their size.
