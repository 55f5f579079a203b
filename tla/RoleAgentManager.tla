-------------------------- MODULE RoleAgentManager --------------------------
(***************************************************************************)
(* The dispatcher of src/tasks/RoleAgentManager.ts: one slot per role, a    *)
(* forked worker process per slot, tasks claimed from the role's queue, and *)
(* the recovery of tasks whose worker is gone. An action of the main        *)
(* process is one turn of its event loop, up to the next await; workers,    *)
(* their messages and exit events, and timers come in between. A TaskStore  *)
(* method is one step here: TaskStore.tla takes the methods apart.          *)
(***************************************************************************)
EXTENDS TaskRules, FiniteSets

CONSTANTS
  Tasks,          \* the task rows
  Inspectors,     \* the rows that inspector tasks are created in
  Roles,          \* the roles
  Role,           \* [Tasks -> Roles]
  MaxRetries,     \* [Tasks -> Nat]: the max_retries column
  Retryable,      \* the tasks whose metadata.retryable is true
  MaxConcurrent,  \* maxConcurrentSubagents
  NoTask,
  MaxClaims,      \* bound: claims, and so worker processes, in a behaviour
  MaxRestarts     \* bound: restarts of the main process

ASSUME RoleAgentManagerAssumption ==
  /\ NoTask \notin Tasks
  /\ Roles # {}
  /\ Inspectors \subseteq Tasks
  /\ Role \in [Tasks -> Roles]
  /\ MaxRetries \in [Tasks -> Nat]
  /\ \A i \in Inspectors : MaxRetries[i] = 0
  /\ Retryable \subseteq Tasks \ Inspectors
  /\ MaxConcurrent \in Nat \ {0}
  /\ MaxClaims \in Nat
  /\ MaxRestarts \in Nat

Children == 1..MaxClaims
NoChild == 0

VARIABLES
  task,       \* [Tasks -> Row]: table tasks
  queued,     \* the tasks whose role_queues row says queued, all that is read of it
  claims,     \* claims so far; the number of a claim is its lease token
  slot,       \* [Roles -> Slot]: the roles map
  child,      \* [Children -> Child]: worker processes, numbered by their first claim
  conts,      \* suspended methods that have more to do than to drain the queues
  due,        \* the roles some turn has yet to drain
  reconcile,  \* the reconcile in progress
  restarts

vars == <<task, queued, claims, slot, child, conts, due, reconcile, restarts>>

-----------------------------------------------------------------------------
Tokens == 0..MaxClaims

\* `expired`: lease_expires_at is past; `inspected`: metadata.inspectionTaskId is
\* set; `target`: metadata.targetTaskId of an inspector task.
Row == [status : TaskStatuses \union {"absent"}, retry : Nat, token : Tokens,
        result : BOOLEAN, expired : BOOLEAN, inspected : BOOLEAN,
        target : Tasks \union {NoTask}]

NewRow == [status |-> "pending", retry |-> 0, token |-> NoToken, result |-> FALSE,
           expired |-> FALSE, inspected |-> FALSE, target |-> NoTask]

Slot == [child : Children \union {NoChild}, active : Tasks \union {NoTask},
         lease : Tokens, timer : BOOLEAN, releasing : BOOLEAN]

\* Mutant: releasingIdle is deleted with the worker.
MutFreeSlot == [child |-> NoChild, active |-> NoTask, lease |-> NoToken, timer |-> FALSE]

FreeSlot == [child |-> NoChild, active |-> NoTask, lease |-> NoToken, timer |-> FALSE,
             releasing |-> FALSE]

\* A task.start message and the runTask it starts.
Job == [task : Tasks, token : Tokens, pc : {"sent", "working", "inspected", "failing"}]

Message == [task : Tasks, token : Tokens]

\* `linked`: the main process that forked it is still there; `sent`: task.finished
\* messages on their way; "dead": its exit event is still to come.
Child == [pc : {"none", "alive", "dead", "gone"}, role : Roles, killed : BOOLEAN,
          linked : BOOLEAN, jobs : SUBSET Job, sent : SUBSET Message]

\* "enqueue": the rest of enqueueInspection, `then` what recoverTask's caller does
\* next; "finished": the rest of handleWorkerMessage, with the status it read first.
\* (The awaits of hooks.emit let no other event in: nothing here registers a hook.)
Cont == [step : {"enqueue", "finished"}, task : Tasks, then : {"drain", "reconcile"},
         token : Tokens, terminal : BOOLEAN]

EnqueueLater(t, then) ==
  [step |-> "enqueue", task |-> t, then |-> then, token |-> NoToken, terminal |-> FALSE]

FinishedLater(m, terminal) ==
  [step |-> "finished", task |-> m.task, then |-> "drain", token |-> m.token,
   terminal |-> terminal]

\* `todo`: what getExpiredLeaseTasks returned; `waiting`: recoverTask is enqueueing.
Reconcile == [on : BOOLEAN, waiting : BOOLEAN, todo : SUBSET [task : Tasks, row : Row]]

NoReconcile == [on |-> FALSE, waiting |-> FALSE, todo |-> {}]

Running(t, token) == task[t].status = "running" /\ task[t].token = token

-----------------------------------------------------------------------------
(* TaskStore methods.                                                        *)

CanMove(row, to) == row.status # "absent" /\ Allowed(row.status, to)

Moved(row, to) ==
  [row EXCEPT !.status = to,
              !.token = IF to \in TERMINAL_STATUSES THEN NoToken ELSE @,
              !.expired = FALSE]

\* finishTask
Finished(row) == [Moved(row, "done") EXCEPT !.result = TRUE]

\* failTask: a worker reports a result with its failure.
FailStatus(t, row) == IF row.retry + 1 > MaxRetries[t] THEN "dead_letter" ELSE "failed"

Failed(t, row, byWorker) ==
  [Moved(row, FailStatus(t, row)) EXCEPT !.retry = @ + 1, !.result = @ \/ byWorker]

\* claimTask
Claimed(row, token) == [Moved(row, "running") EXCEPT !.token = token]

\* The row of an outcome, and completeQueueItem.
Settle(t, row) ==
  /\ task' = [task EXCEPT ![t] = row]
  /\ queued' = queued \ {t}

\* enqueueTask (no task depends on another here)
EnqueueTask(t, row) ==
  /\ task' = [task EXCEPT ![t] = Moved(row, "queued")]
  /\ queued' = queued \union {t}

-----------------------------------------------------------------------------
(* recoverTask, up to its first await, and what its caller does after it:    *)
(* then = "drain" for an exit event or a failed send, "reconcile" for the    *)
(* loop of reconcile over the rows still in todo.                            *)

\* The caller goes on, in this turn or after the task's markdown is written; `roles`
\* are those that recoverTask itself drains.
Proceed(then, todo, roles) ==
  /\ conts' = conts
  /\ due' = IF then = "drain" THEN Roles ELSE due \union roles
  /\ reconcile' = IF then = "reconcile"
                  THEN [on |-> TRUE, waiting |-> FALSE, todo |-> todo] ELSE reconcile

\* The caller waits for the task's markdown before t is enqueued.
Enqueueing(t, then, todo) ==
  /\ conts' = conts \union {EnqueueLater(t, then)}
  /\ due' = due
  /\ reconcile' = IF then = "reconcile"
                  THEN [on |-> TRUE, waiting |-> TRUE, todo |-> todo] ELSE reconcile

\* An illegal transition ends the caller; reconcile's finally block resets it.
Throws(then) ==
  /\ due' = due
  /\ reconcile' = IF then = "reconcile" THEN NoReconcile ELSE reconcile

\* enqueueInspection creates the inspector task before it marks the target, which
\* may have moved on.
EnqueueInspection(t, now, row, then, todo) ==
  \/ /\ t \in Inspectors \/ row.inspected
     /\ task' = [task EXCEPT ![t] = now]
     /\ queued' = queued
     /\ Proceed(then, todo, {})
  \/ /\ t \notin Inspectors /\ ~row.inspected
     /\ \E i \in Inspectors :
          LET new == [task EXCEPT ![i] = [NewRow EXCEPT !.target = t]] IN
          /\ task[i].status = "absent"
          /\ IF CanMove(now, "needs_inspection")
             THEN /\ task' = [new EXCEPT ![t] = [Moved(now, "needs_inspection")
                                                   EXCEPT !.inspected = TRUE]]
                  /\ queued' = queued \ {t}
                  /\ Enqueueing(i, then, todo)
             ELSE /\ task' = new
                  /\ UNCHANGED <<queued, conts>>
                  /\ Throws(then)

\* `now` is the row in the database, `row` the caller's copy of it, by which the
\* recovery is decided.
RecoverTask(t, now, row, then, todo) ==
  LET decision == RecoveryDecision(row.result, t \in Retryable, row.retry, MaxRetries[t])
      to == IF decision = "finish" THEN "done" ELSE FailStatus(t, now)
  IN
  \/ /\ decision = "inspect"
     /\ EnqueueInspection(t, now, row, then, todo)
  \/ /\ decision # "inspect"
     /\ CanMove(now, to)
     /\ \/ /\ decision = "retry" /\ to = "failed"
           /\ EnqueueTask(t, Failed(t, now, FALSE))
           /\ Proceed(then, todo, {Role[t]})
        \/ /\ ~(decision = "retry" /\ to = "failed")
           /\ Settle(t, IF decision = "finish" THEN Finished(now) ELSE Failed(t, now, FALSE))
           /\ Proceed(then, todo, {})
  \/ /\ decision # "inspect"
     /\ ~CanMove(now, to)
     /\ UNCHANGED <<task, queued, conts>>
     /\ Throws(then)

-----------------------------------------------------------------------------
(* Turns of the main process.                                                *)

\* runTask, for a task that is ready. Here as below a drain is only noted: it follows
\* an await of its own in most places, and may run after other turns.
StartTask(t) ==
  /\ t \notin Inspectors
  /\ task[t].status \in {"pending", "queued"}
  /\ EnqueueTask(t, task[t])
  /\ due' = due \union {Role[t]}
  /\ UNCHANGED <<claims, slot, child, conts, reconcile, restarts>>

\* The end of enqueueInspection, and of its caller.
EnqueueTurn(k) ==
  LET t == k.task IN
  /\ k.step = "enqueue"
  /\ conts' = conts \ {k}
  /\ \/ /\ CanMove(task[t], "queued")
        /\ EnqueueTask(t, task[t])
        /\ due' = IF k.then = "drain" THEN Roles ELSE due \union {Role[t]}
        /\ reconcile' = IF k.then = "reconcile" THEN [reconcile EXCEPT !.waiting = FALSE]
                        ELSE reconcile
     \/ /\ ~CanMove(task[t], "queued")
        /\ UNCHANGED <<task, queued>>
        /\ Throws(k.then)
  /\ UNCHANGED <<claims, slot, child, restarts>>

\* drainRole returns early while the role or all allowed slots are in use.
SlotsInUse == {r \in Roles : slot[r].active # NoTask}

Occupied(r) == slot[r].active # NoTask \/ Cardinality(SlotsInUse) >= MaxConcurrent

Claimable(r) == {t \in queued : Role[t] = r /\ task[t].status = "queued"}

\* The rows claimNextQueuedTask repairs when it comes across them.
StaleRows(r) == {t \in queued : Role[t] = r /\ task[t].status # "queued"}

DrainNothing(r) ==
  /\ r \in due
  /\ Occupied(r) \/ Claimable(r) = {}
  /\ due' = due \ {r}
  /\ queued' = IF Occupied(r) THEN queued ELSE queued \ StaleRows(r)
  /\ UNCHANGED <<task, claims, slot, child, conts, reconcile, restarts>>

\* ensureWorker's test of the current child; a dead one stays connected in the eyes
\* of the main process until it has heard of it.
MayReuse(c) == c # NoChild /\ child[c].pc \in {"alive", "dead"} /\ ~child[c].killed

MustReuse(c) == MayReuse(c) /\ child[c].pc = "alive"

\* The claimed task goes to the role's worker or to a new one; what is sent to a
\* dead worker is lost.
DrainClaim(r, t) ==
  LET token == claims + 1
      job == [task |-> t, token |-> token, pc |-> "sent"]
      Sent(c) == slot' = [slot EXCEPT ![r] = [@ EXCEPT !.child = c, !.active = t,
                                                      !.lease = token, !.timer = FALSE]]
  IN
  /\ r \in due /\ ~Occupied(r) /\ t \in Claimable(r)
  /\ token \in Children
  /\ claims' = token
  /\ due' = due \ {r}
  /\ task' = [task EXCEPT ![t] = Claimed(@, token)]
  /\ \E S \in SUBSET StaleRows(r) : queued' = queued \ (S \union {t})
  /\ \/ /\ MayReuse(slot[r].child)
        /\ Sent(slot[r].child)
        /\ child' = [child EXCEPT ![slot[r].child].jobs =
                       IF MustReuse(slot[r].child) THEN @ \union {job} ELSE @]
     \/ /\ ~MustReuse(slot[r].child)
        /\ Sent(token)
        /\ child' = [child EXCEPT ![token] =
                       [pc |-> "alive", role |-> r, killed |-> FALSE, linked |-> TRUE,
                        jobs |-> {job}, sent |-> {}]]
  /\ UNCHANGED <<conts, reconcile, restarts>>

\* A worker cannot be started, or the message cannot be sent: the claimed task is
\* recovered in the same turn. A child that never started is as good as none.
DrainFails(r, t) ==
  LET now == Claimed(task[t], claims + 1) IN
  /\ r \in due /\ ~Occupied(r) /\ t \in Claimable(r)
  /\ claims + 1 \in Children
  /\ claims' = claims + 1
  /\ slot' = [slot EXCEPT ![r].timer = FALSE,
                          ![r].child = IF MayReuse(@) THEN @ ELSE NoChild]
  /\ RecoverTask(t, now, now, "drain", {})
  /\ UNCHANGED <<child, restarts>>

\* Mutant: the lease is compared with that of the row, which the outcome has cleared.
MutSameActiveLease(r, m) == slot[r].active = m.task /\ task[m.task].token = m.token

SameActiveLease(r, m) == slot[r].active = m.task /\ slot[r].lease = m.token

\* handleWorkerMessage of a task.finished, up to its await. A worker whose task is
\* no longer the slot's is not scheduled for release.
HandleFinished(c, m) ==
  LET r == child[c].role IN
  /\ child[c].linked
  /\ m \in child[c].sent
  /\ child' = [child EXCEPT ![c].sent = @ \ {m}]
  /\ slot' = IF SameActiveLease(r, m)
             THEN [slot EXCEPT ![r] = [@ EXCEPT !.active = NoTask, !.lease = NoToken,
                                                !.timer = slot[r].child # NoChild]]
             ELSE slot
  /\ conts' = conts \union {FinishedLater(m, task[m.task].status \in TERMINAL_STATUSES)}
  /\ UNCHANGED <<task, queued, claims, due, reconcile, restarts>>

\* ... and its end: the queue row is closed by the status read at the start.
FinishedTurn(k) ==
  /\ k.step = "finished"
  /\ conts' = conts \ {k}
  /\ queued' = IF k.terminal THEN queued \ {k.task} ELSE queued
  /\ due' = Roles
  /\ UNCHANGED <<task, claims, slot, child, reconcile, restarts>>

\* Mutant: handleWorkerExit forgets the worker and not its task.
MutExited(s) == [s EXCEPT !.child = NoChild]

Exited(s) == FreeSlot

\* handleWorkerExit forgets the slot's child and task, even if the role has got a new
\* worker since the kill. After an idle release there is nothing to recover.
HandleExit(c) ==
  LET r == child[c].role
      t == slot[r].active
  IN
  /\ child[c].pc = "dead"
  /\ child' = [child EXCEPT ![c].pc = "gone"]
  /\ slot' = [slot EXCEPT ![r] = Exited(@)]
  /\ \/ /\ ~slot[r].releasing
        /\ t # NoTask /\ Running(t, slot[r].lease)
        /\ RecoverTask(t, task[t], task[t], "drain", {})
     \/ /\ slot[r].releasing \/ ~(t # NoTask /\ Running(t, slot[r].lease))
        /\ due' = Roles
        /\ UNCHANGED <<task, queued, conts, reconcile>>
  /\ UNCHANGED <<claims, restarts>>

\* Mutant: the worker of a cancelled task is left running.
MutKilled(x) == x

\* child.kill() after child.disconnect(): no message comes back any more.
Killed(x) == [x EXCEPT !.killed = x.pc = "alive", !.sent = {}]

\* The idle timer: releaseIdleWorker.
IdleTimer(r) ==
  LET c == slot[r].child
      release == c # NoChild /\ ~child[c].killed /\ slot[r].active = NoTask
  IN
  /\ slot[r].timer
  /\ slot' = [slot EXCEPT ![r].timer = FALSE, ![r].releasing = @ \/ release]
  /\ child' = IF release THEN [child EXCEPT ![c] = Killed(@)] ELSE child
  /\ UNCHANGED <<task, queued, claims, conts, due, reconcile, restarts>>

\* cancelTask, by the user or after runTask's timeout.
CancelTask(t) ==
  LET mine == {r \in Roles : slot[r].active = t}
      children == {slot[r].child : r \in mine} \ {NoChild}
  IN
  /\ task[t].status # "absent"
  /\ task[t].status \notin TERMINAL_STATUSES \/ mine # {}
  /\ slot' = [r \in Roles |-> IF r \in mine
                              THEN [slot[r] EXCEPT !.active = NoTask, !.lease = NoToken]
                              ELSE slot[r]]
  /\ child' = [c \in Children |-> IF c \in children /\ ~child[c].killed
                                  THEN Killed(child[c]) ELSE child[c]]
  /\ IF task[t].status \in TERMINAL_STATUSES THEN UNCHANGED <<task, queued>>
     ELSE Settle(t, Moved(task[t], "cancelled"))
  /\ due' = Roles
  /\ UNCHANGED <<claims, conts, reconcile, restarts>>

\* One round of reconcile's loop. (The tasks that need an inspection and have no
\* inspector task, which it looks for next, do not exist at this atomicity.)
RecoverNext(todo) ==
  \E s \in todo : RecoverTask(s.task, task[s.task], s.row, "reconcile", todo \ {s})

EndReconcile ==
  /\ reconcile' = NoReconcile
  /\ due' = Roles
  /\ UNCHANGED <<task, queued, conts>>

\* Mutant: only the tasks of the slots are looked at.
MutExpiredLeases ==
  {[task |-> t, row |-> task[t]] : t \in {x \in Tasks : task[x].status = "running"
                         /\ task[x].expired /\ \E r \in Roles : slot[r].active = x}}

ExpiredLeases ==
  {[task |-> t, row |-> task[t]] : t \in {x \in Tasks : task[x].status = "running"
                                                        /\ task[x].expired}}

\* Mutant: reconcile does not drain the queues when no lease has expired.
MutStartReconcile ==
  /\ ~reconcile.on
  /\ ExpiredLeases # {}
  /\ RecoverNext(ExpiredLeases)
  /\ UNCHANGED <<claims, slot, child, restarts>>

\* reconcile, by the timer: the list of expired leases, and its first round.
StartReconcile ==
  /\ ~reconcile.on
  /\ IF ExpiredLeases = {} THEN EndReconcile ELSE RecoverNext(ExpiredLeases)
  /\ UNCHANGED <<claims, slot, child, restarts>>

ReconcileNext ==
  /\ reconcile.on /\ ~reconcile.waiting
  /\ IF reconcile.todo = {} THEN EndReconcile ELSE RecoverNext(reconcile.todo)
  /\ UNCHANGED <<claims, slot, child, restarts>>

\* The main process ends and another one starts with an empty roles map. Its
\* workers are killed by shutdown, or outlive it.
Restart ==
  /\ restarts < MaxRestarts
  /\ restarts' = restarts + 1
  /\ slot' = [r \in Roles |-> FreeSlot]
  /\ conts' = {}
  /\ due' = {}
  /\ reconcile' = NoReconcile
  /\ \E K \in SUBSET {c \in Children : child[c].pc = "alive"} :
       child' = [c \in Children |->
                   [child[c] EXCEPT !.pc = IF @ = "dead" THEN "gone" ELSE @,
                                    !.killed = @ \/ c \in K,
                                    !.linked = FALSE, !.sent = {}]]
  /\ UNCHANGED <<task, queued, claims>>

-----------------------------------------------------------------------------
(* Worker processes: runTask, and inspectTask for an inspector task. A task   *)
(* cancelled while it is worked on ends like one that throws: either way the *)
(* cancelled row stays as it is.                                             *)

JobAt(c, j, pc) == child[c].pc = "alive" /\ j \in child[c].jobs /\ j.pc = pc

JobGoes(c, j, pc) ==
  child' = [child EXCEPT ![c].jobs = (@ \ {j}) \union {[j EXCEPT !.pc = pc]}]

\* runTask's end: task.finished is sent while there is a channel.
JobEnds(c, j) ==
  child' = [child EXCEPT ![c].jobs = @ \ {j},
                         ![c].sent = IF child[c].linked /\ ~child[c].killed
                                     THEN @ \union {[task |-> j.task, token |-> j.token]}
                                     ELSE @]

LeaseRefused(j) ==
  task[j.task].status = "running" /\ ~LeaseMatches(task[j.task].token, j.token)

\* claimTask by the worker renews the lease, or takes any task it may move to running.
JobClaims(c, j) ==
  /\ JobAt(c, j, "sent")
  /\ IF ~LeaseRefused(j) /\ CanMove(task[j.task], "running")
     THEN /\ task' = [task EXCEPT ![j.task] = Claimed(@, j.token)]
          /\ JobGoes(c, j, "working")
     ELSE task' = task /\ JobGoes(c, j, "failing")
  /\ UNCHANGED <<queued, claims, slot, conts, due, reconcile, restarts>>

\* inspectTask: a target without a usable result is failed, whoever runs it now.
JobInspects(c, j) ==
  LET x == task[j.task].target IN
  /\ JobAt(c, j, "working")
  /\ j.task \in Inspectors
  /\ \/ /\ task[x].status = "done" /\ task[x].result
        /\ task' = task
        /\ JobGoes(c, j, "inspected")
     \/ /\ ~(task[x].status = "done" /\ task[x].result)
        /\ IF CanMove(task[x], "failed")
           THEN /\ task' = [task EXCEPT ![x] = Moved(@, "failed")]
                /\ JobGoes(c, j, "inspected")
           ELSE task' = task /\ JobGoes(c, j, "failing")
  /\ UNCHANGED <<queued, claims, slot, conts, due, reconcile, restarts>>

JobFinishes(c, j) ==
  LET t == j.task IN
  /\ JobAt(c, j, IF t \in Inspectors THEN "inspected" ELSE "working")
  /\ IF ~LeaseRefused(j) /\ CanMove(task[t], "done")
     THEN Settle(t, Finished(task[t])) /\ JobEnds(c, j)
     ELSE UNCHANGED <<task, queued>> /\ JobGoes(c, j, "failing")
  /\ UNCHANGED <<claims, slot, conts, due, reconcile, restarts>>

\* An error, or withTimeout.
JobThrows(c, j) ==
  /\ JobAt(c, j, "working") \/ JobAt(c, j, "inspected")
  /\ JobGoes(c, j, "failing")
  /\ UNCHANGED <<task, queued, claims, slot, conts, due, reconcile, restarts>>

JobFails(c, j) ==
  LET t == j.task IN
  /\ JobAt(c, j, "failing")
  /\ IF ~LeaseRefused(j) /\ CanMove(task[t], FailStatus(t, task[t]))
     THEN Settle(t, Failed(t, task[t], TRUE))
     ELSE UNCHANGED <<task, queued>>
  /\ JobEnds(c, j)
  /\ UNCHANGED <<claims, slot, conts, due, reconcile, restarts>>

\* A worker process ends, killed or crashed.
ChildDies(c) ==
  /\ child[c].pc = "alive"
  /\ child' = [child EXCEPT ![c].pc = IF child[c].linked THEN "dead" ELSE "gone",
                            ![c].jobs = {}]
  /\ UNCHANGED <<task, queued, claims, slot, conts, due, reconcile, restarts>>

LeaseExpires(t) ==
  /\ task[t].status = "running" /\ ~task[t].expired
  /\ task' = [task EXCEPT ![t].expired = TRUE]
  /\ UNCHANGED <<queued, claims, slot, child, conts, due, reconcile, restarts>>

\* Who can renew the lease of t: a heartbeat renews the task of its worker's slot.
Heartbeats(c, t) ==
  /\ child[c].pc = "alive" /\ child[c].linked /\ ~child[c].killed
  /\ slot[child[c].role].active = t
  /\ \E j \in child[c].jobs : Running(t, j.token)

Heartbeat(c, t) ==
  /\ Heartbeats(c, t)
  /\ task[t].expired
  /\ task' = [task EXCEPT ![t].expired = FALSE]
  /\ UNCHANGED <<queued, claims, slot, child, conts, due, reconcile, restarts>>

-----------------------------------------------------------------------------
Init ==
  /\ task = [t \in Tasks |-> IF t \in Inspectors THEN [NewRow EXCEPT !.status = "absent"]
                             ELSE NewRow]
  /\ queued = {}
  /\ claims = 0
  /\ slot = [r \in Roles |-> FreeSlot]
  /\ child = [c \in Children |-> [pc |-> "none", role |-> CHOOSE r \in Roles : TRUE,
                                  killed |-> FALSE, linked |-> FALSE,
                                  jobs |-> {}, sent |-> {}]]
  /\ conts = {}
  /\ due = {}
  /\ reconcile = NoReconcile
  /\ restarts = 0

DrainRole(r) == DrainNothing(r) \/ \E t \in Tasks : DrainClaim(r, t) \/ DrainFails(r, t)

FinishedMessage(c) == \E m \in child[c].sent : HandleFinished(c, m)

JobStep(c) ==
  \E j \in child[c].jobs : \/ JobClaims(c, j) \/ JobInspects(c, j) \/ JobFinishes(c, j)
                           \/ JobThrows(c, j) \/ JobFails(c, j)

Next ==
  \/ \E t \in Tasks : StartTask(t) \/ CancelTask(t) \/ LeaseExpires(t)
  \/ \E k \in conts : EnqueueTurn(k) \/ FinishedTurn(k)
  \/ \E r \in Roles : DrainRole(r) \/ IdleTimer(r)
  \/ StartReconcile \/ ReconcileNext \/ Restart
  \/ \E c \in Children :
       \/ FinishedMessage(c) \/ HandleExit(c) \/ JobStep(c) \/ ChildDies(c)
       \/ \E t \in Tasks : Heartbeat(c, t)

Spec == Init /\ [][Next]_vars

-----------------------------------------------------------------------------
(* Fairness. Node's event loop serves every pending event, the reconcile     *)
(* timer recurs, withTimeout ends every job, a killed process dies, and so   *)
(* does a worker whose channel is closed, at the latest when its job is done *)
(* or its next heartbeat fails; a lease nobody renews expires.               *)

Continues(t) == \E k \in conts : k.task = t /\ (EnqueueTurn(k) \/ FinishedTurn(k))

Doomed(c) == child[c].killed \/ (~child[c].linked /\ child[c].jobs = {})

Fairness ==
  /\ \A r \in Roles : WF_vars(DrainRole(r)) /\ WF_vars(IdleTimer(r))
  /\ \A t \in Tasks :
       /\ WF_vars(Continues(t))
       /\ WF_vars(LeaseExpires(t) /\ ~\E c \in Children : Heartbeats(c, t))
  /\ \A c \in Children :
       /\ WF_vars(FinishedMessage(c)) /\ WF_vars(HandleExit(c)) /\ WF_vars(JobStep(c))
       /\ WF_vars(ChildDies(c) /\ Doomed(c))
  /\ WF_vars(StartReconcile \/ ReconcileNext)

FairSpec == Spec /\ Fairness

-----------------------------------------------------------------------------
\* Rows, slots, worker processes and suspended methods keep the shapes of tables and maps.
TypeOK ==
  /\ task \in [Tasks -> Row]
  /\ queued \in SUBSET Tasks
  /\ claims \in Tokens
  /\ slot \in [Roles -> Slot]
  /\ child \in [Children -> Child]
  /\ conts \in SUBSET Cont
  /\ due \in SUBSET Roles
  /\ reconcile \in Reconcile
  /\ restarts \in 0..MaxRestarts

\* A role marked busy has a worker that will free it: one that runs the task, one
\* whose task.finished is on its way, or one whose exit event is.
ActiveSlotHasWorker ==
  \A r \in Roles :
    slot[r].active # NoTask =>
      \E c \in Children :
        /\ child[c].role = r /\ child[c].linked
        /\ \/ child[c].pc = "dead"
           \/ [task |-> slot[r].active, token |-> slot[r].lease] \in child[c].sent
           \/ /\ child[c].pc = "alive" /\ ~child[c].killed
              /\ \E j \in child[c].jobs :
                   j.task = slot[r].active /\ j.token = slot[r].lease

\* A worker process is never given a second task while it works on one.
OneTaskPerWorker == \A c \in Children : Cardinality(child[c].jobs) <= 1

\* README.md:404: "Each role has at most one active subagent; new work for that role
\* is queued instead of spawning duplicate role workers."
OneActiveSubagentPerRole ==
  \A c, d \in Children :
    /\ child[c].pc = "alive" /\ child[c].linked /\ ~child[c].killed /\ child[c].jobs # {}
    /\ child[d].pc = "alive" /\ child[d].linked /\ ~child[d].killed /\ child[d].jobs # {}
    /\ child[c].role = child[d].role
    => c = d

\* TaskStore.ts:1709 reports "Queued task ... has no queued role_queues row" as an
\* anomaly: no claim will ever find such a task.
QueuedTaskHasRow == \A t \in Tasks : task[t].status = "queued" => t \in queued

\* Every lease ends: the task is settled by its worker or recovered, whatever dies or
\* restarts. Not so for a task that already had an inspection: recoverTask has nothing
\* left to do for it.
Leased(k) == \E t \in Tasks : Running(t, k) /\ ~task[t].inspected

LeaseResolved == \A k \in 1..MaxClaims : Leased(k) ~> ~Leased(k)

\* No role stays busy with one task for ever: activeTaskId is cleared by task.finished,
\* by the exit of the worker or by cancelTask.
SlotFreed ==
  \A t \in Tasks : slot[Role[t]].active = t ~> slot[Role[t]].active # t

\* A queued task that has its queue row is claimed or cancelled, a requeued one too,
\* whatever its worker, its role's slot and the main process go through: it waits for
\* ever only if another outcome closes its row (QueuedTaskHasRow). The bound on claims
\* excepted.
Waiting(t) == task[t].status = "queued" /\ t \in queued /\ claims < MaxClaims

QueuedServed == \A t \in Tasks : Waiting(t) ~> ~Waiting(t)

\* README.md:404: "idle subagents are released after agents.subagentIdleTtlSeconds": a
\* worker process without a task does not stay for ever.
IdleReleased ==
  \A c \in Children :
    (child[c].pc = "alive" /\ child[c].jobs = {}) ~>
    ~(child[c].pc = "alive" /\ child[c].jobs = {})
=============================================================================
