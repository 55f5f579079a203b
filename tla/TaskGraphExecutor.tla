------------------------- MODULE TaskGraphExecutor -------------------------
(***************************************************************************)
(* tasks/TaskGraphExecutor.ts: one call of execute for a graph whose rows, *)
(* workers and edits are GraphStore's. The steps of the executor are its   *)
(* turns on the event loop of the main process. The rows of the planner    *)
(* tasks it runs for itself are left out: they belong to no graph.         *)
(***************************************************************************)
EXTENDS GraphStore

CONSTANTS
  Plans,              \* the plans executed: [tasks, rolling, replan, production]
  Patches,            \* the task lists of the patches a planner returns
  MaxParallelTasks,
  MaxDynamicTasks,
  MaxReplanAttempts

\* Plans are valid (validatePlanSpec), but for the cycles that ensureArtifactMaterializationPlan
\* makes; a planner may return any list of tasks. The keys uniqueKey tries are well-formed and
\* told apart by their number.
ASSUME TaskGraphExecutorAssumption ==
  /\ {MaxParallelTasks, MaxDynamicTasks, MaxReplanAttempts, MaxNodes, MaxEdits} \subseteq Nat
  /\ MaxParallelTasks # 0
  /\ NewKeys \subseteq STRING
  /\ \A p \in Plans :
       /\ p.tasks \in Seq(PlanTask) /\ Len(p.tasks) <= MaxNodes
       /\ KeysDistinct(p.tasks) /\ TaskKeys(p.tasks) \intersect MalformedKeys = {}
       /\ DependenciesKnown(p.tasks, TaskKeys(p.tasks))
       /\ WorkAcyclic(p.tasks)
  /\ Patches \subseteq Seq(PlanTask)
  /\ \A base \in {"implementation", "verification"} : NumberedApart(base, MaxNodes + 2)

VARIABLES
  plan,         \* the plan being executed
  pc,           \* the await the executor is at
  tasksByKey,   \* key -> id
  pending,      \* the keys not collected yet
  recorded,     \* id -> the status under which a task was recorded
  wave,         \* id -> "starting", "waiting" or the status the task came back with
  todo,         \* the tasks a loop has yet to look at
  doomed,      \* the task the loop has found to be blocked, or 0
  hit,          \* the tasks the loop has blocked -> "writing" or the status read afterwards
  cur,          \* the task a planner is asked about
  slots,        \* what that planner may add at most
  expanded,     \* how many tasks patches have added
  limit,        \* effectiveParallelTasks
  paused,       \* a planner has asked for the user
  graphStatus   \* the row of task_graphs

exVars == <<plan, pc, tasksByKey, pending, recorded, wave, todo, doomed, hit, cur, slots,
            expanded, limit, paused, graphStatus>>
vars == <<storeVars, exVars>>

-----------------------------------------------------------------------------
(* Decisions.                                                              *)

FailureClusters == {"permission_or_policy", "dependency", "resource_budget", "data_quality",
  "provider", "research_quality", "needs_user_input", "timeout", "verification", "unknown"}

\* In hundredths.
FAILURE_CLUSTER_WEIGHTS(cluster) ==
  CASE cluster = "permission_or_policy" -> 95 [] cluster = "dependency" -> 85
    [] cluster = "resource_budget" -> 82 [] cluster = "data_quality" -> 78
    [] cluster = "provider" -> 75 [] cluster = "research_quality" -> 70
    [] cluster = "needs_user_input" -> 72 [] cluster = "timeout" -> 65
    [] cluster = "verification" -> 55 [] OTHER -> 60

\* Mutant: every failure takes a slot away, the last one too.
MutAdaptiveParallelLimit(current, bad, pendingCount, expandedCount, cluster) ==
  MaxParallelTasks - 2 * bad

\* The risk is that of `bad` failures and blocks of one cluster.
adaptiveParallelLimit(current, bad, pendingCount, expandedCount, cluster) ==
  LET risk == bad * FAILURE_CLUSTER_WEIGHTS(cluster)
      half == (MaxParallelTasks + 1) \div 2
  IN  CASE risk >= 140 \/ bad >= 3 \/ 10 * expandedCount >= 9 * MaxDynamicTasks -> 1
        [] risk \in 1..139 /\ bad < 3 /\ 10 * expandedCount < 9 * MaxDynamicTasks ->
             Max({1, Min({current, half})})
        [] OTHER -> IF 4 * expandedCount >= 3 * MaxDynamicTasks THEN Max({1, Min({current, 2})})
                    ELSE IF pendingCount > 2 * MaxParallelTasks THEN MaxParallelTasks
                    ELSE Max({1, Min({MaxParallelTasks, current})})

calibratedReplanBudget(available, cluster, attempt, production) ==
  LET base == CASE cluster \in {"permission_or_policy", "needs_user_input", "resource_budget"} -> 2
                [] cluster \in {"dependency", "research_quality", "timeout", "provider"} -> 3
                [] cluster \in {"verification", "data_quality"} -> 4
                [] OTHER -> 5
      boost == IF production THEN 1 ELSE 0
  IN  Max({1, Min({available, base + boost, Max({1, 7 - attempt})})})

keyFor(i) ==
  LET keys == {k \in DOMAIN tasksByKey : tasksByKey[k] = i}
  IN  IF keys = {} THEN NoKey ELSE CHOOSE k \in keys : TRUE

failedSuccessDependency(i) ==
  \E e \in Dependencies(i) :
    e.type = "success" /\ node[e.on].status \in Terminal \ {"done"}

isReplanSupersededTerminal(i) == node[i].superseded /\ node[i].status = "dead_letter"

\* A materialization task is held back until every task but the reviewers' has ended.
materializationReady(i) ==
  node[i].materialization =>
    \A k \in DOMAIN tasksByKey :
      LET j == tasksByKey[k]
      IN  \/ j = i \/ node[j].materialization \/ node[j].role = "reviewer"
          \/ isReplanSupersededTerminal(j)
          \/ node[j].status \in Terminal

graphStatusFromTasks ==
  LET active == {i \in Ids : ~isReplanSupersededTerminal(i)}
      some(S) == \E i \in active : node[i].status \in S
  IN  CASE active = {} -> "done"
        [] some({"dead_letter", "blocked", "cancelled"}) -> "failed"
        [] active # {} /\ \A i \in active : node[i].status = "done" -> "done"
        [] OTHER -> IF some({"queued", "running"}) THEN "running" ELSE "pending"

\* The tasks recorded once more: `ids` with the status each has come back with.
Record(ids, status(_)) ==
  LET new == {i \in ids : i \notin DOMAIN recorded /\ status(i) \in Terminal}
  IN  [i \in DOMAIN recorded \union new |-> IF i \in new THEN status(i) ELSE recorded[i]]

-----------------------------------------------------------------------------
Init ==
  /\ plan \in Plans
  /\ LET id(k) == CHOOSE i \in DOMAIN plan.tasks : plan.tasks[i].key = k
     IN  /\ node = [i \in DOMAIN plan.tasks |-> createTask(plan.tasks[i], "plan", 0, 0)]
         /\ edge = UNION {{[task |-> i, on |-> id(k), type |-> plan.tasks[i].dependencyType] :
                             k \in plan.tasks[i].dependsOn} : i \in DOMAIN plan.tasks}
         /\ tasksByKey = [k \in TaskKeys(plan.tasks) |-> id(k)]
  /\ releasing = {} /\ edit = <<>> /\ cut = {} /\ torn = {} /\ touched = {} /\ edits = 0
  /\ pc = "top" /\ pending = TaskKeys(plan.tasks) /\ recorded = <<>> /\ wave = <<>>
  /\ todo = {} /\ doomed = 0 /\ hit = <<>> /\ cur = 0 /\ slots = 0 /\ expanded = 0
  /\ limit = MaxParallelTasks /\ paused = FALSE /\ graphStatus = "pending"

\* syncExternalGraphNodes: every row of the graph, deleted ones too; a later row takes the key
\* of an earlier one.
Sync ==
  /\ pc = "top" /\ edit = <<>>
  /\ tasksByKey' = [k \in {node[i].key : i \in Ids} |-> Max({i \in Ids : node[i].key = k})]
  /\ pending' = pending \union
       {node[i].key : i \in {j \in Ids : j \notin DOMAIN recorded /\ node[j].status \notin Terminal}}
  /\ todo' = {tasksByKey'[k] : k \in pending'}
  /\ hit' = <<>> /\ pc' = "blocking"
  /\ UNCHANGED <<storeVars, plan, recorded, wave, doomed, cur, slots, expanded, limit, paused,
                 graphStatus>>

Blockable(i) == node[i].status = "pending"
Unreachable(i) == Blockable(i) /\ failedSuccessDependency(i)

\* The loops stand at the await for the file of a task they have blocked.
Writing == \E i \in DOMAIN hit : hit[i] = "writing"

\* A loop looks at its next task.
Look(Applies(_)) ==
  LET i == Min(todo) IN
  /\ edit = <<>> /\ doomed = 0 /\ ~Writing /\ todo # {}
  /\ todo' = todo \ {i}
  /\ doomed' = IF Applies(i) THEN i ELSE 0
  /\ UNCHANGED <<storeVars, plan, pc, tasksByKey, pending, recorded, wave, hit, cur, slots,
                 expanded, limit, paused, graphStatus>>

LookForUnreachable == pc = "blocking" /\ Look(Unreachable)

\* Mutant: when nothing is ready, only what can never be reached is blocked.
MutRemaining(i) == Unreachable(i)

Remaining(i) == Blockable(i)

LookForRemaining == pc \in {"stopping", "pausing"} /\ Look(Remaining)

\* blockTask: the row may have moved since it was looked at. One that is queued, or has ended,
\* makes transitionTask throw, which ends execute; one that runs is blocked all the same.
BlockTask ==
  /\ edit = <<>> /\ doomed # 0
  /\ IF node[doomed].status \in {"pending", "running", "blocked"}
     THEN /\ node' = SetStatus({doomed}, "blocked")
          /\ hit' = [i \in DOMAIN hit \union {doomed} |->
                       IF i = doomed THEN "writing" ELSE hit[i]]
          /\ pc' = pc
     ELSE /\ pc' = "thrown"
          /\ UNCHANGED <<node, hit>>
  /\ doomed' = 0
  /\ UNCHANGED <<edge, releasing, edit, cut, torn, touched, edits, plan, tasksByKey, pending,
                 recorded, wave, todo, cur, slots, expanded, limit, paused, graphStatus>>

\* The end of that await: blockTask returns the row as it is by then.
ReadBlocked ==
  /\ edit = <<>> /\ Writing
  /\ hit' = [i \in DOMAIN hit |-> IF hit[i] = "writing" THEN node[i].status ELSE hit[i]]
  /\ UNCHANGED <<storeVars, plan, pc, tasksByKey, pending, recorded, wave, todo, doomed, cur,
                 slots, expanded, limit, paused, graphStatus>>

\* The loop is over.
Looked == todo = {} /\ doomed = 0 /\ ~Writing

Blocked(i) == hit[i]

\* The end of blockUnreachable and the choice of a wave; the first `limit` ready tasks in the
\* order of the set `pending` are any of them.
ChooseWave ==
  LET left == pending \ {keyFor(i) : i \in DOMAIN hit}
      known == Record(DOMAIN hit, Blocked)
      bad == Cardinality({i \in DOMAIN known : known[i] \in {"dead_letter", "blocked"}})
      ready == {i \in {tasksByKey[k] : k \in left} :
                  /\ node[i].status \in {"pending", "queued"}
                  /\ dependenciesSatisfied(i)
                  /\ materializationReady(i)}
  IN
  /\ pc = "blocking" /\ edit = <<>> /\ Looked
  /\ pending' = left /\ recorded' = known /\ hit' = <<>>
  /\ \E cluster \in FailureClusters :
       limit' = adaptiveParallelLimit(limit, bad, Cardinality(left), expanded, cluster)
  /\ IF ready = {}
     THEN pc' = "stopping" /\ todo' = {tasksByKey[k] : k \in left} /\ wave' = wave
     ELSE /\ \E W \in SUBSET ready :
               /\ Cardinality(W) = Min({limit', Cardinality(ready)})
               /\ wave' = [i \in W |-> "starting"]
          /\ pc' = "waiting" /\ todo' = {}
  /\ UNCHANGED <<storeVars, plan, tasksByKey, doomed, cur, slots, expanded, paused, graphStatus>>

\* runTask after the hooks: enqueueTask, which leaves a task whose dependencies are not
\* satisfied as it is, and throws when the task was started meanwhile; runOne then returns
\* the row.
Launch(i) ==
  /\ pc = "waiting" /\ edit = <<>> /\ wave[i] = "starting"
  /\ CASE ~dependenciesSatisfied(i) ->
            wave' = [wave EXCEPT ![i] = "waiting"] /\ node' = node
       [] dependenciesSatisfied(i) /\ node[i].status \in Enqueueable ->
            wave' = [wave EXCEPT ![i] = "waiting"] /\ node' = SetStatus({i}, "queued")
       [] OTHER -> wave' = [wave EXCEPT ![i] = node[i].status] /\ node' = node
  /\ UNCHANGED <<edge, releasing, edit, cut, torn, touched, edits, plan, pc, tasksByKey, pending,
                 recorded, todo, doomed, hit, cur, slots, expanded, limit, paused, graphStatus>>

Releasing(i) == \E p \in releasing : p[1] = i

\* The event of a worker's result, which it sends when it has released the dependents. The
\* deletion of a node emits none.
Resolve(i) ==
  /\ pc = "waiting" /\ edit = <<>> /\ wave[i] = "waiting"
  /\ node[i].status \in {"done", "dead_letter"} /\ ~Releasing(i)
  /\ wave' = [wave EXCEPT ![i] = node[i].status]
  /\ UNCHANGED <<storeVars, plan, pc, tasksByKey, pending, recorded, todo, doomed, hit, cur,
                 slots, expanded, limit, paused, graphStatus>>

\* Mutant: only a task that runs can time out.
MutTimesOut(i) == node[i].status = "running"

TimesOut(i) == node[i].status \notin {"done", "dead_letter"} \/ Releasing(i)

\* The timer of waitForTask: the task is cancelled, unless it is terminal; nothing is released.
Timeout(i) ==
  /\ pc = "waiting" /\ edit = <<>> /\ wave[i] = "waiting"
  /\ TimesOut(i)
  /\ node' = IF node[i].status \in Terminal THEN node ELSE SetStatus({i}, "cancelled")
  /\ wave' = [wave EXCEPT ![i] = node'[i].status]
  /\ UNCHANGED <<edge, releasing, edit, cut, torn, touched, edits, plan, pc, tasksByKey, pending,
                 recorded, todo, doomed, hit, cur, slots, expanded, limit, paused, graphStatus>>

AllBack ==
  /\ pc = "waiting" /\ edit = <<>>
  /\ \A i \in DOMAIN wave : wave[i] \notin {"starting", "waiting"}
  /\ pc' = "collecting" /\ todo' = DOMAIN wave
  /\ UNCHANGED <<storeVars, plan, tasksByKey, pending, recorded, wave, doomed, hit, cur, slots,
                 expanded, limit, paused, graphStatus>>

Attempts(i) == Cardinality({k \in DOMAIN tasksByKey : node[tasksByKey[k]].from = i})

\* Mutant: the rows of the graph are not counted.
MutAvailableSlots == MaxDynamicTasks - expanded

AvailableSlots == MaxDynamicTasks - Cardinality(DOMAIN tasksByKey)

WantsReplan(i) ==
  plan.replan /\ wave[i] = "dead_letter" /\ Attempts(i) < MaxReplanAttempts /\ AvailableSlots > 0

WantsExpansion(i) ==
  /\ plan.rolling /\ wave[i] = "done" /\ node[i].expandable /\ node[i].depth < node[i].maxDepth
  /\ AvailableSlots > 0

\* A task of the wave is collected, and when it may be replanned or expanded a planner asked.
Collect ==
  LET i == Min(todo)
      asks == ~paused /\ (WantsReplan(i) \/ WantsExpansion(i))
  IN
  /\ pc = "collecting" /\ edit = <<>> /\ todo # {}
  /\ todo' = todo \ {i}
  /\ pending' = pending \ {keyFor(i)}
  /\ recorded' = Record({i}, LAMBDA j : wave[j])
  /\ pc' = IF asks THEN "planning" ELSE pc
  /\ cur' = IF asks THEN i ELSE cur
  /\ slots' = IF asks THEN AvailableSlots ELSE slots
  /\ UNCHANGED <<storeVars, plan, tasksByKey, wave, doomed, hit, expanded, limit, paused,
                 graphStatus>>

Collected ==
  /\ pc = "collecting" /\ edit = <<>> /\ todo = {}
  /\ pc' = IF pending = {} THEN "finishing" ELSE "top"
  /\ wave' = <<>> /\ cur' = 0 /\ slots' = 0
  /\ UNCHANGED <<storeVars, plan, tasksByKey, pending, recorded, todo, doomed, hit, expanded,
                 limit, paused, graphStatus>>

\* The keys of the graph with those of new tasks.
keysWith(specs) ==
  [k \in DOMAIN tasksByKey \union TaskKeys(specs) |->
     IF k \in TaskKeys(specs) THEN Len(node) + (CHOOSE i \in DOMAIN specs : specs[i].key = k)
     ELSE tasksByKey[k]]

\* The rows of the graph with those of new tasks; a replan supersedes the failed task.
rowsWith(specs, superseded) ==
  [i \in Ids |-> IF i = cur /\ superseded THEN [node[i] EXCEPT !.superseded = TRUE] ELSE node[i]]
  \o [i \in DOMAIN specs |->
        createTask(specs[i], "patch", node[cur].depth + 1, IF superseded THEN cur ELSE 0)]

\* A new task that names no dependency waits for the task that was expanded or failed.
dynamicDependencies(specs) ==
  LET byKey == keysWith(specs)
      names(spec) == IF spec.dependsOn = {} THEN {node[cur].key} ELSE spec.dependsOn
  IN  UNION {{[task |-> Len(node) + i, on |-> byKey[k], type |-> specs[i].dependencyType] :
                k \in names(specs[i]) \intersect DOMAIN byKey} : i \in DOMAIN specs}

\* The materialization tasks wait for the end of the new ones but reviewers.
linkDynamicTasksToMaterialization(specs) ==
  LET byKey == keysWith(specs)
      of(k) == IF byKey[k] \in Ids THEN node[byKey[k]] ELSE specs[byKey[k] - Len(node)]
      final == {byKey[k] : k \in {j \in DOMAIN byKey : of(j).materialization}}
      work == {Len(node) + i : i \in {j \in DOMAIN specs : ~specs[j].materialization
                                                           /\ specs[j].role # "reviewer"}}
  IN  {[task |-> f, on |-> w, type |-> "finished"] : f \in final, w \in work}

createDynamicTasks(specs, superseded) ==
  /\ Len(node) + Len(specs) <= MaxNodes
  /\ node' = rowsWith(specs, superseded)
  /\ edge' = addTaskDependency(addTaskDependency(edge, dynamicDependencies(specs)),
                               linkDynamicTasksToMaterialization(specs))
  /\ tasksByKey' = keysWith(specs)
  /\ pending' = pending \union TaskKeys(specs)
  /\ expanded' = expanded + Len(specs)

Resume ==
  /\ pc' = "collecting" /\ cur' = 0 /\ slots' = 0
  /\ UNCHANGED <<releasing, edit, cut, torn, touched, edits, plan, recorded, wave, todo, doomed,
                 hit, limit, paused, graphStatus>>

\* A patch names no parent of its own for a task: the task it expands or replaces.
Patch(tasks) ==
  [parentKey |-> node[cur].key, stop |-> FALSE, ask |-> FALSE, questions |-> FALSE,
   tasks |-> [i \in DOMAIN tasks |->
                IF tasks[i].parentKey = NoKey THEN [tasks[i] EXCEPT !.parentKey = node[cur].key]
                ELSE tasks[i]]]

\* The planner of a failed task returns a patch. What waited for the failed task itself is made
\* to wait for its end only.
Replan(tasks) ==
  LET patch == Patch(tasks)
      specs == [i \in DOMAIN patch.tasks |->
                  IF node[cur].key \in patch.tasks[i].dependsOn
                  THEN [patch.tasks[i] EXCEPT !.dependencyType = "finished"] ELSE patch.tasks[i]]
  IN
  /\ pc = "planning" /\ edit = <<>> /\ wave[cur] = "dead_letter"
  /\ \E cluster \in FailureClusters :
       validateGraphPatchSpec(patch, node[cur].key, DOMAIN tasksByKey,
                              calibratedReplanBudget(slots, cluster, Attempts(cur) + 1, plan.production),
                              100)
  /\ specs # <<>>
  /\ createDynamicTasks(specs, TRUE)
  /\ Resume

\* The planner of an expandable task returns a patch.
Expand(tasks) ==
  LET patch == Patch(tasks) IN
  /\ pc = "planning" /\ edit = <<>> /\ wave[cur] = "done"
  /\ validateGraphPatchSpec(patch, node[cur].key, DOMAIN tasksByKey, slots, 100)
  /\ patch.tasks # <<>>
  /\ createDynamicTasks(SubSeq(patch.tasks, 1, Min({slots, Len(patch.tasks)})), FALSE)
  /\ Resume

\* The planner fails, or returns nothing of use: a failed task stays as it is, an expansion
\* falls back to a patch of the runtime's own.
PlannerUseless ==
  LET fallback == createFallbackGraphPatch(FALSE, node[cur].key, DOMAIN tasksByKey)
  IN
  /\ pc = "planning" /\ edit = <<>>
  /\ IF wave[cur] = "done" /\ fallback # <<>>
     THEN createDynamicTasks(SubSeq(fallback, 1, Min({slots, Len(fallback)})), FALSE)
     ELSE UNCHANGED <<node, edge, tasksByKey, pending, expanded>>
  /\ Resume

\* The planner says that nothing is to be added: an expansion ends without a task.
PlannerStops ==
  /\ pc = "planning" /\ edit = <<>> /\ wave[cur] = "done"
  /\ validateGraphPatchSpec([Patch(<<>>) EXCEPT !.stop = TRUE], node[cur].key, DOMAIN tasksByKey,
                            slots, 100)
  /\ UNCHANGED <<node, edge, tasksByKey, pending, expanded>>
  /\ Resume

\* The planner asks the user: what is pending is blocked, the rest of the wave collected.
PlannerAsks ==
  /\ pc = "planning" /\ edit = <<>>
  /\ paused' = TRUE /\ pc' = "pausing"
  /\ todo' = {tasksByKey[k] : k \in pending}
  /\ UNCHANGED <<storeVars, plan, tasksByKey, pending, recorded, wave, doomed, hit, cur, slots,
                 expanded, limit, graphStatus>>

\* The end of blockRemaining: without a pause the loop is left, with one it goes on collecting.
RemainingBlocked ==
  /\ pc \in {"stopping", "pausing"} /\ edit = <<>>
  /\ Looked
  /\ recorded' = Record(DOMAIN hit, Blocked)
  /\ hit' = <<>>
  /\ IF pc = "pausing"
     THEN /\ pending' = {} /\ pc' = "collecting"
          /\ todo' = {i \in DOMAIN wave : i > cur}
     ELSE /\ pending' = pending \ {keyFor(i) : i \in DOMAIN hit} /\ pc' = "finishing"
          /\ todo' = {}
  /\ cur' = 0 /\ slots' = 0
  /\ UNCHANGED <<storeVars, plan, tasksByKey, wave, doomed, expanded, limit, paused, graphStatus>>

\* refreshTaskGraphStatuses, which looks at graphs that are pending or running only.
Return ==
  /\ pc = "finishing" /\ edit = <<>>
  /\ graphStatus' = graphStatusFromTasks
  /\ pc' = "done"
  /\ UNCHANGED <<storeVars, plan, tasksByKey, pending, recorded, wave, todo, doomed, hit, cur,
                 slots, expanded, limit, paused>>

\* Where the executor awaits something, so that a request of the user can be served.
Awaits ==
  \/ pc \in {"waiting", "planning", "done", "thrown"}
  \/ Writing

WaveNext == \E i \in DOMAIN wave : Launch(i) \/ Resolve(i) \/ Timeout(i)

PlannerNext ==
  \/ \E tasks \in Patches : Replan(tasks)
  \/ \E tasks \in Patches : Expand(tasks)
  \/ PlannerUseless
  \/ PlannerStops
  \/ PlannerAsks

ExecutorNext ==
  \/ Sync
  \/ LookForUnreachable
  \/ LookForRemaining
  \/ BlockTask
  \/ ReadBlocked
  \/ ChooseWave
  \/ WaveNext
  \/ AllBack
  \/ Collect
  \/ Collected
  \/ PlannerNext
  \/ RemainingBlocked
  \/ Return

\* The main process: the executor, and an edit that is begun.
MainNext == ExecutorNext \/ (EditStep /\ UNCHANGED exVars)

Next ==
  \/ WorkerNext /\ UNCHANGED exVars
  \/ Awaits /\ EditNext /\ UNCHANGED exVars
  \/ MainNext

Spec == Init /\ [][Next]_vars

\* Timers fire, the event loop serves every callback and ends an edit, a planner answers; the
\* workers may do nothing for ever.
FairSpec == Spec /\ WF_vars(MainNext)

-----------------------------------------------------------------------------
(* Properties.                                                             *)

Planned == {i \in Ids : node[i].origin # "manual"}

TypeOK ==
  /\ \A i \in Ids : node[i].status \in Statuses /\ node[i].origin \in {"plan", "patch", "manual"}
  /\ edge \subseteq [task : Ids, on : Ids, type : {"success", "finished"}]
  /\ releasing \subseteq Ids \X Ids
  /\ pc \in {"top", "blocking", "stopping", "pausing", "waiting", "collecting", "planning",
             "finishing", "done", "thrown"}
  /\ \A k \in DOMAIN tasksByKey : tasksByKey[k] \in Ids
  /\ pending \subseteq DOMAIN tasksByKey
  /\ DOMAIN recorded \subseteq Ids /\ DOMAIN wave \subseteq Ids
  /\ todo \subseteq Ids /\ DOMAIN hit \subseteq Ids /\ doomed \in Ids \union {0}
  /\ torn \subseteq touched /\ cut \subseteq touched
  /\ limit \in 1..MaxParallelTasks /\ cur \in Ids \union {0}

\* A task runs only after each task it needs the success of is done, whatever the user rewires
\* and whoever queues it, the executor or a worker that releases it (enqueueTask); the one
\* exception is a task queued while replaceTaskDependencies has deleted its dependencies and not
\* yet inserted the new ones.
StartedAfterDependencies ==
  \A e \in edge :
    e.type = "success" /\ node[e.task].status \in {"running", "done", "dead_letter"}
      /\ e.task \notin torn
    => node[e.on].status = "done"

\* The keys uniqueKey tries, and those of the tasks planners return.
MadeUpKeys ==
  {numberedKey(base, i) : base \in {"implementation", "verification"}, i \in 1..(MaxNodes + 2)}
PlannerKeys == MadeUpKeys \union (UNION {TaskKeys(tasks) : tasks \in Patches})

\* The user gives a new node no key that a planner, asked at the same time, gives a task.
KeysApart == NewKeys \intersect PlannerKeys = {}

\* The tasks the user sees can be put in an order in which each follows those it waits for, after
\* any edits and patches (assertNoDependencyCycle, validateGraphPatchSpec); the edges that link
\* new tasks to a materialization task are checked by nobody and left out. A task that an edit
\* deleted may be on a cycle: the checks look at what the user sees.
DependenciesAcyclic ==
  LET hard == {e \in edge : ~node[e.task].materialization}
  IN  ~HasCycle(Visible, [i \in Visible |-> {e.on : e \in {f \in hard : f.task = i}}])

\* The executor never loses a task of the planner: the key of a planned task that is not deleted
\* leads to that task, so that it is waited for and collected (syncExternalGraphNodes,
\* createDynamicTasks), whatever keys the user gives to nodes meanwhile.
PlannedKeysHeld == \A i \in Planned : node[i].deleted \/ tasksByKey[node[i].key] = i

\* Expansions and replans together keep the graph within the budget of dynamic tasks, as long as
\* the user adds none himself (availableSlots in expandTaskIfNeeded and replanTaskIfNeeded).
PlannedWithinBudget ==
  Cardinality(Planned) <= Max({MaxDynamicTasks, Len(plan.tasks)})

\* When execute returns, no task of the plan is left pending, to be picked up by nobody: it ran,
\* or it is blocked (blockUnreachable, blockRemaining). Tasks an edit reopened may be, and so may
\* any when execute throws, because a worker took a task that was about to be blocked.
NoPendingLeft ==
  pc = "done" => \A i \in Planned \ touched : node[i].status # "pending"

\* execute ends, whatever is deleted or rewired while it waits: the timer of a task ends each
\* wave (RoleAgentManager.waitForTask).
ExecutorReturns == <>(pc \in {"done", "thrown"})
=============================================================================
