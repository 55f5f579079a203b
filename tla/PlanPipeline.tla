---------------------------- MODULE PlanPipeline ----------------------------
(***************************************************************************)
(* MainAgent.delegateTasks up to the executor: a request is routed, the    *)
(* planner's answer is parsed, validated or replaced, may pause the run,   *)
(* and is rewritten into the task graph the executor gets.                 *)
(***************************************************************************)
EXTENDS PlanTransforms

CONSTANTS
  Requests,   \* the requests explored: see Request
  RawPlans    \* the planner's answers explored, before normalisation

VARIABLES
  request,    \* [words, level, rules, source, writes, minimum, planOnly, mode]
  plan,       \* the plan held by delegateTasks, before it is rewritten for execution
  origin,     \* who made it: "none", "planner", "fallback" or "draft"
  asks,       \* clarificationRequired: "no", "sources" or "other"
  step,       \* where delegateTasks is
  graph       \* the rows of the task graph it created

vars == <<request, plan, origin, asks, step, graph>>

\* The roles the router selects: `rules` are the route rules whose words the request uses.
route(words, level, rules) ==
  LET kind == assessTaskComplexity(words, level).kind
      researchOnly == kind \in {"research_comparison", "research"}
      implied == IF kind \in {"software_delivery", "fix"} THEN {"developer"} ELSE {}
      matched == (rules \ {"reviewer", "memory-curator"})
                 \ (IF researchOnly THEN {"developer"} ELSE {})
      chosen == implied \union matched
  IN  {"planner"} \union (IF chosen = {} THEN {"researcher"} ELSE chosen)

WithDeveloper == "developer" \in route(request.words, request.level, request.rules)

Fallback == createFallbackPlanSpec(request.words, request.level, WithDeveloper)

\* `source`: the request names where to look, or asks for a search.
shouldOverridePlannerClarification ==
  /\ assessTaskComplexity(request.words, request.level).kind \in {"research_comparison", "research"}
  /\ request.source
  /\ asks = "sources"

\* roleTaskTimeoutMs, at its default: the time a task has when its plan gives it less.
RoleTaskTimeoutMs == 3600000

roleTaskExecutionTimeoutMs(value) == Min({MaxTimeoutMs, Max({RoleTaskTimeoutMs, value})})

\* The row of a task, whose mode is narrowed to the run's.
TaskRow(task) ==
  [key |-> task.key, role |-> task.role, parentKey |-> task.parentKey,
   dependsOn |-> task.dependsOn, dependencyType |-> task.dependencyType,
   timeoutMs |-> roleTaskExecutionTimeoutMs(task.timeoutMs),
   maxRetries |-> task.maxRetries, wave |-> task.wave, expandable |-> task.expandable, maxExpansionDepth |-> task.maxExpansionDepth,
   permissionMode |->
     graphTaskPermissionMode(
       task.role = "developer" /\ (task.materialization \/ request.writes),
       task.permissionMode, request.mode)]

\* The rows created for a plan.
createTaskGraphFromPlan(p) == [i \in DOMAIN p.tasks |-> TaskRow(p.tasks[i])]

Init ==
  /\ request \in Requests
  /\ plan = Fallback /\ origin = "none" /\ asks = "no"
  /\ step = "planning" /\ graph = <<>>

\* The planner's task is not done: the fallback plan is reported, and nothing of it is run.
PlannerFails ==
  /\ step = "planning"
  /\ step' = "returned" /\ origin' = "fallback"
  /\ UNCHANGED <<request, plan, asks, graph>>

PlannerAnswers(raw) ==
  LET usable == parsePlanSpec(raw) /\ validatePlanSpec(normalizePlanSpec(raw))
  IN  /\ step = "planning"
      /\ plan' = IF usable THEN normalizePlanSpec(raw) ELSE Fallback
      /\ origin' = IF usable THEN "planner" ELSE "fallback"
      /\ asks' = IF usable THEN raw.asks ELSE "no"
      /\ step' = "planned"
      /\ UNCHANGED <<request, graph>>

OverrideClarification ==
  /\ step = "planned" /\ asks # "no"
  /\ shouldOverridePlannerClarification
  /\ plan' = Fallback /\ origin' = "fallback" /\ asks' = "no"
  /\ UNCHANGED <<request, step, graph>>

Pause ==
  /\ step = "planned" /\ asks # "no"
  /\ ~shouldOverridePlannerClarification
  /\ step' = "paused"
  /\ UNCHANGED <<request, plan, origin, asks, graph>>

\* A request to plan only: the graph is made of the templates for the goal of the plan, and
\* left pending. normalizePlanningGoal cuts off the clause that asks for no more than a plan,
\* if the goal has it, with the words in it.
DraftGraph ==
  /\ step = "planned" /\ asks = "no" /\ request.planOnly
  /\ \E words \in SUBSET plan.goal : plan' = createPlanningOnlyPlanSpec(words, WithDeveloper)
  /\ origin' = "draft" /\ step' = "draft"
  /\ graph' = createTaskGraphFromPlan(plan')
  /\ UNCHANGED <<request, asks>>

BuildGraph ==
  /\ step = "planned" /\ asks = "no" /\ ~request.planOnly
  /\ graph' = createTaskGraphFromPlan(
                ensureArtifactMaterializationPlan(
                  ensureMinimumTaskNodePlan(plan, request.minimum), request.writes))
  /\ step' = "executing"
  /\ UNCHANGED <<request, plan, origin, asks>>

Next ==
  \/ PlannerFails
  \/ \E raw \in RawPlans : PlannerAnswers(raw)
  \/ OverrideClarification
  \/ Pause
  \/ DraftGraph
  \/ BuildGraph

Spec == Init /\ [][Next]_vars

-----------------------------------------------------------------------------
(* Properties.                                                             *)

\* The plan that is paused on, reported or rewritten passes validatePlanSpec, whoever made it:
\* the fallback and the planning-only templates are never validated by the code
\* (MainAgent.ts 565, 582, 618), and a field that normalisation let through could be out of
\* the range validation accepts.
PlansAreValid == validatePlanSpec(plan)

\* createTaskGraph finds every dependency it is asked for and no two rows of a graph share a
\* key, after nodes were added to reach the number the request asked for; TaskGraph.ts 54
\* would throw in the middle of creating the graph.
GraphsCanBeCreated ==
  graph # <<>> =>
    /\ KeysDistinct(graph)
    /\ DependenciesKnown(graph, TaskKeys(graph))
    /\ step = "executing" => Len(graph) >= requestedMinimumTaskNodes(request.minimum)

\* README.md:25 and :414 call the task graph of a run a DAG. The executed one is, except when
\* the request names files to write and the plan, with the nodes added to it, lets a task that
\* is not a reviewer's wait for a reviewer's or for the task that writes the files: that task
\* is made to wait for all work and every reviewer for it, and the plan is not validated again
\* (ArtifactMaterialization.ts 32-59, MainAgent.ts 647). No task on the cycle is ever ready, and
\* the executor blocks them all (TaskGraphExecutor.ts 167-182). The planner marks that task by
\* its key or in its metadata; under the key alone it may be what the added nodes wait for.
CycleExactlyFromReviewedWork ==
  LET tasks == ensureMinimumTaskNodePlan(plan, request.minimum).tasks
      Final(i) == i = existingIndex(tasks)
      Misplaced == \E i, j \in DOMAIN tasks :
                     /\ ~IsReviewer(tasks[i]) \/ Final(i)
                     /\ IsReviewer(tasks[j]) \/ Final(j)
                     /\ tasks[j].key \in tasks[i].dependsOn
  IN  step = "executing" => (detectCycles(graph) <=> request.writes /\ Misplaced)

\* No task of a graph may do more than the run it belongs to, whatever the planner asked for
\* it and whatever it has to write (TaskPermissions.ts 13-23).
TasksWithinRunMode ==
  \A i \in DOMAIN graph : Rank(graph[i].permissionMode) <= Rank(request.mode)
=============================================================================
