------------------------------ MODULE PlanSpec ------------------------------
(***************************************************************************)
(* src/planning/PlanSpec.ts: the plans and graph patches a planner returns *)
(* or the runtime makes up, how they are normalised and what a valid one   *)
(* is. A task's texts, criteria and hints are left out; a goal is the       *)
(* set of the word groups it matches and the delivery level it names.      *)
(***************************************************************************)
EXTENDS Integers, Sequences, FiniteSets, SequencesExt

MaxTimeoutMs == 86400000    \* MAX_ROLE_TASK_TIMEOUT_MS
DefaultTimeoutMs == 30000   \* DEFAULT_PLAN_TASK_TIMEOUT_MS

NoKey == ""
Absent == ""   \* a permission mode that is not given
NoGoal == {"no goal"}

\* What /^[A-Za-z0-9._-]+$/ refuses, of the keys used here.
MalformedKeys == {"bad key", NoKey}

\* planTask: the fields that are not given take their defaults.
planTask(key, role, parentKey, dependsOn) ==
  [key |-> key, role |-> role, parentKey |-> parentKey, dependsOn |-> dependsOn,
   dependencyType |-> "success", timeoutMs |-> DefaultTimeoutMs, maxRetries |-> 1,
   wave |-> 1, expandable |-> FALSE, maxExpansionDepth |-> 0, permissionMode |-> Absent,
   materialization |-> FALSE]

PlanTask ==
  [key : STRING, role : STRING, parentKey : STRING, dependsOn : SUBSET STRING,
   dependencyType : {"success", "finished"}, timeoutMs : Int, maxRetries : Int, wave : Int,
   expandable : BOOLEAN, maxExpansionDepth : Int, permissionMode : STRING,
   materialization : BOOLEAN]

TaskKeys(tasks) == {tasks[i].key : i \in DOMAIN tasks}

\* base, base_2, base_3, ...
numberedKey(base, i) == IF i = 1 THEN base ELSE base \o "_" \o ToString(i)

\* The first of these that is not taken.
uniqueKey(base, existing) ==
  numberedKey(base, Min({i \in 1..(Cardinality(existing) + 1) : numberedKey(base, i) \notin existing}))

\* The first n of these are well-formed and told apart by their number.
NumberedApart(base, n) ==
  \A i, j \in 1..n :
    /\ numberedKey(base, i) \in STRING \ MalformedKeys
    /\ numberedKey(base, i) = numberedKey(base, j) => i = j

-----------------------------------------------------------------------------
(* What a goal's words say of the work.                                    *)

GoalWords == {"comparison", "research", "fix", "implementation", "design", "software",
              "broad", "subjects", "longOperation", "delivery", "area"}

\* A goal: the word groups it matches and the delivery level it names, if any.
assessTaskComplexity(words, level) ==
  LET has(w) == w \in words
      kind == CASE has("fix") -> "fix"
                [] ~has("fix") /\ has("comparison") -> "research_comparison"
                [] /\ words \intersect {"fix", "comparison"} = {}
                   /\ has("implementation") \/ (has("software") /\ has("design"))
                   -> "software_delivery"
                [] OTHER -> IF has("research") THEN "research" ELSE "general_execution"
      byKind == CASE kind = "software_delivery" -> IF has("implementation") THEN 5 ELSE 3
                  [] kind = "research_comparison" -> 5
                  [] kind = "research" -> 2
                  [] kind = "fix" -> 3
                  [] OTHER -> 0
      plus(cond, n) == IF cond THEN n ELSE 0
      \* "area": one of the words for a project, an application, a platform, an interface.
      total == 1 + byKind
               + plus(has("software") /\ words \intersect {"implementation", "comparison", "area"} # {}, 2)
               + plus(has("broad"), 2) + plus(has("subjects"), 2)
      nodes == Min({12, IF has("longOperation") THEN Max({total, 2}) ELSE total})
      class == IF has("longOperation") THEN "single_long_operation"
               ELSE IF nodes >= 5 \/ has("broad") THEN "many_nodes" ELSE "simple"
  IN  [kind |-> kind, class |-> class, nodes |-> nodes, longTask |-> class # "simple",
       askLevel |-> /\ kind = "software_delivery" /\ class # "simple"
                    /\ has("delivery") /\ level = "none"]

-----------------------------------------------------------------------------
(* The plans the runtime makes up itself.                                  *)

createFallbackPlanSpec(words, level, developer) ==
  LET long == assessTaskComplexity(words, level).longTask
      target == IF developer THEN "developer" ELSE "researcher"
      scope == planTask("scope", "researcher", NoKey, {})
      architecture == [planTask("architecture", "planner", "scope", {"scope"})
                         EXCEPT !.expandable = long, !.maxExpansionDepth = IF long THEN 3 ELSE 0]
      implementation == planTask("implementation", target, "architecture", {"architecture"})
      verification == [planTask("verification", "reviewer", "implementation", {"implementation"})
                         EXCEPT !.dependencyType = "finished"]
  IN  [goal |-> words, planningMode |-> IF long THEN "rolling" ELSE "single_wave",
       maxWaves |-> IF long THEN 12 ELSE 1, failureStrategy |-> "block_dependents",
       tasks |-> IF long THEN <<scope, architecture>>
                 ELSE <<scope, architecture, implementation, verification>>]

Leaf(key, role, dependsOn) == [key |-> key, role |-> role, dependsOn |-> dependsOn]

defineKey(key) == key \o "_define"
verifyKey(key) == key \o "_verify"

simpleTemplate(key, role) ==
  [key |-> key, role |-> role,
   leaves |-> <<Leaf(defineKey(key), role, {}),
                Leaf(verifyKey(key), "reviewer", {defineKey(key)})>>]

Module(key, role, leaves) == [key |-> key, role |-> role, leaves |-> leaves]

todoCliPlanningTemplates ==
  <<Module("requirements_scope", "planner",
      <<Leaf("requirements_core_flows", "researcher", {}),
        Leaf("requirements_poc_limits", "researcher", {})>>),
    Module("data_model", "developer",
      <<Leaf("data_model_todo_entity", "developer", {}),
        Leaf("data_model_storage_shape", "developer", {})>>),
    Module("cli_commands", "developer",
      <<Leaf("cli_add_list", "developer", {"data_model_storage_shape"}),
        Leaf("cli_complete_delete", "developer", {"data_model_todo_entity"})>>),
    Module("persistence", "developer",
      <<Leaf("persistence_load_save", "developer", {"data_model_storage_shape"}),
        Leaf("persistence_error_paths", "developer", {"persistence_load_save"})>>),
    Module("validation", "reviewer",
      <<Leaf("validation_manual_flow", "reviewer",
             {"cli_add_list", "cli_complete_delete", "persistence_load_save"}),
        Leaf("validation_storage_file", "reviewer", {"validation_manual_flow"})>>)>>

Chain(modules) == [i \in DOMAIN modules |-> simpleTemplate(modules[i][1], modules[i][2])]

\* The templates of the other goals are chains of simple ones; role: who does the work.
ChainedTemplates(name, role) ==
  CASE name = "comparison" ->
         Chain(<<<<"comparison_scope", "planner">>, <<"source_inventory", "researcher">>,
                 <<"subject_profiles", "researcher">>, <<"comparison_matrix", "researcher">>,
                 <<"synthesis_validation", "reviewer">>>>)
    [] name = "research" ->
         Chain(<<<<"research_questions", "researcher">>, <<"source_strategy", "researcher">>,
                 <<"synthesis", "researcher">>, <<"validation", "reviewer">>>>)
    [] name = "fix" ->
         Chain(<<<<"reproduce", "developer">>, <<"isolate", "developer">>,
                 <<"patch_plan", "developer">>, <<"regression_validation", "reviewer">>>>)
    [] name = "application" ->
         Chain(<<<<"requirements_scope", "planner">>, <<"domain_model", role>>,
                 <<"interface_surface", role>>, <<"implementation_slices", role>>,
                 <<"validation", "reviewer">>>>)
    [] name = "general" ->
         Chain(<<<<"scope", "planner">>, <<"workstreams", role>>,
                 <<"execution_leaves", role>>, <<"validation", "reviewer">>>>)

\* The keys of the modules of these chains.
ChainKeys ==
  {"comparison_scope", "source_inventory", "subject_profiles", "comparison_matrix",
   "synthesis_validation", "research_questions", "source_strategy", "synthesis", "validation",
   "reproduce", "isolate", "patch_plan", "regression_validation", "requirements_scope",
   "domain_model", "interface_surface", "implementation_slices", "scope", "workstreams",
   "execution_leaves"}

\* The keys made of them for their leaves are told apart, from each other and from the rest.
ASSUME LeafKeysApart ==
  \A k, l \in ChainKeys :
    /\ {defineKey(k), verifyKey(k)} \intersect (ChainKeys \union MalformedKeys \union {"goal"}) = {}
    /\ defineKey(k) # verifyKey(l)
    /\ defineKey(k) = defineKey(l) \/ verifyKey(k) = verifyKey(l) => k = l

\* "todo" and "product" are two more word groups of a goal. The level it names has no part.
planningTemplatesFor(words, developer) ==
  LET kind == assessTaskComplexity(words, "none").kind
      name == CASE kind = "research_comparison" -> "comparison"
                [] kind \in {"research", "fix"} -> kind
                [] OTHER -> IF "product" \in words THEN "application" ELSE "general"
  IN  IF "todo" \in words THEN todoCliPlanningTemplates
      ELSE ChainedTemplates(name, IF developer THEN "developer" ELSE "researcher")

\* Mutant: a leaf does not wait for its module.
MutModuleTasks(template, previous) ==
  <<planTask(template.key, template.role, "goal", {previous})>>
  \o [i \in DOMAIN template.leaves |->
        [planTask(template.leaves[i].key, template.leaves[i].role, template.key,
                  template.leaves[i].dependsOn) EXCEPT !.wave = 3]]

\* A module waits for the module before it, its leaves for the module.
ModuleTasks(template, previous) ==
  <<planTask(template.key, template.role, "goal", {previous})>>
  \o [i \in DOMAIN template.leaves |->
        [planTask(template.leaves[i].key, template.leaves[i].role, template.key,
                  {template.key} \union template.leaves[i].dependsOn) EXCEPT !.wave = 2]]

\* `words`: the goal of the plan it is seeded with, without the clause that asks to plan only.
createPlanningOnlyPlanSpec(words, developer) ==
  LET templates == planningTemplatesFor(words, developer)
      previous(i) == IF i = 1 THEN "goal" ELSE templates[i - 1].key
  IN  [goal |-> words, planningMode |-> "single_wave", maxWaves |-> 2,
       failureStrategy |-> "block_dependents",
       tasks |-> <<planTask("goal", "planner", NoKey, {})>>
                 \o FlattenSeq([i \in DOMAIN templates |-> ModuleTasks(templates[i], previous(i))])]

\* The expansion used when the planner's patch is of no use; only the task "architecture" has one.
createFallbackGraphPatch(researchLike, parentKey, existing) ==
  LET base == IF researchLike THEN "research_slice" ELSE "implementation"
      leaf == uniqueKey(base, existing)
      check == uniqueKey("verification", existing \union {leaf})
  IN  IF parentKey # "architecture" THEN <<>>
      ELSE <<[planTask(leaf, IF researchLike THEN "researcher" ELSE "developer", parentKey, {parentKey})
                EXCEPT !.wave = 2],
             [planTask(check, "reviewer", leaf, {leaf})
                EXCEPT !.wave = 2, !.dependencyType = "finished"]>>

-----------------------------------------------------------------------------
(* Normalisation of what a planner returned.                               *)

\* A field that is missing is no number, and so out of every range.
boundedInteger(value, fallback, min, max) == IF value \in min..max THEN value ELSE fallback

\* A raw task leaves fields out; a task without a key is named by its place.
normalizeTaskSpec(raw, index, defaultParentKey) ==
  [key |-> IF raw.key = NoKey THEN "task_" \o ToString(index) ELSE raw.key,
   role |-> IF raw.role = "" THEN "developer" ELSE raw.role,
   parentKey |-> IF raw.parentKey = NoKey THEN defaultParentKey ELSE raw.parentKey,
   dependsOn |-> raw.dependsOn,
   dependencyType |-> IF raw.dependencyType = "finished" THEN "finished" ELSE "success",
   timeoutMs |-> boundedInteger(raw.timeoutMs, DefaultTimeoutMs, 1000, MaxTimeoutMs),
   maxRetries |-> boundedInteger(raw.maxRetries, 1, 0, 5),
   wave |-> boundedInteger(raw.wave, 1, 1, 100),
   expandable |-> raw.expandable,
   maxExpansionDepth |-> boundedInteger(raw.maxExpansionDepth, 0, 0, 20),
   permissionMode |-> raw.permissionMode,
   materialization |-> raw.materialization]

normalizePlanSpec(raw) ==
  [goal |-> raw.goal,
   planningMode |-> IF raw.planningMode = "rolling" THEN "rolling" ELSE "single_wave",
   maxWaves |-> boundedInteger(raw.maxWaves, 1, 1, 100),
   failureStrategy |-> IF raw.failureStrategy \in {"fail_graph", "block_dependents", "replan"}
                       THEN raw.failureStrategy ELSE "block_dependents",
   tasks |-> [i \in DOMAIN raw.tasks |-> normalizeTaskSpec(raw.tasks[i], i, NoKey)]]

\* The forms of text a JSON value is found in: alone, in a fence, or between other words.
ReadableForms == {"bare", "fenced", "embedded"}

\* The layers a planner's value is wrapped in, outermost first: objects with a `content`
\* text, and at last a plan or an object with one as its field.
planSourceFrom(layers) ==
  /\ layers # <<>>
  /\ \A i \in 1..(Len(layers) - 1) : layers[i] = "content"
  /\ layers[Len(layers)] \in {"plan", "plan_field"}

parsePlanSpec(raw) ==
  /\ raw.form \in ReadableForms /\ planSourceFrom(raw.layers)
  /\ raw.goal # NoGoal /\ raw.tasks # <<>>

-----------------------------------------------------------------------------
(* Validity.                                                               *)

\* The last task with a key is the one a Map of the tasks holds.
ByKey(tasks, k) == tasks[Max({i \in DOMAIN tasks : tasks[i].key = k})]

\* Take away, again and again, the keys that point at none of those left: what stays is on
\* a cycle or leads to one.
HasCycle(keys, pointsAt) ==
  LET n == Cardinality(keys)
      left[i \in 0..n] ==
        IF i = 0 THEN keys
        ELSE LET before == left[i - 1] IN {k \in before : pointsAt[k] \intersect before # {}}
  IN  left[n] # {}

\* The keys that start leads to, itself among them.
ReachedFrom(start, keys, pointsAt) ==
  LET n == Cardinality(keys)
      reached[i \in 0..n] ==
        IF i = 0 THEN {start}
        ELSE LET before == reached[i - 1]
             IN  before \union ((UNION {pointsAt[k] : k \in before}) \intersect keys)
  IN  reached[n]

detectCycles(tasks) ==
  HasCycle(TaskKeys(tasks), [k \in TaskKeys(tasks) |-> ByKey(tasks, k).dependsOn])

validateParentHierarchy(tasks, external) ==
  /\ \A i \in DOMAIN tasks :
       tasks[i].parentKey # NoKey =>
         /\ tasks[i].parentKey # tasks[i].key
         /\ tasks[i].parentKey \in TaskKeys(tasks) \union external
  /\ ~HasCycle(TaskKeys(tasks), [k \in TaskKeys(tasks) |-> {ByKey(tasks, k).parentKey}])

\* The range checks, common to plans and patches.
TaskFieldsValid(task, maxWave) ==
  /\ task.key \notin MalformedKeys /\ task.role \notin MalformedKeys
  /\ task.timeoutMs \in 1000..MaxTimeoutMs
  /\ task.maxRetries \in 0..5
  /\ task.wave \in 1..maxWave
  /\ task.maxExpansionDepth \in 0..20

DependenciesKnown(tasks, keys) ==
  \A i \in DOMAIN tasks : tasks[i].dependsOn \subseteq keys \ {tasks[i].key}

KeysDistinct(tasks) == \A i, j \in DOMAIN tasks : tasks[i].key = tasks[j].key => i = j

validatePlanSpec(plan) ==
  /\ plan.maxWaves \in 1..100
  /\ plan.tasks # <<>>
  /\ KeysDistinct(plan.tasks)
  /\ \A i \in DOMAIN plan.tasks : TaskFieldsValid(plan.tasks[i], plan.maxWaves)
  /\ DependenciesKnown(plan.tasks, TaskKeys(plan.tasks))
  /\ ~detectCycles(plan.tasks)
  /\ validateParentHierarchy(plan.tasks, {})

\* Mutant: the keys of the graph may be used again.
MutValidateGraphPatchSpec(patch, parentKey, existing, maxTasks, maxWave) ==
  /\ Len(patch.tasks) <= maxTasks
  /\ KeysDistinct(patch.tasks)
  /\ DependenciesKnown(patch.tasks, existing \union TaskKeys(patch.tasks))
  /\ ~detectCycles(patch.tasks)

\* A patch: `tasks`, `stop`, `ask` (needsUserInput), `questions` (whether there are any).
validateGraphPatchSpec(patch, parentKey, existing, maxTasks, maxWave) ==
  /\ patch.parentKey = parentKey
  /\ Len(patch.tasks) <= maxTasks
  /\ patch.stop => patch.tasks = <<>>
  /\ patch.ask => patch.questions
  /\ KeysDistinct(patch.tasks)
  /\ TaskKeys(patch.tasks) \intersect existing = {}
  /\ \A i \in DOMAIN patch.tasks : TaskFieldsValid(patch.tasks[i], maxWave)
  /\ DependenciesKnown(patch.tasks, existing \union TaskKeys(patch.tasks))
  /\ ~detectCycles(patch.tasks)
  /\ validateParentHierarchy(patch.tasks, existing \union {parentKey})

\* No task waits for itself, but through a materialization task.
WorkAcyclic(tasks) ==
  ~HasCycle(DOMAIN tasks,
            [i \in DOMAIN tasks |->
               IF tasks[i].materialization THEN {}
               ELSE {j \in DOMAIN tasks : tasks[j].key \in tasks[i].dependsOn}])
=============================================================================
