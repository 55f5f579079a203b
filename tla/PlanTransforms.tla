--------------------------- MODULE PlanTransforms ---------------------------
(***************************************************************************)
(* What the main agent does to a plan before it becomes a task graph:      *)
(* planning/MinimumTaskNodes.ts, planning/ArtifactMaterialization.ts and   *)
(* tasks/TaskPermissions.ts. What the request's text says is a parameter.  *)
(***************************************************************************)
EXTENDS PlanSpec

IsReviewer(task) == task.role = "reviewer"

KeyOfFirst(tasks, Test(_)) ==
  LET hits == {i \in DOMAIN tasks : Test(tasks[i])}
  IN  IF hits = {} THEN NoKey ELSE tasks[Min(hits)].key

\* The first of the preferred keys that an eligible task has, else the first suitable task.
PreferredParent(tasks, preferred, Eligible(_), Suits(_)) ==
  LET held == {i \in DOMAIN preferred :
                 \E j \in DOMAIN tasks : tasks[j].key = preferred[i] /\ Eligible(tasks[j])}
  IN  IF held # {} THEN preferred[Min(held)] ELSE KeyOfFirst(tasks, Suits)

MaxRequestedTaskNodes == 50   \* MAX_REQUESTED_TASK_NODES

\* The number a request asks for ("at least n tasks"), 0 when it asks for none.
requestedMinimumTaskNodes(n) == Min({n, MaxRequestedTaskNodes})

requestedNodeKey(i) == "requested_node_" \o ToString(i)

\* Next to n tasks of a plan, no two supplemental tasks can be given the same key.
SupplementalApart(n) ==
  \A i, k \in 1..MaxRequestedTaskNodes : \A j, l \in 1..(n + 1) :
    /\ numberedKey(requestedNodeKey(i), j) \in STRING \ MalformedKeys
    /\ numberedKey(requestedNodeKey(i), j) = numberedKey(requestedNodeKey(k), l) => i = k /\ j = l

\* Nor is a key made up twice when a plan of n tasks is rewritten.
MadeUpKeysApart(n) ==
  /\ SupplementalApart(n)
  /\ NumberedApart("final_materialization", n + MaxRequestedTaskNodes + 1)

\* Mutant: the new keys are not checked against the plan's.
MutSupplementalKeys(existing, n) == {requestedNodeKey(i) : i \in 1..n}

\* The keys of n supplemental tasks; each base key is one of its own, so that a plan's key
\* is all it can collide with.
SupplementalKeys(existing, n) == {uniqueKey(requestedNodeKey(i), existing) : i \in 1..n}

ensureMinimumTaskNodePlan(plan, requested) ==
  LET tasks == plan.tasks
      minimum == requestedMinimumTaskNodes(requested)
      Worker(t) == ~IsReviewer(t) /\ ~t.materialization
      anchor == PreferredParent(tasks,
                  <<"implementation_slices", "interface_surface", "architecture", "domain_model",
                    "requirements_scope", "scope", "goal">>, Worker, Worker)
      wave == Min({Max({2} \union {tasks[i].wave : i \in DOMAIN tasks}), Max({plan.maxWaves, 2})})
      node(key) == [planTask(key, "developer", anchor, {anchor} \ {NoKey}) EXCEPT !.wave = wave]
      keys == SetToSeq(SupplementalKeys(TaskKeys(tasks), minimum - Len(tasks)))
  IN  IF Len(tasks) >= minimum THEN plan
      ELSE [plan EXCEPT !.maxWaves = Max({@, wave}),
                        !.tasks = @ \o [i \in DOMAIN keys |-> node(keys[i])]]

\* The place of the task that is to write the requested files, 0 when no task is marked.
existingIndex(tasks) ==
  LET marked == {i \in DOMAIN tasks :
                   tasks[i].key = "final_materialization" \/ tasks[i].materialization}
  IN  IF marked = {} THEN 0 ELSE Min(marked)

\* The task that writes the requested files, which waits for every task but the reviewers'.
materializationTask(plan, finalKey, existing) ==
  LET tasks == plan.tasks
      base == IF existing = 0 THEN planTask(finalKey, "developer", NoKey, {}) ELSE tasks[existing]
      others == {tasks[i].key : i \in {j \in DOMAIN tasks : ~IsReviewer(tasks[j])}}
      parent == PreferredParent(tasks,
                  <<"implementation_slices", "implementation", "interface_surface", "architecture",
                    "scope", "goal">>,
                  LAMBDA t : t.key # finalKey, LAMBDA t : t.key # finalKey /\ ~IsReviewer(t))
      top == Max({base.wave} \union {tasks[i].wave : i \in DOMAIN tasks})
  IN  [base EXCEPT !.role = "developer", !.dependencyType = "finished",
                   !.parentKey = IF @ = NoKey THEN parent ELSE @,
                   !.dependsOn = (@ \union others) \ {finalKey},
                   !.maxRetries = Max({@, 1}),
                   !.wave = IF existing = 0 THEN top + 1 ELSE top,
                   !.expandable = FALSE, !.maxExpansionDepth = 0, !.materialization = TRUE,
                   !.permissionMode = IF @ = Absent THEN "danger_full_access" ELSE @]

\* Every reviewer waits for the final task, and nobody looks at the plan again.
ensureArtifactMaterializationPlan(plan, required) ==
  LET tasks == plan.tasks
      existing == existingIndex(tasks)
      finalKey == IF existing = 0 THEN uniqueKey("final_materialization", TaskKeys(tasks))
                  ELSE tasks[existing].key
      final == materializationTask(plan, finalKey, existing)
      placed == IF existing = 0 THEN Append(tasks, final) ELSE [tasks EXCEPT ![existing] = final]
      review(t) == IF t.key = finalKey \/ ~IsReviewer(t) THEN t
                   ELSE [t EXCEPT !.dependsOn = (@ \union {finalKey}) \ {t.key}]
  IN  IF ~required THEN plan
      ELSE [plan EXCEPT !.maxWaves = Max({@, final.wave}),
                        !.tasks = [i \in DOMAIN placed |-> review(placed[i])]]

-----------------------------------------------------------------------------
(* Permission modes (tools/PermissionMode.ts, tasks/TaskPermissions.ts).   *)

PermissionModes == <<"read_only", "workspace_write", "danger_full_access">>

Rank(mode) == CHOOSE i \in DOMAIN PermissionModes : PermissionModes[i] = mode

\* An unknown mode, or none, is the fallback.
parsePermissionMode(value, fallback) ==
  IF value \in ToSet(PermissionModes) THEN value ELSE fallback

clampPermissionMode(requested, inherited) ==
  LET asked == parsePermissionMode(requested, inherited)
  IN  IF Rank(asked) <= Rank(inherited) THEN asked ELSE inherited

\* Mutant: a task that must write may write whatever the run allows.
MutGraphTaskPermissionMode(writes, requested, inherited) ==
  LET mode == clampPermissionMode(requested, parsePermissionMode(inherited, "workspace_write"))
  IN  IF mode = "read_only" /\ writes THEN "workspace_write" ELSE mode

\* `writes`: needsWorkspaceWrite, a developer's task with files to write.
graphTaskPermissionMode(writes, requested, inherited) ==
  LET top == parsePermissionMode(inherited, "workspace_write")
      mode == clampPermissionMode(requested, top)
  IN  IF top # "read_only" /\ mode = "read_only" /\ writes THEN "workspace_write" ELSE mode
=============================================================================
