------------------------------- MODULE MCPlans -------------------------------
(* What users and planners ask of PlanPipeline in the instance TLC checks. *)
EXTENDS PlanTransforms

MCGoals == {{}, {"fix"}, {"research"}, {"comparison", "software"}, {"design", "software"},
            {"implementation", "broad", "delivery"}, {"implementation", "todo"},
            {"implementation", "product", "subjects"}, {"research", "longOperation"}}

MCRequests ==
  [words : MCGoals, level : {"none", "poc"}, rules : {{}, {"developer", "reviewer"}},
   source : BOOLEAN, writes : BOOLEAN, minimum : {0, 3, 6}, planOnly : BOOLEAN,
   mode : {"read_only", "workspace_write", "danger_full_access"}]

RawTask(key, role, dependsOn) ==
  [key |-> key, role |-> role, parentKey |-> NoKey, dependsOn |-> dependsOn,
   dependencyType |-> "success", timeoutMs |-> 0, maxRetries |-> 9, wave |-> 1,
   expandable |-> FALSE, maxExpansionDepth |-> 30, permissionMode |-> Absent,
   materialization |-> FALSE]

RawPlan(tasks, asked) ==
  [goal |-> {"implementation", "todo"}, form |-> "fenced", layers |-> <<"content", "plan">>,
   planningMode |-> "rolling", maxWaves |-> 3, failureStrategy |-> "replan",
   tasks |-> tasks, asks |-> asked]

Build  == RawTask("build", "", {})
Check  == RawTask("check", "reviewer", {"build"})
Polish == [RawTask("polish", "developer", {"check"}) EXCEPT !.permissionMode = "danger_full_access"]
Taken  == [RawTask("requested_node_1", "developer", {}) EXCEPT !.permissionMode = "read_only"]
Final  == [RawTask("final_materialization", "reviewer", {"build"}) EXCEPT !.wave = 9]

\* Plans a planner may return: good ones, one in which work follows a review, one with a key
\* the runtime uses itself, a late wave, a loop, a key twice, no tasks, no goal.
MCRawPlans ==
  {RawPlan(<<Build>>, "no"), RawPlan(<<Build, Check>>, "sources"), RawPlan(<<Build, Check>>, "other"),
   RawPlan(<<Build, Check, Polish>>, "no"), RawPlan(<<Taken, RawTask("", "developer", {})>>, "no"),
   RawPlan(<<Build, [Final EXCEPT !.wave = 3]>>, "no"), RawPlan(<<Build, Final>>, "no"),
   RawPlan(<<Build, Check, RawTask("final_materialization", "reviewer", {"check"})>>, "no"),
   RawPlan(<<RawTask("final_materialization", "developer", {}),
             RawTask("publish", "developer", {"final_materialization"})>>, "no"),
   RawPlan(<<RawTask("final_materialization", "developer", {}), Build>>, "no"),
   RawPlan(<<[Build EXCEPT !.materialization = TRUE], Check,
             RawTask("publish", "developer", {"build"})>>, "no"),
   RawPlan(<<RawTask("build", "developer", {"check"}), Check>>, "no"),
   RawPlan(<<RawTask("a", "developer", {"b"}), RawTask("b", "developer", {"c"}),
             RawTask("c", "developer", {"a"})>>, "no"),
   RawPlan(<<Build, Build>>, "no"), RawPlan(<<>>, "no"),
   [RawPlan(<<Build>>, "no") EXCEPT !.form = "prose"],
   [RawPlan(<<Build>>, "no") EXCEPT !.goal = NoGoal],
   [RawPlan(<<Build>>, "no") EXCEPT !.goal = {"fix"}],
   [RawPlan(<<Build>>, "no") EXCEPT !.layers = <<"content", "other">>]}
=============================================================================
