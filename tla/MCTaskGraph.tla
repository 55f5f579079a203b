----------------------------- MODULE MCTaskGraph -----------------------------
(* A small instance of TaskGraphExecutor for TLC. *)
EXTENDS TaskGraphExecutor

Task(key, dependsOn) == planTask(key, "developer", NoKey, dependsOn)

\* A task that may be expanded, with another after it.
Rolling == [tasks |-> <<[Task("a", {}) EXCEPT !.expandable = TRUE, !.maxExpansionDepth = 1],
                        Task("b", {"a"})>>,
            rolling |-> TRUE, replan |-> FALSE, production |-> FALSE]

\* Tasks of which one may fail and be replanned, and the artifacts put together at the end.
Final == [planTask("final", "developer", NoKey, {"a"})
            EXCEPT !.dependencyType = "finished", !.materialization = TRUE]
Replanned == [tasks |-> <<Task("a", {}), Final>>, rolling |-> FALSE, replan |-> TRUE,
              production |-> TRUE]

\* Work side by side, and a step that needs both.
Joined == [tasks |-> <<Task("a", {}), Task("b", {}), Task("c", {"a", "b"})>>,
           rolling |-> FALSE, replan |-> FALSE, production |-> FALSE]

MCPlans == {Rolling, Replanned, Joined}

\* A patch of two tasks, and one of a task whose key the graph may have.
MCPatches == {<<Task("p", {}), Task("q", {"p"})>>, <<Task("b", {})>>}

\* What the theorem on cycles supposes.
ASSUME KeysApart
=============================================================================
