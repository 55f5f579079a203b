----------------------------- MODULE GraphStore -----------------------------
(***************************************************************************)
(* The rows of one task graph in the task store, the worker processes that *)
(* run its tasks, and the edits of a user (tasks/TaskMindMap.ts). The main *)
(* process runs an edit without interruption; a worker may write between   *)
(* any two of its statements. How one row changes is TaskStore's subject:  *)
(* here a transition is one step, and the failures that are retried are    *)
(* left out: a task fails for good, as dead_letter.                        *)
(***************************************************************************)
EXTENDS PlanSpec

CONSTANTS
  MaxNodes,   \* how many rows the graph may have: bounds the edits and the patches
  MaxEdits,   \* how many edits the user makes
  NewKeys     \* the keys the user gives new nodes

VARIABLES
  node,       \* the rows in order of creation; a task's id is its index
  edge,       \* task_dependencies: [task, on, type]
  releasing,  \* <<finished task, dependent>> a worker has yet to look at
  edit,       \* what is left of the edit in progress, in the main process
  cut,        \* the tasks whose dependencies are deleted and not inserted again yet
  torn,       \* history: the tasks queued while they were in cut
  touched,    \* history: the tasks an edit has changed
  edits       \* how many edits were begun

storeVars == <<node, edge, releasing, edit, cut, torn, touched, edits>>

Ids == DOMAIN node
Statuses == {"pending", "queued", "running", "done", "dead_letter", "blocked", "cancelled"}
Terminal == {"done", "dead_letter", "blocked", "cancelled"}
EDITABLE_STATUSES == {"pending", "blocked"}
ADDABLE_STATUSES == {"pending", "blocked", "done"}

\* spec: a planTask record; origin: "plan", "patch" or "manual"; from: the failed task that a
\* replan replaces, or 0.
createTask(spec, origin, depth, from) ==
  [key |-> spec.key, parent |-> spec.parentKey, role |-> spec.role,
   expandable |-> spec.expandable, maxDepth |-> spec.maxExpansionDepth, depth |-> depth,
   materialization |-> spec.materialization, origin |-> origin,
   from |-> from, status |-> "pending", deleted |-> FALSE, superseded |-> FALSE]

\* INSERT OR IGNORE: the primary key is (task, on), and the type that is there stays.
addTaskDependency(edges, new) ==
  edges \union {e \in new : ~\E f \in edges : f.task = e.task /\ f.on = e.on}

Dependencies(i) == {e \in edge : e.task = i}

\* Mutant: any terminal status satisfies a dependency.
MutDependenciesSatisfied(i) == \A e \in Dependencies(i) : node[e.on].status \in Terminal

dependenciesSatisfied(i) ==
  \A e \in Dependencies(i) :
    node[e.on].status \in (IF e.type = "finished" THEN Terminal ELSE {"done"})

\* enqueueTask: what it makes of a status, for a task whose dependencies are satisfied.
Enqueueable == {"pending", "queued", "blocked"}

SetStatus(ids, status) ==
  [i \in Ids |-> IF i \in ids THEN [node[i] EXCEPT !.status = status] ELSE node[i]]

-----------------------------------------------------------------------------
(* Worker processes.                                                       *)

Claim(i) ==
  /\ node[i].status = "queued"
  /\ node' = SetStatus({i}, "running")
  /\ UNCHANGED <<edge, releasing, edit, cut, torn, touched, edits>>

\* finishTask or failTask, and the SELECT of the dependents with which the release begins.
Finish(i, status) ==
  /\ node[i].status = "running"
  /\ node' = SetStatus({i}, status)
  /\ releasing' = releasing \union
       {<<i, e.task>> : e \in {f \in edge : f.on = i /\ node[f.task].status \in EDITABLE_STATUSES}}
  /\ UNCHANGED <<edge, edit, cut, torn, touched, edits>>

\* One turn of the loop of releaseReadyDependents: a dependent that has been started or
\* cancelled since makes enqueueTask throw, and the rest of the loop is lost.
ReleaseOne(p) ==
  LET i == p[2] IN
  /\ p \in releasing
  /\ CASE ~dependenciesSatisfied(i) ->
            releasing' = releasing \ {p} /\ UNCHANGED <<node, torn>>
       [] dependenciesSatisfied(i) /\ node[i].status \in Enqueueable ->
            /\ releasing' = releasing \ {p}
            /\ node' = SetStatus({i}, "queued")
            /\ torn' = IF i \in cut THEN torn \union {i} ELSE torn
       [] OTHER ->
            releasing' = {q \in releasing : q[1] # p[1]} /\ UNCHANGED <<node, torn>>
  /\ UNCHANGED <<edge, edit, cut, touched, edits>>

-----------------------------------------------------------------------------
(* The mind map of the graph, and its edits.                               *)

Visible == {i \in Ids : ~node[i].deleted}
Editable(i) == node[i].status \in EDITABLE_STATUSES

\* The first visible node with a key.
resolveNode(key) == Min({i \in Visible : node[i].key = key})
Selectable == {i \in Visible : resolveNode(node[i].key) = i}

FromKeys(i) == {node[e.on].key : e \in {f \in Dependencies(i) : f.on \in Visible}}

HasParent(i) == \E j \in Visible : node[j].key = node[i].parent
ParentId(i) == resolveNode(node[i].parent)

\* The node and what is below it: the least set with the node and the children of its members.
collectSubtree(root) ==
  LET closed(S) == root \in S /\ \A i \in Visible : HasParent(i) /\ ParentId(i) \in S => i \in S
  IN  {i \in Ids : \A S \in SUBSET Ids : closed(S) => i \in S}

\* Mutant: only the node's own new dependencies are looked at.
MutDependencyCycle(target, next) == target \in next

\* Whether target, if it waited for the nodes with keys next, would be on a cycle or lead to one.
DependencyCycle(target, next) ==
  LET keys == {node[i].key : i \in Visible} \union {target}
      pointsAt == [k \in keys |->
                     IF k = target THEN next ELSE FromKeys(Max({i \in Visible : node[i].key = k}))]
  IN  HasCycle(ReachedFrom(target, keys, pointsAt), pointsAt)

\* An edit is compiled into operations: rewire a node to the nodes with keys `next`, insert its
\* edges to the nodes `on`, remove the nodes `ids`.
Operation(op, ids, next, on, type) ==
  [op |-> op, ids |-> ids, next |-> next, on |-> on, type |-> type]
Rewire(i, next, type) == Operation("rewire", {i}, next, {}, type)
Insertion(i, on, type) == Operation("insert", {i}, {}, on, type)
Removal(ids) == Operation("remove", ids, {}, {}, "success")

\* No edit is in progress, and the user may make one more.
MayEdit == edit = <<>> /\ edits < MaxEdits

\* The row of a new node under parent; it waits for the nodes with keys next.
WithNewNode(key, parent, role, next) ==
  LET id == Len(node) + 1 IN
  /\ Len(node) < MaxNodes
  /\ key \notin {node[i].key : i \in Visible}
  /\ node[parent].status \in ADDABLE_STATUSES
  /\ ~DependencyCycle(key, next)
  /\ node' = Append(node, createTask(planTask(key, role, node[parent].key, next), "manual", 0, 0))
  /\ edge' = addTaskDependency(edge,
               {[task |-> id, on |-> resolveNode(k), type |-> "success"] : k \in next})
  /\ touched' = touched \union {id}

\* The node waits for its parent, or for another node the user names.
addTaskMindMapNode(parent, key, next) ==
  /\ MayEdit
  /\ WithNewNode(key, parent, "developer", next)
  /\ edits' = edits + 1
  /\ UNCHANGED <<releasing, edit, cut, torn>>

\* The new node takes over what the target waits for; the target waits for the new node.
addTaskMindMapNodeBefore(target, key) ==
  LET parent == ParentId(target) IN
  /\ MayEdit /\ Editable(target) /\ HasParent(target)
  /\ WithNewNode(key, parent, node[target].role,
                 IF FromKeys(target) = {} THEN {node[parent].key} ELSE FromKeys(target))
  /\ edit' = <<Rewire(target, {key}, "success")>>
  /\ edits' = edits + 1
  /\ UNCHANGED <<releasing, cut, torn>>

\* The dependents of a set of nodes that are outside it, with the type of one of the edges.
Dependents(ids) ==
  {[task |-> i, type |-> (CHOOSE e \in edge : e.task = i /\ e.on \in ids).type] :
     i \in {j \in Visible \ ids : \E e \in edge : e.task = j /\ e.on \in ids}}

\* What waited for the target waits for the new node; dependents that cannot be edited are
\* skipped.
addTaskMindMapNodeAfter(target, key) ==
  LET parent == ParentId(target)
      instead(i) == {IF k = node[target].key THEN key ELSE k : k \in FromKeys(i)}
      dependents == SetToSeq({d \in Dependents({target}) : Editable(d.task)})
  IN
  /\ MayEdit /\ Editable(target) /\ HasParent(target)
  /\ WithNewNode(key, parent, node[target].role, {node[target].key})
  /\ edit' = [d \in DOMAIN dependents |->
                Rewire(dependents[d].task, instead(dependents[d].task), dependents[d].type)]
  /\ edits' = edits + 1
  /\ UNCHANGED <<releasing, cut, torn>>

\* An update that gives the node other dependencies; with those it has, it only reopens it.
updateTaskMindMapNode(target, next) ==
  /\ MayEdit /\ Editable(target)
  /\ edit' = <<Rewire(target, next, "success")>>
  /\ edits' = edits + 1
  /\ UNCHANGED <<node, edge, releasing, cut, torn, touched>>

\* A subtree is deleted when none of it has started; the nodes outside that wait for it wait
\* for what the target waited for. A dependent that has started stops the edit, after the
\* dependents before it were rewired.
deleteTaskMindMapNode(target) ==
  LET gone == collectSubtree(target)
      keys(ids) == {node[i].key : i \in ids}
      inherited == FromKeys(target) \ keys(gone)
      dependents == SetToSeq(Dependents(gone))
      locked == {d \in DOMAIN dependents : ~Editable(dependents[d].task)}
      rewired == SubSeq(dependents, 1, Min({Len(dependents)} \union {d - 1 : d \in locked}))
      rewires == [d \in DOMAIN rewired |->
                    Rewire(rewired[d].task, (FromKeys(rewired[d].task) \ keys(gone)) \union inherited,
                           rewired[d].type)]
  IN
  /\ MayEdit
  /\ \A i \in gone : Editable(i)
  /\ edit' = rewires \o (IF locked = {} THEN <<Removal(gone)>> ELSE <<>>)
  /\ edits' = edits + 1
  /\ UNCHANGED <<node, edge, releasing, cut, torn, touched>>

\* updateUnstartedTask reopens the node; then come the cycle check, the status check of
\* replaceTaskDependencies and its DELETE. What fails ends the edit.
RewireDelete ==
  LET step == Head(edit)
      i == CHOOSE j \in step.ids : TRUE
  IN
  /\ edit # <<>> /\ step.op = "rewire"
  /\ IF ~Editable(i)
     THEN edit' = <<>> /\ UNCHANGED <<node, edge, cut, touched>>
     ELSE /\ node' = SetStatus({i}, "pending")
          /\ touched' = touched \union {i}
          /\ IF DependencyCycle(node[i].key, step.next)
             THEN edit' = <<>> /\ UNCHANGED <<edge, cut>>
             ELSE /\ edge' = edge \ Dependencies(i)
                  /\ cut' = {i}
                  /\ edit' = <<Insertion(i, {resolveNode(k) : k \in step.next}, step.type)>> \o Tail(edit)
  /\ UNCHANGED <<releasing, torn, edits>>

RewireInsert ==
  LET step == Head(edit)
      i == CHOOSE j \in step.ids : TRUE
  IN
  /\ edit # <<>> /\ step.op = "insert"
  /\ edge' = addTaskDependency(edge, {[task |-> i, on |-> j, type |-> step.type] : j \in step.on})
  /\ cut' = {}
  /\ edit' = Tail(edit)
  /\ UNCHANGED <<node, releasing, torn, touched, edits>>

\* A blocked node is marked and no more: blocked is terminal, and cancelTask ignores it.
RemoveNodes ==
  LET step == Head(edit) IN
  /\ edit # <<>> /\ step.op = "remove"
  /\ node' = [i \in Ids |->
                IF i \notin step.ids THEN node[i]
                ELSE [node[i] EXCEPT !.deleted = TRUE,
                                     !.status = IF @ \in Terminal THEN @ ELSE "cancelled"]]
  /\ touched' = touched \union step.ids
  /\ edit' = Tail(edit)
  /\ UNCHANGED <<edge, releasing, cut, torn, edits>>

WorkerNext ==
  \/ \E i \in Ids : Claim(i)
  \/ \E i \in Ids : Finish(i, "done")
  \/ \E i \in Ids : Finish(i, "dead_letter")
  \/ \E p \in releasing : ReleaseOne(p)

EditNext ==
  \/ \E parent \in Selectable, key \in NewKeys :
       addTaskMindMapNode(parent, key, {node[parent].key})
  \/ \E target \in Selectable, key \in NewKeys : addTaskMindMapNodeBefore(target, key)
  \/ \E target \in Selectable, key \in NewKeys : addTaskMindMapNodeAfter(target, key)
  \/ \E target, other \in Selectable : updateTaskMindMapNode(target, {node[other].key})
  \/ \E target \in Selectable : deleteTaskMindMapNode(target)

EditStep == RewireDelete \/ RewireInsert \/ RemoveNodes
=============================================================================
