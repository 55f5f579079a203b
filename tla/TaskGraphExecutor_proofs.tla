---- MODULE TaskGraphExecutor_proofs ----
(***************************************************************************)
(* Proofs about TaskGraphExecutor for every plan, patch, limit and edit.   *)
(*                                                                         *)
(* The invariant has a typing part and four arguments. Dependencies: what  *)
(* a started task waits for with success is done, because a done task      *)
(* stays done, a task starts only when its dependencies are satisfied, and *)
(* the edges steps add belong to tasks that have not started or wait for   *)
(* an end only. Keys: a planned task that no edit deleted is the one its   *)
(* key leads to, because patches bring keys the graph lacks and no row     *)
(* after it has its key. Pending: a planned task that nobody has started   *)
(* is still looked at by the loop, so the loop cannot end before it is     *)
(* blocked. Budget: planned tasks are counted by their distinct keys, and  *)
(* a planner is asked only for as many as there is room for.               *)
(*                                                                         *)
(* Workers and edits interleave with the executor: Moves is what every     *)
(* step may make of the rows there are, and NodeAdded and TasksAdded what  *)
(* it may add.                                                             *)
(*                                                                         *)
(* Cycles have an invariant of their own, for users whose keys are not a   *)
(* planner's (KeysApart): a cycle is a set of rows each of which waits for *)
(* another of them. A rewiring is checked over keys, so that the check is  *)
(* about rows only because the rows a user sees have keys of their own,    *)
(* and it is checked before the edges go in, so that the promise has to    *)
(* outlast the turn between. New tasks get keys no row has, so a cycle     *)
(* through one would be one of the patch, which validateGraphPatchSpec     *)
(* has seen.                                                               *)
(***************************************************************************)
EXTENDS TaskGraphExecutor, PlanTransforms_proofs, FiniteSetTheorems, SequenceTheorems,
        WellFoundedInduction, TLAPS

-----------------------------------------------------------------------------
(* Typing.                                                                   *)

\* Strings; the provers know no constant to be one.
Text == STRING \union {"developer", "researcher", "reviewer", "implementation", "verification",
                       NoKey, Absent}

\* A row of the task table.
NodeRow ==
  [key : Text, parent : Text, role : Text, expandable : BOOLEAN, maxDepth : Int, depth : Int,
   materialization : BOOLEAN, origin : {"plan", "patch", "manual"}, from : Nat, status : Statuses,
   deleted : BOOLEAN, superseded : BOOLEAN]

\* The keys of the rows.
Keys == {node[i].key : i \in Ids}
\* The keys of the rows the user sees, which no edit has deleted.
VisibleKeys == {node[i].key : i \in Visible}

\* The dependencies between rows.
Edges == [task : Ids, on : Ids, type : {"success", "finished"}]

\* The tables are typed; what is torn, cut or deleted was touched by an edit.
StoreTyped ==
  /\ node \in Seq(NodeRow) /\ Len(node) <= MaxNodes
  /\ edge \subseteq Edges
  /\ releasing \subseteq Ids \X Ids
  /\ torn \subseteq touched /\ cut \subseteq touched
  /\ \A i \in Ids : node[i].deleted => i \in touched

\* The operations an edit is made of.
Ops ==
  [op : {"rewire", "insert", "remove"}, ids : SUBSET Nat, next : SUBSET Text, on : SUBSET Nat,
   type : {"success", "finished"}]

\* A rewiring and an insertion are of one row; they name rows and keys there are.
OperationOK(op, ids, keys) ==
  /\ op.op = "rewire" => (\E i \in ids : op.ids = {i}) /\ op.next \subseteq keys
  /\ op.op = "insert" => (\E i \in ids : op.ids = {i}) /\ op.on \subseteq ids

\* An edit in progress: an insertion is what is left of a rewiring that has cut the edges of its
\* row, so it comes first; a removal comes last; and what is cut is torn or not started.
EditInv ==
  /\ edit \in Seq(Ops)
  /\ \A n \in DOMAIN edit : OperationOK(edit[n], Ids, VisibleKeys)
  /\ \A n \in DOMAIN edit : edit[n].op = "insert" => n = 1
  /\ \A n \in DOMAIN edit : edit[n].op = "remove" => n = Len(edit)
  /\ cut # {} => edit # <<>> /\ edit[1].op = "insert"
  /\ edit # <<>> /\ edit[1].op = "insert" => cut = edit[1].ids
  /\ \A i \in cut : i \in torn \/ node[i].status = "pending"

\* Where the executor may be.
PCs == {"top", "blocking", "stopping", "pausing", "waiting", "collecting", "planning",
        "finishing", "done", "thrown"}

\* What the executor remembers are rows and keys of rows.
ExecutorTyped ==
  /\ plan \in Plans
  /\ pc \in PCs
  /\ tasksByKey \in [DOMAIN tasksByKey -> Ids] /\ DOMAIN tasksByKey \subseteq Keys
  /\ pending \subseteq DOMAIN tasksByKey
  /\ DOMAIN recorded \subseteq Ids /\ DOMAIN wave \subseteq Ids
  /\ todo \subseteq Ids /\ DOMAIN hit \subseteq Ids /\ doomed \in Ids \union {0}
  /\ cur \in Ids \union {0} /\ slots \in Nat
  /\ limit \in 1..MaxParallelTasks
  /\ pc = "planning" => cur \in DOMAIN wave
  /\ pc \in {"collecting", "planning"} => todo \subseteq DOMAIN wave

\* The ids of the rows are 1..Len(node), and each of them has a row.
LEMMA RowIds ==
  ASSUME node \in Seq(NodeRow)
  PROVE  Ids = 1..Len(node) /\ Len(node) \in Nat /\ \A i \in Ids : i \in Nat /\ node[i] \in NodeRow
  BY DEF Ids

\* The fields of a row.
LEMMA RowFields ==
  ASSUME NEW r \in NodeRow
  PROVE  /\ r.key \in Text /\ r.parent \in Text /\ r.role \in Text
         /\ r.origin \in {"plan", "patch", "manual"} /\ r.status \in Statuses
         /\ r.deleted \in BOOLEAN /\ r.depth \in Int
  BY DEF NodeRow

\* A row that an update of its status, or its end in favour of another, leaves the same.
SameRow(r, s) ==
  /\ r.key = s.key /\ r.origin = s.origin /\ r.deleted = s.deleted
  /\ r.materialization = s.materialization

\* The rows of a step that adds none and deletes none.
RowsKept ==
  /\ node' \in Seq(NodeRow) /\ Len(node') = Len(node) /\ Ids' = Ids
  /\ \A i \in Ids : SameRow(node'[i], node[i])

\* An updated row is a row, with the fields it was given and the others it had.
LEMMA RowUpdate ==
  ASSUME NEW r \in NodeRow
  PROVE  /\ \A s \in Statuses : [r EXCEPT !.status = s] \in NodeRow
         /\ \A s \in Statuses : SameRow([r EXCEPT !.status = s], r)
         /\ \A s \in Statuses : [r EXCEPT !.status = s].status = s
         /\ [r EXCEPT !.superseded = TRUE] \in NodeRow
         /\ SameRow([r EXCEPT !.superseded = TRUE], r)
         /\ [r EXCEPT !.superseded = TRUE].status = r.status
         /\ \A s \in Statuses : [r EXCEPT !.deleted = TRUE, !.status = s] \in NodeRow
         /\ \A s \in Statuses : LET q == [r EXCEPT !.deleted = TRUE, !.status = s]
                                IN  /\ q.key = r.key /\ q.origin = r.origin
                                    /\ q.materialization = r.materialization
                                    /\ q.status = s /\ q.deleted
<1>1. /\ \A s \in Statuses : [r EXCEPT !.status = s] \in NodeRow
      /\ [r EXCEPT !.superseded = TRUE] \in NodeRow
      /\ \A s \in Statuses : [r EXCEPT !.deleted = TRUE, !.status = s] \in NodeRow
  BY DEF NodeRow
<1> QED
  BY <1>1 DEF NodeRow, SameRow

\* SetStatus, row by row.
LEMMA StatusRows ==
  ASSUME node \in Seq(NodeRow), NEW ids, NEW s \in Statuses, node' = SetStatus(ids, s)
  PROVE  /\ RowsKept
         /\ \A i \in Ids : node'[i].status = IF i \in ids THEN s ELSE node[i].status
<1>1. Ids = 1..Len(node) /\ Len(node) \in Nat /\ \A i \in Ids : node[i] \in NodeRow
  BY RowIds
<1>2. \A i \in Ids : node'[i] = IF i \in ids THEN [node[i] EXCEPT !.status = s] ELSE node[i]
  BY DEF SetStatus
<1>3. ASSUME NEW i \in Ids
      PROVE  /\ node'[i] \in NodeRow /\ SameRow(node'[i], node[i])
             /\ node'[i].status = IF i \in ids THEN s ELSE node[i].status
  <2> DEFINE r == node[i]
             q == [r EXCEPT !.status = s]
  <2>1. r \in NodeRow /\ node'[i] = IF i \in ids THEN q ELSE r
    BY <1>1, <1>2
  <2>2. q \in NodeRow /\ SameRow(q, r) /\ q.status = s
    <3> HIDE DEF r
    <3> QED
      BY <2>1, RowUpdate
  <2>3. SameRow(r, r)
    BY DEF SameRow
  <2> HIDE DEF r, q
  <2>4. /\ node'[i] \in NodeRow /\ SameRow(node'[i], r)
        /\ node'[i].status = IF i \in ids THEN s ELSE r.status
    BY <2>1, <2>2, <2>3
  <2> QED
    BY <2>4 DEF r
<1>4. node' \in [1..Len(node) -> NodeRow]
  BY <1>1, <1>3 DEF SetStatus
<1>5. node' \in Seq(NodeRow) /\ Len(node') = Len(node)
  BY <1>1, <1>4
<1>6. Ids' = Ids
  BY <1>1, <1>5 DEF Ids
<1> QED
  BY <1>3, <1>5, <1>6 DEF RowsKept

-----------------------------------------------------------------------------
(* New rows.                                                                 *)

\* The keys of visible rows lead to rows.
LEMMA Resolves ==
  ASSUME node \in Seq(NodeRow), NEW k \in VisibleKeys
  PROVE  resolveNode(k) \in Visible /\ resolveNode(k) \in Ids /\ node[resolveNode(k)].key = k
<1> DEFINE S == {i \in Visible : node[i].key = k}
<1>1. S \in SUBSET Nat /\ S # {}
  BY RowIds DEF VisibleKeys, Visible
<1>2. Min(S) \in S
  BY <1>1, MinExists
<1> QED
  BY <1>2 DEF resolveNode, Visible

\* A planTask record.
Task ==
  [key : Text, role : Text, parentKey : Text, dependsOn : SUBSET Text,
   dependencyType : {"success", "finished"}, timeoutMs : Int, maxRetries : Int, wave : Int,
   expandable : BOOLEAN, maxExpansionDepth : Int, permissionMode : Text,
   materialization : BOOLEAN]

\* What a planner may return is a planTask record.
LEMMA PlanTasks == PlanTask \subseteq Task
<1>1. STRING \subseteq Text
  BY DEF Text
<1> HIDE DEF Text
<1> QED
  BY <1>1 DEF PlanTask, Task

\* The row of a task.
LEMMA RowOf ==
  ASSUME NEW spec \in Task, NEW origin \in {"plan", "patch", "manual"}, NEW depth \in Int,
         NEW from \in Nat, NEW row, row = createTask(spec, origin, depth, from)
  PROVE  /\ row \in NodeRow /\ row.key = spec.key /\ row.origin = origin
         /\ row.status = "pending" /\ ~row.deleted
         /\ row.materialization = spec.materialization
<1>1. /\ spec.key \in Text /\ spec.parentKey \in Text /\ spec.role \in Text
      /\ spec.expandable \in BOOLEAN /\ spec.maxExpansionDepth \in Int
      /\ spec.materialization \in BOOLEAN
  BY DEF Task
<1>2. "pending" \in Statuses
  BY DEF Statuses
<1> QED
  BY <1>1, <1>2 DEF createTask, NodeRow

\* The row of a task of a patch.
LEMMA PatchRow ==
  ASSUME NEW spec \in Task, NEW depth \in Int, NEW from \in Nat
  PROVE  /\ createTask(spec, "patch", depth, from) \in NodeRow
         /\ createTask(spec, "patch", depth, from).key = spec.key
         /\ createTask(spec, "patch", depth, from).origin = "patch"
         /\ createTask(spec, "patch", depth, from).status = "pending"
         /\ ~createTask(spec, "patch", depth, from).deleted
         /\ createTask(spec, "patch", depth, from).materialization = spec.materialization
  BY RowOf

\* The row of a node of the user.
LEMMA ManualRow ==
  ASSUME NEW key \in Text, NEW role \in Text, NEW parent \in Text, NEW next
  PROVE  LET row == createTask(planTask(key, role, parent, next), "manual", 0, 0)
         IN  /\ row \in NodeRow /\ row.key = key /\ row.origin = "manual"
             /\ row.status = "pending" /\ ~row.deleted
<1>1. "pending" \in Statuses
  BY DEF Statuses
<1> QED
  BY <1>1 DEF createTask, planTask, NodeRow

\* The id of the next row.
NewId == Len(node) + 1
\* What WithNewNode makes of the tables.
NodeAdded(key) ==
  /\ node' \in Seq(NodeRow) /\ Len(node') = NewId /\ NewId <= MaxNodes
  /\ Ids' = Ids \union {NewId} /\ NewId \notin Ids
  /\ \A i \in Ids : node'[i] = node[i]
  /\ node'[NewId].key = key /\ node'[NewId].origin = "manual"
  /\ node'[NewId].status = "pending" /\ ~node'[NewId].deleted
  /\ key \notin VisibleKeys
  /\ edge \subseteq edge'
  /\ edge' \subseteq [task : Ids', on : Ids', type : {"success", "finished"}]
  /\ \A e \in edge' \ edge : e.task = NewId /\ e.on \in Ids
  /\ touched' = touched \union {NewId}

\* WithNewNode adds a pending row with a key no visible row has, and edges of that row.
LEMMA NewNode ==
  ASSUME TaskGraphExecutorAssumption, StoreTyped,
         NEW key \in NewKeys, NEW parent \in Ids, NEW role \in Text,
         NEW next \in SUBSET VisibleKeys,
         WithNewNode(key, parent, role, next)
  PROVE  NodeAdded(key)
<1> DEFINE row == createTask(planTask(key, role, node[parent].key, next), "manual", 0, 0)
<1>1. node \in Seq(NodeRow) /\ Ids = 1..Len(node) /\ Len(node) \in Nat /\ MaxNodes \in Nat
  BY RowIds DEF StoreTyped, TaskGraphExecutorAssumption
<1>2. /\ row \in NodeRow /\ row.key = key /\ row.origin = "manual"
      /\ row.status = "pending" /\ ~row.deleted
  <2>1. key \in Text /\ node[parent].key \in Text
    BY <1>1, RowIds, RowFields DEF TaskGraphExecutorAssumption, Text
  <2> QED
    BY <2>1, ManualRow
<1>3. /\ node' = Append(node, row) /\ Len(node) < MaxNodes
      /\ key \notin VisibleKeys
      /\ edge' = addTaskDependency(edge,
               {[task |-> NewId, on |-> resolveNode(k), type |-> "success"] : k \in next})
      /\ touched' = touched \union {NewId}
  BY DEF WithNewNode, NewId, VisibleKeys
<1> HIDE DEF row
<1>4. /\ node' \in Seq(NodeRow) /\ Len(node') = NewId /\ node'[NewId] = row
      /\ \A i \in Ids : node'[i] = node[i]
  BY <1>1, <1>2, <1>3, AppendProperties DEF NewId
<1>5. Ids' = Ids \union {NewId} /\ NewId \notin Ids /\ NewId <= MaxNodes
  <2>1. Ids' = 1..NewId
    BY <1>4 DEF Ids
  <2> QED
    BY <2>1, <1>1, <1>3 DEF NewId
<1>6. \A k \in next : resolveNode(k) \in Ids
  BY <1>1, Resolves
<1>7. /\ edge \subseteq edge'
      /\ \A e \in edge' \ edge : \E k \in next :
           e = [task |-> NewId, on |-> resolveNode(k), type |-> "success"]
  BY <1>3 DEF addTaskDependency
<1>8. \A e \in edge' \ edge :
        /\ e.task = NewId /\ e.on \in Ids
        /\ e \in [task : Ids', on : Ids', type : {"success", "finished"}]
  BY <1>5, <1>6, <1>7
<1>9. edge' \subseteq [task : Ids', on : Ids', type : {"success", "finished"}]
  <2>1. \A e \in edge : e \in [task : Ids', on : Ids', type : {"success", "finished"}]
    BY <1>5 DEF StoreTyped, Edges
  <2> QED
    BY <2>1, <1>8
<1> QED
  BY <1>2, <1>3, <1>4, <1>5, <1>7, <1>8, <1>9 DEF NodeAdded

\* What createDynamicTasks makes of the tables, for tasks with distinct keys.
TasksAdded(specs) ==
  /\ node' \in Seq(NodeRow) /\ Len(node') = Len(node) + Len(specs) /\ Len(node') <= MaxNodes
  /\ Ids' = Ids \union {Len(node) + i : i \in 1..Len(specs)}
  /\ \A i \in Ids : SameRow(node'[i], node[i]) /\ node'[i].status = node[i].status
  /\ \A i \in 1..Len(specs) :
       LET r == node'[Len(node) + i]
       IN  /\ r.key = specs[i].key /\ r.origin = "patch" /\ r.status = "pending" /\ ~r.deleted
           /\ r.materialization = specs[i].materialization
  /\ tasksByKey' = [k \in DOMAIN tasksByKey' |-> tasksByKey'[k]]
  /\ DOMAIN tasksByKey' = DOMAIN tasksByKey \union TaskKeys(specs)
  /\ \A k \in DOMAIN tasksByKey \ TaskKeys(specs) : tasksByKey'[k] = tasksByKey[k]
  /\ \A i \in 1..Len(specs) : tasksByKey'[specs[i].key] = Len(node) + i
  /\ edge \subseteq edge'
  /\ edge' \subseteq [task : Ids', on : Ids', type : {"success", "finished"}]
  /\ \A e \in edge' \ edge : e.type = "finished" \/ e.task \notin Ids
  /\ pending' = pending \union TaskKeys(specs)

\* createDynamicTasks adds a pending row for each task, makes their keys lead to them, and gives
\* rows that were there only edges that wait for an end.
LEMMA NewTasks ==
  ASSUME TaskGraphExecutorAssumption, StoreTyped, tasksByKey \in [DOMAIN tasksByKey -> Ids],
         cur \in Ids,
         NEW specs \in Seq(Task), KeysDistinct(specs), NEW superseded \in BOOLEAN,
         createDynamicTasks(specs, superseded)
  PROVE  TasksAdded(specs)
<1> DEFINE first == Len(node)
           byKey == keysWith(specs)
           rows == [i \in DOMAIN specs |->
                 createTask(specs[i], "patch", node[cur].depth + 1, IF superseded THEN cur ELSE 0)]
           old == [i \in Ids |-> IF i = cur /\ superseded THEN [node[i] EXCEPT !.superseded = TRUE]
                            ELSE node[i]]
           own == dynamicDependencies(specs)
           links == linkDynamicTasksToMaterialization(specs)
           to == [task : Ids', on : Ids', type : {"success", "finished"}]
<1>1. /\ node \in Seq(NodeRow) /\ Ids = 1..first /\ first \in Nat /\ MaxNodes \in Nat
      /\ Len(specs) \in Nat /\ DOMAIN specs = 1..Len(specs)
      /\ \A i \in DOMAIN specs : specs[i] \in Task
  BY RowIds DEF StoreTyped, TaskGraphExecutorAssumption
<1>2. /\ first + Len(specs) <= MaxNodes
      /\ node' = old \o rows
      /\ edge' = addTaskDependency(addTaskDependency(edge, own), links)
      /\ tasksByKey' = byKey
      /\ pending' = pending \union TaskKeys(specs)
  <2>1. node' = old \o rows
    BY DEF createDynamicTasks, rowsWith
  <2> QED
    BY <2>1 DEF createDynamicTasks
<1>3. ASSUME NEW i \in 1..Len(specs)
      PROVE  /\ rows[i] \in NodeRow /\ rows[i].key = specs[i].key /\ rows[i].origin = "patch"
             /\ rows[i].status = "pending" /\ ~rows[i].deleted
             /\ rows[i].materialization = specs[i].materialization
  <2>1. node[cur].depth + 1 \in Int
    <3>1. node[cur] \in NodeRow
      BY RowIds, <1>1
    <3>2. node[cur].depth \in Int
      BY <3>1, RowFields
    <3> QED
      BY <3>2
  <2>2. (IF superseded THEN cur ELSE 0) \in Nat
    BY <1>1
  <2>3. /\ specs[i] \in Task
        /\ rows[i] = createTask(specs[i], "patch", node[cur].depth + 1, IF superseded THEN cur ELSE 0)
    BY <1>1
  <2> DEFINE depth == node[cur].depth + 1
             from == IF superseded THEN cur ELSE 0
             spec == specs[i]
  <2>4. rows[i] = createTask(spec, "patch", depth, from)
    BY <2>3
  <2>5. depth \in Int /\ from \in Nat /\ spec \in Task
    BY <2>1, <2>2, <2>3
  <2> HIDE DEF rows, depth, from, spec
  <2>6. /\ rows[i] \in NodeRow /\ rows[i].key = spec.key /\ rows[i].origin = "patch"
        /\ rows[i].status = "pending" /\ ~rows[i].deleted
        /\ rows[i].materialization = spec.materialization
    <3> DEFINE row == rows[i]
    <3>1. row = createTask(spec, "patch", depth, from)
      BY <2>4
    <3> HIDE DEF row
    <3>2. /\ row \in NodeRow /\ row.key = spec.key /\ row.origin = "patch"
          /\ row.status = "pending" /\ ~row.deleted
          /\ row.materialization = spec.materialization
      BY <3>1, <2>5, PatchRow
    <3> QED
      BY <3>2 DEF row
  <2> QED
    BY <2>6 DEF spec
<1>4. ASSUME NEW i \in Ids
      PROVE  old[i] \in NodeRow /\ SameRow(old[i], node[i]) /\ old[i].status = node[i].status
  <2>1. node[i] \in NodeRow
    BY <1>1, RowIds
  <2>2. CASE i = cur /\ superseded
    <3> DEFINE r == node[i]
    <3>1. old[i] = [r EXCEPT !.superseded = TRUE]
      BY <2>2
    <3> HIDE DEF r
    <3>2. old[i] \in NodeRow /\ SameRow(old[i], r) /\ old[i].status = r.status
      BY <3>1, <2>1, RowUpdate DEF r
    <3> QED
      BY <3>2 DEF r
  <2>3. CASE ~(i = cur /\ superseded)
    BY <2>1, <2>3 DEF SameRow
  <2> QED
    BY <2>2, <2>3
<1>5. old \in Seq(NodeRow) /\ Len(old) = first
  <2>1. DOMAIN old = 1..first /\ \A i \in 1..first : old[i] \in NodeRow
    BY <1>1, <1>4
  <2>2. old = [i \in 1..first |-> old[i]]
    BY <2>1
  <2> HIDE DEF old
  <2>3. first \in Nat /\ old \in [1..first -> NodeRow]
    BY <1>1, <2>1, <2>2
  <2> HIDE DEF first
  <2> QED
    BY <2>3
<1>6. rows \in Seq(NodeRow) /\ Len(rows) = Len(specs)
  <2>1. rows = [i \in 1..Len(specs) |-> rows[i]] /\ \A i \in 1..Len(specs) : rows[i] \in NodeRow
    BY <1>1, <1>3
  <2> HIDE DEF rows
  <2>2. rows \in [1..Len(specs) -> NodeRow]
    BY <2>1
  <2> QED
    BY <2>2, <1>1
<1> HIDE DEF rows, old
<1>7. /\ node' \in Seq(NodeRow) /\ Len(node') = first + Len(specs)
      /\ \A i \in Ids : node'[i] = old[i]
      /\ \A i \in 1..Len(specs) : node'[first + i] = rows[i]
  <2>1. /\ old \o rows \in Seq(NodeRow)
        /\ Len(old \o rows) = Len(old) + Len(rows)
        /\ \A i \in 1 .. Len(old) + Len(rows) : (old \o rows)[i] =
                     IF i <= Len(old) THEN old[i] ELSE rows[i - Len(old)]
    BY <1>5, <1>6, ConcatProperties
  <2>2. \A i \in 1..Len(specs) : /\ (first + i) \in 1..(first + Len(specs))
                               /\ (first + i) - first = i /\ ~(first + i <= first)
    BY <1>1
  <2>3. \A i \in Ids : i \in 1..(first + Len(specs)) /\ i <= first
    BY <1>1
  <2>4. /\ node' = old \o rows /\ Len(old) = first /\ Len(rows) = Len(specs)
        /\ first \in Nat /\ Len(specs) \in Nat
    BY <1>1, <1>2, <1>5, <1>6
  <2> HIDE DEF first
  <2>5. node' \in Seq(NodeRow) /\ Len(node') = first + Len(specs)
    BY <2>1, <2>4
  <2>6. \A i \in 1..(first + Len(specs)) :
          node'[i] = IF i <= first THEN old[i] ELSE rows[i - first]
    BY <2>1, <2>4
  <2>7. \A i \in Ids : node'[i] = old[i]
    BY <2>3, <2>6
  <2>8. \A i \in 1..Len(specs) : node'[first + i] = rows[i]
    BY <2>2, <2>6
  <2> QED
    BY <2>5, <2>7, <2>8
<1>8. Ids' = Ids \union {first + i : i \in 1..Len(specs)}
  <2>1. Ids' = 1..(first + Len(specs))
    BY <1>7 DEF Ids
  <2>2. \A j \in 1..(first + Len(specs)) :
          j \in 1..first \/ (j - first \in 1..Len(specs) /\ j = first + (j - first))
    BY <1>1
  <2>3. \A i \in 1..Len(specs) : first + i \in 1..(first + Len(specs))
    BY <1>1
  <2> QED
    BY <2>1, <2>2, <2>3, <1>1
<1>9. /\ DOMAIN tasksByKey' = DOMAIN tasksByKey \union TaskKeys(specs)
      /\ tasksByKey' = [k \in DOMAIN tasksByKey' |-> tasksByKey'[k]]
      /\ \A k \in DOMAIN tasksByKey \ TaskKeys(specs) : tasksByKey'[k] = tasksByKey[k]
  BY <1>2 DEF keysWith
<1>10. \A i \in 1..Len(specs) : tasksByKey'[specs[i].key] = first + i
  <2> SUFFICES ASSUME NEW i \in 1..Len(specs) PROVE tasksByKey'[specs[i].key] = first + i
    OBVIOUS
  <2>1. specs[i].key \in TaskKeys(specs)
    BY <1>1 DEF TaskKeys
  <2>2. (CHOOSE j \in DOMAIN specs : specs[j].key = specs[i].key) = i
    BY <1>1 DEF KeysDistinct
  <2> QED
    BY <2>1, <2>2, <1>2 DEF keysWith
<1> HIDE DEF byKey
<1>11. \A k \in DOMAIN byKey : byKey[k] \in Ids'
  <2> SUFFICES ASSUME NEW k \in DOMAIN byKey PROVE byKey[k] \in Ids'
    OBVIOUS
  <2>0. byKey = tasksByKey'
    BY <1>2
  <2>1. CASE k \in TaskKeys(specs)
    <3>1. PICK i \in 1..Len(specs) : specs[i].key = k
      BY <2>1, <1>1 DEF TaskKeys
    <3>2. byKey[k] = first + i
      BY <3>1, <1>10, <2>0
    <3>3. first + i \in Ids'
      BY <1>8
    <3> QED
      BY <3>2, <3>3
  <2>2. CASE k \notin TaskKeys(specs)
    <3>1. k \in DOMAIN tasksByKey /\ byKey[k] = tasksByKey[k]
      BY <2>2, <1>9, <2>0
    <3>2. tasksByKey[k] \in Ids
      BY <3>1
    <3> QED
      BY <3>1, <3>2, <1>8
  <2> QED
    BY <2>1, <2>2
<1>12. ASSUME NEW e \in own PROVE e.task \notin Ids /\ e \in to
  <2>1. PICK i \in DOMAIN specs, k \in DOMAIN byKey :
          e = [task |-> first + i, on |-> byKey[k], type |-> specs[i].dependencyType]
    BY DEF dynamicDependencies, byKey
  <2>2. first + i \notin Ids /\ first + i \in Ids'
    BY <1>1, <1>8
  <2>3. specs[i].dependencyType \in {"success", "finished"}
    BY <1>1 DEF Task
  <2>4. byKey[k] \in Ids'
    BY <1>11
  <2> QED
    BY <2>1, <2>2, <2>3, <2>4
<1>13. ASSUME NEW e \in links PROVE e.type = "finished" /\ e \in to
  <2>1. PICK k \in DOMAIN byKey, i \in DOMAIN specs :
          e = [task |-> byKey[k], on |-> first + i, type |-> "finished"]
    BY DEF linkDynamicTasksToMaterialization, byKey
  <2>2. first + i \in Ids'
    BY <1>1, <1>8
  <2>3. byKey[k] \in Ids'
    BY <1>11
  <2> QED
    BY <2>1, <2>2, <2>3
<1> HIDE DEF own, links, first, to
<1>14. /\ edge \subseteq edge'
       /\ \A e \in edge' \ edge : e \in own \/ e \in links
  BY <1>2 DEF addTaskDependency
<1>15. \A e \in edge : e \in to
  BY <1>8 DEF StoreTyped, Edges, to
<1>16. edge' \subseteq to
  BY <1>12, <1>13, <1>14, <1>15
<1>17. \A i \in Ids : SameRow(node'[i], node[i]) /\ node'[i].status = node[i].status
  BY <1>4, <1>7
<1>18. \A i \in 1..Len(specs) :
         LET r == node'[first + i]
         IN  /\ r.key = specs[i].key /\ r.origin = "patch" /\ r.status = "pending" /\ ~r.deleted
             /\ r.materialization = specs[i].materialization
  BY <1>3, <1>7
<1>19. \A e \in edge' \ edge : e.type = "finished" \/ e.task \notin Ids
  BY <1>12, <1>13, <1>14
<1> QED
  BY <1>2, <1>7, <1>8, <1>9, <1>10, <1>14, <1>16, <1>17, <1>18, <1>19 DEF TasksAdded, first, to

-----------------------------------------------------------------------------
(* The tables in the steps of the graph editor and the workers.              *)

\* The rows of a step that adds none.
LEMMA SameKeys ==
  ASSUME node \in Seq(NodeRow), RowsKept
  PROVE  Visible' = Visible /\ VisibleKeys' = VisibleKeys /\ Keys' = Keys
<1>1. \A i \in Ids : node'[i].key = node[i].key /\ node'[i].deleted = node[i].deleted
  BY DEF RowsKept, SameRow
<1>2. Ids' = Ids
  BY DEF RowsKept
<1>3. Visible' = Visible
  BY <1>1, <1>2 DEF Visible
<1>4. VisibleKeys' = VisibleKeys
  BY <1>1, <1>2, <1>3 DEF VisibleKeys, Visible
<1>5. Keys' = Keys
  BY <1>1, <1>2 DEF Keys
<1> QED
  BY <1>3, <1>4, <1>5

\* A step that rewrites rows keeps the tables typed.
LEMMA StoreKept ==
  ASSUME StoreTyped, RowsKept, edge' \subseteq Edges, releasing' \subseteq Ids \X Ids,
         torn' \subseteq touched', cut' \subseteq touched', touched \subseteq touched'
  PROVE  StoreTyped'
<1>1. node' \in Seq(NodeRow) /\ Len(node') = Len(node) /\ Ids' = Ids
  BY DEF RowsKept
<1>2. Edges' = Edges
  BY <1>1 DEF Edges
<1>3. \A i \in Ids : node'[i].deleted = node[i].deleted
  BY DEF RowsKept, SameRow
<1>4. \A i \in Ids' : node'[i].deleted => i \in touched'
  BY <1>1, <1>3 DEF StoreTyped
<1> QED
  BY <1>1, <1>2, <1>4 DEF StoreTyped

\* A step that adds rows does so too.
LEMMA StoreGrown ==
  ASSUME StoreTyped, node' \in Seq(NodeRow), Len(node') <= MaxNodes, Ids \subseteq Ids',
         edge' \subseteq [task : Ids', on : Ids', type : {"success", "finished"}],
         UNCHANGED <<releasing, torn, cut>>, touched \subseteq touched',
         \A i \in Ids : node'[i].deleted = node[i].deleted,
         \A i \in Ids' \ Ids : ~node'[i].deleted
  PROVE  StoreTyped'
<1>1. edge' \subseteq Edges'
  BY DEF Edges
<1>2. \A i \in Ids' : node'[i].deleted => i \in touched'
  BY DEF StoreTyped
<1>3. releasing' \subseteq Ids' \X Ids'
  BY DEF StoreTyped
<1> QED
  BY <1>1, <1>2, <1>3 DEF StoreTyped

\* The step of an edit that comes next.
LEMMA HeadOp ==
  ASSUME EditInv, edit # <<>>
  PROVE  /\ Head(edit) = edit[1] /\ Head(edit) \in Ops /\ OperationOK(Head(edit), Ids, VisibleKeys)
         /\ Tail(edit) \in Seq(Ops) /\ Len(Tail(edit)) = Len(edit) - 1 /\ Len(edit) \in Nat \ {0}
         /\ DOMAIN edit = 1..Len(edit) /\ DOMAIN Tail(edit) = 1..(Len(edit) - 1)
         /\ \A n \in DOMAIN Tail(edit) : n + 1 \in DOMAIN edit /\ Tail(edit)[n] = edit[n + 1]
         /\ Head(edit).op = "rewire" =>
              /\ (CHOOSE j \in Head(edit).ids : TRUE) \in Ids
              /\ Head(edit).ids = {CHOOSE j \in Head(edit).ids : TRUE}
              /\ Head(edit).next \subseteq VisibleKeys
         /\ Head(edit).op = "insert" =>
              /\ (CHOOSE j \in Head(edit).ids : TRUE) \in Ids
              /\ Head(edit).ids = {CHOOSE j \in Head(edit).ids : TRUE}
              /\ Head(edit).on \subseteq Ids
              /\ cut = Head(edit).ids
         /\ Head(edit).type \in {"success", "finished"}
<1>1. edit \in Seq(Ops)
  BY DEF EditInv
<1>2. /\ Head(edit) = edit[1] /\ Head(edit) \in Ops
      /\ Tail(edit) \in Seq(Ops) /\ Len(Tail(edit)) = Len(edit) - 1 /\ Len(edit) \in Nat \ {0}
      /\ DOMAIN edit = 1..Len(edit) /\ DOMAIN Tail(edit) = 1..(Len(edit) - 1)
  BY <1>1
<1>3. \A n \in DOMAIN Tail(edit) : n + 1 \in DOMAIN edit /\ Tail(edit)[n] = edit[n + 1]
  BY <1>1, <1>2, HeadTailProperties
<1>4. OperationOK(Head(edit), Ids, VisibleKeys)
  BY <1>2 DEF EditInv
<1>5. Head(edit).op = "insert" => cut = Head(edit).ids
  BY <1>2 DEF EditInv
<1>6. Head(edit).type \in {"success", "finished"}
  BY <1>2 DEF Ops
<1> QED
  BY <1>2, <1>3, <1>4, <1>5, <1>6 DEF OperationOK

\* An edit that is not in progress has cut nothing.
LEMMA NoCut == ASSUME EditInv, edit = <<>> PROVE cut = {}
  BY DEF EditInv

\* The dependents of a set of nodes are visible rows.
LEMMA DependentsOK ==
  ASSUME StoreTyped, NEW ids
  PROVE  /\ IsFiniteSet(Dependents(ids))
         /\ \A d \in Dependents(ids) : d.task \in Visible /\ d.type \in {"success", "finished"}
<1> DEFINE S == {j \in Visible \ ids : \E e \in edge : e.task = j /\ e.on \in ids}
           f == [i \in S |-> [task |-> i, type |-> (CHOOSE e \in edge : e.task = i /\ e.on \in ids).type]]
<1>1. IsFiniteSet(S)
  <2>1. S \in SUBSET (1..Len(node)) /\ Len(node) \in Nat
    BY RowIds DEF StoreTyped, Visible
  <2>2. IsFiniteSet(1..Len(node))
    BY <2>1, FS_Interval
  <2> HIDE DEF S
  <2> QED
    BY <2>1, <2>2, FS_Subset
<1>2. Dependents(ids) = {f[i] : i \in S}
  BY DEF Dependents
<1>3. f \in Surjection(S, Dependents(ids))
  <2>1. f \in [S -> Dependents(ids)] /\ \A t \in Dependents(ids) : \E i \in S : f[i] = t
    BY <1>2
  <2> HIDE DEF f, S
  <2> QED
    BY <2>1 DEF Surjection
<1>4. IsFiniteSet(Dependents(ids))
  <2> HIDE DEF f, S
  <2> QED
    BY <1>1, <1>3, FS_Surjection
<1>5. \A d \in Dependents(ids) : d.task \in Visible /\ d.type \in {"success", "finished"}
  <2> SUFFICES ASSUME NEW i \in S
               PROVE  f[i].task \in Visible /\ f[i].type \in {"success", "finished"}
    BY <1>2
  <2>1. (CHOOSE e \in edge : e.task = i /\ e.on \in ids) \in edge
    OBVIOUS
  <2>2. (CHOOSE e \in edge : e.task = i /\ e.on \in ids).type \in {"success", "finished"}
    BY <2>1 DEF StoreTyped, Edges
  <2> QED
    BY <2>2
<1> QED
  BY <1>4, <1>5

\* What a node waits for are keys of visible rows.
LEMMA FromVisible == ASSUME StoreTyped, NEW i PROVE FromKeys(i) \subseteq VisibleKeys
  BY DEF FromKeys, VisibleKeys

\* Keys are strings.
LEMMA KeyStrings ==
  ASSUME node \in Seq(NodeRow)
  PROVE  VisibleKeys \subseteq Text /\ Visible \subseteq Ids /\ Ids \subseteq Nat
  BY RowIds, RowFields DEF VisibleKeys, Visible

\* A rewiring is an operation.
LEMMA RewireOK ==
  ASSUME NEW ids, ids \subseteq Nat, NEW keys, keys \subseteq Text, NEW i \in ids,
         NEW next, next \subseteq keys, NEW type \in {"success", "finished"}
  PROVE  /\ Rewire(i, next, type) \in Ops /\ OperationOK(Rewire(i, next, type), ids, keys)
         /\ Rewire(i, next, type).op = "rewire"
<1>1. Rewire(i, next, type) \in Ops
  BY DEF Rewire, Operation, Ops
<1> QED
  BY <1>1 DEF Rewire, Operation, OperationOK

\* A step that goes on with no edit keeps the invariant of edits.
LEMMA EditIdle == ASSUME edit' = <<>>, cut' = {} PROVE EditInv'
<1>1. edit' \in Seq(Ops) /\ DOMAIN edit' = {}
  BY EmptySeq
<1> QED
  BY <1>1 DEF EditInv

\* An edit begins with a list of rewirings, and perhaps a removal at the end.
LEMMA EditBegins ==
  ASSUME cut' = {}, edit' \in Seq(Ops),
         \A n \in DOMAIN edit' : OperationOK(edit'[n], Ids', VisibleKeys'),
         \A n \in DOMAIN edit' : edit'[n].op = "rewire" \/ (edit'[n].op = "remove" /\ n = Len(edit'))
  PROVE  EditInv'
<1>1. edit' # <<>> => 1 \in DOMAIN edit'
  BY EmptySeq
<1> QED
  BY <1>1 DEF EditInv

\* A step beside an edit keeps it.
LEMMA EditBeside ==
  ASSUME EditInv, node \in Seq(NodeRow), RowsKept, UNCHANGED <<edit, cut>>, torn \subseteq torn',
         \A i \in cut \intersect Ids : node[i].status = "pending" =>
           i \in torn' \/ node'[i].status = "pending",
         cut \subseteq Ids
  PROVE  EditInv'
<1>1. Ids' = Ids /\ VisibleKeys' = VisibleKeys
  BY SameKeys DEF RowsKept
<1>2. \A n \in DOMAIN edit' : OperationOK(edit'[n], Ids', VisibleKeys')
  BY <1>1 DEF EditInv, OperationOK
<1>3. \A i \in cut' : i \in torn' \/ node'[i].status = "pending"
  BY DEF EditInv
<1> QED
  BY <1>2, <1>3 DEF EditInv

\* What is cut is a row.
LEMMA CutIds == ASSUME EditInv PROVE cut \subseteq Ids
<1>1. CASE cut = {}
  BY <1>1
<1>2. CASE cut # {}
  <2>1. edit # <<>> /\ edit[1].op = "insert" /\ cut = edit[1].ids
    BY <1>2 DEF EditInv
  <2>2. Head(edit) = edit[1]
    BY <2>1, HeadOp
  <2> QED
    BY <2>1, <2>2, HeadOp
<1> QED
  BY <1>1, <1>2

\* The tables and the edit in progress are typed.
Tables == StoreTyped /\ EditInv

\* Steps of the workers keep the tables typed.
LEMMA WorkerTables == ASSUME Tables, WorkerNext PROVE Tables'
<1> USE DEF Tables
<1>1. node \in Seq(NodeRow) /\ cut \subseteq Ids
  BY CutIds DEF StoreTyped
<1>2. ASSUME NEW i \in Ids, Claim(i) PROVE Tables'
  <2>1. "running" \in Statuses
    BY DEF Statuses
  <2>2. /\ RowsKept
        /\ \A j \in Ids : node'[j].status = IF j \in {i} THEN "running" ELSE node[j].status
    BY <1>1, <1>2, <2>1, StatusRows DEF Claim
  <2>3. StoreTyped'
    BY <1>2, <2>2, StoreKept DEF Claim, StoreTyped
  <2>4. \A j \in cut \intersect Ids : node[j].status = "pending" =>
          j \in torn' \/ node'[j].status = "pending"
    BY <1>2, <2>2 DEF Claim
  <2>5. EditInv'
    BY <1>1, <1>2, <2>2, <2>4, EditBeside DEF Claim
  <2> QED
    BY <2>3, <2>5
<1>3. ASSUME NEW i \in Ids, NEW s \in {"done", "dead_letter"}, Finish(i, s) PROVE Tables'
  <2>1. s \in Statuses
    BY DEF Statuses
  <2>2. /\ RowsKept
        /\ \A j \in Ids : node'[j].status = IF j \in {i} THEN s ELSE node[j].status
    BY <1>1, <1>3, <2>1, StatusRows DEF Finish
  <2>3. releasing' \subseteq Ids \X Ids
    BY <1>3 DEF Finish, StoreTyped, Edges
  <2>4. StoreTyped'
    BY <1>3, <2>2, <2>3, StoreKept DEF Finish, StoreTyped
  <2>5. \A j \in cut \intersect Ids : node[j].status = "pending" =>
          j \in torn' \/ node'[j].status = "pending"
    BY <1>3, <2>2 DEF Finish
  <2>6. EditInv'
    BY <1>1, <1>3, <2>2, <2>5, EditBeside DEF Finish
  <2> QED
    BY <2>4, <2>6
<1>4. ASSUME NEW p \in releasing, ReleaseOne(p) PROVE Tables'
  <2>1. p[2] \in Ids
    BY DEF StoreTyped
  <2>2. UNCHANGED <<edge, edit, cut, touched>> /\ releasing' \subseteq releasing
    BY <1>4 DEF ReleaseOne
  <2>3. CASE /\ node' = SetStatus({p[2]}, "queued")
             /\ torn' = IF p[2] \in cut THEN torn \union {p[2]} ELSE torn
    <3>1. "queued" \in Statuses
      BY DEF Statuses
    <3>2. /\ RowsKept
          /\ \A j \in Ids : node'[j].status = IF j \in {p[2]} THEN "queued" ELSE node[j].status
      <4> DEFINE i == p[2]
      <4>1. node' = SetStatus({i}, "queued")
        BY <2>3
      <4> HIDE DEF i
      <4>2. /\ RowsKept
            /\ \A j \in Ids : node'[j].status = IF j \in {i} THEN "queued" ELSE node[j].status
        BY <1>1, <3>1, <4>1, StatusRows
      <4> QED
        BY <4>2 DEF i
    <3>3. torn \subseteq torn' /\ torn' \subseteq touched'
      BY <2>2, <2>3 DEF StoreTyped
    <3>4. StoreTyped'
      BY <2>2, <3>2, <3>3, StoreKept DEF StoreTyped
    <3>5. \A j \in cut \intersect Ids : node[j].status = "pending" =>
            j \in torn' \/ node'[j].status = "pending"
      BY <2>3, <3>2
    <3>6. EditInv'
      BY <1>1, <2>2, <3>2, <3>3, <3>5, EditBeside
    <3> QED
      BY <3>4, <3>6
  <2>4. CASE UNCHANGED <<node, torn>>
    <3>1. RowsKept /\ \A j \in Ids : node'[j].status = node[j].status
      BY <1>1, <2>4 DEF RowsKept, SameRow, Ids
    <3>2. StoreTyped'
      BY <2>2, <2>4, <3>1, StoreKept DEF StoreTyped
    <3>3. EditInv'
      BY <1>1, <2>2, <2>4, <3>1, EditBeside
    <3> QED
      BY <3>2, <3>3
  <2> QED
    BY <1>4, <2>3, <2>4 DEF ReleaseOne
<1> QED
  BY <1>2, <1>3, <1>4 DEF WorkerNext

\* A node is added.
LEMMA AddedTables ==
  ASSUME Tables, NEW key, NodeAdded(key), UNCHANGED <<releasing, torn, cut>>
  PROVE  /\ StoreTyped' /\ VisibleKeys' = VisibleKeys \union {key}
         /\ VisibleKeys' \subseteq Text /\ Ids' \subseteq Nat
<1> USE DEF Tables
<1>1. StoreTyped'
  BY StoreGrown DEF NodeAdded, StoreTyped
<1>2. Visible' = Visible \union {NewId}
  BY DEF NodeAdded, Visible
<1>3. VisibleKeys' = VisibleKeys \union {key}
  BY <1>2 DEF NodeAdded, VisibleKeys, Visible
<1>4. node' \in Seq(NodeRow)
  BY DEF NodeAdded
<1>5. VisibleKeys' \subseteq Text /\ Ids' \subseteq Nat
  <2>1. Ids' = 1..Len(node') /\ Len(node') \in Nat /\ \A i \in Ids' : node'[i] \in NodeRow
    BY <1>4 DEF Ids
  <2>2. \A i \in Ids' : node'[i].key \in Text
    BY <2>1, RowFields
  <2> QED
    BY <2>1, <2>2 DEF VisibleKeys, Visible
<1> QED
  BY <1>1, <1>3, <1>5

\* A node the user may select, its parent and their keys.
LEMMA SelectableIds ==
  ASSUME node \in Seq(NodeRow), NEW i \in Selectable
  PROVE  /\ i \in Visible /\ i \in Ids /\ node[i].key \in VisibleKeys /\ node[i].role \in Text
         /\ node[i].key \in Text
         /\ HasParent(i) => ParentId(i) \in Ids /\ node[ParentId(i)].key \in VisibleKeys
<1>1. i \in Visible /\ i \in Ids /\ node[i].key \in VisibleKeys
  BY DEF Selectable, Visible, VisibleKeys
<1>2. node[i].role \in Text /\ node[i].key \in Text
  BY <1>1, RowIds, RowFields
<1>3. HasParent(i) => node[i].parent \in VisibleKeys
  BY DEF HasParent, VisibleKeys
<1>4. HasParent(i) => ParentId(i) \in Ids /\ node[ParentId(i)].key \in VisibleKeys
  BY <1>3, Resolves DEF ParentId, VisibleKeys
<1> QED
  BY <1>1, <1>2, <1>4

\* Edits that begin keep the tables typed.
LEMMA EditTables == ASSUME TaskGraphExecutorAssumption, Tables, EditNext PROVE Tables'
<1> USE DEF Tables
<1>1. node \in Seq(NodeRow) /\ edit = <<>> /\ cut = {}
  <2>1. edit = <<>>
    BY DEF EditNext, addTaskMindMapNode, addTaskMindMapNodeBefore, addTaskMindMapNodeAfter,
           updateTaskMindMapNode, deleteTaskMindMapNode, MayEdit
  <2> QED
    BY <2>1, NoCut DEF StoreTyped
<1>2. ASSUME NEW parent \in Selectable, NEW key \in NewKeys,
             addTaskMindMapNode(parent, key, {node[parent].key})
      PROVE  Tables'
  <2>1. /\ "developer" \in Text
        /\ {node[parent].key} \in SUBSET VisibleKeys /\ parent \in Ids
    <3>1. parent \in Ids /\ node[parent].key \in VisibleKeys
      BY <1>1, SelectableIds
    <3>2. "developer" \in Text
      BY DEF Text
    <3> QED
      BY <3>1, <3>2, Zenon
  <2>2. NodeAdded(key)
    BY <1>2, <2>1, NewNode DEF addTaskMindMapNode
  <2>3. StoreTyped'
    BY <1>2, <2>2, AddedTables DEF addTaskMindMapNode
  <2>4. EditInv'
    BY <1>1, <1>2, EditIdle DEF addTaskMindMapNode
  <2> QED
    BY <2>3, <2>4
<1>3. ASSUME NEW target \in Selectable, NEW key \in NewKeys, addTaskMindMapNodeBefore(target, key)
      PROVE  Tables'
  <2> DEFINE next == IF FromKeys(target) = {} THEN {node[ParentId(target)].key} ELSE FromKeys(target)
  <2>1. /\ target \in Ids /\ ParentId(target) \in Ids /\ node[target].role \in Text
        /\ next \in SUBSET VisibleKeys
    <3>1. HasParent(target)
      BY <1>3 DEF addTaskMindMapNodeBefore
    <3>2. /\ target \in Ids /\ ParentId(target) \in Ids /\ node[target].role \in Text
          /\ node[ParentId(target)].key \in VisibleKeys
      BY <3>1, <1>1, SelectableIds
    <3>3. FromKeys(target) \subseteq VisibleKeys
      BY FromVisible
    <3> QED
      BY <3>2, <3>3
  <2>2. WithNewNode(key, ParentId(target), node[target].role, next)
    BY <1>3 DEF addTaskMindMapNodeBefore
  <2>3. NodeAdded(key)
    <3> HIDE DEF next
    <3> QED
      BY <2>1, <2>2, NewNode
  <2>4. /\ StoreTyped' /\ VisibleKeys' = VisibleKeys \union {key}
        /\ VisibleKeys' \subseteq Text /\ Ids' \subseteq Nat
    BY <1>3, <2>3, AddedTables DEF addTaskMindMapNodeBefore
  <2>5. edit' = <<Rewire(target, {key}, "success")>> /\ cut' = {}
    BY <1>1, <1>3 DEF addTaskMindMapNodeBefore
  <2>6. target \in Ids' /\ {key} \subseteq VisibleKeys' /\ node' \in Seq(NodeRow)
    BY <2>1, <2>3, <2>4 DEF NodeAdded
  <2>7. /\ Rewire(target, {key}, "success") \in Ops
        /\ OperationOK(Rewire(target, {key}, "success"), Ids', VisibleKeys')
        /\ Rewire(target, {key}, "success").op = "rewire"
    BY <2>4, <2>6, RewireOK, Zenon
  <2>8. /\ edit' \in Seq(Ops) /\ DOMAIN edit' = {1}
        /\ edit'[1] = Rewire(target, {key}, "success")
    BY <2>5, <2>7
  <2>9. EditInv'
    BY <2>5, <2>7, <2>8, EditBegins
  <2> QED
    BY <2>4, <2>9
<1>4. ASSUME NEW target \in Selectable, NEW key \in NewKeys, addTaskMindMapNodeAfter(target, key)
      PROVE  Tables'
  <2> DEFINE instead(i) == {IF k = node[target].key THEN key ELSE k : k \in FromKeys(i)}
             S == {d \in Dependents({target}) : Editable(d.task)}
             deps == SetToSeq(S)
             op(d) == Rewire(deps[d].task, instead(deps[d].task), deps[d].type)
  <2>1. /\ target \in Ids /\ ParentId(target) \in Ids /\ node[target].role \in Text
        /\ {node[target].key} \in SUBSET VisibleKeys
    <3>1. HasParent(target)
      BY <1>4 DEF addTaskMindMapNodeAfter
    <3>2. /\ target \in Ids /\ ParentId(target) \in Ids /\ node[target].role \in Text
          /\ node[target].key \in VisibleKeys
      BY <3>1, <1>1, SelectableIds
    <3> QED
      BY <3>2
  <2>2. WithNewNode(key, ParentId(target), node[target].role, {node[target].key})
    BY <1>4 DEF addTaskMindMapNodeAfter
  <2>3. NodeAdded(key)
    BY <2>1, <2>2, NewNode
  <2>4. /\ StoreTyped' /\ VisibleKeys' = VisibleKeys \union {key}
        /\ VisibleKeys' \subseteq Text /\ Ids' \subseteq Nat
    BY <1>4, <2>3, AddedTables DEF addTaskMindMapNodeAfter
  <2>5. edit' = [d \in DOMAIN deps |-> op(d)] /\ cut' = {}
    BY <1>1, <1>4 DEF addTaskMindMapNodeAfter
  <2>6. /\ deps \in Seq(S) /\ DOMAIN deps = 1..Len(deps) /\ Len(deps) \in Nat
        /\ \A d \in DOMAIN deps : deps[d] \in S
    <3>1. IsFiniteSet(S)
      BY DependentsOK, FS_Subset
    <3> HIDE DEF S
    <3> QED
      BY <3>1, SetToSeqTypes
  <2>7. ASSUME NEW d \in DOMAIN deps
        PROVE  op(d) \in Ops /\ OperationOK(op(d), Ids', VisibleKeys') /\ op(d).op = "rewire"
    <3> DEFINE i == deps[d].task
               next == instead(i)
               type == deps[d].type
    <3>1. i \in Ids' /\ type \in {"success", "finished"}
      BY <2>6, DependentsOK, <2>3 DEF NodeAdded, Visible
    <3>2. next \subseteq VisibleKeys'
      <4>1. FromKeys(i) \subseteq VisibleKeys
        BY FromVisible
      <4> HIDE DEF i
      <4> QED
        BY <4>1, <2>4
    <3>3. op(d) = Rewire(i, next, type)
      OBVIOUS
    <3> HIDE DEF i, next, type, op, S, deps, instead
    <3>4. VisibleKeys' \subseteq Text /\ Ids' \subseteq Nat
      BY <2>4
    <3>9. /\ Rewire(i, next, type) \in Ops /\ OperationOK(Rewire(i, next, type), Ids', VisibleKeys')
          /\ Rewire(i, next, type).op = "rewire"
      <4>1. Rewire(i, next, type) \in Ops
        BY <3>1, <3>2, <3>4, RewireOK
      <4>2. OperationOK(Rewire(i, next, type), Ids', VisibleKeys')
        BY <3>1, <3>2, <3>4, RewireOK
      <4>3. Rewire(i, next, type).op = "rewire"
        BY DEF Rewire, Operation
      <4> QED
        BY <4>1, <4>2, <4>3
    <3> QED
      BY <3>9, <3>3
  <2> HIDE DEF S, deps, op
  <2>8. edit' \in Seq(Ops) /\ DOMAIN edit' = DOMAIN deps /\ \A n \in DOMAIN edit' : edit'[n] = op(n)
    <3>1. edit' \in [1..Len(deps) -> Ops]
      BY <2>5, <2>6, <2>7
    <3> QED
      BY <2>5, <2>6, <3>1
  <2>9. EditInv'
    BY <2>5, <2>7, <2>8, EditBegins
  <2> QED
    BY <2>4, <2>9
<1>5. ASSUME NEW target \in Selectable, NEW next \in SUBSET VisibleKeys,
             updateTaskMindMapNode(target, next)
      PROVE  Tables'
  <2>1. UNCHANGED <<node, edge, releasing, cut, torn, touched>>
    BY <1>5 DEF updateTaskMindMapNode
  <2>2. StoreTyped' /\ Ids' = Ids /\ VisibleKeys' = VisibleKeys
    BY <2>1 DEF StoreTyped, Ids, Edges, VisibleKeys, Visible
  <2>3. target \in Ids /\ Ids \subseteq Nat /\ VisibleKeys \subseteq Text
    BY <1>1, SelectableIds, KeyStrings
  <2>4. /\ Rewire(target, next, "success") \in Ops
        /\ OperationOK(Rewire(target, next, "success"), Ids', VisibleKeys')
        /\ Rewire(target, next, "success").op = "rewire"
    BY <2>2, <2>3, RewireOK
  <2>5. edit' = <<Rewire(target, next, "success")>> /\ cut' = {}
    BY <1>1, <1>5 DEF updateTaskMindMapNode
  <2>6. /\ edit' \in Seq(Ops) /\ DOMAIN edit' = {1}
        /\ edit'[1] = Rewire(target, next, "success")
    BY <2>4, <2>5
  <2>7. EditInv'
    BY <2>4, <2>5, <2>6, EditBegins
  <2> QED
    BY <2>2, <2>7
<1>6. ASSUME NEW target \in Selectable, deleteTaskMindMapNode(target) PROVE Tables'
  <2> DEFINE gone == collectSubtree(target)
             keys(ids) == {node[i].key : i \in ids}
             inherited == FromKeys(target) \ keys(gone)
             deps == SetToSeq(Dependents(gone))
             locked == {d \in DOMAIN deps : ~Editable(deps[d].task)}
             last == Min({Len(deps)} \union {d - 1 : d \in locked})
             rewired == SubSeq(deps, 1, last)
             op(d) == Rewire(rewired[d].task, (FromKeys(rewired[d].task) \ keys(gone)) \union inherited,
                             rewired[d].type)
             rewires == [d \in DOMAIN rewired |-> op(d)]
             end == IF locked = {} THEN <<Removal(gone)>> ELSE <<>>
  <2>1. UNCHANGED <<node, edge, releasing, cut, torn, touched>> /\ edit' = rewires \o end
    BY <1>6 DEF deleteTaskMindMapNode
  <2>2. StoreTyped' /\ Ids' = Ids /\ VisibleKeys' = VisibleKeys
    BY <2>1 DEF StoreTyped, Ids, Edges, VisibleKeys, Visible
  <2>3. Ids \subseteq Nat /\ VisibleKeys \subseteq Text
    BY <1>1, KeyStrings
  <2>4. gone \in SUBSET Nat
    BY <2>3 DEF collectSubtree
  <2>5. /\ deps \in Seq(Dependents(gone)) /\ DOMAIN deps = 1..Len(deps) /\ Len(deps) \in Nat
        /\ \A d \in DOMAIN deps : deps[d] \in Dependents(gone)
    <3>1. IsFiniteSet(Dependents(gone))
      BY DependentsOK
    <3> HIDE DEF gone
    <3> QED
      BY <3>1, SetToSeqTypes
  <2>6. last \in 0..Len(deps)
    <3> DEFINE T == {Len(deps)} \union {d - 1 : d \in locked}
    <3>1. T \in SUBSET Nat /\ Len(deps) \in T
      BY <2>5
    <3>2. Min(T) \in T /\ Min(T) <= Len(deps)
      <4> HIDE DEF T
      <4> QED
        BY <3>1, MinExists
    <3> QED
      BY <3>1, <3>2, <2>5
  <2> HIDE DEF last, deps
  <2>7. /\ rewired \in Seq(Dependents(gone)) /\ DOMAIN rewired = 1..last /\ last \in Nat
        /\ \A d \in DOMAIN rewired : rewired[d] \in Dependents(gone)
    <3>1. \A i \in 1..last : deps[i] \in Dependents(gone)
      BY <2>5, <2>6
    <3> HIDE DEF gone
    <3>2. rewired \in Seq(Dependents(gone)) /\ Len(rewired) = last
      BY <3>1, <2>6, SubSeqProperties
    <3> HIDE DEF rewired
    <3> QED
      BY <3>2, <2>6
  <2>8. ASSUME NEW d \in DOMAIN rewired
        PROVE  op(d) \in Ops /\ OperationOK(op(d), Ids', VisibleKeys') /\ op(d).op = "rewire"
    <3> DEFINE i == rewired[d].task
               next == (FromKeys(i) \ keys(gone)) \union inherited
               type == rewired[d].type
    <3>1. rewired[d] \in Dependents(gone)
      BY <2>7
    <3>2. i \in Ids /\ type \in {"success", "finished"}
      <4> HIDE DEF gone, rewired
      <4> QED
        BY <3>1, DependentsOK DEF Visible
    <3>3. next \subseteq VisibleKeys
      BY FromVisible
    <3>4. op(d) = Rewire(i, next, type)
      OBVIOUS
    <3> HIDE DEF i, next, type, op, rewired
    <3>5. /\ Rewire(i, next, type) \in Ops /\ OperationOK(Rewire(i, next, type), Ids, VisibleKeys)
          /\ Rewire(i, next, type).op = "rewire"
      <4>1. Rewire(i, next, type) \in Ops
        BY <3>2, <3>3, <2>3, RewireOK
      <4>2. OperationOK(Rewire(i, next, type), Ids, VisibleKeys)
        BY <3>2, <3>3, <2>3, RewireOK
      <4>3. Rewire(i, next, type).op = "rewire"
        BY DEF Rewire, Operation
      <4> QED
        BY <4>1, <4>2, <4>3
    <3> QED
      BY <3>4, <3>5, <2>2
  <2>9. /\ Removal(gone) \in Ops /\ Removal(gone).op = "remove"
        /\ OperationOK(Removal(gone), Ids', VisibleKeys')
    <3> HIDE DEF gone
    <3> QED
      BY <2>4 DEF Removal, Operation, Ops, OperationOK
  <2> HIDE DEF gone, inherited, op, locked, rewired
  <2>10. rewires \in Seq(Ops) /\ Len(rewires) = last /\ \A n \in 1..last : rewires[n] = op(n)
    <3>1. rewires = [d \in 1..last |-> op(d)] /\ \A d \in 1..last : op(d) \in Ops
      BY <2>7, <2>8
    <3> HIDE DEF rewires
    <3>2. rewires \in [1..last -> Ops]
      BY <3>1
    <3> QED
      BY <2>7, <3>1, <3>2
  <2> DEFINE remove == Removal(gone)
  <2>11. end = <<>> \/ end = <<remove>>
    OBVIOUS
  <2> HIDE DEF rewires, remove, end
  <2>12. end \in Seq(Ops) /\ Len(end) \in {0, 1} /\ \A n \in 1..Len(end) : n = Len(end) /\ end[n] = remove
    <3>1. CASE end = <<>>
      BY <3>1, EmptySeq
    <3>2. CASE end = <<remove>>
      <4>1. remove \in Ops
        BY <2>9 DEF remove
      <4> QED
        BY <4>1, <3>2
    <3> QED
      BY <3>1, <3>2, <2>11
  <2>13. /\ edit' \in Seq(Ops) /\ DOMAIN edit' = 1..(last + Len(end))
         /\ Len(edit') = last + Len(end)
         /\ \A n \in 1..(last + Len(end)) : edit'[n] = IF n <= last THEN rewires[n] ELSE end[n - last]
    <3>1. /\ rewires \o end \in Seq(Ops) /\ Len(rewires \o end) = Len(rewires) + Len(end)
          /\ \A n \in 1..(Len(rewires) + Len(end)) :
               (rewires \o end)[n] = IF n <= Len(rewires) THEN rewires[n] ELSE end[n - Len(rewires)]
      BY <2>10, <2>12, ConcatProperties
    <3>2. edit' = rewires \o end /\ Len(rewires) = last
      BY <2>1, <2>10
    <3>3. DOMAIN edit' = 1..Len(edit')
      BY <3>1, <3>2
    <3> QED
      BY <3>1, <3>2, <3>3
  <2>14. ASSUME NEW n \in DOMAIN edit'
         PROVE  /\ OperationOK(edit'[n], Ids', VisibleKeys')
                /\ edit'[n].op = "rewire" \/ (edit'[n].op = "remove" /\ n = Len(edit'))
    <3>1. CASE n <= last
      <4>1. n \in 1..last /\ edit'[n] = op(n)
        BY <2>7, <2>10, <2>13, <3>1
      <4> QED
        BY <4>1, <2>7, <2>8
    <3>2. CASE ~(n <= last)
      <4>1. n - last \in 1..Len(end)
        BY <2>7, <2>12, <2>13, <3>2
      <4>2. edit'[n] = remove /\ n = Len(edit')
        BY <2>7, <2>12, <2>13, <3>2, <4>1
      <4> QED
        BY <4>2, <2>9 DEF remove
    <3> QED
      BY <3>1, <3>2
  <2>15. EditInv'
    BY <1>1, <2>1, <2>13, <2>14, EditBegins
  <2> QED
    BY <2>2, <2>15
<1>7. ASSUME NEW target \in Selectable, NEW other \in Selectable,
             updateTaskMindMapNode(target, {node[other].key})
      PROVE  Tables'
  <2>1. {node[other].key} \in SUBSET VisibleKeys
    BY <1>1, SelectableIds
  <2> QED
    BY <2>1, <1>5, <1>7
<1> QED
  BY <1>2, <1>3, <1>4, <1>6, <1>7 DEF EditNext

\* While the next step of an edit inserts nothing, nothing is cut.
LEMMA CutOnlyByInsert == ASSUME EditInv, edit # <<>>, Head(edit).op # "insert" PROVE cut = {}
  BY HeadOp DEF EditInv

\* What is left of an edit after its first step.
LEMMA TailOK ==
  ASSUME EditInv, edit # <<>>
  PROVE  \A n \in DOMAIN Tail(edit) :
           /\ OperationOK(Tail(edit)[n], Ids, VisibleKeys)
           /\ Tail(edit)[n].op = "rewire" \/ (Tail(edit)[n].op = "remove" /\ n = Len(Tail(edit)))
<1> SUFFICES ASSUME NEW n \in DOMAIN Tail(edit)
             PROVE  /\ OperationOK(Tail(edit)[n], Ids, VisibleKeys)
                    /\ Tail(edit)[n].op = "rewire" \/ (Tail(edit)[n].op = "remove" /\ n = Len(Tail(edit)))
  OBVIOUS
<1>1. /\ n + 1 \in DOMAIN edit /\ Tail(edit)[n] = edit[n + 1] /\ Len(Tail(edit)) = Len(edit) - 1
      /\ n \in Nat \ {0} /\ Len(edit) \in Nat
  BY HeadOp
<1>2. edit[n + 1] \in Ops
  BY <1>1 DEF EditInv
<1>3. edit[n + 1].op \in {"rewire", "insert", "remove"}
  BY <1>2 DEF Ops
<1>4. edit[n + 1].op # "insert"
  BY <1>1 DEF EditInv
<1>5. edit[n + 1].op = "remove" => n + 1 = Len(edit)
  BY <1>1 DEF EditInv
<1>6. OperationOK(edit[n + 1], Ids, VisibleKeys)
  BY <1>1 DEF EditInv
<1> QED
  BY <1>1, <1>3, <1>4, <1>5, <1>6

\* The first half of a rewiring, which cuts the edges of a row, keeps the tables typed.
LEMMA DeleteTables == ASSUME Tables, RewireDelete PROVE Tables'
<1> USE DEF Tables
<1> DEFINE step == Head(edit)
           i == CHOOSE j \in step.ids : TRUE
           op == Insertion(i, {resolveNode(k) : k \in step.next}, step.type)
<1>1. node \in Seq(NodeRow) /\ edit # <<>> /\ cut = {} /\ UNCHANGED <<releasing, torn>>
  BY CutOnlyByInsert DEF StoreTyped, RewireDelete
<1>2. i \in Ids /\ step.next \subseteq VisibleKeys /\ step.type \in {"success", "finished"}
  BY <1>1, HeadOp DEF RewireDelete
<1>3. CASE edit' = <<>> /\ UNCHANGED <<node, edge, cut, touched>>
  <2>1. RowsKept
    BY <1>1, <1>3 DEF RowsKept, SameRow, Ids
  <2>2. StoreTyped'
    BY <1>1, <1>3, <2>1, StoreKept DEF StoreTyped
  <2>3. EditInv'
    BY <1>1, <1>3, EditIdle
  <2> QED
    BY <2>2, <2>3
<1>4. CASE /\ node' = SetStatus({i}, "pending")
           /\ touched' = touched \union {i}
           /\ edit' = <<>> /\ UNCHANGED <<edge, cut>>
  <2> HIDE DEF i
  <2>1. "pending" \in Statuses
    BY DEF Statuses
  <2>2. RowsKept
    BY <1>1, <1>4, <2>1, StatusRows
  <2>3. StoreTyped'
    BY <1>1, <1>4, <2>2, StoreKept DEF StoreTyped
  <2>4. EditInv'
    BY <1>1, <1>4, EditIdle
  <2> QED
    BY <2>3, <2>4
<1>5. CASE /\ node' = SetStatus({i}, "pending")
           /\ touched' = touched \union {i}
           /\ edge' = edge \ Dependencies(i)
           /\ cut' = {i}
           /\ edit' = <<op>> \o Tail(edit)
  <2> HIDE DEF i
  <2>1. "pending" \in Statuses
    BY DEF Statuses
  <2>2. RowsKept /\ \A j \in Ids : node'[j].status = IF j \in {i} THEN "pending" ELSE node[j].status
    BY <1>1, <1>5, <2>1, StatusRows
  <2>3. StoreTyped'
    BY <1>1, <1>5, <2>2, StoreKept DEF StoreTyped
  <2>4. Ids' = Ids /\ VisibleKeys' = VisibleKeys
    BY <1>1, <2>2, SameKeys DEF RowsKept
  <2>5. /\ op \in Ops /\ op.op = "insert" /\ op.ids = {i} /\ op.on \subseteq Ids
    <3>1. {resolveNode(k) : k \in step.next} \subseteq Ids
      BY <1>1, <1>2, Resolves
    <3>2. Ids \subseteq Nat
      BY <1>1, RowIds
    <3> DEFINE on == {resolveNode(k) : k \in step.next}
               type == step.type
    <3>3. on \in SUBSET Nat /\ type \in {"success", "finished"} /\ i \in Nat
      BY <1>2, <3>1, <3>2
    <3>4. on \subseteq Ids
      BY <3>1
    <3>5. op = Insertion(i, on, type)
      OBVIOUS
    <3> HIDE DEF on, type, op
    <3>6. op = [op |-> "insert", ids |-> {i}, next |-> {}, on |-> on, type |-> type]
      BY <3>5 DEF Insertion, Operation
    <3> QED
      BY <3>3, <3>4, <3>6 DEF Ops
  <2>6. OperationOK(op, Ids', VisibleKeys')
    <3> HIDE DEF op
    <3> QED
      BY <1>2, <2>4, <2>5 DEF OperationOK
  <2> HIDE DEF op
  <2>7. /\ edit' \in Seq(Ops) /\ Len(edit') = Len(edit) /\ DOMAIN edit' = 1..Len(edit)
        /\ Len(edit) \in Nat \ {0}
        /\ edit'[1] = op
        /\ \A n \in 1..Len(edit) : n # 1 => n - 1 \in DOMAIN Tail(edit) /\ edit'[n] = Tail(edit)[n - 1]
    <3>1. /\ Tail(edit) \in Seq(Ops) /\ Len(Tail(edit)) = Len(edit) - 1 /\ Len(edit) \in Nat \ {0}
          /\ DOMAIN Tail(edit) = 1..(Len(edit) - 1)
      BY <1>1, HeadOp
    <3>2. <<op>> \in Seq(Ops) /\ Len(<<op>>) = 1 /\ <<op>>[1] = op
      BY <2>5
    <3> DEFINE one == <<op>>
               rest == Tail(edit)
    <3>3. /\ one \in Seq(Ops) /\ Len(one) = 1 /\ one[1] = op /\ rest \in Seq(Ops)
          /\ Len(rest) = Len(edit) - 1
          /\ edit' = one \o rest
      BY <1>5, <3>1, <3>2
    <3> HIDE DEF one, rest
    <3>4. /\ edit' \in Seq(Ops)
          /\ Len(edit') = Len(one) + Len(rest)
          /\ \A k \in 1 .. Len(one) + Len(rest) : edit'[k] =
                     IF k <= Len(one) THEN one[k] ELSE rest[k - Len(one)]
      BY <3>3, ConcatProperties
    <3>5. \A n \in 1..Len(edit) : n # 1 => n - 1 \in DOMAIN Tail(edit) /\ edit'[n] = Tail(edit)[n - 1]
      BY <3>1, <3>3, <3>4 DEF rest
    <3>6. edit'[1] = op
      BY <3>1, <3>3, <3>4
    <3>7. Len(edit') = Len(edit)
      BY <3>1, <3>3, <3>4
    <3>8. DOMAIN edit' = 1..Len(edit)
      BY <3>4, <3>7
    <3> QED
      BY <3>1, <3>4, <3>5, <3>6, <3>7, <3>8
  <2>8. ASSUME NEW n \in DOMAIN edit'
        PROVE  /\ OperationOK(edit'[n], Ids', VisibleKeys')
               /\ edit'[n].op = "insert" => n = 1
               /\ edit'[n].op = "remove" => n = Len(edit')
    <3>1. CASE n = 1
      BY <3>1, <2>5, <2>6, <2>7
    <3>2. CASE n # 1
      <4>1. n - 1 \in DOMAIN Tail(edit) /\ edit'[n] = Tail(edit)[n - 1]
        BY <3>2, <2>7
      <4>2. /\ OperationOK(edit'[n], Ids, VisibleKeys)
            /\ edit'[n].op = "rewire" \/ (edit'[n].op = "remove" /\ n - 1 = Len(Tail(edit)))
        BY <4>1, <1>1, TailOK
      <4>3. Len(Tail(edit)) = Len(edit) - 1 /\ Len(edit) \in Nat
        BY <1>1, HeadOp
      <4> QED
        BY <4>2, <4>3, <2>4, <2>7
    <3> QED
      BY <3>1, <3>2
  <2>9. cut' = edit'[1].ids /\ edit'[1].op = "insert" /\ edit' # <<>>
    BY <1>5, <2>5, <2>7
  <2>10. \A j \in cut' : node'[j].status = "pending"
    BY <1>2, <1>5, <2>2
  <2>11. EditInv'
    BY <2>7, <2>8, <2>9, <2>10 DEF EditInv
  <2> QED
    BY <2>3, <2>11
<1> QED
  BY <1>3, <1>4, <1>5 DEF RewireDelete

\* The second half, which writes the new ones, keeps them typed.
LEMMA InsertTables == ASSUME Tables, RewireInsert PROVE Tables'
<1> USE DEF Tables
<1> DEFINE step == Head(edit)
           i == CHOOSE j \in step.ids : TRUE
<1>1. /\ node \in Seq(NodeRow) /\ edit # <<>> /\ UNCHANGED <<node, releasing, torn, touched>>
      /\ edge' = addTaskDependency(edge, {[task |-> i, on |-> j, type |-> step.type] : j \in step.on})
      /\ cut' = {} /\ edit' = Tail(edit)
  BY DEF StoreTyped, RewireInsert
<1>2. i \in Ids /\ step.on \subseteq Ids /\ step.type \in {"success", "finished"}
  BY <1>1, HeadOp DEF RewireInsert
<1>3. edge' \subseteq Edges
  <2>1. \A e \in edge' : e \in edge \/ \E j \in step.on : e = [task |-> i, on |-> j, type |-> step.type]
    BY <1>1 DEF addTaskDependency
  <2> HIDE DEF step, i
  <2> QED
    BY <2>1, <1>2 DEF StoreTyped, Edges
<1>4. RowsKept /\ Ids' = Ids /\ VisibleKeys' = VisibleKeys
  BY <1>1 DEF RowsKept, SameRow, Ids, VisibleKeys, Visible
<1>5. StoreTyped'
  BY <1>1, <1>3, <1>4, StoreKept DEF StoreTyped
<1>6. EditInv'
  BY <1>1, <1>4, HeadOp, TailOK, EditBegins
<1> QED
  BY <1>5, <1>6

\* RemoveNodes, row by row.
LEMMA RemovedRows ==
  ASSUME Tables, RemoveNodes
  PROVE  /\ node' \in Seq(NodeRow) /\ Len(node') = Len(node) /\ Ids' = Ids
         /\ \A i \in Ids : /\ node'[i].key = node[i].key /\ node'[i].origin = node[i].origin
                           /\ node'[i].materialization = node[i].materialization
                           /\ node[i].deleted => node'[i].deleted
         /\ \A i \in Ids : IF i \in touched' \ touched \/ i \in Head(edit).ids
                           THEN i \in touched' ELSE node'[i] = node[i]
         /\ \A i \in Ids : \/ node'[i].status = node[i].status
                           \/ node[i].status \notin Terminal /\ node'[i].status = "cancelled"
<1> USE DEF Tables
<1> DEFINE ids == Head(edit).ids
           new(i) == IF node[i].status \in Terminal THEN node[i].status ELSE "cancelled"
<1>1. /\ node \in Seq(NodeRow) /\ touched' = touched \union ids
      /\ Ids = 1..Len(node) /\ Len(node) \in Nat /\ \A i \in Ids : node[i] \in NodeRow
  BY RowIds DEF StoreTyped, RemoveNodes
<1>2. /\ DOMAIN node' = Ids
      /\ \A i \in Ids : node'[i] = IF i \notin ids THEN node[i]
                                   ELSE [node[i] EXCEPT !.deleted = TRUE, !.status = new(i)]
      /\ node' = [i \in Ids |-> node'[i]]
  BY DEF RemoveNodes
<1>3. ASSUME NEW i \in Ids
      PROVE  /\ node'[i] \in NodeRow /\ node'[i].key = node[i].key /\ node'[i].origin = node[i].origin
             /\ node'[i].materialization = node[i].materialization
             /\ node[i].deleted => node'[i].deleted
             /\ \/ node'[i].status = node[i].status
                \/ node[i].status \notin Terminal /\ node'[i].status = "cancelled"
  <2> DEFINE r == node[i]
             s == new(i)
             q == [r EXCEPT !.deleted = TRUE, !.status = s]
  <2>1. r \in NodeRow /\ node'[i] = IF i \notin ids THEN r ELSE q
    BY <1>1, <1>2
  <2>2. s \in Statuses /\ (s = r.status \/ (r.status \notin Terminal /\ s = "cancelled"))
    BY <2>1, RowFields DEF Statuses
  <2>3. /\ q \in NodeRow /\ q.key = r.key /\ q.origin = r.origin /\ q.status = s
        /\ q.materialization = r.materialization /\ q.deleted
    <3> HIDE DEF r, s
    <3> QED
      BY <2>1, <2>2 DEF NodeRow
  <2> HIDE DEF r, s, q
  <2>4. /\ node'[i] \in NodeRow /\ node'[i].key = r.key /\ node'[i].origin = r.origin
        /\ node'[i].materialization = r.materialization
        /\ r.deleted => node'[i].deleted
        /\ \/ node'[i].status = r.status
           \/ r.status \notin Terminal /\ node'[i].status = "cancelled"
    BY <2>1, <2>2, <2>3
  <2> QED
    BY <2>4 DEF r
<1> HIDE DEF ids, new
<1>4. node' \in Seq(NodeRow) /\ Len(node') = Len(node)
  <2>1. node' \in [1..Len(node) -> NodeRow]
    BY <1>1, <1>2, <1>3
  <2> QED
    BY <2>1, <1>1
<1>5. \A i \in Ids : IF i \in touched' \ touched \/ i \in Head(edit).ids
                    THEN i \in touched' ELSE node'[i] = node[i]
  BY <1>1, <1>2 DEF ids
<1> QED
  BY <1>2, <1>3, <1>4, <1>5 DEF Ids

\* The end of a deletion keeps them typed.
LEMMA RemoveTables == ASSUME Tables, RemoveNodes PROVE Tables'
<1> USE DEF Tables
<1>1. /\ edit # <<>> /\ Head(edit).op = "remove" /\ UNCHANGED <<edge, releasing, cut, torn>>
      /\ touched' = touched \union Head(edit).ids /\ edit' = Tail(edit)
  BY DEF RemoveNodes
<1>2. cut = {}
  BY <1>1, CutOnlyByInsert
<1>3. edit' = <<>>
  <2>1. Len(edit) = 1 /\ Tail(edit) \in Seq(Ops) /\ Len(Tail(edit)) = 0
    <3>1. /\ Head(edit) = edit[1] /\ 1 \in DOMAIN edit /\ Len(edit) \in Nat \ {0}
          /\ Tail(edit) \in Seq(Ops) /\ Len(Tail(edit)) = Len(edit) - 1
      BY <1>1, HeadOp
    <3>2. 1 = Len(edit)
      BY <1>1, <3>1 DEF EditInv
    <3>3. Len(Tail(edit)) = 0
      <4> DEFINE n == Len(edit)
                 m == Len(Tail(edit))
      <4>1. n = 1 /\ m = n - 1
        BY <3>1, <3>2
      <4> HIDE DEF n, m
      <4>2. m = 0
        BY <4>1
      <4> QED
        BY <4>2 DEF m
    <3> QED
      BY <3>1, <3>2, <3>3
  <2> QED
    BY <1>1, <2>1, EmptySeq
<1>4. EditInv'
  BY <1>1, <1>2, <1>3, EditIdle
<1>5. \A i \in Ids : node'[i].deleted => i \in touched'
  BY <1>1, RemovedRows DEF StoreTyped
<1>6. StoreTyped'
  BY <1>1, <1>2, <1>5, RemovedRows DEF StoreTyped, Edges
<1> QED
  BY <1>4, <1>6

-----------------------------------------------------------------------------
(* The numbers and the keys the executor chooses.                            *)

\* A wave is never empty, nor larger than what is configured.
LEMMA LimitInRange ==
  ASSUME TaskGraphExecutorAssumption, NEW current \in 1..MaxParallelTasks, NEW bad \in Nat,
         NEW pendingCount \in Nat,
         NEW expandedCount, NEW cluster
  PROVE  adaptiveParallelLimit(current, bad, pendingCount, expandedCount, cluster) \in 1..MaxParallelTasks
<1> DEFINE half == (MaxParallelTasks + 1) \div 2
<1>1. MaxParallelTasks \in Nat \ {0}
  BY DEF TaskGraphExecutorAssumption
<1>2. half \in 1..MaxParallelTasks
  BY <1>1
<1>3. ASSUME NEW y \in 1..MaxParallelTasks \union {2}
      PROVE  Max({1, Min({current, y})}) \in 1..MaxParallelTasks
  <2> DEFINE m == Min({current, y})
  <2>1. m = IF current <= y THEN current ELSE y
    BY <1>1, MinOfTwo
  <2> HIDE DEF m
  <2>2. m \in 1..MaxParallelTasks
    BY <1>1, <2>1
  <2>3. Max({1, m}) = IF 1 >= m THEN 1 ELSE m
    BY <1>1, <2>2, MaxOfTwo
  <2>4. Max({1, m}) \in 1..MaxParallelTasks
    BY <1>1, <2>2, <2>3
  <2> QED
    BY <2>4 DEF m
<1>4. Max({1, Min({MaxParallelTasks, current})}) \in 1..MaxParallelTasks
  <2>1. {MaxParallelTasks, current} = {current, MaxParallelTasks}
    OBVIOUS
  <2>2. MaxParallelTasks \in 1..MaxParallelTasks \union {2}
    BY <1>1
  <2>3. Max({1, Min({current, MaxParallelTasks})}) \in 1..MaxParallelTasks
    BY <2>2, <1>3, Zenon
  <2> QED
    BY <2>1, <2>3, Zenon
<1>5. /\ Max({1, Min({current, half})}) \in 1..MaxParallelTasks
      /\ Max({1, Min({current, 2})}) \in 1..MaxParallelTasks
      /\ 1 \in 1..MaxParallelTasks /\ MaxParallelTasks \in 1..MaxParallelTasks
  <2>1. 2 \in 1..MaxParallelTasks \union {2} /\ half \in 1..MaxParallelTasks \union {2}
    BY <1>1, <1>2
  <2>2. 1 \in 1..MaxParallelTasks /\ MaxParallelTasks \in 1..MaxParallelTasks
    BY <1>1
  <2> HIDE DEF half
  <2> QED
    BY <2>1, <2>2, <1>3, Zenon
<1> DEFINE m1 == Max({1, Min({current, half})})
           m2 == Max({1, Min({current, 2})})
           m3 == Max({1, Min({MaxParallelTasks, current})})
           a == \/ bad * FAILURE_CLUSTER_WEIGHTS(cluster) >= 140 \/ bad >= 3
                \/ 10 * expandedCount >= 9 * MaxDynamicTasks
           b == /\ bad * FAILURE_CLUSTER_WEIGHTS(cluster) \in 1..139 /\ bad < 3
                /\ 10 * expandedCount < 9 * MaxDynamicTasks
           c == 4 * expandedCount >= 3 * MaxDynamicTasks
           d == pendingCount > 2 * MaxParallelTasks
<1>6. adaptiveParallelLimit(current, bad, pendingCount, expandedCount, cluster) =
        CASE a -> 1 [] b -> m1 [] OTHER -> IF c THEN m2 ELSE IF d THEN MaxParallelTasks ELSE m3
  BY Zenon DEF adaptiveParallelLimit
<1> HIDE DEF m1, m2, m3, a, b, c, d
<1>7. m1 \in 1..MaxParallelTasks /\ m2 \in 1..MaxParallelTasks /\ m3 \in 1..MaxParallelTasks
  BY <1>4, <1>5 DEF m1, m2, m3
<1>8. (CASE a -> 1 [] b -> m1 [] OTHER -> IF c THEN m2 ELSE IF d THEN MaxParallelTasks ELSE m3)
        \in 1..MaxParallelTasks
  BY <1>5, <1>7
<1> QED
  BY <1>6, <1>8

\* The keys of the graph are as many as its rows at most.
LEMMA KeysFinite ==
  ASSUME node \in Seq(NodeRow), NEW S, S \subseteq Keys
  PROVE  IsFiniteSet(S) /\ Cardinality(S) \in Nat /\ Cardinality(S) <= Len(node)
<1>1. Ids = 1..Len(node) /\ Len(node) \in Nat
  BY RowIds
<1> DEFINE f == [i \in Ids |-> node[i].key]
<1>2. f \in Surjection(Ids, Keys)
  <2>1. f \in [Ids -> Keys] /\ \A k \in Keys : \E i \in Ids : f[i] = k
    BY DEF Keys
  <2> HIDE DEF f
  <2> QED
    BY <2>1 DEF Surjection
<1> HIDE DEF f
<1>3. IsFiniteSet(Ids) /\ Cardinality(Ids) = Len(node)
  BY <1>1, FS_Interval
<1>4. IsFiniteSet(Keys) /\ Cardinality(Keys) <= Cardinality(Ids)
  BY <1>2, <1>3, FS_Surjection
<1>5. IsFiniteSet(S) /\ Cardinality(S) <= Cardinality(Keys)
  BY <1>4, FS_Subset
<1> QED
  BY <1>1, <1>3, <1>4, <1>5, FS_CardinalityType

\* Rows with distinct keys are as many as their keys at most.
LEMMA DistinctRows ==
  ASSUME NEW S, NEW T, IsFiniteSet(T), \A i \in S : node[i].key \in T,
         \A i, j \in S : node[i].key = node[j].key => i = j
  PROVE  IsFiniteSet(S) /\ Cardinality(S) <= Cardinality(T)
<1> DEFINE f == [i \in S |-> node[i].key]
<1>1. f \in Injection(S, T)
  BY DEF Injection, IsInjective
<1> HIDE DEF f
<1> QED
  BY <1>1, FS_Injection

\* A planner may add a task at least, and no more than there is room for.
LEMMA BudgetWithinSlots ==
  ASSUME NEW available \in Nat \ {0}, NEW cluster, NEW attempt \in Nat, NEW production
  PROVE  calibratedReplanBudget(available, cluster, attempt, production) \in 1..available
<1> DEFINE base == CASE cluster \in {"permission_or_policy", "needs_user_input", "resource_budget"} -> 2
                [] cluster \in {"dependency", "research_quality", "timeout", "provider"} -> 3
                [] cluster \in {"verification", "data_quality"} -> 4
                [] OTHER -> 5
           boost == IF production THEN 1 ELSE 0
           most == base + boost
           left == Max({1, 7 - attempt})
           least == Min({available, most, left})
<1>1. most \in Nat \ {0}
  <2>1. base \in Nat \ {0} /\ boost \in Nat
    OBVIOUS
  <2> HIDE DEF base, boost
  <2> QED
    BY <2>1
<1>2. left \in Nat \ {0}
  <2>1. left = IF 1 >= 7 - attempt THEN 1 ELSE 7 - attempt
    BY MaxOfTwo
  <2> HIDE DEF left
  <2> QED
    BY <2>1
<1> HIDE DEF most, left
<1>3. least \in {available, most, left} /\ \A y \in {available, most, left} : least <= y
  <2>1. {available, most, left} \in SUBSET Nat /\ {available, most, left} # {}
    BY <1>1, <1>2
  <2> QED
    BY <2>1, MinExists
<1> HIDE DEF least
<1>4. Max({1, least}) = IF 1 >= least THEN 1 ELSE least
  BY <1>1, <1>2, <1>3, MaxOfTwo
<1>5. Max({1, least}) \in 1..available
  BY <1>1, <1>2, <1>3, <1>4
<1> QED
  BY <1>5 DEF calibratedReplanBudget, base, boost, most, left, least

-----------------------------------------------------------------------------
(* What the executor takes from a planner.                                   *)

\* What the executor takes from a planner: tasks whose keys are new and distinct, no more than
\* there is room for.
Fresh(specs, room) ==
  /\ specs \in Seq(Task) /\ KeysDistinct(specs) /\ Len(specs) <= room
  /\ TaskKeys(specs) \intersect (DOMAIN tasksByKey \union MalformedKeys) = {}

\* Tasks that planners return or the runtime makes up, and that do not wait for each other in a
\* circle, unless one of them has the key of the task they are made for.
Sound(specs, parent) ==
  /\ TaskKeys(specs) \subseteq PlannerKeys
  /\ \A T \in SUBSET (1..Len(specs)) :
       IndexCircle(specs, Len(specs), T) => \E i \in T : specs[i].key = parent

\* The first n of a list of sound tasks are sound.
LEMMA SoundPrefix ==
  ASSUME NEW specs \in Seq(Task), NEW n \in 0..Len(specs), NEW parent, Sound(specs, parent)
  PROVE  Sound(SubSeq(specs, 1, n), parent)
<1> DEFINE s == SubSeq(specs, 1, n)
<1>1. Len(s) = n /\ DOMAIN s = 1..n /\ \A i \in 1..n : s[i] = specs[i]
  OBVIOUS
<1>2. Len(specs) \in Nat /\ DOMAIN specs = 1..Len(specs) /\ 1..n \subseteq 1..Len(specs)
  OBVIOUS
<1> HIDE DEF s
<1>3. TaskKeys(s) \subseteq TaskKeys(specs)
  BY <1>1, <1>2 DEF TaskKeys
<1>4. ASSUME NEW T \in SUBSET (1..n), IndexCircle(s, n, T)
      PROVE  \E i \in T : s[i].key = parent
  <2>1. T \in SUBSET (1..Len(specs)) /\ IndexCircle(specs, Len(specs), T)
    BY <1>1, <1>2, <1>4 DEF IndexCircle
  <2>2. PICK i \in T : specs[i].key = parent
    BY <2>1 DEF Sound
  <2> QED
    BY <1>1, <2>2
<1>5. Sound(s, parent)
  BY <1>1, <1>2, <1>3, <1>4 DEF Sound
<1> QED
  BY <1>5 DEF s

\* A valid patch of a planner is sound.
LEMMA ValidSound ==
  ASSUME NEW specs \in Seq(Task), NEW patch, patch.tasks = specs, NEW parent, NEW most,
         TaskKeys(specs) \subseteq PlannerKeys,
         validateGraphPatchSpec(patch, parent, DOMAIN tasksByKey, most, 100)
  PROVE  Sound(specs, parent)
<1>1. KeysDistinct(specs) /\ ~detectCycles(specs)
  BY DEF validateGraphPatchSpec
<1>2. Listed(specs, Len(specs))
  BY DEF Listed
<1>3. \A T : ~IndexCircle(specs, Len(specs), T)
  BY <1>1, <1>2, CyclesOfTasks
<1> QED
  BY <1>3 DEF Sound

\* Tasks with the keys and dependencies of sound ones are sound.
LEMMA SameSound ==
  ASSUME NEW specs \in Seq(Task), NEW parent, Sound(specs, parent), NEW others \in Seq(Task),
         DOMAIN others = DOMAIN specs, Len(others) = Len(specs),
         \A i \in DOMAIN specs :
           others[i].key = specs[i].key /\ others[i].dependsOn = specs[i].dependsOn
  PROVE  Sound(others, parent)
<1>1. TaskKeys(others) = TaskKeys(specs)
  BY DEF TaskKeys
<1>2. DOMAIN specs = 1..Len(specs)
  OBVIOUS
<1>3. ASSUME NEW T \in SUBSET (1..Len(specs)), IndexCircle(others, Len(specs), T)
      PROVE  \E i \in T : others[i].key = parent
  <2>1. IndexCircle(specs, Len(specs), T)
    BY <1>2, <1>3 DEF IndexCircle
  <2>2. PICK i \in T : specs[i].key = parent
    BY <2>1 DEF Sound
  <2> QED
    BY <1>2, <2>2
<1> QED
  BY <1>1, <1>3 DEF Sound

\* The first n of a list of fresh tasks are fresh.
LEMMA FreshPrefix ==
  ASSUME NEW room \in Nat, NEW specs \in Seq(Task), NEW n \in 0..Len(specs), n <= room,
         KeysDistinct(specs), TaskKeys(specs) \intersect (DOMAIN tasksByKey \union MalformedKeys) = {}
  PROVE  Fresh(SubSeq(specs, 1, n), room)
<1> DEFINE s == SubSeq(specs, 1, n)
<1>1. Len(specs) \in Nat /\ DOMAIN specs = 1..Len(specs) /\ \A i \in 1..Len(specs) : specs[i] \in Task
  OBVIOUS
<1>2. s \in Seq(Task) /\ Len(s) = n /\ DOMAIN s = 1..n /\ \A i \in 1..n : s[i] = specs[i]
  <2>1. \A i \in 1..n : specs[i] \in Task
    BY <1>1
  <2>2. s = [i \in 1..n |-> specs[i]]
    BY <1>1
  <2> HIDE DEF s
  <2>3. s \in [1..n -> Task]
    BY <2>1, <2>2
  <2> QED
    BY <2>2, <2>3
<1> HIDE DEF s
<1>3. \A i \in 1..n : i \in DOMAIN specs
  BY <1>1
<1>4. TaskKeys(s) \subseteq TaskKeys(specs)
  BY <1>2, <1>3 DEF TaskKeys
<1>5. KeysDistinct(s)
  BY <1>2, <1>3 DEF KeysDistinct
<1>6. Fresh(s, room)
  BY <1>2, <1>4, <1>5 DEF Fresh
<1> QED
  BY <1>6 DEF s

\* A patch has the keys of the tasks the planner returned.
LEMMA PatchTasks ==
  ASSUME node \in Seq(NodeRow), cur \in Ids, NEW tasks \in Seq(PlanTask)
  PROVE  /\ Patch(tasks).tasks \in Seq(Task) /\ Len(Patch(tasks).tasks) = Len(tasks)
         /\ DOMAIN Patch(tasks).tasks = 1..Len(tasks)
         /\ \A i \in 1..Len(tasks) : Patch(tasks).tasks[i].key = tasks[i].key
<1> DEFINE p == Patch(tasks).tasks
<1>1. Len(tasks) \in Nat /\ DOMAIN tasks = 1..Len(tasks) /\ \A i \in 1..Len(tasks) : tasks[i] \in Task
  BY PlanTasks
<1>2. p = [i \in 1..Len(tasks) |->
             IF tasks[i].parentKey = NoKey THEN [tasks[i] EXCEPT !.parentKey = node[cur].key]
             ELSE tasks[i]]
  BY <1>1 DEF Patch
<1> HIDE DEF p
<1>3. node[cur].key \in Text
  BY RowIds, RowFields
<1>4. ASSUME NEW i \in 1..Len(tasks) PROVE p[i] \in Task /\ p[i].key = tasks[i].key
  <2> DEFINE t == tasks[i]
             parent == node[cur].key
  <2>1. /\ t \in Task /\ parent \in Text
        /\ p[i] = IF t.parentKey = NoKey THEN [t EXCEPT !.parentKey = parent] ELSE t
    BY <1>1, <1>2, <1>3
  <2> HIDE DEF t, parent
  <2>2. [t EXCEPT !.parentKey = parent] \in Task /\ [t EXCEPT !.parentKey = parent].key = t.key
    BY <2>1 DEF Task
  <2>3. p[i] \in Task /\ p[i].key = t.key
    BY <2>1, <2>2
  <2> QED
    BY <2>3 DEF t
<1>5. p \in [1..Len(tasks) -> Task]
  BY <1>2, <1>4
<1>6. p \in Seq(Task) /\ Len(p) = Len(tasks) /\ DOMAIN p = 1..Len(tasks)
  BY <1>1, <1>2, <1>5
<1> QED
  BY <1>4, <1>6 DEF p

\* So its keys are those of a planner.
LEMMA PatchKeys ==
  ASSUME TaskGraphExecutorAssumption, node \in Seq(NodeRow), cur \in Ids, NEW tasks \in Patches
  PROVE  TaskKeys(Patch(tasks).tasks) \subseteq PlannerKeys
<1>1. tasks \in Seq(PlanTask)
  BY DEF TaskGraphExecutorAssumption
<1>2. /\ DOMAIN Patch(tasks).tasks = 1..Len(tasks) /\ DOMAIN tasks = 1..Len(tasks)
      /\ \A i \in 1..Len(tasks) : Patch(tasks).tasks[i].key = tasks[i].key
  BY <1>1, PatchTasks
<1>3. TaskKeys(Patch(tasks).tasks) = TaskKeys(tasks)
  BY <1>2 DEF TaskKeys
<1> QED
  BY <1>3 DEF PlannerKeys

\* A valid patch is fresh.
LEMMA ValidFresh ==
  ASSUME NEW specs \in Seq(Task), NEW patch, patch.tasks = specs, NEW parent, NEW room \in Nat,
         NEW most \in Nat, most <= room,
         validateGraphPatchSpec(patch, parent, DOMAIN tasksByKey, most, 100)
  PROVE  Fresh(specs, room)
<1>1. /\ Len(specs) <= most /\ KeysDistinct(specs)
      /\ TaskKeys(specs) \intersect DOMAIN tasksByKey = {}
      /\ \A i \in DOMAIN specs : TaskFieldsValid(specs[i], 100)
  BY DEF validateGraphPatchSpec
<1>2. \A i \in DOMAIN specs : specs[i].key \notin MalformedKeys
  BY <1>1 DEF TaskFieldsValid
<1>3. TaskKeys(specs) \intersect (DOMAIN tasksByKey \union MalformedKeys) = {}
  BY <1>1, <1>2 DEF TaskKeys
<1>4. Len(specs) \in Nat
  OBVIOUS
<1> QED
  BY <1>1, <1>3, <1>4 DEF Fresh

\* Tasks with the keys of fresh ones are fresh.
LEMMA SameFresh ==
  ASSUME NEW room, NEW specs \in Seq(Task), Fresh(specs, room), NEW others \in Seq(Task),
         DOMAIN others = DOMAIN specs, Len(others) = Len(specs),
         \A i \in DOMAIN specs : others[i].key = specs[i].key
  PROVE  Fresh(others, room)
<1>1. TaskKeys(others) = TaskKeys(specs)
  BY DEF TaskKeys
<1>2. KeysDistinct(others)
  BY DEF KeysDistinct, Fresh
<1> QED
  BY <1>1, <1>2 DEF Fresh

\* A step of the executor that takes tasks from a planner, or makes some up.
Grows ==
  \E specs, superseded :
    /\ Fresh(specs, slots) /\ Sound(specs, node[cur].key)
    /\ superseded \in BOOLEAN /\ createDynamicTasks(specs, superseded) /\ Resume

\* A replan adds fresh tasks.
LEMMA ReplanGrows ==
  ASSUME TaskGraphExecutorAssumption, Tables, ExecutorTyped, cur \in Ids, slots \in Nat \ {0},
         NEW tasks \in Patches, Replan(tasks)
  PROVE  Grows
<1>0. TaskKeys(Patch(tasks).tasks) \subseteq PlannerKeys
  BY PatchKeys DEF Tables, StoreTyped
<1> DEFINE patch == Patch(tasks)
           old == patch.tasks
           specs == [i \in DOMAIN old |->
                       IF node[cur].key \in old[i].dependsOn
                       THEN [old[i] EXCEPT !.dependencyType = "finished"] ELSE old[i]]
<1>1. /\ tasks \in Seq(PlanTask) /\ node \in Seq(NodeRow)
  BY DEF TaskGraphExecutorAssumption, Tables, StoreTyped
<1>2. /\ old \in Seq(Task) /\ DOMAIN old = 1..Len(old) /\ Len(old) \in Nat
      /\ \A i \in DOMAIN old : old[i] \in Task
  <2>1. old \in Seq(Task)
    BY <1>1, PatchTasks
  <2> HIDE DEF old
  <2> QED
    BY <2>1
<1>3. PICK cluster \in FailureClusters :
        validateGraphPatchSpec(patch, node[cur].key, DOMAIN tasksByKey,
                               calibratedReplanBudget(slots, cluster, Attempts(cur) + 1,
                                                      plan.production), 100)
  BY Zenon DEF Replan
<1>4. Attempts(cur) + 1 \in Nat
  <2>1. DOMAIN tasksByKey \subseteq Keys
    BY DEF ExecutorTyped
  <2>2. {k \in DOMAIN tasksByKey : node[tasksByKey[k]].from = cur} \subseteq Keys
    BY <2>1
  <2>3. Attempts(cur) \in Nat
    BY <1>1, <2>2, KeysFinite DEF Attempts
  <2> QED
    BY <2>3
<1> DEFINE most == calibratedReplanBudget(slots, cluster, Attempts(cur) + 1, plan.production)
<1>5. most \in 1..slots
  BY <1>4, BudgetWithinSlots
<1>6. Fresh(old, slots) /\ Sound(old, node[cur].key)
  <2>1. most \in Nat /\ most <= slots /\ slots \in Nat
    BY <1>5
  <2>2. validateGraphPatchSpec(patch, node[cur].key, DOMAIN tasksByKey, most, 100)
    BY <1>3
  <2>3. TaskKeys(old) \subseteq PlannerKeys /\ patch.tasks = old
    BY <1>0
  <2> DEFINE parent == node[cur].key
  <2> HIDE DEF most, patch, old, parent
  <2>4. Fresh(old, slots)
    BY <1>2, <2>1, <2>2, <2>3, ValidFresh
  <2>5. validateGraphPatchSpec(patch, parent, DOMAIN tasksByKey, most, 100)
    BY <2>2 DEF parent
  <2>6. Sound(old, parent)
    BY <1>2, <2>3, <2>5, ValidSound
  <2> QED
    BY <2>4, <2>6 DEF parent
<1>7. createDynamicTasks(specs, TRUE) /\ Resume
  BY DEF Replan
<1> HIDE DEF patch, old
<1>8. ASSUME NEW i \in DOMAIN old
      PROVE  /\ specs[i] \in Task /\ specs[i].key = old[i].key
             /\ specs[i].dependsOn = old[i].dependsOn
  <2> DEFINE t == old[i]
  <2>1. t \in Task /\ (specs[i] = t \/ specs[i] = [t EXCEPT !.dependencyType = "finished"])
    BY <1>2
  <2> HIDE DEF t, specs
  <2>2. /\ [t EXCEPT !.dependencyType = "finished"] \in Task
        /\ [t EXCEPT !.dependencyType = "finished"].key = t.key
        /\ [t EXCEPT !.dependencyType = "finished"].dependsOn = t.dependsOn
    BY <2>1 DEF Task
  <2>3. specs[i] \in Task /\ specs[i].key = t.key /\ specs[i].dependsOn = t.dependsOn
    BY <2>1, <2>2
  <2> QED
    BY <2>3 DEF t
<1>9. specs \in Seq(Task) /\ DOMAIN specs = DOMAIN old /\ Len(specs) = Len(old)
  <2>1. DOMAIN specs = 1..Len(old) /\ specs = [i \in 1..Len(old) |-> specs[i]]
    BY <1>2
  <2> HIDE DEF specs
  <2>2. specs \in [1..Len(old) -> Task]
    BY <1>2, <1>8, <2>1
  <2> QED
    BY <1>2, <2>1, <2>2
<1> HIDE DEF specs
<1>10. Fresh(specs, slots) /\ Sound(specs, node[cur].key)
  BY <1>2, <1>6, <1>8, <1>9, SameFresh, SameSound
<1> QED
  BY <1>7, <1>10 DEF Grows

\* An expansion adds fresh tasks.
LEMMA ExpandGrows ==
  ASSUME TaskGraphExecutorAssumption, Tables, cur \in Ids, slots \in Nat \ {0},
         NEW tasks \in Patches, Expand(tasks)
  PROVE  Grows
<1> DEFINE patch == Patch(tasks)
           specs == patch.tasks
           n == Min({slots, Len(specs)})
<1>1. /\ tasks \in Seq(PlanTask) /\ node \in Seq(NodeRow)
  BY DEF TaskGraphExecutorAssumption, Tables, StoreTyped
<1>2. specs \in Seq(Task)
  BY <1>1, PatchTasks
<1>3. /\ validateGraphPatchSpec(patch, node[cur].key, DOMAIN tasksByKey, slots, 100)
      /\ createDynamicTasks(SubSeq(specs, 1, n), FALSE) /\ Resume
  BY DEF Expand
<1>4. Fresh(specs, slots) /\ Sound(specs, node[cur].key)
  <2>1. TaskKeys(specs) \subseteq PlannerKeys
    BY <1>1, PatchKeys
  <2> HIDE DEF patch
  <2>2. slots \in Nat /\ slots <= slots
    OBVIOUS
  <2> QED
    BY <1>2, <1>3, <2>1, <2>2, ValidFresh, ValidSound
<1> HIDE DEF patch, specs
<1>5. Len(specs) \in Nat
  BY <1>2
<1>6. n = IF slots <= Len(specs) THEN slots ELSE Len(specs)
  BY <1>5, MinOfTwo
<1> HIDE DEF n
<1>7. n \in 0..Len(specs) /\ n <= slots
  BY <1>5, <1>6
<1>8. Fresh(SubSeq(specs, 1, n), slots) /\ Sound(SubSeq(specs, 1, n), node[cur].key)
  <2>1. KeysDistinct(specs) /\ TaskKeys(specs) \intersect (DOMAIN tasksByKey \union MalformedKeys) = {}
    BY <1>4 DEF Fresh
  <2> QED
    BY <1>2, <1>4, <1>7, <2>1, FreshPrefix, SoundPrefix
<1> QED
  BY <1>3, <1>8 DEF Grows

\* A task the runtime makes up.
LEMMA PlainTask ==
  ASSUME NEW key \in Text, NEW role \in Text, NEW parent \in Text, NEW next \in SUBSET Text
  PROVE  /\ planTask(key, role, parent, next) \in Task /\ planTask(key, role, parent, next).key = key
         /\ planTask(key, role, parent, next).dependsOn = next
<1>1. Absent \in Text /\ DefaultTimeoutMs \in Int
  BY DEF Text, DefaultTimeoutMs
<1> QED
  BY <1>1 DEF planTask, Task

\* The changes createFallbackGraphPatch makes to its second task keep it a task.
LEMMA FallbackTasks ==
  ASSUME NEW t \in Task
  PROVE  /\ [t EXCEPT !.wave = 2] \in Task /\ [t EXCEPT !.wave = 2].key = t.key
         /\ [t EXCEPT !.wave = 2].dependsOn = t.dependsOn
         /\ [t EXCEPT !.wave = 2, !.dependencyType = "finished"] \in Task
         /\ [t EXCEPT !.wave = 2, !.dependencyType = "finished"].key = t.key
         /\ [t EXCEPT !.wave = 2, !.dependencyType = "finished"].dependsOn = t.dependsOn
<1>1. /\ [t EXCEPT !.wave = 2] \in Task /\ [t EXCEPT !.wave = 2].key = t.key
      /\ [t EXCEPT !.wave = 2].dependsOn = t.dependsOn
  BY DEF Task
<1>2. [t EXCEPT !.wave = 2, !.dependencyType = "finished"] \in Task
  <2> DEFINE u == [t EXCEPT !.wave = 2]
  <2>1. [t EXCEPT !.wave = 2, !.dependencyType = "finished"] = [u EXCEPT !.dependencyType = "finished"]
    BY DEF Task
  <2>2. u \in Task
    BY <1>1
  <2> HIDE DEF u
  <2>3. [u EXCEPT !.dependencyType = "finished"] \in Task
    BY <2>2 DEF Task
  <2> QED
    BY <2>1, <2>3
<1>3. /\ [t EXCEPT !.wave = 2, !.dependencyType = "finished"].key = t.key
      /\ [t EXCEPT !.wave = 2, !.dependencyType = "finished"].dependsOn = t.dependsOn
  BY DEF Task
<1> QED
  BY <1>1, <1>2, <1>3

\* A list of two tasks with different keys.
LEMMA TwoTasks ==
  ASSUME NEW a \in Task, NEW b \in Task, a.key # b.key
  PROVE  /\ <<a, b>> \in Seq(Task) /\ Len(<<a, b>>) = 2
         /\ KeysDistinct(<<a, b>>) /\ TaskKeys(<<a, b>>) = {a.key, b.key}
         /\ <<a, b>>[1] = a /\ <<a, b>>[2] = b
<1>1. /\ <<a, b>> \in Seq(Task) /\ Len(<<a, b>>) = 2 /\ DOMAIN <<a, b>> = 1..2 /\ <<a, b>>[1] = a
      /\ <<a, b>>[2] = b
  OBVIOUS
<1> DEFINE s == <<a, b>>
<1> HIDE DEF s
<1>2. DOMAIN s = 1..2 /\ s[1] = a /\ s[2] = b
  BY <1>1 DEF s
<1>3. KeysDistinct(s)
  BY <1>2 DEF KeysDistinct
<1>4. TaskKeys(s) = {a.key, b.key}
  BY <1>2 DEF TaskKeys
<1> QED
  BY <1>1, <1>3, <1>4 DEF s

\* The keys uniqueKey tries are among those of planners.
LEMMA NumberedPlanned ==
  ASSUME NEW base \in {"implementation", "verification"}, NEW i \in 1..(MaxNodes + 2)
  PROVE  numberedKey(base, i) \in PlannerKeys
<1>1. \E b \in {"implementation", "verification"}, j \in 1..(MaxNodes + 2) :
        numberedKey(base, i) = numberedKey(b, j)
  OBVIOUS
<1>2. numberedKey(base, i) \in MadeUpKeys
  BY <1>1 DEF MadeUpKeys
<1> QED
  BY <1>2 DEF PlannerKeys

\* The expansion made up by the runtime is fresh.
LEMMA FallbackFresh ==
  ASSUME TaskGraphExecutorAssumption, Tables, ExecutorTyped, NEW parentKey \in Text,
         NEW specs, specs = createFallbackGraphPatch(FALSE, parentKey, DOMAIN tasksByKey), specs # <<>>
  PROVE  /\ specs \in Seq(Task) /\ Len(specs) = 2 /\ KeysDistinct(specs)
         /\ TaskKeys(specs) \intersect (DOMAIN tasksByKey \union MalformedKeys) = {}
         /\ Sound(specs, parentKey)
<1> DEFINE existing == DOMAIN tasksByKey
           leaf == uniqueKey("implementation", existing)
           check == uniqueKey("verification", existing \union {leaf})
<1>1. /\ IsFiniteSet(existing) /\ Cardinality(existing) <= MaxNodes /\ MaxNodes \in Nat
      /\ Cardinality(existing) \in Nat
  <2>1. node \in Seq(NodeRow) /\ Len(node) <= MaxNodes /\ Len(node) \in Nat /\ MaxNodes \in Nat
    BY DEF Tables, StoreTyped, TaskGraphExecutorAssumption
  <2>2. existing \subseteq Keys
    BY DEF ExecutorTyped
  <2> HIDE DEF existing
  <2>3. IsFiniteSet(existing) /\ Cardinality(existing) \in Nat /\ Cardinality(existing) <= Len(node)
    BY <2>1, <2>2, KeysFinite
  <2> QED
    BY <2>1, <2>3
<1> HIDE DEF existing
<1>2. leaf \in (STRING \ MalformedKeys) \ existing /\ leaf \in PlannerKeys
  <2>1. Cardinality(existing) < MaxNodes + 2 /\ MaxNodes + 2 \in Nat
    BY <1>1
  <2>2. NumberedApart("implementation", MaxNodes + 2)
    BY DEF TaskGraphExecutorAssumption
  <2>3. \E i \in 1..(MaxNodes + 2) :
          /\ uniqueKey("implementation", existing) = numberedKey("implementation", i)
          /\ numberedKey("implementation", i) \in (STRING \ MalformedKeys) \ existing
    BY <1>1, <2>1, <2>2, UniqueKey
  <2>4. \A i \in 1..(MaxNodes + 2) : numberedKey("implementation", i) \in PlannerKeys
    BY NumberedPlanned
  <2> QED
    BY <2>3, <2>4
<1>3. check \in (STRING \ MalformedKeys) \ (existing \union {leaf}) /\ check \in PlannerKeys
  <2> HIDE DEF leaf
  <2> DEFINE taken == existing \union {leaf}
  <2>1. IsFiniteSet(taken) /\ Cardinality(taken) < MaxNodes + 2 /\ MaxNodes + 2 \in Nat
    <3>1. /\ IsFiniteSet(existing \union {leaf})
          /\ Cardinality(existing \union {leaf}) = IF leaf \in existing THEN Cardinality(existing)
                                                   ELSE Cardinality(existing) + 1
      BY <1>1, FS_AddElement
    <3> QED
      BY <1>1, <3>1
  <2>2. NumberedApart("verification", MaxNodes + 2)
    BY DEF TaskGraphExecutorAssumption
  <2> HIDE DEF taken
  <2>3. \E i \in 1..(MaxNodes + 2) :
          /\ uniqueKey("verification", taken) = numberedKey("verification", i)
          /\ numberedKey("verification", i) \in (STRING \ MalformedKeys) \ taken
    BY <2>1, <2>2, UniqueKey
  <2> QED
    <3>1. \A i \in 1..(MaxNodes + 2) : numberedKey("verification", i) \in PlannerKeys
      BY NumberedPlanned
    <3> QED
      BY <2>3, <3>1 DEF taken
<1> DEFINE work == [planTask(leaf, "developer", parentKey, {parentKey}) EXCEPT !.wave = 2]
           review == [planTask(check, "reviewer", leaf, {leaf})
                        EXCEPT !.wave = 2, !.dependencyType = "finished"]
<1>4. specs = <<work, review>>
  BY DEF createFallbackGraphPatch, existing
<1> HIDE DEF leaf, check
<1>5. leaf \in Text /\ check \in Text /\ "developer" \in Text /\ "reviewer" \in Text
  BY <1>2, <1>3 DEF Text
<1>6. work \in Task /\ work.key = leaf /\ work.dependsOn = {parentKey}
  <2> DEFINE t == planTask(leaf, "developer", parentKey, {parentKey})
  <2>1. t \in Task /\ t.key = leaf /\ t.dependsOn = {parentKey}
    BY <1>5, PlainTask
  <2> HIDE DEF t
  <2>2. /\ [t EXCEPT !.wave = 2] \in Task /\ [t EXCEPT !.wave = 2].key = leaf
        /\ [t EXCEPT !.wave = 2].dependsOn = {parentKey}
    BY <2>1, FallbackTasks
  <2> QED
    BY <2>2 DEF t
<1>7. review \in Task /\ review.key = check /\ review.dependsOn = {leaf}
  <2> DEFINE t == planTask(check, "reviewer", leaf, {leaf})
  <2>1. t \in Task /\ t.key = check /\ t.dependsOn = {leaf}
    BY <1>5, PlainTask
  <2> HIDE DEF t
  <2>2. /\ [t EXCEPT !.wave = 2, !.dependencyType = "finished"] \in Task
        /\ [t EXCEPT !.wave = 2, !.dependencyType = "finished"].key = check
        /\ [t EXCEPT !.wave = 2, !.dependencyType = "finished"].dependsOn = {leaf}
    BY <2>1, FallbackTasks
  <2> QED
    BY <2>2 DEF t
<1> HIDE DEF work, review
<1>8. /\ <<work, review>> \in Seq(Task) /\ Len(<<work, review>>) = 2
      /\ KeysDistinct(<<work, review>>) /\ TaskKeys(<<work, review>>) = {leaf, check}
      /\ <<work, review>>[1] = work /\ <<work, review>>[2] = review
  <2>1. work.key # review.key
    BY <1>3, <1>6, <1>7
  <2> QED
    BY <1>6, <1>7, <2>1, TwoTasks
<1>9. {leaf, check} \intersect (existing \union MalformedKeys) = {}
  BY <1>2, <1>3
<1>10. Sound(specs, parentKey)
  <2>1. /\ Len(specs) = 2 /\ TaskKeys(specs) \subseteq PlannerKeys
        /\ specs[1] = work /\ specs[2] = review
    BY <1>2, <1>3, <1>4, <1>8
  <2>2. /\ specs[1].key = leaf /\ specs[1].dependsOn = {parentKey}
        /\ specs[2].key = check /\ specs[2].dependsOn = {leaf} /\ check # leaf
    BY <1>3, <1>6, <1>7, <2>1
  <2>3. ASSUME NEW T \in SUBSET (1..2), IndexCircle(specs, 2, T)
        PROVE  \E i \in T : specs[i].key = parentKey
    <3>1. T # {} /\ \A i \in T : \E j \in T : specs[j].key \in specs[i].dependsOn
      BY <2>3 DEF IndexCircle
    <3>2. \A i \in T : i = 1 \/ i = 2
      OBVIOUS
    <3>3. 2 \in T => 1 \in T
      BY <2>2, <3>1, <3>2
    <3>4. 1 \in T
      BY <3>1, <3>2, <3>3
    <3> QED
      BY <2>2, <3>1, <3>4
  <2> QED
    BY <2>1, <2>3 DEF Sound
<1> QED
  BY <1>4, <1>8, <1>9, <1>10, Zenon DEF existing

\* An answer the executor cannot use: it falls back on its own expansion, or goes on.
LEMMA UselessGrows ==
  ASSUME TaskGraphExecutorAssumption, Tables, ExecutorTyped, cur \in Ids, slots \in Nat \ {0},
         PlannerUseless
  PROVE  Grows \/ (UNCHANGED <<node, edge, tasksByKey, pending, expanded>> /\ Resume)
<1> DEFINE specs == createFallbackGraphPatch(FALSE, node[cur].key, DOMAIN tasksByKey)
           n == Min({slots, Len(specs)})
<1>1. CASE wave[cur] = "done" /\ specs # <<>>
  <2>1. createDynamicTasks(SubSeq(specs, 1, n), FALSE) /\ Resume
    BY <1>1 DEF PlannerUseless
  <2>2. node[cur].key \in Text
    BY RowIds, RowFields DEF Tables, StoreTyped
  <2>3. /\ specs \in Seq(Task) /\ Len(specs) = 2 /\ KeysDistinct(specs)
        /\ TaskKeys(specs) \intersect (DOMAIN tasksByKey \union MalformedKeys) = {}
        /\ Sound(specs, node[cur].key)
    BY <1>1, <2>2, FallbackFresh
  <2> HIDE DEF specs
  <2>4. n = IF slots <= Len(specs) THEN slots ELSE Len(specs)
    BY <2>3, MinOfTwo
  <2> HIDE DEF n
  <2>5. n \in 0..Len(specs) /\ n <= slots
    BY <2>3, <2>4
  <2>6. Fresh(SubSeq(specs, 1, n), slots) /\ Sound(SubSeq(specs, 1, n), node[cur].key)
    BY <2>3, <2>5, FreshPrefix, SoundPrefix
  <2> QED
    BY <2>1, <2>6 DEF Grows
<1>2. CASE ~(wave[cur] = "done" /\ specs # <<>>)
  BY <1>2 DEF PlannerUseless
<1> QED
  BY <1>1, <1>2

\* A planner's answer adds fresh tasks, leaves the graph as it is, or asks the user.
LEMMA PlannerSteps ==
  ASSUME TaskGraphExecutorAssumption, Tables, ExecutorTyped, slots # 0, PlannerNext
  PROVE  \/ Grows
         \/ UNCHANGED <<node, edge, tasksByKey, pending, expanded>> /\ Resume
         \/ PlannerAsks
<1>1. pc = "planning"
  BY DEF PlannerNext, Replan, Expand, PlannerUseless, PlannerStops, PlannerAsks
<1>2. cur \in Ids /\ slots \in Nat \ {0}
  BY <1>1 DEF ExecutorTyped
<1>3. ASSUME NEW tasks \in Patches, Replan(tasks) PROVE Grows
  BY <1>2, <1>3, ReplanGrows
<1>4. ASSUME NEW tasks \in Patches, Expand(tasks) PROVE Grows
  BY <1>2, <1>4, ExpandGrows
<1>5. CASE PlannerUseless
  BY <1>2, <1>5, UselessGrows
<1>6. CASE PlannerStops
  BY <1>6 DEF PlannerStops
<1> QED
  BY <1>3, <1>4, <1>5, <1>6 DEF PlannerNext

\* What such a step makes of the rows and the rest.
LEMMA GrownTables ==
  ASSUME TaskGraphExecutorAssumption, StoreTyped, tasksByKey \in [DOMAIN tasksByKey -> Ids],
         cur \in Ids,
         Grows
  PROVE  \E specs : Fresh(specs, slots) /\ TasksAdded(specs) /\ Resume
<1>1. PICK specs, superseded :
        /\ Fresh(specs, slots)
        /\ superseded \in BOOLEAN /\ createDynamicTasks(specs, superseded) /\ Resume
  BY DEF Grows
<1>2. specs \in Seq(Task) /\ KeysDistinct(specs)
  BY <1>1 DEF Fresh
<1>3. TasksAdded(specs)
  BY <1>1, <1>2, NewTasks
<1> QED
  BY <1>1, <1>3

-----------------------------------------------------------------------------
(* The tables in the steps of the executor.                                  *)

\* New tasks keep the tables typed.
LEMMA CreatedTables ==
  ASSUME Tables, edit = <<>>, NEW specs, TasksAdded(specs),
         UNCHANGED <<releasing, edit, cut, torn, touched>>
  PROVE  Tables'
<1>1. cut = {}
  BY NoCut DEF Tables
<1>2. EditInv'
  BY <1>1, EditIdle
<1>3. \A i \in Ids : node'[i].deleted = node[i].deleted
  BY DEF TasksAdded, SameRow
<1>4. \A i \in Ids' \ Ids : ~node'[i].deleted
  BY DEF TasksAdded
<1>5. StoreTyped'
  BY <1>3, <1>4, StoreGrown DEF TasksAdded, Tables
<1> QED
  BY <1>2, <1>5 DEF Tables

\* A step that sets the status of some rows, or of none.
StatusStep(ids, s) ==
  /\ node' = SetStatus(ids, s) \/ node' = node
  /\ UNCHANGED <<edge, releasing, edit, cut, torn, touched>>

\* A change of statuses keeps the tables typed.
LEMMA StatusTables ==
  ASSUME Tables, edit = <<>>, NEW ids, NEW s \in Statuses, StatusStep(ids, s)
  PROVE  Tables' /\ RowsKept
<1>1. node \in Seq(NodeRow) /\ cut = {}
  BY NoCut DEF Tables, StoreTyped
<1>2. RowsKept
  <2>1. CASE node' = SetStatus(ids, s)
    BY <1>1, <2>1, StatusRows
  <2>2. CASE node' = node
    BY <1>1, <2>2 DEF RowsKept, SameRow, Ids
  <2> QED
    BY <2>1, <2>2 DEF StatusStep
<1>3. StoreTyped'
  BY <1>2, StoreKept DEF Tables, StoreTyped, StatusStep
<1>4. EditInv'
  BY <1>1, EditIdle DEF StatusStep
<1> QED
  BY <1>2, <1>3, <1>4 DEF Tables

-----------------------------------------------------------------------------
(* What a step may make of the rows there are.                               *)

\* The statuses of a task that was given to a worker.
Started == {"queued", "running", "done", "dead_letter"}

\* A task that is done stays done, one that is started was started before or has what it waits
\* for, and nothing but an edit reopens one.
Moves ==
  /\ Ids' = Ids
  /\ \A i \in Ids : /\ node'[i].key = node[i].key /\ node'[i].origin = node[i].origin
                    /\ node[i].deleted => node'[i].deleted
  /\ \A i \in Ids : node[i].status = "done" => node'[i].status = "done"
  /\ \A i \in Ids : node'[i].status \in Started =>
       node[i].status \in Started \/ dependenciesSatisfied(i)
  /\ \A i \in Ids : node'[i].status = "pending" => node[i].status = "pending" \/ i \in touched'
  /\ touched \subseteq touched' /\ torn \subseteq torn'

\* A step that leaves the rows alone.
LEMMA StillMoves == ASSUME UNCHANGED <<node, torn>>, touched \subseteq touched' PROVE Moves
  BY DEF Moves, Ids

\* A step that sets the status of rows that may get it.
LEMMA StatusMoves ==
  ASSUME node \in Seq(NodeRow), NEW ids, NEW s \in Statuses, node' = SetStatus(ids, s),
         touched \subseteq touched', torn \subseteq torn', s # "done" =>
           \A i \in ids : node[i].status # "done",
         s \in Started => \A i \in ids : node[i].status \in Started \/ dependenciesSatisfied(i),
         s = "pending" => ids \subseteq touched'
  PROVE  Moves
<1>1. RowsKept /\ \A i \in Ids : node'[i].status = IF i \in ids THEN s ELSE node[i].status
  BY StatusRows
<1>2. /\ Ids' = Ids
      /\ \A i \in Ids : node'[i].key = node[i].key /\ node'[i].origin = node[i].origin
                        /\ node'[i].deleted = node[i].deleted
  BY <1>1 DEF RowsKept, SameRow
<1>3. \A i \in Ids : node[i].status = "done" => node'[i].status = "done"
  BY <1>1
<1>4. \A i \in Ids : node'[i].status \in Started =>
        node[i].status \in Started \/ dependenciesSatisfied(i)
  BY <1>1
<1>5. \A i \in Ids : node'[i].status = "pending" => node[i].status = "pending" \/ i \in touched'
  BY <1>1
<1> QED
  BY <1>2, <1>3, <1>4, <1>5 DEF Moves

\* The steps of workers: a worker starts what is queued and ends what runs.
LEMMA WorkerMoves == ASSUME Tables, WorkerNext PROVE Moves /\ UNCHANGED edge
<1>1. node \in Seq(NodeRow) /\ {"queued", "running", "done", "dead_letter"} \subseteq Statuses
  BY DEF Tables, StoreTyped, Statuses
<1>2. ASSUME NEW i \in Ids, Claim(i) PROVE Moves /\ UNCHANGED edge
  <2>1. /\ node' = SetStatus({i}, "running") /\ node[i].status = "queued"
        /\ UNCHANGED <<edge, torn, touched>>
    BY <1>2 DEF Claim
  <2>2. Moves
    BY <1>1, <2>1, StatusMoves DEF Started
  <2> QED
    BY <2>1, <2>2
<1>3. ASSUME NEW i \in Ids, NEW s \in {"done", "dead_letter"}, Finish(i, s)
      PROVE  Moves /\ UNCHANGED edge
  <2>1. /\ node' = SetStatus({i}, s) /\ node[i].status = "running"
        /\ UNCHANGED <<edge, torn, touched>>
    BY <1>3 DEF Finish
  <2>2. Moves
    BY <1>1, <2>1, StatusMoves DEF Started
  <2> QED
    BY <2>1, <2>2
<1>4. ASSUME NEW p \in releasing, ReleaseOne(p) PROVE Moves /\ UNCHANGED edge
  <2> DEFINE i == p[2]
  <2>1. UNCHANGED <<edge, touched>>
    BY <1>4 DEF ReleaseOne
  <2>2. CASE UNCHANGED <<node, torn>>
    BY <2>1, <2>2, StillMoves
  <2>3. CASE /\ /\ dependenciesSatisfied(i) /\ node[i].status \in Enqueueable
                /\ node' = SetStatus({i}, "queued")
             /\ torn' = IF i \in cut THEN torn \union {i} ELSE torn
    <3> HIDE DEF i
    <3>1. Moves
      BY <1>1, <2>1, <2>3, StatusMoves DEF Enqueueable
    <3> QED
      BY <2>1, <3>1
  <2> QED
    BY <1>4, <2>2, <2>3 DEF ReleaseOne
<1> QED
  BY <1>2, <1>3, <1>4 DEF WorkerNext

\* The edges a step adds wait for an end only, or belong to tasks that have not started.
EdgesStart ==
  \A e \in edge' : \/ e \in edge
                   \/ e.type = "finished" \/ e.task \in torn' \/ node'[e.task].status \notin Started

\* The steps of an edit: what it gives edges to is torn, or is left pending.
LEMMA EditStepMoves == ASSUME Tables, EditStep PROVE Moves /\ EdgesStart
<1> DEFINE i == CHOOSE j \in Head(edit).ids : TRUE
<1>1. node \in Seq(NodeRow) /\ "pending" \in Statuses /\ edit # <<>>
  BY DEF Tables, StoreTyped, Statuses, EditStep, RewireDelete, RewireInsert, RemoveNodes
<1>2. CASE RewireDelete
  <2>1. edge' \subseteq edge /\ torn' = torn
    BY <1>2 DEF RewireDelete
  <2>2. CASE UNCHANGED <<node, touched>>
    BY <2>1, <2>2, StillMoves DEF EdgesStart
  <2>3. CASE Editable(i) /\ node' = SetStatus({i}, "pending") /\ touched' = touched \union {i}
    <3> HIDE DEF i
    <3>1. node[i].status # "done"
      BY <2>3 DEF Editable, EDITABLE_STATUSES
    <3>2. Moves
      BY <1>1, <2>1, <2>3, <3>1, StatusMoves DEF Started
    <3> QED
      BY <2>1, <3>2 DEF EdgesStart
  <2> QED
    BY <1>2, <2>2, <2>3 DEF RewireDelete
<1>3. CASE RewireInsert
  <2>1. Moves
    BY <1>3, StillMoves DEF RewireInsert
  <2>2. i \in cut
    BY <1>1, <1>3, HeadOp DEF RewireInsert, Tables
  <2>3. i \in torn \/ node[i].status = "pending"
    BY <2>2 DEF Tables, EditInv
  <2>4. \A e \in edge' : e \in edge \/ e.task = i
    BY <1>3 DEF RewireInsert, addTaskDependency
  <2> HIDE DEF i
  <2>5. UNCHANGED <<node, torn>>
    BY <1>3 DEF RewireInsert
  <2>6. EdgesStart
    BY <2>3, <2>4, <2>5 DEF EdgesStart, Started
  <2> QED
    BY <2>1, <2>6
<1>4. CASE RemoveNodes
  <2>1. UNCHANGED <<edge, torn>> /\ touched' = touched \union Head(edit).ids
    BY <1>4 DEF RemoveNodes
  <2>2. /\ Ids' = Ids
        /\ \A j \in Ids : node'[j].key = node[j].key /\ node'[j].origin = node[j].origin
        /\ \A j \in Ids : \/ node'[j].status = node[j].status
                          \/ node[j].status \notin Terminal /\ node'[j].status = "cancelled"
    BY <1>4, RemovedRows
  <2>3. \A j \in Ids : node[j].deleted => node'[j].deleted
    <3>1. ASSUME NEW j \in Ids, node[j].deleted PROVE node'[j].deleted
      <4> DEFINE r == node[j]
      <4>1. r \in NodeRow
        BY <1>1, RowIds
      <4>2. PICK s : node'[j] = r \/ node'[j] = [r EXCEPT !.deleted = TRUE, !.status = s]
        BY <1>4 DEF RemoveNodes
      <4>3. r.deleted
        BY <3>1
      <4> HIDE DEF r
      <4>4. node'[j].deleted
        BY <4>1, <4>2, <4>3 DEF NodeRow
      <4> QED
        BY <4>4
    <3> QED
      BY <3>1
  <2>4. Moves
    BY <2>1, <2>2, <2>3 DEF Moves, Terminal, Started
  <2> QED
    BY <2>1, <2>4 DEF EdgesStart
<1> QED
  BY <1>2, <1>3, <1>4 DEF EditStep

\* An edit that is begun adds a node or leaves the rows as they are.
LEMMA EditMoves ==
  ASSUME TaskGraphExecutorAssumption, Tables, EditNext
  PROVE  \/ UNCHANGED <<node, edge, torn, touched>>
         \/ torn' = torn /\ \E key \in NewKeys : NodeAdded(key)
<1>1. node \in Seq(NodeRow) /\ StoreTyped
  BY DEF Tables, StoreTyped
<1>2. ASSUME NEW parent \in Selectable, NEW key \in NewKeys,
             addTaskMindMapNode(parent, key, {node[parent].key})
      PROVE  torn' = torn /\ \E k \in NewKeys : NodeAdded(k)
  <2>1. "developer" \in Text /\ parent \in Ids /\ {node[parent].key} \in SUBSET VisibleKeys
    <3>1. parent \in Ids /\ node[parent].key \in VisibleKeys
      BY <1>1, SelectableIds
    <3> QED
      BY <3>1 DEF Text
  <2>2. WithNewNode(key, parent, "developer", {node[parent].key}) /\ torn' = torn
    BY <1>2 DEF addTaskMindMapNode
  <2>3. NodeAdded(key)
    BY <1>1, <2>1, <2>2, NewNode
  <2> QED
    BY <2>2, <2>3
<1>3. ASSUME NEW target \in Selectable, NEW key \in NewKeys, addTaskMindMapNodeBefore(target, key)
      PROVE  torn' = torn /\ \E k \in NewKeys : NodeAdded(k)
  <2> DEFINE parent == ParentId(target)
             next == IF FromKeys(target) = {} THEN {node[parent].key} ELSE FromKeys(target)
  <2>1. HasParent(target) /\ WithNewNode(key, parent, node[target].role, next) /\ torn' = torn
    BY <1>3 DEF addTaskMindMapNodeBefore
  <2>2. parent \in Ids /\ node[parent].key \in VisibleKeys /\ node[target].role \in Text
    BY <1>1, <2>1, SelectableIds
  <2>3. next \in SUBSET VisibleKeys
    BY <1>1, <2>2, FromVisible
  <2> HIDE DEF next, parent
  <2>4. NodeAdded(key)
    BY <1>1, <2>1, <2>2, <2>3, NewNode
  <2> QED
    BY <2>1, <2>4
<1>4. ASSUME NEW target \in Selectable, NEW key \in NewKeys, addTaskMindMapNodeAfter(target, key)
      PROVE  torn' = torn /\ \E k \in NewKeys : NodeAdded(k)
  <2> DEFINE parent == ParentId(target)
             next == {node[target].key}
  <2>1. HasParent(target) /\ WithNewNode(key, parent, node[target].role, next) /\ torn' = torn
    BY <1>4 DEF addTaskMindMapNodeAfter
  <2>2. parent \in Ids /\ next \in SUBSET VisibleKeys /\ node[target].role \in Text
    BY <1>1, <2>1, SelectableIds
  <2> HIDE DEF next, parent
  <2>3. NodeAdded(key)
    BY <1>1, <2>1, <2>2, NewNode
  <2> QED
    BY <2>1, <2>3
<1>5. ASSUME NEW target \in Selectable, NEW other \in Selectable,
             updateTaskMindMapNode(target, {node[other].key})
      PROVE  UNCHANGED <<node, edge, torn, touched>>
  BY <1>5 DEF updateTaskMindMapNode
<1>6. ASSUME NEW target \in Selectable, deleteTaskMindMapNode(target)
      PROVE  UNCHANGED <<node, edge, torn, touched>>
  BY <1>6 DEF deleteTaskMindMapNode
<1> QED
  BY <1>2, <1>3, <1>4, <1>5, <1>6 DEF EditNext

-----------------------------------------------------------------------------
(* The invariants.                                                           *)

\* StartedAfterDependencies, for deleted rows too.
DependenciesInv ==
  \A e \in edge :
    e.type = "success" /\ node[e.task].status \in Started /\ e.task \notin torn
      => node[e.on].status = "done"

\* Planned tasks have keys of their own that the executor knows, and a task that is not deleted
\* is the last row with its key.
KeysInv ==
  \A i \in Planned :
    /\ node[i].key \in DOMAIN tasksByKey \ MalformedKeys
    /\ \A j \in Planned : node[j].key = node[i].key => i = j
    /\ \/ node[i].deleted
       \/ tasksByKey[node[i].key] = i /\ \A j \in Ids : node[j].key = node[i].key => j <= i

\* A task of the wave has come back.
Back(i) == wave[i] \notin {"starting", "waiting"}

\* The tasks of the plan and of patches that nobody has started, and no edit has changed.
Unstarted == {i \in Planned \ touched : node[i].status = "pending"}

\* A task nobody has started is pending for the executor, is still to be looked at by a loop that
\* is about to block what remains, and is not among the tasks that came back or were blocked.
PendingInv ==
  /\ \A i \in Unstarted :
       /\ node[i].key \in pending
       /\ pc \in {"stopping", "pausing"} => i \in todo \/ i = doomed
       /\ pc \notin {"finishing", "done"}
       /\ i \notin DOMAIN hit
       /\ i \in DOMAIN wave => ~Back(i)
  /\ pc \in {"collecting", "planning", "pausing"} => \A i \in DOMAIN wave : Back(i)

\* PlannedWithinBudget, and what a planner is asked for fits.
BudgetInv ==
  /\ PlannedWithinBudget
  /\ pc = "planning" => slots # 0 /\ Cardinality(Planned) + slots <= MaxDynamicTasks

-----------------------------------------------------------------------------
(* Dependencies.                                                             *)

\* Steps that move rows and add such edges keep it: a done task stays done.
LEMMA DependenciesMove ==
  ASSUME StoreTyped, DependenciesInv, Moves, EdgesStart
  PROVE  DependenciesInv'
<1> SUFFICES ASSUME NEW e \in edge', e.type = "success", node'[e.task].status \in Started,
                    e.task \notin torn'
             PROVE  node'[e.on].status = "done"
  BY DEF DependenciesInv
<1>1. e \in edge
  BY DEF EdgesStart
<1>2. e.task \in Ids /\ e.on \in Ids /\ e.task \notin torn
  BY <1>1 DEF StoreTyped, Edges, Moves
<1>3. node[e.on].status = "done"
  <2>1. CASE node[e.task].status \in Started
    BY <1>1, <1>2, <2>1 DEF DependenciesInv
  <2>2. CASE dependenciesSatisfied(e.task)
    <3>1. e \in Dependencies(e.task)
      BY <1>1 DEF Dependencies
    <3>2. node[e.on].status \in (IF e.type = "finished" THEN Terminal ELSE {"done"})
      BY <2>2, <3>1 DEF dependenciesSatisfied
    <3> QED
      BY <3>2
  <2> QED
    BY <1>2, <2>1, <2>2 DEF Moves
<1> QED
  BY <1>2, <1>3 DEF Moves

\* New rows have not started, and no row that has gets an edge.
LEMMA DependenciesGrow ==
  ASSUME StoreTyped, DependenciesInv, torn' = torn, Ids \subseteq Ids',
         \A i \in Ids : node'[i].status = node[i].status,
         \A i \in Ids' \ Ids : node'[i].status = "pending",
         edge' \subseteq [task : Ids', on : Ids', type : {"success", "finished"}],
         \A e \in edge' \ edge : e.type = "finished" \/ e.task \notin Ids
  PROVE  DependenciesInv'
<1> SUFFICES ASSUME NEW e \in edge', e.type = "success", node'[e.task].status \in Started,
                    e.task \notin torn'
             PROVE  node'[e.on].status = "done"
  BY DEF DependenciesInv
<1>1. e.task \in Ids'
  OBVIOUS
<1>2. e.task \in Ids
  BY <1>1 DEF Started
<1>3. e \in edge
  BY <1>2
<1>4. e.on \in Ids
  BY <1>3 DEF StoreTyped, Edges
<1> QED
  BY <1>2, <1>3, <1>4 DEF DependenciesInv

-----------------------------------------------------------------------------
(* Steps beside the executor.                                                *)

\* No row changes its origin.
LEMMA MovedPlanned == ASSUME Moves PROVE Planned' = Planned
  BY DEF Moves, Planned

\* Rows keep their keys.
LEMMA KeysMove == ASSUME KeysInv, Moves, tasksByKey' = tasksByKey PROVE KeysInv'
<1>1. Planned' = Planned
  BY MovedPlanned
<1>2. \A i \in Ids : node'[i].key = node[i].key /\ (node[i].deleted => node'[i].deleted)
  BY DEF Moves
<1>3. Ids' = Ids
  BY DEF Moves
<1> SUFFICES ASSUME NEW i \in Planned
             PROVE  /\ node'[i].key \in DOMAIN tasksByKey \ MalformedKeys
                    /\ \A j \in Planned : node'[j].key = node'[i].key => i = j
                    /\ node'[i].deleted \/ (tasksByKey[node'[i].key] = i
                                            /\ \A j \in Ids : node'[j].key = node'[i].key => j <= i)
  BY <1>1, <1>3 DEF KeysInv
<1>4. i \in Ids /\ Planned \subseteq Ids
  BY DEF Planned
<1> QED
  BY <1>2, <1>4 DEF KeysInv

\* A node of the user is not planned.
LEMMA AddedPlanned ==
  ASSUME NEW key, NodeAdded(key)
  PROVE  Planned' = Planned /\ NewId \notin Planned
  BY DEF NodeAdded, Planned

\* A node the user adds has a key no visible row has, so it takes no planned task's key.
LEMMA KeysAdded ==
  ASSUME KeysInv, NEW key, NodeAdded(key), tasksByKey' = tasksByKey
  PROVE  KeysInv'
<1>1. Planned' = Planned /\ Planned \subseteq Ids
  BY AddedPlanned DEF Planned
<1>2. /\ \A i \in Ids : node'[i] = node[i]
      /\ Ids' = Ids \union {NewId} /\ node'[NewId].key = key /\ key \notin VisibleKeys
  BY DEF NodeAdded
<1>3. \A i \in Planned : node[i].deleted \/ node[i].key # key
  BY <1>1, <1>2 DEF VisibleKeys, Visible
<1>4. ASSUME NEW i \in Planned
      PROVE  /\ node'[i].key \in DOMAIN tasksByKey \ MalformedKeys
             /\ \A j \in Planned : node'[j].key = node'[i].key => i = j
             /\ node'[i].deleted \/ (tasksByKey[node'[i].key] = i
                                     /\ \A j \in Ids' : node'[j].key = node'[i].key => j <= i)
  <2>1. \A j \in Planned : node'[j] = node[j]
    BY <1>1, <1>2
  <2>2. node'[i].key \in DOMAIN tasksByKey \ MalformedKeys
    BY <2>1 DEF KeysInv
  <2>3. \A j \in Planned : node'[j].key = node'[i].key => i = j
    BY <2>1 DEF KeysInv
  <2>4. node'[i].deleted \/ (tasksByKey[node'[i].key] = i
                             /\ \A j \in Ids' : node'[j].key = node'[i].key => j <= i)
    BY <2>1, <1>2, <1>3 DEF KeysInv
  <2> QED
    BY <2>2, <2>3, <2>4
<1> QED
  BY <1>1, <1>4 DEF KeysInv

\* Only an edit makes a row pending, and such a row is touched.
LEMMA PendingMoves == ASSUME PendingInv, Moves, UNCHANGED exVars PROVE PendingInv'
<1>1. Unstarted' \subseteq Unstarted /\ Unstarted \subseteq Ids
  BY MovedPlanned DEF Unstarted, Moves, Planned
<1>2. \A i \in Ids : node'[i].key = node[i].key
  BY DEF Moves
<1> QED
  BY <1>1, <1>2 DEF PendingInv, Back, exVars

\* A node of the user is not the executor's to start.
LEMMA PendingAdded ==
  ASSUME PendingInv, NEW key, NodeAdded(key), UNCHANGED exVars
  PROVE  PendingInv'
<1>1. \A i \in Ids : node'[i] = node[i]
  BY DEF NodeAdded
<1>2. Unstarted' \subseteq Unstarted /\ Unstarted \subseteq Ids
  BY <1>1, AddedPlanned DEF Unstarted, NodeAdded, Planned
<1> QED
  BY <1>1, <1>2 DEF PendingInv, Back, exVars

\* Steps beside the executor leave the budget alone.
LEMMA BudgetBeside == ASSUME BudgetInv, Planned' = Planned, UNCHANGED exVars PROVE BudgetInv'
  BY DEF BudgetInv, PlannedWithinBudget, exVars

\* What the executor remembers stays typed as rows are added.
LEMMA TypedBeside ==
  ASSUME ExecutorTyped, Ids \subseteq Ids', \A i \in Ids : node'[i].key = node[i].key,
         UNCHANGED exVars
  PROVE  ExecutorTyped'
<1>1. Keys \subseteq Keys'
  BY DEF Keys
<1> QED
  BY <1>1 DEF ExecutorTyped, exVars

\* The inductive invariant.
Invariant == Tables /\ ExecutorTyped /\ DependenciesInv /\ KeysInv /\ PendingInv /\ BudgetInv

\* A step beside the executor that moves rows keeps the invariant.
LEMMA MovesBeside ==
  ASSUME Invariant, Tables', Moves, EdgesStart, UNCHANGED exVars
  PROVE  Invariant'
<1>1. DependenciesInv'
  BY DependenciesMove DEF Invariant, Tables
<1>2. KeysInv'
  BY KeysMove DEF Invariant, exVars
<1>3. PendingInv'
  BY PendingMoves DEF Invariant
<1>4. BudgetInv'
  BY MovedPlanned, BudgetBeside DEF Invariant
<1>5. ExecutorTyped'
  BY TypedBeside DEF Invariant, Moves
<1> QED
  BY <1>1, <1>2, <1>3, <1>4, <1>5 DEF Invariant

\* Workers, and the edits of the user.
LEMMA BesideSteps ==
  ASSUME Invariant, (WorkerNext /\ UNCHANGED exVars) \/ (Awaits /\ EditNext /\ UNCHANGED exVars)
                    \/ (EditStep /\ UNCHANGED exVars)
  PROVE  Invariant'
<1>1. Tables /\ TaskGraphExecutorAssumption
  BY TaskGraphExecutorAssumption DEF Invariant
<1>2. CASE WorkerNext /\ UNCHANGED exVars
  <2>1. Moves /\ EdgesStart
    BY <1>1, <1>2, WorkerMoves DEF EdgesStart
  <2>2. Tables'
    BY <1>1, <1>2, WorkerTables
  <2> QED
    BY <1>2, <2>1, <2>2, MovesBeside
<1>3. CASE EditStep /\ UNCHANGED exVars
  <2>1. Moves /\ EdgesStart
    BY <1>1, <1>3, EditStepMoves
  <2>2. Tables'
    BY <1>1, <1>3, DeleteTables, InsertTables, RemoveTables DEF EditStep
  <2> QED
    BY <1>3, <2>1, <2>2, MovesBeside
<1>4. CASE Awaits /\ EditNext /\ UNCHANGED exVars
  <2>1. Tables'
    BY <1>1, <1>4, EditTables
  <2>2. CASE UNCHANGED <<node, edge, torn, touched>>
    <3>1. Moves /\ EdgesStart
      BY <2>2, StillMoves DEF EdgesStart
    <3> QED
      BY <1>4, <2>1, <3>1, MovesBeside
  <2>3. CASE torn' = torn /\ \E key : NodeAdded(key)
    <3>1. PICK key : NodeAdded(key)
      BY <2>3
    <3>2. DependenciesInv'
      <4>1. /\ Ids \subseteq Ids' /\ \A i \in Ids : node'[i].status = node[i].status
            /\ \A i \in Ids' \ Ids : node'[i].status = "pending"
            /\ edge' \subseteq [task : Ids', on : Ids', type : {"success", "finished"}]
            /\ \A e \in edge' \ edge : e.type = "finished" \/ e.task \notin Ids
        BY <3>1 DEF NodeAdded
      <4> QED
        BY <1>1, <2>3, <4>1, DependenciesGrow DEF Tables, Invariant
    <3>3. KeysInv'
      BY <1>4, <3>1, KeysAdded DEF Invariant, exVars
    <3>4. PendingInv'
      BY <1>4, <3>1, PendingAdded DEF Invariant
    <3>5. BudgetInv'
      BY <1>4, <3>1, AddedPlanned, BudgetBeside DEF Invariant
    <3>6. ExecutorTyped'
      <4>1. Ids \subseteq Ids' /\ \A i \in Ids : node'[i].key = node[i].key
        BY <3>1 DEF NodeAdded
      <4> QED
        BY <1>4, <4>1, TypedBeside DEF Invariant
    <3> QED
      BY <2>1, <3>2, <3>3, <3>4, <3>5, <3>6 DEF Invariant
  <2> QED
    BY <1>1, <1>4, <2>2, <2>3, EditMoves
<1> QED
  BY <1>2, <1>3, <1>4

-----------------------------------------------------------------------------
(* Steps of the executor.                                                    *)

\* The executor steps only between edits.
LEMMA ExecutorIdle == ASSUME ExecutorNext PROVE edit = <<>>
  BY DEF ExecutorNext, Sync, LookForUnreachable, LookForRemaining, Look, BlockTask, ReadBlocked,
         ChooseWave, WaveNext, Launch, Resolve, Timeout, AllBack, Collect, Collected, PlannerNext,
         Replan, Expand, PlannerUseless, PlannerStops, PlannerAsks, RemainingBlocked, Return

\* The tables in a step of the executor that leaves them alone, or sets statuses.
LEMMA IdleTables ==
  ASSUME Tables, UNCHANGED storeVars
  PROVE  Tables' /\ Moves /\ EdgesStart
<1>1. Moves /\ EdgesStart
  BY StillMoves DEF storeVars, EdgesStart
<1>2. StoreTyped'
  <2>1. RowsKept
    BY DEF Tables, StoreTyped, storeVars, RowsKept, SameRow, Ids
  <2> QED
    BY <2>1, StoreKept DEF Tables, StoreTyped, storeVars
<1>3. EditInv'
  BY DEF Tables, EditInv, storeVars, Ids, VisibleKeys, Visible
<1> QED
  BY <1>1, <1>2, <1>3 DEF Tables

\* The invariants a step of the executor keeps when it adds no row, keeps the keys and asks no
\* planner.
LEMMA ExecutorKept ==
  ASSUME Invariant, Tables', Moves, EdgesStart, UNCHANGED <<tasksByKey, plan>>, pc' # "planning"
  PROVE  DependenciesInv' /\ KeysInv' /\ BudgetInv'
<1>1. DependenciesInv'
  BY DependenciesMove DEF Invariant, Tables
<1>2. KeysInv'
  BY KeysMove DEF Invariant
<1>3. BudgetInv'
  BY MovedPlanned DEF Invariant, BudgetInv, PlannedWithinBudget
<1> QED
  BY <1>1, <1>2, <1>3

\* Such a step keeps a row's key, and makes no row pending.
LEMMA StillUnstarted ==
  ASSUME Moves, touched' = touched
  PROVE  /\ Unstarted' \subseteq Unstarted /\ Unstarted \subseteq Ids
         /\ \A i \in Ids : node'[i].key = node[i].key
         /\ Ids' = Ids /\ Keys' = Keys
<1>1. Ids' = Ids /\ \A i \in Ids : node'[i].key = node[i].key
  BY DEF Moves
<1>2. Unstarted' \subseteq Unstarted /\ Unstarted \subseteq Ids
  BY MovedPlanned DEF Unstarted, Moves, Planned
<1> QED
  BY <1>1, <1>2 DEF Keys

\* The key of a task nobody has started leads to it alone.
LEMMA KeyOfUnstarted ==
  ASSUME StoreTyped, KeysInv, NEW i \in Unstarted
  PROVE  /\ node[i].key \in DOMAIN tasksByKey /\ tasksByKey[node[i].key] = i
         /\ \A j : keyFor(j) = node[i].key => j = i
<1>1. i \in Planned /\ i \in Ids /\ ~node[i].deleted
  BY DEF Unstarted, Planned, StoreTyped
<1>2. /\ node[i].key \in DOMAIN tasksByKey /\ node[i].key \notin MalformedKeys
      /\ tasksByKey[node[i].key] = i
  BY <1>1 DEF KeysInv
<1>3. \A j : keyFor(j) = node[i].key => j = i
  <2> SUFFICES ASSUME NEW j, keyFor(j) = node[i].key PROVE j = i
    OBVIOUS
  <2> DEFINE keys == {k \in DOMAIN tasksByKey : tasksByKey[k] = j}
  <2>1. keys # {}
    BY <1>2 DEF keyFor, MalformedKeys
  <2>2. keyFor(j) \in keys
    BY <2>1 DEF keyFor
  <2> QED
    BY <1>2, <2>2
<1> QED
  BY <1>2, <1>3

\* Keys lead to rows.
LEMMA TasksOf ==
  ASSUME ExecutorTyped, NEW S, S \subseteq DOMAIN tasksByKey
  PROVE  {tasksByKey[k] : k \in S} \subseteq Ids
  BY DEF ExecutorTyped

\* Sync, at the top of the loop, makes every key lead to the last row that has it, which is the
\* planned task if there is one.
LEMMA SyncKept == ASSUME Invariant, Sync PROVE Invariant'
<1>1. StoreTyped /\ Tables /\ node \in Seq(NodeRow) /\ Ids = 1..Len(node) /\ Len(node) \in Nat
  BY RowIds DEF Invariant, Tables, StoreTyped
<1>2. Tables' /\ Moves /\ EdgesStart /\ touched' = touched
  BY <1>1, IdleTables DEF Sync, storeVars
<1>3. /\ pc' = "blocking" /\ hit' = <<>> /\ DOMAIN hit' = {} /\ plan' = plan /\ wave' = wave
      /\ UNCHANGED storeVars
      /\ UNCHANGED <<recorded, wave, doomed, cur, slots, limit>>
  BY DEF Sync
<1>4. ASSUME NEW k \in Keys
      PROVE  /\ tasksByKey'[k] \in Ids /\ node[tasksByKey'[k]].key = k
             /\ \A j \in Ids : node[j].key = k => j <= tasksByKey'[k]
  <2> DEFINE S == {i \in Ids : node[i].key = k}
  <2>1. S \in SUBSET (0..Len(node)) /\ S # {}
    BY <1>1 DEF Keys
  <2>2. Max(S) \in S /\ \A y \in S : y <= Max(S)
    BY <1>1, <2>1, MaxExists
  <2>3. tasksByKey'[k] = Max(S)
    BY DEF Sync, Keys
  <2> HIDE DEF S
  <2>4. tasksByKey'[k] \in S /\ \A y \in S : y <= tasksByKey'[k]
    BY <2>2, <2>3
  <2> QED
    BY <2>4 DEF S
<1>5. DOMAIN tasksByKey' = Keys /\ tasksByKey' \in [DOMAIN tasksByKey' -> Ids]
  <2>1. DOMAIN tasksByKey' = Keys /\ tasksByKey' = [k \in Keys |-> tasksByKey'[k]]
    BY DEF Sync, Keys
  <2> QED
    BY <2>1, <1>4
<1>6. Ids' = Ids /\ Keys' = Keys /\ Planned' = Planned /\ \A i \in Ids : node'[i] = node[i]
  BY <1>3 DEF storeVars, Ids, Keys, Planned
<1>7. pending \subseteq pending' /\ pending' \subseteq Keys
  BY DEF Sync, Keys, Invariant, ExecutorTyped
<1>8. todo' \subseteq Ids
  BY <1>4, <1>7 DEF Sync
<1>9. ExecutorTyped'
  BY <1>3, <1>5, <1>6, <1>7, <1>8 DEF Invariant, ExecutorTyped, PCs
<1>10. DependenciesInv'
  BY <1>1, <1>2, DependenciesMove DEF Invariant
<1>11. KeysInv'
  <2> SUFFICES ASSUME NEW i \in Planned
               PROVE  /\ node[i].key \in DOMAIN tasksByKey' \ MalformedKeys
                      /\ \A j \in Planned : node[j].key = node[i].key => i = j
                      /\ node[i].deleted
                         \/ (/\ tasksByKey'[node[i].key] = i
                             /\ \A j \in Ids : node[j].key = node[i].key => j <= i)
    BY <1>3 DEF KeysInv, storeVars, Planned, Ids
  <2>1. i \in Ids /\ node[i].key \in Keys /\ node[i].key \notin MalformedKeys
    BY DEF Planned, Keys, Invariant, KeysInv
  <2>2. \A j \in Planned : node[j].key = node[i].key => i = j
    BY DEF Invariant, KeysInv
  <2>3. node[i].deleted \/ \A j \in Ids : node[j].key = node[i].key => j <= i
    BY DEF Invariant, KeysInv
  <2>4. node[i].deleted \/ tasksByKey'[node[i].key] = i
    BY <1>1, <1>4, <2>1, <2>3
  <2> QED
    BY <1>5, <2>1, <2>2, <2>3, <2>4
<1>12. PendingInv'
  <2>1. Unstarted' = Unstarted /\ Unstarted \subseteq Ids
    BY <1>3 DEF Unstarted, Planned, Ids, storeVars
  <2> QED
    BY <1>3, <1>6, <1>7, <2>1 DEF Invariant, PendingInv, Back
<1>13. BudgetInv'
  BY <1>3, <1>6 DEF Invariant, BudgetInv, PlannedWithinBudget
<1> QED
  BY <1>2, <1>9, <1>10, <1>11, <1>12, <1>13 DEF Invariant

\* The row the loop blocks next.
LEMMA NextOf ==
  ASSUME Ids \subseteq Nat, NEW S, S \subseteq Ids, S # {}
  PROVE  Min(S) \in S /\ Min(S) \in Ids /\ \A j \in S : Min(S) <= j
  BY MinExists

\* A row gets a status other than pending and done.
LEMMA StatusesMove ==
  ASSUME Tables, edit = <<>>, NEW i \in Ids, NEW s \in Statuses, StatusStep({i}, s), s # "pending",
         s # "done", node[i].status # "done", s \in Started => dependenciesSatisfied(i)
  PROVE  Tables' /\ Moves /\ EdgesStart
<1>1. Tables' /\ node \in Seq(NodeRow)
  BY StatusTables DEF Tables, StoreTyped
<1>2. Moves
  BY <1>1, StatusMoves, StillMoves DEF StatusStep
<1> QED
  BY <1>1, <1>2 DEF StatusStep, EdgesStart

\* Steps of the executor that write nothing to the tables.
LEMMA QuietSteps ==
  ASSUME Invariant, UNCHANGED storeVars
  PROVE  /\ Tables' /\ Moves /\ EdgesStart
         /\ Unstarted' = Unstarted /\ Unstarted \subseteq Ids /\ Planned' = Planned
         /\ \A j \in Ids : node'[j] = node[j]
         /\ Ids' = Ids /\ Keys' = Keys
<1>1. Tables' /\ Moves /\ EdgesStart
  BY IdleTables DEF Invariant
<1>2. Ids' = Ids /\ Keys' = Keys /\ Planned' = Planned /\ \A j \in Ids : node'[j] = node[j]
  BY DEF storeVars, Ids, Keys, Planned
<1>3. Unstarted' = Unstarted /\ Unstarted \subseteq Ids
  BY DEF storeVars, Unstarted, Planned, Ids
<1> QED
  BY <1>1, <1>2, <1>3

\* The loops look at the next task: one that is pending is about to be blocked when nothing else
\* is left to do.
LEMMA LookKept == ASSUME Invariant, LookForUnreachable \/ LookForRemaining PROVE Invariant'
<1> DEFINE i == Min(todo)
<1>1. /\ UNCHANGED storeVars /\ todo # {} /\ doomed = 0 /\ todo' = todo \ {i}
      /\ pc \in {"blocking", "stopping", "pausing"} /\ doomed' \in {i, 0}
      /\ pc # "blocking" => doomed' = (IF node[i].status = "pending" THEN i ELSE 0)
      /\ UNCHANGED <<plan, pc, tasksByKey, pending, recorded, wave, hit, cur, slots, limit>>
  BY DEF LookForUnreachable, LookForRemaining, Look, Remaining, Blockable
<1>2. Ids \subseteq Nat /\ 0 \notin Ids /\ todo \subseteq Ids
  BY RowIds DEF Invariant, Tables, StoreTyped, ExecutorTyped
<1>3. i \in todo /\ i \in Ids
  BY <1>1, <1>2, NextOf
<1> HIDE DEF i
<1>4. /\ Tables' /\ Moves /\ EdgesStart
      /\ Unstarted' = Unstarted /\ Unstarted \subseteq Ids
      /\ \A j \in Ids : node'[j] = node[j]
      /\ Ids' = Ids /\ Keys' = Keys
  BY <1>1, QuietSteps
<1>5. ExecutorTyped'
  BY <1>1, <1>2, <1>3, <1>4 DEF Invariant, ExecutorTyped
<1>6. PendingInv'
  <2>1. ASSUME NEW j \in Unstarted, pc \in {"stopping", "pausing"} PROVE j \in todo' \/ j = doomed'
    <3>1. j \in todo /\ j # 0 /\ node[j].status = "pending"
      BY <1>1, <1>2, <1>4, <2>1 DEF Invariant, PendingInv, Unstarted
    <3> QED
      BY <1>1, <2>1, <3>1
  <2> QED
    BY <1>1, <1>4, <2>1 DEF Invariant, PendingInv, Back
<1>7. DependenciesInv' /\ KeysInv' /\ BudgetInv'
  BY <1>1, <1>4, ExecutorKept
<1> QED
  BY <1>4, <1>5, <1>6, <1>7 DEF Invariant

\* The row they have found is blocked, or has moved and ends the executor.
LEMMA BlockKept == ASSUME Invariant, BlockTask PROVE Invariant'
<1>1. /\ edit = <<>> /\ doomed \in Ids /\ doomed' = 0 /\ node \in Seq(NodeRow) /\ Ids \subseteq Nat
      /\ Tables
      /\ UNCHANGED <<edge, releasing, edit, cut, torn, touched>>
      /\ UNCHANGED <<plan, tasksByKey, pending, recorded, wave, todo, cur, slots, limit>>
  BY RowIds DEF BlockTask, Invariant, Tables, StoreTyped, ExecutorTyped
<1>2. CASE /\ node[doomed].status \in {"pending", "running", "blocked"}
           /\ node' = SetStatus({doomed}, "blocked") /\ pc' = pc
           /\ hit' = [i \in DOMAIN hit \union {doomed} |->
                        IF i = doomed THEN "writing" ELSE hit[i]]
  <2>1. StatusStep({doomed}, "blocked") /\ "blocked" \in Statuses
    BY <1>1, <1>2 DEF StatusStep, Statuses
  <2>2. Tables' /\ Moves /\ EdgesStart
    BY <1>1, <1>2, <2>1, StatusesMove DEF Started
  <2>3. /\ Unstarted' \subseteq Unstarted /\ Unstarted \subseteq Ids
        /\ \A j \in Ids : node'[j].key = node[j].key
        /\ Ids' = Ids /\ Keys' = Keys
    BY <1>1, <2>2, StillUnstarted
  <2>4. DOMAIN hit' = DOMAIN hit \union {doomed}
    BY <1>2
  <2>5. node'[doomed].status = "blocked"
    BY <1>1, <1>2, <2>1, StatusRows
  <2>6. doomed \notin Unstarted'
    BY <2>5 DEF Unstarted
  <2>7. ExecutorTyped'
    BY <1>1, <1>2, <2>3, <2>4 DEF Invariant, ExecutorTyped
  <2>8. PendingInv'
    BY <1>1, <1>2, <2>3, <2>4, <2>6 DEF Invariant, PendingInv, Back
  <2>9. DependenciesInv' /\ KeysInv' /\ BudgetInv'
    <3>1. BudgetInv'
      BY <1>1, <1>2, <2>2, MovedPlanned DEF Invariant, BudgetInv, PlannedWithinBudget
    <3>2. DependenciesInv' /\ KeysInv'
      BY <1>1, <2>2, DependenciesMove, KeysMove DEF Invariant, Tables
    <3> QED
      BY <3>1, <3>2
  <2> QED
    BY <2>2, <2>7, <2>8, <2>9 DEF Invariant
<1>3. CASE pc' = "thrown" /\ UNCHANGED <<node, hit>>
  <2>1. /\ Tables' /\ Moves /\ EdgesStart
        /\ Unstarted' = Unstarted /\ Unstarted \subseteq Ids
        /\ \A j \in Ids : node'[j] = node[j]
        /\ Ids' = Ids /\ Keys' = Keys
    <3>1. UNCHANGED storeVars
      BY <1>3 DEF BlockTask, storeVars
    <3> QED
      BY <3>1, QuietSteps DEF Invariant
  <2>2. ExecutorTyped'
    BY <1>1, <1>3, <2>1 DEF Invariant, ExecutorTyped, PCs
  <2>3. PendingInv'
    BY <1>1, <1>3, <2>1 DEF Invariant, PendingInv, Back
  <2>4. DependenciesInv' /\ KeysInv' /\ BudgetInv'
    BY <1>1, <1>3, <2>1, ExecutorKept
  <2> QED
    BY <2>1, <2>2, <2>3, <2>4 DEF Invariant
<1> QED
  BY <1>2, <1>3 DEF BlockTask

\* What is read once its file is written changes nothing else.
LEMMA ReadKept == ASSUME Invariant, ReadBlocked PROVE Invariant'
<1>1. /\ UNCHANGED storeVars /\ DOMAIN hit' = DOMAIN hit
      /\ UNCHANGED <<plan, pc, tasksByKey, pending, recorded, wave, todo, doomed, cur, slots, limit>>
  BY DEF ReadBlocked
<1>2. /\ Tables' /\ Moves /\ EdgesStart
      /\ Unstarted' = Unstarted /\ Unstarted \subseteq Ids
      /\ \A j \in Ids : node'[j] = node[j]
      /\ Ids' = Ids /\ Keys' = Keys
  BY <1>1, QuietSteps
<1>3. ExecutorTyped'
  BY <1>1, <1>2 DEF Invariant, ExecutorTyped
<1>4. PendingInv'
  BY <1>1, <1>2 DEF Invariant, PendingInv, Back
<1>5. DependenciesInv' /\ KeysInv'
  BY <1>1, <1>2, DependenciesMove, KeysMove DEF Invariant, Tables
<1>6. BudgetInv'
  BY <1>1, <1>2, MovedPlanned DEF Invariant, BudgetInv, PlannedWithinBudget
<1> QED
  BY <1>2, <1>3, <1>4, <1>5, <1>6 DEF Invariant

\* The tasks recorded are rows.
LEMMA RecordBlocked ==
  ASSUME DOMAIN recorded \subseteq Ids, NEW ids, ids \subseteq Ids
  PROVE  DOMAIN Record(ids, Blocked) \subseteq Ids
  BY DEF Record

\* So does the choice of a wave, or of the loop that blocks what remains.
LEMMA ChooseKept == ASSUME Invariant, ChooseWave PROVE Invariant'
<1> DEFINE left == pending \ {keyFor(i) : i \in DOMAIN hit}
           known == Record(DOMAIN hit, Blocked)
           bad == Cardinality({i \in DOMAIN known : known[i] \in {"dead_letter", "blocked"}})
           ready == {i \in {tasksByKey[k] : k \in left} :
                       /\ node[i].status \in {"pending", "queued"}
                       /\ dependenciesSatisfied(i)
                       /\ materializationReady(i)}
<1>1. /\ Tables /\ StoreTyped /\ node \in Seq(NodeRow) /\ Len(node) \in Nat /\ Ids = 1..Len(node)
      /\ edit = <<>>
      /\ ExecutorTyped /\ KeysInv
  BY RowIds DEF Invariant, Tables, StoreTyped, ChooseWave
<1>2. /\ pending' = left /\ recorded' = known /\ hit' = <<>> /\ DOMAIN hit' = {}
      /\ UNCHANGED storeVars
      /\ UNCHANGED <<plan, tasksByKey, doomed, cur, slots, expanded>>
  BY DEF ChooseWave
<1>3. /\ \E cluster \in FailureClusters :
           limit' = adaptiveParallelLimit(limit, bad, Cardinality(left), expanded, cluster)
      /\ \/ pc' = "stopping" /\ todo' = {tasksByKey[k] : k \in left} /\ wave' = wave
         \/ /\ \E W \in SUBSET ready : wave' = [i \in W |-> "starting"]
            /\ pc' = "waiting" /\ todo' = {}
  BY DEF ChooseWave
<1>4. left \subseteq pending /\ left \subseteq DOMAIN tasksByKey /\ left \subseteq Keys
  BY <1>1 DEF ExecutorTyped
<1>5. {tasksByKey[k] : k \in left} \subseteq Ids
  BY <1>1, <1>4, TasksOf
<1>6. ready \subseteq Ids
  BY <1>5
<1>7. DOMAIN known \subseteq Ids
  BY <1>1, RecordBlocked DEF ExecutorTyped
<1>8. ASSUME NEW i \in Unstarted PROVE node[i].key \in left
  <2>1. node[i].key \in pending /\ i \notin DOMAIN hit
    BY DEF Invariant, PendingInv
  <2>2. \A j : keyFor(j) = node[i].key => j = i
    BY <1>1, KeyOfUnstarted
  <2> QED
    BY <2>1, <2>2
<1>9. \A i \in Unstarted : i \in {tasksByKey[k] : k \in left}
  BY <1>1, <1>8, KeyOfUnstarted
<1>10. limit' \in 1..MaxParallelTasks
  <2>1. bad \in Nat
    <3> DEFINE S == {i \in DOMAIN known : known[i] \in {"dead_letter", "blocked"}}
    <3>1. S \in SUBSET (1..Len(node)) /\ IsFiniteSet(1..Len(node))
      BY <1>1, <1>7, FS_Interval
    <3> HIDE DEF S
    <3>2. IsFiniteSet(S)
      BY <3>1, FS_Subset
    <3>3. Cardinality(S) \in Nat
      BY <3>2, FS_CardinalityType
    <3> QED
      BY <3>3 DEF S
  <2> HIDE DEF left, bad
  <2>2. Cardinality(left) \in Nat
    BY <1>1, <1>4, KeysFinite
  <2>3. limit \in 1..MaxParallelTasks
    BY <1>1 DEF ExecutorTyped
  <2>4. PICK cluster \in FailureClusters :
          limit' = adaptiveParallelLimit(limit, bad, Cardinality(left), expanded, cluster)
    BY <1>3
  <2> DEFINE count == Cardinality(left)
  <2>5. count \in Nat /\ limit' = adaptiveParallelLimit(limit, bad, count, expanded, cluster)
    BY <2>2, <2>4
  <2> HIDE DEF count
  <2> QED
    BY <2>1, <2>3, <2>5, LimitInRange, TaskGraphExecutorAssumption
<1> HIDE DEF left, known, bad, ready
<1>11. Tables' /\ Moves /\ EdgesStart /\ touched' = touched
  BY <1>1, <1>2, IdleTables DEF storeVars
<1>12. /\ Unstarted' \subseteq Unstarted /\ Unstarted \subseteq Ids
       /\ \A j \in Ids : node'[j].key = node[j].key
       /\ Ids' = Ids /\ Keys' = Keys
  BY <1>11, StillUnstarted
<1>13. DOMAIN wave' \subseteq Ids /\ todo' \subseteq Ids /\ pc' \in {"stopping", "waiting"}
  BY <1>3, <1>1, <1>5, <1>6 DEF ExecutorTyped
<1>14. ExecutorTyped'
  BY <1>1, <1>2, <1>4, <1>7, <1>10, <1>12, <1>13 DEF ExecutorTyped, PCs
<1>15. PendingInv'
  <2>1. ASSUME NEW j \in Unstarted'
        PROVE  /\ node'[j].key \in pending'
               /\ pc' \in {"stopping", "pausing"} => j \in todo'
               /\ pc' \notin {"finishing", "done"}
               /\ j \notin DOMAIN hit'
               /\ j \in DOMAIN wave' => ~Back(j)'
    <3>1. j \in Unstarted /\ j \in Ids
      BY <1>12
    <3>2. node'[j].key \in pending'
      BY <1>2, <1>8, <1>12, <3>1
    <3>3. pc' \in {"stopping", "pausing"} => j \in todo'
      BY <1>3, <1>9, <3>1
    <3>4. j \in DOMAIN wave' => ~Back(j)'
      <4>1. CASE wave' = wave
        BY <3>1, <4>1 DEF Invariant, PendingInv, Back
      <4>2. CASE \E W \in SUBSET ready : wave' = [i \in W |-> "starting"]
        BY <4>2 DEF Back
      <4> QED
        BY <1>3, <4>1, <4>2
    <3> QED
      BY <1>2, <1>13, <3>2, <3>3, <3>4
  <2> QED
    BY <1>13, <2>1 DEF PendingInv
<1>16. DependenciesInv' /\ KeysInv' /\ BudgetInv'
  BY <1>2, <1>11, <1>13, ExecutorKept
<1> QED
  BY <1>11, <1>14, <1>15, <1>16 DEF Invariant

\* A task of the wave is launched, comes back, or is given up.
LEMMA WaveKept ==
  ASSUME Invariant, Tables', Moves, EdgesStart, touched' = touched, pc = "waiting",
         NEW i \in DOMAIN wave,
         NEW s, wave' = [wave EXCEPT ![i] = s], s \in {"starting", "waiting"} \/ i \notin Unstarted',
         UNCHANGED <<plan, pc, tasksByKey, pending, recorded, todo, doomed, hit, cur, slots, limit>>
  PROVE  Invariant'
<1>1. /\ Unstarted' \subseteq Unstarted /\ Unstarted \subseteq Ids
      /\ \A j \in Ids : node'[j].key = node[j].key
      /\ Ids' = Ids /\ Keys' = Keys
  BY StillUnstarted
<1>2. DOMAIN wave' = DOMAIN wave /\ \A j \in DOMAIN wave : wave'[j] = IF j = i THEN s ELSE wave[j]
  OBVIOUS
<1>3. ExecutorTyped'
  BY <1>1, <1>2 DEF Invariant, ExecutorTyped
<1>4. PendingInv'
  BY <1>1, <1>2 DEF Invariant, PendingInv, Back
<1>5. DependenciesInv' /\ KeysInv' /\ BudgetInv'
  BY ExecutorKept
<1> QED
  BY <1>3, <1>4, <1>5 DEF Invariant

\* A launch queues a task whose dependencies are satisfied, or finds it must wait.
LEMMA LaunchKept == ASSUME Invariant, NEW i \in DOMAIN wave, Launch(i) PROVE Invariant'
<1>1. /\ Tables /\ node \in Seq(NodeRow) /\ i \in Ids /\ pc = "waiting" /\ edit = <<>>
      /\ touched' = touched /\ UNCHANGED <<edge, releasing, edit, cut, torn, touched>>
      /\ UNCHANGED <<plan, pc, tasksByKey, pending, recorded, todo, doomed, hit, cur, slots, limit>>
  BY DEF Invariant, Tables, StoreTyped, ExecutorTyped, Launch
<1>2. CASE ~dependenciesSatisfied(i) /\ wave' = [wave EXCEPT ![i] = "waiting"] /\ node' = node
  <2>1. Tables' /\ Moves /\ EdgesStart
    <3>1. StatusStep({}, "queued") /\ "queued" \in Statuses
      BY <1>1, <1>2 DEF StatusStep, Statuses
    <3>2. Tables'
      BY <1>1, <3>1, StatusTables
    <3> QED
      BY <1>1, <1>2, <3>2, StillMoves DEF EdgesStart
  <2> QED
    BY <1>1, <1>2, <2>1, WaveKept
<1>3. CASE /\ dependenciesSatisfied(i) /\ node[i].status \in Enqueueable
           /\ wave' = [wave EXCEPT ![i] = "waiting"] /\ node' = SetStatus({i}, "queued")
  <2>1. "queued" \in Statuses /\ node[i].status # "done" /\ StatusStep({i}, "queued")
    BY <1>1, <1>3 DEF Statuses, Enqueueable, StatusStep
  <2>2. Tables' /\ Moves /\ EdgesStart
    BY <1>1, <1>3, <2>1, StatusesMove
  <2> QED
    BY <1>1, <1>3, <2>2, WaveKept
<1>4. CASE /\ node[i].status \notin Enqueueable
           /\ wave' = [wave EXCEPT ![i] = node[i].status] /\ node' = node
  <2>1. Tables' /\ Moves /\ EdgesStart
    <3>1. StatusStep({}, "queued") /\ "queued" \in Statuses
      BY <1>1, <1>4 DEF StatusStep, Statuses
    <3>2. Tables'
      BY <1>1, <3>1, StatusTables
    <3> QED
      BY <1>1, <1>4, <3>2, StillMoves DEF EdgesStart
  <2>2. i \notin Unstarted'
    BY <1>1, <1>4 DEF Unstarted, Enqueueable
  <2> DEFINE s == node[i].status
  <2>3. wave' = [wave EXCEPT ![i] = s]
    BY <1>4
  <2> HIDE DEF s
  <2> QED
    BY <1>1, <2>1, <2>2, <2>3, WaveKept
<1> QED
  BY <1>2, <1>3, <1>4 DEF Launch

\* A task that comes back has ended, so it is not one that nobody has started.
LEMMA ResolveKept == ASSUME Invariant, NEW i \in DOMAIN wave, Resolve(i) PROVE Invariant'
<1>1. /\ Tables /\ pc = "waiting" /\ node[i].status \in {"done", "dead_letter"}
      /\ UNCHANGED storeVars /\ touched' = touched
      /\ wave' = [wave EXCEPT ![i] = node[i].status]
      /\ UNCHANGED <<plan, pc, tasksByKey, pending, recorded, todo, doomed, hit, cur, slots, limit>>
  BY DEF Invariant, Resolve, storeVars
<1>2. Tables' /\ Moves /\ EdgesStart
  BY <1>1, IdleTables
<1>3. i \notin Unstarted'
  BY <1>1 DEF Unstarted, storeVars
<1> DEFINE s == node[i].status
<1>4. wave' = [wave EXCEPT ![i] = s]
  BY <1>1
<1> HIDE DEF s
<1> QED
  BY <1>1, <1>2, <1>3, <1>4, WaveKept

\* A task that is given up becomes dead_letter if it has not ended.
LEMMA TimeoutKept == ASSUME Invariant, NEW i \in DOMAIN wave, Timeout(i) PROVE Invariant'
<1>1. /\ Tables /\ node \in Seq(NodeRow) /\ i \in Ids /\ pc = "waiting" /\ edit = <<>>
      /\ touched' = touched /\ UNCHANGED <<edge, releasing, edit, cut, torn, touched>>
      /\ wave' = [wave EXCEPT ![i] = node'[i].status]
      /\ UNCHANGED <<plan, pc, tasksByKey, pending, recorded, todo, doomed, hit, cur, slots, limit>>
  BY DEF Invariant, Tables, StoreTyped, ExecutorTyped, Timeout
<1>2. CASE node[i].status \in Terminal /\ node' = node
  <2>1. Tables' /\ Moves /\ EdgesStart
    <3>1. StatusStep({}, "queued") /\ "queued" \in Statuses
      BY <1>1, <1>2 DEF StatusStep, Statuses
    <3>2. Tables'
      BY <1>1, <3>1, StatusTables
    <3> QED
      BY <1>1, <1>2, <3>2, StillMoves DEF EdgesStart
  <2>2. i \notin Unstarted'
    BY <1>2 DEF Unstarted, Terminal
  <2> DEFINE s == node'[i].status
  <2>3. wave' = [wave EXCEPT ![i] = s]
    BY <1>1
  <2> HIDE DEF s
  <2> QED
    BY <1>1, <2>1, <2>2, <2>3, WaveKept
<1>3. CASE node[i].status \notin Terminal /\ node' = SetStatus({i}, "cancelled")
  <2>1. "cancelled" \in Statuses /\ node[i].status # "done" /\ StatusStep({i}, "cancelled")
    BY <1>1, <1>3 DEF Statuses, Terminal, StatusStep
  <2>2. Tables' /\ Moves /\ EdgesStart
    BY <1>1, <2>1, StatusesMove DEF Started
  <2>3. node'[i].status = "cancelled"
    BY <1>1, <1>3, <2>1, StatusRows
  <2>4. i \notin Unstarted'
    BY <2>3 DEF Unstarted
  <2> DEFINE s == node'[i].status
  <2>5. wave' = [wave EXCEPT ![i] = s]
    BY <1>1
  <2> HIDE DEF s
  <2> QED
    BY <1>1, <2>2, <2>4, <2>5, WaveKept
<1> QED
  BY <1>2, <1>3 DEF Timeout

\* When all are back, the tasks of the wave are taken in order.
LEMMA AllBackKept == ASSUME Invariant, AllBack PROVE Invariant'
<1>1. /\ UNCHANGED storeVars /\ pc = "waiting" /\ pc' = "collecting" /\ todo' = DOMAIN wave
      /\ \A i \in DOMAIN wave : Back(i)
      /\ UNCHANGED <<plan, tasksByKey, pending, recorded, wave, doomed, hit, cur, slots, limit>>
  BY DEF AllBack, Back
<1>2. /\ Tables' /\ Moves /\ EdgesStart
      /\ Unstarted' = Unstarted /\ Unstarted \subseteq Ids
      /\ \A j \in Ids : node'[j] = node[j]
      /\ Ids' = Ids /\ Keys' = Keys
  BY <1>1, QuietSteps
<1>3. ExecutorTyped'
  BY <1>1, <1>2 DEF Invariant, ExecutorTyped, PCs
<1>4. PendingInv'
  BY <1>1, <1>2 DEF Invariant, PendingInv, Back
<1>5. DependenciesInv' /\ KeysInv' /\ BudgetInv'
  BY <1>1, <1>2, ExecutorKept
<1> QED
  BY <1>2, <1>3, <1>4, <1>5 DEF Invariant

\* The rows of plans and patches are as many as the keys of the graph at most.
LEMMA PlannedKeysCount ==
  ASSUME Invariant
  PROVE  /\ IsFiniteSet(Planned) /\ Cardinality(Planned) \in Nat
         /\ Cardinality(DOMAIN tasksByKey) \in Nat
         /\ Cardinality(Planned) <= Cardinality(DOMAIN tasksByKey)
<1>1. node \in Seq(NodeRow) /\ DOMAIN tasksByKey \subseteq Keys
  BY DEF Invariant, Tables, StoreTyped, ExecutorTyped
<1>2. IsFiniteSet(DOMAIN tasksByKey) /\ Cardinality(DOMAIN tasksByKey) \in Nat
  BY <1>1, KeysFinite
<1>3. \A i \in Planned : node[i].key \in DOMAIN tasksByKey
  BY DEF Invariant, KeysInv
<1>4. \A i, j \in Planned : node[i].key = node[j].key => i = j
  BY DEF Invariant, KeysInv
<1>5. IsFiniteSet(Planned) /\ Cardinality(Planned) <= Cardinality(DOMAIN tasksByKey)
  BY <1>2, <1>3, <1>4, DistinctRows
<1> QED
  BY <1>2, <1>5, FS_CardinalityType

\* A task is taken, and its planner is asked for what there is room for.
LEMMA CollectKept == ASSUME Invariant, Collect PROVE Invariant'
<1> DEFINE i == Min(todo)
           asks == ~paused /\ (WantsReplan(i) \/ WantsExpansion(i))
<1>1. /\ UNCHANGED storeVars /\ pc = "collecting" /\ todo # {}
      /\ todo' = todo \ {i} /\ pending' = pending \ {keyFor(i)}
      /\ pc' = (IF asks THEN "planning" ELSE pc)
      /\ cur' = (IF asks THEN i ELSE cur)
      /\ slots' = (IF asks THEN AvailableSlots ELSE slots)
      /\ UNCHANGED <<plan, tasksByKey, wave, doomed, hit, limit>>
  BY DEF Collect
<1>2. /\ Tables' /\ Moves /\ EdgesStart
      /\ Unstarted' = Unstarted /\ Unstarted \subseteq Ids /\ Planned' = Planned
      /\ \A j \in Ids : node'[j] = node[j]
      /\ Ids' = Ids /\ Keys' = Keys
  BY <1>1, QuietSteps
<1>3. /\ Tables /\ StoreTyped /\ ExecutorTyped /\ KeysInv /\ node \in Seq(NodeRow)
      /\ Ids \subseteq Nat /\ todo \subseteq Ids
  BY RowIds DEF Invariant, Tables, StoreTyped, ExecutorTyped
<1>4. i \in todo /\ i \in Ids /\ i \in DOMAIN wave
  <2>1. todo \subseteq DOMAIN wave
    BY <1>1, <1>3 DEF ExecutorTyped
  <2> QED
    BY <1>1, <1>3, <2>1, NextOf
<1>5. DOMAIN recorded' \subseteq Ids
  <2>1. recorded' = Record({i}, LAMBDA j : wave[j])
    BY DEF Collect
  <2>2. DOMAIN recorded' \subseteq DOMAIN recorded \union {i}
    BY <2>1 DEF Record
  <2> QED
    BY <1>3, <1>4, <2>2 DEF ExecutorTyped
<1>6. asks => AvailableSlots \in Nat \ {0} /\ AvailableSlots = MaxDynamicTasks - Cardinality(DOMAIN tasksByKey)
  <2>1. asks => AvailableSlots > 0
    BY DEF WantsReplan, WantsExpansion
  <2>2. Cardinality(DOMAIN tasksByKey) \in Nat /\ MaxDynamicTasks \in Nat
    BY PlannedKeysCount, TaskGraphExecutorAssumption DEF TaskGraphExecutorAssumption
  <2> QED
    BY <2>1, <2>2 DEF AvailableSlots
<1> HIDE DEF i, asks
<1>7. ExecutorTyped'
  BY <1>1, <1>2, <1>3, <1>4, <1>5, <1>6 DEF ExecutorTyped, PCs
<1>8. PendingInv'
  <2>1. Back(i)
    BY <1>1, <1>4 DEF Invariant, PendingInv
  <2>2. i \notin Unstarted
    BY <1>4, <2>1 DEF Invariant, PendingInv
  <2>3. ASSUME NEW j \in Unstarted PROVE node[j].key \in pending'
    <3>1. keyFor(i) # node[j].key
      BY <1>3, <2>2, <2>3, KeyOfUnstarted
    <3> QED
      BY <1>1, <3>1, <2>3 DEF Invariant, PendingInv
  <2> QED
    BY <1>1, <1>2, <2>3 DEF Invariant, PendingInv, Back
<1>9. DependenciesInv'
  BY <1>2, <1>3, DependenciesMove DEF Invariant
<1>10. KeysInv'
  BY <1>1, <1>2, KeysMove DEF Invariant
<1>11. BudgetInv'
  <2>1. pc' = "planning" => slots' # 0 /\ Cardinality(Planned) + slots' <= MaxDynamicTasks
    <3>1. CASE asks
      <4>1. /\ slots' \in Nat \ {0} /\ slots' = MaxDynamicTasks - Cardinality(DOMAIN tasksByKey)
            /\ MaxDynamicTasks \in Nat
        BY <1>1, <1>6, <3>1, TaskGraphExecutorAssumption DEF TaskGraphExecutorAssumption
      <4> QED
        BY <4>1, PlannedKeysCount
    <3>2. CASE ~asks
      BY <1>1, <3>2
    <3> QED
      BY <3>1, <3>2
  <2> QED
    BY <1>1, <1>2, <2>1 DEF Invariant, BudgetInv, PlannedWithinBudget
<1> QED
  BY <1>2, <1>7, <1>8, <1>9, <1>10, <1>11 DEF Invariant

\* The loop goes back to its top.
LEMMA CollectedKept == ASSUME Invariant, Collected PROVE Invariant'
<1>1. /\ UNCHANGED storeVars /\ pc = "collecting" /\ wave' = <<>> /\ cur' = 0 /\ slots' = 0
      /\ pc' = (IF pending = {} THEN "finishing" ELSE "top")
      /\ UNCHANGED <<plan, tasksByKey, pending, recorded, todo, doomed, hit, limit>>
  BY DEF Collected
<1>2. /\ Tables' /\ Moves /\ EdgesStart
      /\ Unstarted' = Unstarted /\ Unstarted \subseteq Ids
      /\ \A j \in Ids : node'[j] = node[j]
      /\ Ids' = Ids /\ Keys' = Keys
  BY <1>1, QuietSteps
<1>3. DOMAIN wave' = {}
  BY <1>1
<1>4. ExecutorTyped'
  BY <1>1, <1>2, <1>3 DEF Invariant, ExecutorTyped, PCs
<1>5. PendingInv'
  <2>1. \A i \in Unstarted : pending # {}
    BY DEF Invariant, PendingInv
  <2> QED
    BY <1>1, <1>2, <1>3, <2>1 DEF Invariant, PendingInv
<1>6. DependenciesInv' /\ KeysInv' /\ BudgetInv'
  BY <1>1, <1>2, ExecutorKept
<1> QED
  BY <1>2, <1>4, <1>5, <1>6 DEF Invariant

\* What remains is blocked, so no planned task is left pending.
LEMMA RemainingKept == ASSUME Invariant, RemainingBlocked PROVE Invariant'
<1>1. /\ UNCHANGED storeVars /\ pc \in {"stopping", "pausing"} /\ todo = {} /\ doomed = 0
      /\ hit' = <<>> /\ DOMAIN hit' = {} /\ cur' = 0 /\ slots' = 0
      /\ \/ /\ pc = "pausing" /\ pending' = {} /\ pc' = "collecting"
            /\ todo' = {i \in DOMAIN wave : i > cur}
         \/ /\ pc = "stopping" /\ pending' = pending \ {keyFor(i) : i \in DOMAIN hit}
            /\ pc' = "finishing" /\ todo' = {}
      /\ UNCHANGED <<plan, tasksByKey, wave, doomed, limit>>
  BY DEF RemainingBlocked, Looked
<1>2. /\ Tables' /\ Moves /\ EdgesStart
      /\ Unstarted' = Unstarted /\ Unstarted \subseteq Ids
      /\ \A j \in Ids : node'[j] = node[j]
      /\ Ids' = Ids /\ Keys' = Keys
  BY <1>1, QuietSteps
<1>3. Unstarted = {}
  <2> SUFFICES ASSUME NEW i \in Unstarted PROVE FALSE
    OBVIOUS
  <2>1. i \in todo \/ i = doomed
    BY <1>1 DEF Invariant, PendingInv
  <2>2. i \in Ids /\ 0 \notin Ids
    BY <1>2, RowIds DEF Invariant, Tables, StoreTyped
  <2> QED
    BY <1>1, <2>1, <2>2
<1>4. DOMAIN recorded' \subseteq Ids
  <2>1. recorded' = Record(DOMAIN hit, Blocked)
    BY DEF RemainingBlocked
  <2> QED
    BY <2>1, RecordBlocked DEF Invariant, ExecutorTyped
<1>5. ExecutorTyped'
  <2>1. todo' \subseteq Ids /\ todo' \subseteq DOMAIN wave'
    BY <1>1 DEF Invariant, ExecutorTyped
  <2>2. pending' \subseteq DOMAIN tasksByKey'
    BY <1>1 DEF Invariant, ExecutorTyped
  <2>3. pc' \in {"collecting", "finishing"}
    BY <1>1
  <2> QED
    BY <1>1, <1>2, <1>4, <2>1, <2>2, <2>3 DEF Invariant, ExecutorTyped, PCs
<1>6. PendingInv'
  BY <1>1, <1>2, <1>3 DEF Invariant, PendingInv, Back
<1>7. DependenciesInv' /\ KeysInv' /\ BudgetInv'
  BY <1>1, <1>2, ExecutorKept
<1> QED
  BY <1>2, <1>5, <1>6, <1>7 DEF Invariant

\* The executor returns with no planned task pending.
LEMMA ReturnKept == ASSUME Invariant, Return PROVE Invariant'
<1>1. /\ UNCHANGED storeVars /\ pc = "finishing" /\ pc' = "done"
      /\ UNCHANGED <<plan, tasksByKey, pending, recorded, wave, todo, doomed, hit, cur, slots, limit>>
  BY DEF Return
<1>2. /\ Tables' /\ Moves /\ EdgesStart
      /\ Unstarted' = Unstarted /\ Unstarted \subseteq Ids
      /\ \A j \in Ids : node'[j] = node[j]
      /\ Ids' = Ids /\ Keys' = Keys
  BY <1>1, QuietSteps
<1>3. ExecutorTyped'
  BY <1>1, <1>2 DEF Invariant, ExecutorTyped, PCs
<1>4. PendingInv'
  BY <1>1, <1>2 DEF Invariant, PendingInv, Back
<1>5. DependenciesInv' /\ KeysInv' /\ BudgetInv'
  BY <1>1, <1>2, ExecutorKept
<1> QED
  BY <1>2, <1>3, <1>4, <1>5 DEF Invariant

\* An expansion that asks the user stops the loop at what remains.
LEMMA AsksKept == ASSUME Invariant, PlannerAsks PROVE Invariant'
<1>1. /\ UNCHANGED storeVars /\ pc = "planning" /\ pc' = "pausing"
      /\ todo' = {tasksByKey[k] : k \in pending}
      /\ UNCHANGED <<plan, tasksByKey, pending, recorded, wave, doomed, hit, cur, slots, limit>>
  BY DEF PlannerAsks
<1>2. /\ Tables' /\ Moves /\ EdgesStart
      /\ Unstarted' = Unstarted /\ Unstarted \subseteq Ids
      /\ \A j \in Ids : node'[j] = node[j]
      /\ Ids' = Ids /\ Keys' = Keys
  BY <1>1, QuietSteps
<1>3. todo' \subseteq Ids
  BY <1>1 DEF Invariant, ExecutorTyped
<1>4. \A i \in Unstarted : i \in todo'
  <2> SUFFICES ASSUME NEW i \in Unstarted PROVE i \in todo'
    OBVIOUS
  <2>1. node[i].key \in pending
    BY DEF Invariant, PendingInv
  <2>2. tasksByKey[node[i].key] = i
    BY KeyOfUnstarted DEF Invariant, Tables
  <2> QED
    BY <1>1, <2>1, <2>2
<1>5. ExecutorTyped'
  BY <1>1, <1>2, <1>3 DEF Invariant, ExecutorTyped, PCs
<1>6. PendingInv'
  BY <1>1, <1>2, <1>4 DEF Invariant, PendingInv, Back
<1>7. DependenciesInv' /\ KeysInv' /\ BudgetInv'
  BY <1>1, <1>2, ExecutorKept
<1> QED
  BY <1>2, <1>5, <1>6, <1>7 DEF Invariant

\* An answer that adds nothing keeps the invariant.
LEMMA UselessKept ==
  ASSUME Invariant, pc = "planning", UNCHANGED <<node, edge, tasksByKey, pending, expanded>>, Resume
  PROVE  Invariant'
<1>1. /\ UNCHANGED storeVars /\ pc' = "collecting" /\ cur' = 0 /\ slots' = 0
      /\ UNCHANGED <<plan, tasksByKey, pending, recorded, wave, todo, doomed, hit, limit>>
  BY DEF Resume, storeVars
<1>2. /\ Tables' /\ Moves /\ EdgesStart
      /\ Unstarted' = Unstarted /\ Unstarted \subseteq Ids
      /\ \A j \in Ids : node'[j] = node[j]
      /\ Ids' = Ids /\ Keys' = Keys
  BY <1>1, QuietSteps
<1>3. ExecutorTyped'
  BY <1>1, <1>2 DEF Invariant, ExecutorTyped, PCs
<1>4. PendingInv'
  BY <1>1, <1>2 DEF Invariant, PendingInv, Back
<1>5. DependenciesInv' /\ KeysInv' /\ BudgetInv'
  BY <1>1, <1>2, ExecutorKept
<1> QED
  BY <1>2, <1>3, <1>4, <1>5 DEF Invariant

\* The room in the graph, as a number.
LEMMA BudgetRoom ==
  ASSUME Invariant
  PROVE  /\ Max({MaxDynamicTasks, Len(plan.tasks)}) \in Nat
         /\ MaxDynamicTasks <= Max({MaxDynamicTasks, Len(plan.tasks)})
         /\ Len(plan.tasks) <= Max({MaxDynamicTasks, Len(plan.tasks)})
<1>1. MaxDynamicTasks \in Nat /\ Len(plan.tasks) \in Nat
  <2>1. plan.tasks \in Seq(PlanTask)
    BY TaskGraphExecutorAssumption DEF TaskGraphExecutorAssumption, Invariant, ExecutorTyped
  <2> QED
    BY <2>1, TaskGraphExecutorAssumption DEF TaskGraphExecutorAssumption
<1> DEFINE n == Len(plan.tasks)
<1>2. Max({MaxDynamicTasks, n}) = IF MaxDynamicTasks >= n THEN MaxDynamicTasks ELSE n
  BY <1>1, MaxOfTwo
<1> HIDE DEF n
<1>3. /\ Max({MaxDynamicTasks, n}) \in Nat /\ MaxDynamicTasks <= Max({MaxDynamicTasks, n})
      /\ n <= Max({MaxDynamicTasks, n})
  BY <1>1, <1>2 DEF n
<1> QED
  BY <1>3 DEF n

\* One that adds tasks keeps it: their keys are new, and they are counted.
LEMMA GrowthKept ==
  ASSUME Invariant, pc = "planning", edit = <<>>, Grows
  PROVE  Invariant'
<1>1. /\ Tables /\ StoreTyped /\ ExecutorTyped /\ KeysInv /\ node \in Seq(NodeRow)
      /\ Len(node) \in Nat /\ Ids = 1..Len(node)
      /\ tasksByKey \in [DOMAIN tasksByKey -> Ids] /\ cur \in Ids
  BY RowIds DEF Invariant, Tables, StoreTyped, ExecutorTyped
<1>2. PICK specs : Fresh(specs, slots) /\ TasksAdded(specs) /\ Resume
  BY <1>1, GrownTables, TaskGraphExecutorAssumption
<1> DEFINE first == Len(node)
           new == {first + i : i \in 1..Len(specs)}
<1>3. /\ specs \in Seq(Task) /\ Len(specs) \in Nat /\ DOMAIN specs = 1..Len(specs)
      /\ Len(specs) <= slots
      /\ \A i, j \in 1..Len(specs) : specs[i].key = specs[j].key => i = j
      /\ \A i \in 1..Len(specs) : specs[i].key \notin DOMAIN tasksByKey \union MalformedKeys
  BY <1>2 DEF Fresh, KeysDistinct, TaskKeys
<1>4. /\ node' \in Seq(NodeRow) /\ Ids' = Ids \union new
      /\ \A i \in Ids : /\ node'[i].key = node[i].key /\ node'[i].origin = node[i].origin
                        /\ node'[i].deleted = node[i].deleted /\ node'[i].status = node[i].status
      /\ \A i \in 1..Len(specs) :
           /\ node'[first + i].key = specs[i].key /\ node'[first + i].origin = "patch"
           /\ node'[first + i].status = "pending" /\ ~node'[first + i].deleted
  BY <1>2 DEF TasksAdded, SameRow
<1>5. /\ DOMAIN tasksByKey' = DOMAIN tasksByKey \union {specs[i].key : i \in 1..Len(specs)}
      /\ \A k \in DOMAIN tasksByKey : tasksByKey'[k] = tasksByKey[k]
      /\ \A i \in 1..Len(specs) : tasksByKey'[specs[i].key] = first + i
      /\ pending' = pending \union {specs[i].key : i \in 1..Len(specs)}
  BY <1>2, <1>3 DEF TasksAdded, TaskKeys
<1>6. /\ pc' = "collecting" /\ cur' = 0 /\ slots' = 0
      /\ UNCHANGED <<releasing, edit, cut, torn, touched, plan, recorded, wave, todo, doomed, hit, limit>>
  BY <1>2 DEF Resume
<1>7. Tables'
  BY <1>1, <1>2, <1>6, CreatedTables
<1>8. \A i \in new : i \notin Ids /\ i \in Ids' /\ i \in Nat
  BY <1>1, <1>4
<1>9. Planned' = Planned \union new
  BY <1>4, <1>8 DEF Planned
<1>10. DependenciesInv'
  <2>1. /\ Ids \subseteq Ids' /\ torn' = torn
        /\ \A i \in Ids : node'[i].status = node[i].status
        /\ \A i \in Ids' \ Ids : node'[i].status = "pending"
    BY <1>4, <1>6
  <2>2. /\ edge' \subseteq [task : Ids', on : Ids', type : {"success", "finished"}]
        /\ \A e \in edge' \ edge : e.type = "finished" \/ e.task \notin Ids
    BY <1>2 DEF TasksAdded
  <2> QED
    BY <1>1, <2>1, <2>2, DependenciesGrow DEF Invariant
<1>11. ExecutorTyped'
  <2>1. Keys' = Keys \union {specs[i].key : i \in 1..Len(specs)}
    <3>1. ASSUME NEW k \in Keys'
          PROVE  k \in Keys \/ \E i \in 1..Len(specs) : k = specs[i].key
      <4>1. PICK i \in Ids' : k = node'[i].key
        BY DEF Keys
      <4>2. CASE i \in Ids
        BY <1>4, <4>1, <4>2 DEF Keys
      <4>3. CASE i \in new
        <5>1. PICK n \in 1..Len(specs) : i = first + n
          BY <4>3
        <5> QED
          BY <1>4, <4>1, <5>1
      <4> QED
        BY <1>4, <4>1, <4>2, <4>3
    <3>2. \A k \in Keys : k \in Keys'
      BY <1>4 DEF Keys
    <3>3. \A i \in 1..Len(specs) : specs[i].key \in Keys'
      BY <1>4, <1>8 DEF Keys
    <3> QED
      BY <3>1, <3>2, <3>3
  <2>2. \A k \in DOMAIN tasksByKey' : tasksByKey'[k] \in Ids'
    BY <1>1, <1>4, <1>5, <1>8
  <2>3. tasksByKey' = [k \in DOMAIN tasksByKey' |-> tasksByKey'[k]]
    BY <1>2 DEF TasksAdded
  <2>4. tasksByKey' \in [DOMAIN tasksByKey' -> Ids'] /\ DOMAIN tasksByKey' \subseteq Keys'
    BY <1>1, <1>5, <2>1, <2>2, <2>3 DEF ExecutorTyped
  <2> QED
    BY <1>1, <1>4, <1>5, <1>6, <2>4 DEF ExecutorTyped, PCs
<1>12. KeysInv'
  <2> SUFFICES ASSUME NEW i \in Planned \union new
               PROVE  /\ node'[i].key \in DOMAIN tasksByKey' \ MalformedKeys
                      /\ \A j \in Planned \union new : node'[j].key = node'[i].key => i = j
                      /\ node'[i].deleted \/ (tasksByKey'[node'[i].key] = i
                                              /\ \A j \in Ids' : node'[j].key = node'[i].key =>
                                                   j <= i)
    BY <1>9 DEF KeysInv
  <2>1. ASSUME NEW j \in Planned
        PROVE  /\ j \in Ids /\ node'[j].key = node[j].key /\ node[j].key \in DOMAIN tasksByKey \ MalformedKeys
    BY <1>1, <1>4 DEF Planned, KeysInv
  <2>2. ASSUME NEW j \in new
        PROVE  /\ \E n \in 1..Len(specs) : j = first + n /\ node'[j].key = specs[n].key
               /\ node'[j].key \notin DOMAIN tasksByKey \union MalformedKeys
               /\ node'[j].key \in DOMAIN tasksByKey'
               /\ tasksByKey'[node'[j].key] = j
    <3>1. PICK n \in 1..Len(specs) : j = first + n
      OBVIOUS
    <3>2. node'[j].key = specs[n].key /\ tasksByKey'[specs[n].key] = j
      BY <1>4, <1>5, <3>1
    <3>3. /\ specs[n].key \notin DOMAIN tasksByKey \union MalformedKeys
          /\ specs[n].key \in DOMAIN tasksByKey'
      BY <1>3, <1>5
    <3> HIDE DEF first
    <3> QED
      BY <3>1, <3>2, <3>3
  <2>3. CASE i \in Planned
    <3>1. node'[i].key \in DOMAIN tasksByKey' \ MalformedKeys
      BY <1>5, <2>1, <2>3
    <3>2. \A j \in new : node'[j].key # node'[i].key
      BY <2>1, <2>2, <2>3
    <3>3. \A j \in Planned \union new : node'[j].key = node'[i].key => i = j
      BY <1>1, <2>1, <2>3, <3>2 DEF KeysInv
    <3>4. node'[i].deleted \/ (tasksByKey'[node'[i].key] = i
                               /\ \A j \in Ids' : node'[j].key = node'[i].key => j <= i)
      <4>1. /\ node'[i].key = node[i].key /\ node'[i].deleted = node[i].deleted
            /\ tasksByKey'[node[i].key] = tasksByKey[node[i].key]
        BY <1>4, <1>5, <2>1, <2>3
      <4>2. node[i].deleted \/ (tasksByKey[node[i].key] = i /\ \A j \in Ids : node[j].key = node[i].key => j <= i)
        BY <1>1, <2>3 DEF KeysInv
      <4>3. \A j \in Ids' : node'[j].key = node'[i].key => j \in Ids /\ node[j].key = node[i].key
        <5> HIDE DEF new
        <5> QED
          BY <1>4, <3>2, <4>1
      <4> QED
        BY <4>1, <4>2, <4>3
    <3> QED
      BY <3>1, <3>3, <3>4
  <2>4. CASE i \in new
    <3>1. \A j \in Planned : node'[j].key # node'[i].key
      BY <2>1, <2>2, <2>4
    <3>2. \A j \in new : node'[j].key = node'[i].key => i = j
      BY <1>3, <2>2, <2>4
    <3>3. \A j \in Ids' : node'[j].key = node'[i].key => j <= i
      <4>1. \A j \in Ids : j <= i
        BY <1>1, <2>4
      <4>2. i \in Nat
        BY <1>8, <2>4
      <4> HIDE DEF new
      <4>3. \A j \in Ids' : j \in Ids \/ j \in new
        BY <1>4
      <4>4. i <= i
        BY <4>2
      <4> QED
        BY <3>2, <4>1, <4>3, <4>4
    <3> QED
      BY <2>2, <2>4, <3>1, <3>2, <3>3
  <2> QED
    BY <2>3, <2>4
<1>13. PendingInv'
  <2>1. \A j \in Unstarted' : j \in new \/ (j \in Unstarted /\ j \in Ids)
    BY <1>4, <1>6, <1>9 DEF Unstarted, Planned
  <2>2. ASSUME NEW j \in Unstarted'
        PROVE  node'[j].key \in pending' /\ j \notin DOMAIN hit' /\ j \notin DOMAIN wave'
    <3>1. CASE j \in new
      <4>1. node'[j].key \in pending'
        BY <1>4, <1>5, <3>1
      <4>2. DOMAIN hit \subseteq Ids /\ DOMAIN wave \subseteq Ids
        BY <1>1 DEF ExecutorTyped
      <4> QED
        BY <1>6, <1>8, <3>1, <4>1, <4>2
    <3>2. CASE j \in Unstarted /\ j \in Ids
      <4>1. node[j].key \in pending /\ j \notin DOMAIN hit /\ (j \in DOMAIN wave => ~Back(j))
        BY <3>2 DEF Invariant, PendingInv
      <4>2. j \notin DOMAIN wave
        BY <3>2, <4>1 DEF Invariant, PendingInv
      <4> QED
        BY <1>4, <1>5, <1>6, <3>2, <4>1, <4>2
    <3> QED
      BY <2>1, <3>1, <3>2
  <2> QED
    BY <1>6, <2>2 DEF Invariant, PendingInv, Back
<1>14. BudgetInv'
  <2>1. /\ Cardinality(Planned) + slots <= MaxDynamicTasks /\ slots \in Nat
        /\ MaxDynamicTasks \in Nat
    BY <1>1, TaskGraphExecutorAssumption DEF Invariant, BudgetInv, ExecutorTyped,
       TaskGraphExecutorAssumption
  <2>2. IsFiniteSet(Planned) /\ Cardinality(Planned) \in Nat
    BY PlannedKeysCount
  <2>3. IsFiniteSet(new) /\ Cardinality(new) = Len(specs)
    <3>1. new = (first + 1)..(first + Len(specs))
      <4>1. \A j \in (first + 1)..(first + Len(specs)) : j - first \in 1..Len(specs) /\ j = first + (j - first)
        BY <1>1, <1>3
      <4> QED
        BY <1>1, <1>3, <4>1
    <3> DEFINE a == first + 1
               b == first + Len(specs)
    <3>2. a \in Int /\ b \in Int /\ (IF a > b THEN 0 ELSE b - a + 1) = Len(specs)
      BY <1>1, <1>3
    <3> HIDE DEF new, a, b
    <3>3. IsFiniteSet(a..b) /\ Cardinality(a..b) = IF a > b THEN 0 ELSE b - a + 1
      BY <3>2, FS_Interval
    <3>4. new = a..b
      BY <3>1 DEF a, b
    <3> QED
      BY <3>2, <3>3, <3>4
  <2> HIDE DEF new
  <2>4. Cardinality(Planned \union new) <= Cardinality(Planned) + Len(specs)
    <3>1. /\ Cardinality(Planned \union new) =
               Cardinality(Planned) + Cardinality(new) - Cardinality(Planned \intersect new)
      BY <2>2, <2>3, FS_Union
    <3>2. Cardinality(Planned \intersect new) \in Nat
      BY <2>2, <2>3, FS_Intersection, FS_CardinalityType
    <3> QED
      BY <1>3, <2>2, <2>3, <3>1, <3>2
  <2>5. Cardinality(Planned \union new) \in Nat
    BY <2>2, <2>3, FS_Union, FS_CardinalityType
  <2>6. Cardinality(Planned') <= Max({MaxDynamicTasks, Len(plan.tasks)})
    BY <1>3, <1>9, <2>1, <2>2, <2>4, <2>5, BudgetRoom
  <2> QED
    BY <1>6, <2>6 DEF BudgetInv, PlannedWithinBudget
<1> QED
  BY <1>7, <1>10, <1>11, <1>12, <1>13, <1>14 DEF Invariant

-----------------------------------------------------------------------------
(* The initial states, the steps and the theorems.                           *)

\* The row of a task of the plan.
LEMMA PlanRow ==
  ASSUME NEW spec \in Task
  PROVE  /\ createTask(spec, "plan", 0, 0) \in NodeRow
         /\ createTask(spec, "plan", 0, 0).key = spec.key
         /\ createTask(spec, "plan", 0, 0).origin = "plan"
         /\ createTask(spec, "plan", 0, 0).status = "pending"
         /\ ~createTask(spec, "plan", 0, 0).deleted
         /\ createTask(spec, "plan", 0, 0).materialization = spec.materialization
  BY RowOf

\* The rows of the plan, and the keys that lead to them.
LEMMA InitRows ==
  ASSUME Init
  PROVE  /\ plan \in Plans /\ node \in Seq(NodeRow)
         /\ Len(node) = Len(plan.tasks) /\ Ids = DOMAIN plan.tasks
         /\ Len(node) \in Nat /\ Ids = 1..Len(node) /\ Len(node) <= MaxNodes
         /\ \A i \in Ids : /\ node[i].key = plan.tasks[i].key /\ node[i].origin = "plan"
                           /\ node[i].status = "pending" /\ ~node[i].deleted
                           /\ node[i].key \notin MalformedKeys
                           /\ node[i].materialization = plan.tasks[i].materialization
         /\ \A i, j \in Ids : node[i].key = node[j].key => i = j
         /\ tasksByKey \in [DOMAIN tasksByKey -> Ids] /\ DOMAIN tasksByKey = Keys
         /\ \A i \in Ids : tasksByKey[node[i].key] = i
         /\ pending = Keys
         /\ edge \subseteq Edges
         /\ \A e \in edge : plan.tasks[e.on].key \in plan.tasks[e.task].dependsOn
<1> DEFINE tasks == plan.tasks
           id(k) == CHOOSE i \in DOMAIN plan.tasks : plan.tasks[i].key = k
<1>1. /\ plan \in Plans
      /\ node = [i \in DOMAIN tasks |-> createTask(tasks[i], "plan", 0, 0)]
      /\ edge = UNION {{[task |-> i, on |-> id(k), type |-> tasks[i].dependencyType] :
                             k \in tasks[i].dependsOn} : i \in DOMAIN tasks}
      /\ tasksByKey = [k \in TaskKeys(tasks) |-> id(k)]
      /\ pending = TaskKeys(tasks)
  BY DEF Init
<1>2. /\ tasks \in Seq(PlanTask) /\ Len(tasks) <= MaxNodes
      /\ KeysDistinct(tasks) /\ TaskKeys(tasks) \intersect MalformedKeys = {}
      /\ DependenciesKnown(tasks, TaskKeys(tasks))
  BY <1>1, TaskGraphExecutorAssumption DEF TaskGraphExecutorAssumption
<1> HIDE DEF tasks
<1>3. /\ Len(tasks) \in Nat /\ DOMAIN tasks = 1..Len(tasks)
      /\ \A i \in DOMAIN tasks : tasks[i] \in PlanTask /\ tasks[i] \in Task
  BY <1>2, PlanTasks
<1>4. \A k \in TaskKeys(tasks) : id(k) \in DOMAIN tasks /\ tasks[id(k)].key = k
  BY DEF TaskKeys, tasks
<1>5. \A i \in DOMAIN tasks : id(tasks[i].key) = i
  <2> SUFFICES ASSUME NEW i \in DOMAIN tasks PROVE id(tasks[i].key) = i
    OBVIOUS
  <2>1. tasks[i].key \in TaskKeys(tasks)
    BY DEF TaskKeys
  <2>2. id(tasks[i].key) \in DOMAIN tasks /\ tasks[id(tasks[i].key)].key = tasks[i].key
    BY <1>4, <2>1
  <2> HIDE DEF id
  <2> QED
    BY <1>2, <2>2 DEF KeysDistinct
<1> HIDE DEF id
<1>6. ASSUME NEW i \in DOMAIN tasks
      PROVE  /\ node[i] \in NodeRow /\ node[i].key = tasks[i].key /\ node[i].origin = "plan"
             /\ node[i].status = "pending" /\ ~node[i].deleted
             /\ node[i].materialization = tasks[i].materialization
  <2> DEFINE spec == tasks[i]
             row == node[i]
  <2>1. row = createTask(spec, "plan", 0, 0) /\ spec \in Task
    BY <1>1, <1>3
  <2> HIDE DEF spec, row
  <2>2. /\ row \in NodeRow /\ row.key = spec.key /\ row.origin = "plan"
        /\ row.status = "pending" /\ ~row.deleted
        /\ row.materialization = spec.materialization
    BY <2>1, PlanRow
  <2> QED
    BY <2>2 DEF spec, row
<1>7. node \in Seq(NodeRow) /\ Len(node) = Len(tasks) /\ Ids = DOMAIN tasks
  <2>1. DOMAIN node = 1..Len(tasks) /\ node = [i \in 1..Len(tasks) |-> node[i]]
    BY <1>1, <1>3
  <2>2. node \in [1..Len(tasks) -> NodeRow]
    BY <1>3, <1>6, <2>1
  <2> QED
    BY <1>3, <2>1, <2>2 DEF Ids
<1>8. \A i \in Ids : node[i].key \in TaskKeys(tasks) /\ node[i].key \notin MalformedKeys
  BY <1>2, <1>6, <1>7 DEF TaskKeys
<1>9. Keys = TaskKeys(tasks)
  BY <1>6, <1>7 DEF Keys, TaskKeys
<1>10. \A i, j \in Ids : node[i].key = node[j].key => i = j
  BY <1>2, <1>6, <1>7 DEF KeysDistinct
<1>11. tasksByKey \in [DOMAIN tasksByKey -> Ids] /\ DOMAIN tasksByKey = Keys
  BY <1>1, <1>4, <1>7, <1>9
<1>12. \A i \in Ids : tasksByKey[node[i].key] = i
  BY <1>1, <1>5, <1>6, <1>7, <1>8
<1>13. edge \subseteq Edges /\ \A e \in edge : tasks[e.on].key \in tasks[e.task].dependsOn
  <2> SUFFICES ASSUME NEW e \in edge PROVE e \in Edges /\ tasks[e.on].key \in tasks[e.task].dependsOn
    OBVIOUS
  <2> DEFINE of(i) == {[task |-> i, on |-> id(k), type |-> tasks[i].dependencyType] : k \in tasks[i].dependsOn}
  <2>1. edge = UNION {of(i) : i \in DOMAIN tasks}
    BY <1>1
  <2> HIDE DEF of
  <2>2. PICK i \in DOMAIN tasks : e \in of(i)
    BY <2>1
  <2>3. PICK k \in tasks[i].dependsOn : e = [task |-> i, on |-> id(k), type |-> tasks[i].dependencyType]
    BY <2>2 DEF of
  <2>4. k \in TaskKeys(tasks)
    BY <1>2, <2>3 DEF DependenciesKnown
  <2>5. tasks[i].dependencyType \in {"success", "finished"}
    BY <1>3, <2>3 DEF Task
  <2>6. i \in Ids /\ id(k) \in Ids
    BY <1>4, <1>7, <2>3, <2>4
  <2>7. tasks[id(k)].key = k
    BY <1>4, <2>4 DEF id
  <2> QED
    BY <2>3, <2>5, <2>6, <2>7 DEF Edges
<1> QED
  BY <1>1, <1>2, <1>3, <1>6, <1>7, <1>8, <1>9, <1>10, <1>11, <1>12, <1>13 DEF tasks

\* The initial states satisfy the invariant.
LEMMA InitInvariant == Init => Invariant
<1> SUFFICES ASSUME Init PROVE Invariant
  OBVIOUS
<1>1. /\ releasing = {} /\ edit = <<>> /\ cut = {} /\ torn = {} /\ touched = {}
      /\ pc = "top" /\ recorded = <<>> /\ wave = <<>>
      /\ todo = {} /\ doomed = 0 /\ hit = <<>> /\ cur = 0 /\ slots = 0 /\ limit = MaxParallelTasks
  BY DEF Init
<1>2. /\ plan \in Plans /\ node \in Seq(NodeRow) /\ Len(node) = Len(plan.tasks)
      /\ Len(node) \in Nat /\ Ids = 1..Len(node) /\ Len(node) <= MaxNodes
      /\ \A i \in Ids : /\ node[i].origin = "plan" /\ node[i].status = "pending" /\ ~node[i].deleted
                        /\ node[i].key \notin MalformedKeys
      /\ \A i, j \in Ids : node[i].key = node[j].key => i = j
      /\ tasksByKey \in [DOMAIN tasksByKey -> Ids] /\ DOMAIN tasksByKey = Keys
      /\ \A i \in Ids : tasksByKey[node[i].key] = i
      /\ pending = Keys
      /\ edge \subseteq Edges
  BY InitRows
<1>3. DOMAIN recorded = {} /\ DOMAIN wave = {} /\ DOMAIN hit = {}
  BY <1>1
<1>4. MaxParallelTasks \in Nat \ {0}
  BY TaskGraphExecutorAssumption DEF TaskGraphExecutorAssumption
<1>5. StoreTyped
  BY <1>1, <1>2 DEF StoreTyped
<1>6. EditInv
  BY <1>1, EmptySeq DEF EditInv
<1>7. ExecutorTyped
  BY <1>1, <1>2, <1>3, <1>4 DEF ExecutorTyped, PCs
<1>8. DependenciesInv
  BY <1>2 DEF DependenciesInv, Edges, Started
<1>9. Planned = Ids
  BY <1>2 DEF Planned
<1>10. KeysInv
  <2> SUFFICES ASSUME NEW i \in Ids
               PROVE  /\ node[i].key \in DOMAIN tasksByKey \ MalformedKeys
                      /\ \A j \in Ids : node[j].key = node[i].key => i = j
                      /\ tasksByKey[node[i].key] = i
                      /\ \A j \in Ids : node[j].key = node[i].key => j <= i
    BY <1>9 DEF KeysInv
  <2>1. node[i].key \in Keys
    BY DEF Keys
  <2>2. i \in Nat
    BY <1>2
  <2> QED
    BY <1>2, <2>1, <2>2
<1>11. PendingInv
  <2>1. \A i \in Ids : node[i].key \in Keys
    BY DEF Keys
  <2> QED
    BY <1>1, <1>2, <1>3, <1>9, <2>1 DEF PendingInv, Unstarted
<1>12. BudgetInv
  <2>1. Cardinality(Planned) = Len(plan.tasks)
    <3>1. Planned = 1..Len(node) /\ Len(node) \in Nat /\ Len(node) = Len(plan.tasks)
      BY <1>2, <1>9
    <3>2. Cardinality(1..Len(node)) = Len(node)
      BY <3>1, FS_Interval
    <3> QED
      BY <3>1, <3>2
  <2>2. Len(plan.tasks) \in Nat /\ MaxDynamicTasks \in Nat
    BY <1>2, TaskGraphExecutorAssumption DEF TaskGraphExecutorAssumption
  <2> DEFINE n == Len(plan.tasks)
  <2>3. Max({MaxDynamicTasks, n}) = IF MaxDynamicTasks >= n THEN MaxDynamicTasks ELSE n
    BY <2>2, MaxOfTwo
  <2> HIDE DEF n
  <2>4. n <= Max({MaxDynamicTasks, n})
    BY <2>2, <2>3 DEF n
  <2>5. PlannedWithinBudget
    BY <2>1, <2>4 DEF PlannedWithinBudget, n
  <2> QED
    BY <1>1, <2>5 DEF BudgetInv
<1> QED
  BY <1>5, <1>6, <1>7, <1>8, <1>10, <1>11, <1>12 DEF Invariant, Tables

\* Every step of the executor keeps the invariant.
LEMMA ExecutorSteps == ASSUME Invariant, ExecutorNext PROVE Invariant'
<1>1. edit = <<>>
  BY ExecutorIdle
<1>2. CASE Sync
  BY <1>2, SyncKept
<1>3. CASE LookForUnreachable \/ LookForRemaining \/ BlockTask \/ ReadBlocked
  BY <1>3, LookKept, BlockKept, ReadKept
<1>4. CASE ChooseWave
  BY <1>4, ChooseKept
<1>5. CASE WaveNext
  BY <1>5, LaunchKept, ResolveKept, TimeoutKept DEF WaveNext
<1>6. CASE AllBack
  BY <1>6, AllBackKept
<1>7. CASE Collect
  BY <1>7, CollectKept
<1>8. CASE Collected
  BY <1>8, CollectedKept
<1>9. CASE PlannerNext
  <2>1. pc = "planning"
    BY <1>9 DEF PlannerNext, Replan, Expand, PlannerUseless, PlannerStops, PlannerAsks
  <2>2. slots # 0 /\ Tables /\ ExecutorTyped
    BY <2>1 DEF Invariant, BudgetInv
  <2>3. \/ Grows
        \/ UNCHANGED <<node, edge, tasksByKey, pending, expanded>> /\ Resume
        \/ PlannerAsks
    BY <1>9, <2>2, PlannerSteps, TaskGraphExecutorAssumption
  <2> QED
    BY <1>1, <2>1, <2>3, GrowthKept, UselessKept, AsksKept
<1>10. CASE RemainingBlocked
  BY <1>10, RemainingKept
<1>11. CASE Return
  BY <1>11, ReturnKept
<1> QED
  BY <1>2, <1>3, <1>4, <1>5, <1>6, <1>7, <1>8, <1>9, <1>10, <1>11 DEF ExecutorNext

\* Every step keeps it.
LEMMA InvariantSteps == Invariant /\ [Next]_vars => Invariant'
<1> SUFFICES ASSUME Invariant, [Next]_vars PROVE Invariant'
  OBVIOUS
<1>1. CASE Next
  BY <1>1, BesideSteps, ExecutorSteps DEF Next, MainNext
<1>2. CASE UNCHANGED vars
  <2>1. UNCHANGED storeVars /\ UNCHANGED exVars
    BY <1>2 DEF vars
  <2> QED
    BY <2>1, QuietSteps, MovesBeside
<1> QED
  BY <1>1, <1>2

\* The invariant holds in every reachable state.
THEOREM GraphInvariant == Spec => []Invariant
  BY InitInvariant, InvariantSteps, PTL DEF Spec

\* The rows, the dependencies, the edit in progress and what execute() remembers of them (keys,
\* pending keys, the wave, its limit) are always of their types.
THEOREM GraphTypes == Spec => []TypeOK
<1>1. Invariant => TypeOK
  <2> SUFFICES ASSUME Invariant PROVE TypeOK
    OBVIOUS
  <2>1. \A i \in Ids : node[i].status \in Statuses /\ node[i].origin \in {"plan", "patch", "manual"}
    BY RowIds, RowFields DEF Invariant, Tables, StoreTyped
  <2>2. \A k \in DOMAIN tasksByKey : tasksByKey[k] \in Ids
    BY DEF Invariant, ExecutorTyped
  <2> QED
    BY <2>1, <2>2 DEF TypeOK, Invariant, Tables, StoreTyped, ExecutorTyped, PCs, Edges
<1> QED
  BY <1>1, GraphInvariant, PTL

\* A task is given to a worker only after every task it waits for with success is done, and these
\* stay done (dependenciesSatisfied in enqueueTask), whatever edits, timeouts and new tasks
\* come between; only a task whose dependencies an edit tore apart while it ran is exempt.
THEOREM DependenciesFirst == Spec => []StartedAfterDependencies
<1>1. Invariant => StartedAfterDependencies
  BY DEF Invariant, DependenciesInv, StartedAfterDependencies, Started
<1> QED
  BY <1>1, GraphInvariant, PTL

\* tasksByKey leads from the key of every task of the plan or of a patch to that task, and to no
\* other, until the user deletes it (createDynamicTasks, syncExternalGraphNodes), whatever keys
\* the user gives to nodes meanwhile.
THEOREM PlannedHeld == Spec => []PlannedKeysHeld
<1>1. Invariant => PlannedKeysHeld
  BY DEF Invariant, KeysInv, PlannedKeysHeld
<1> QED
  BY <1>1, GraphInvariant, PTL

\* Replans and expansions together never grow the graph beyond maxDynamicTasks, or the size of
\* the plan if that is more (availableSlots).
THEOREM GraphWithinBudget == Spec => []PlannedWithinBudget
<1>1. Invariant => PlannedWithinBudget
  BY DEF Invariant, BudgetInv
<1> QED
  BY <1>1, GraphInvariant, PTL

\* When execute() returns, no task of the plan or of a patch is left pending, except one an edit
\* reopened (blockRemaining).
THEOREM NothingLeftPending == Spec => []NoPendingLeft
<1>1. Invariant => NoPendingLeft
  BY DEF Invariant, PendingInv, Unstarted, NoPendingLeft
<1> QED
  BY <1>1, GraphInvariant, PTL

-----------------------------------------------------------------------------
(* Cycles: what is invariant.                                                *)

\* Visible rows each of which waits for another of them.
Loop(rows, seen, edges, T) ==
  /\ T \in SUBSET seen /\ T # {}
  /\ \A i \in T : ~rows[i].materialization /\ \E e \in edges : e.task = i /\ e.on \in T

\* The edges when an insertion is made.
EdgesWith(edges, op) ==
  edges \union {[task |-> CHOOSE j \in op.ids : TRUE, on |-> k, type |-> op.type] : k \in op.on}

\* DependenciesAcyclic, also with the edges an edit is about to insert; it rests on the visible
\* rows having keys of their own, and on knowing where keys come from.
AcyclicInv ==
  /\ \A i, j \in Visible : node[i].key = node[j].key => i = j
  /\ \A i \in Ids : node[i].key \in DOMAIN tasksByKey \union NewKeys
  /\ \A T \in SUBSET Visible : ~Loop(node, Visible, edge, T)
  /\ edit # <<>> /\ edit[1].op = "insert" =>
       \A T \in SUBSET Visible : ~Loop(node, Visible, EdgesWith(edge, edit[1]), T)

\* So the dependencies between visible rows are acyclic.
LEMMA NoLoopAcyclic ==
  ASSUME StoreTyped, AcyclicInv
  PROVE  DependenciesAcyclic
<1> DEFINE hard == {e \in edge : ~node[e.task].materialization}
           F == [i \in Visible |-> {e.on : e \in {f \in hard : f.task = i}}]
<1>1. IsFiniteSet(Visible)
  <2>1. Visible \subseteq 1..Len(node) /\ Len(node) \in Nat
    BY RowIds DEF StoreTyped, Visible
  <2>2. IsFiniteSet(1..Len(node))
    BY <2>1, FS_Interval
  <2> QED
    BY <2>1, <2>2, FS_Subset
<1>2. ASSUME NEW T, Circle(Visible, F, T)
      PROVE  Loop(node, Visible, edge, T)
  <2>1. T \in SUBSET Visible /\ T # {} /\ \A i \in T : F[i] \intersect T # {}
    BY <1>2 DEF Circle
  <2>2. ASSUME NEW i \in T
        PROVE  ~node[i].materialization /\ \E e \in edge : e.task = i /\ e.on \in T
    <3>1. PICK j \in T : j \in F[i]
      BY <2>1
    <3>2. F[i] = {e.on : e \in {f \in hard : f.task = i}}
      BY <2>1
    <3>3. PICK e \in hard : e.task = i /\ j = e.on
      BY <3>1, <3>2
    <3> QED
      BY <3>1, <3>3
  <2> QED
    BY <2>1, <2>2 DEF Loop
<1>3. \A T : ~Circle(Visible, F, T)
  <2> SUFFICES ASSUME NEW T, Circle(Visible, F, T) PROVE FALSE
    OBVIOUS
  <2>1. Loop(node, Visible, edge, T) /\ T \in SUBSET Visible
    BY <1>2 DEF Loop
  <2> QED
    BY <2>1 DEF AcyclicInv
<1>4. DependenciesAcyclic <=> ~HasCycle(Visible, F)
  BY DEF DependenciesAcyclic
<1> HIDE DEF F
<1> QED
  BY <1>1, <1>3, <1>4, CycleIsCircle

\* A loop stays one where there are more rows and edges.
LEMMA LoopThere ==
  ASSUME NEW rows, NEW seen, NEW edges, NEW rows2, NEW seen2, NEW edges2, NEW T,
         Loop(rows2, seen2, edges2, T), T \subseteq seen,
         \A i \in T : ~rows2[i].materialization => ~rows[i].materialization,
         \A e \in edges2 : e.task \in T /\ e.on \in T =>
           \E f \in edges : f.task = e.task /\ f.on = e.on
  PROVE  Loop(rows, seen, edges, T)
<1>1. ASSUME NEW i \in T
      PROVE  ~rows[i].materialization /\ \E f \in edges : f.task = i /\ f.on \in T
  <2>1. ~rows2[i].materialization /\ \E e \in edges2 : e.task = i /\ e.on \in T
    BY DEF Loop
  <2>2. PICK e \in edges2 : e.task = i /\ e.on \in T
    BY <2>1
  <2>3. PICK f \in edges : f.task = e.task /\ f.on = e.on
    BY <2>2
  <2> QED
    BY <2>1, <2>2, <2>3
<1> QED
  BY <1>1 DEF Loop

\* An edit that has cut nothing inserts nothing next.
LEMMA NoInsertion ==
  ASSUME EditInv, cut = {}
  PROVE  ~(edit # <<>> /\ edit[1].op = "insert")
<1> SUFFICES ASSUME edit # <<>>, edit[1].op = "insert" PROVE FALSE
  OBVIOUS
<1>1. 1 \in DOMAIN edit
  BY EmptySeq DEF EditInv
<1>2. OperationOK(edit[1], Ids, VisibleKeys) /\ edit[1].ids = {}
  BY <1>1 DEF EditInv
<1> QED
  BY <1>2 DEF OperationOK

\* Steps that keep the rows, and the edges or fewer, keep the invariant.
LEMMA AcyclicKept ==
  ASSUME AcyclicInv, RowsKept, edge' \subseteq edge, DOMAIN tasksByKey \subseteq DOMAIN tasksByKey',
         \/ UNCHANGED <<edge, edit>>
         \/ ~(edit' # <<>> /\ edit'[1].op = "insert")
  PROVE  AcyclicInv'
<1>1. /\ Ids' = Ids
      /\ \A i \in Ids : /\ node'[i].key = node[i].key /\ node'[i].deleted = node[i].deleted
                        /\ node'[i].materialization = node[i].materialization
  BY DEF RowsKept, SameRow
<1>2. Visible' = Visible /\ Visible \subseteq Ids
  BY <1>1 DEF Visible
<1>3. \A i, j \in Visible' : node'[i].key = node'[j].key => i = j
  BY <1>1, <1>2 DEF AcyclicInv
<1>4. \A i \in Ids' : node'[i].key \in DOMAIN tasksByKey' \union NewKeys
  BY <1>1 DEF AcyclicInv
<1>5. ASSUME NEW T \in SUBSET Visible, NEW edges, NEW edges2, edges2 \subseteq edges,
             Loop(node', Visible, edges2, T)
      PROVE  Loop(node, Visible, edges, T)
  <2>1. \A i \in T : ~node'[i].materialization => ~node[i].materialization
    BY <1>1, <1>2
  <2> QED
    BY <1>5, <2>1, LoopThere
<1>6. \A T \in SUBSET Visible' : ~Loop(node', Visible', edge', T)
  BY <1>2, <1>5 DEF AcyclicInv
<1>7. edit' # <<>> /\ edit'[1].op = "insert" =>
        \A T \in SUBSET Visible' : ~Loop(node', Visible', EdgesWith(edge', edit'[1]), T)
  <2> SUFFICES ASSUME edit' # <<>>, edit'[1].op = "insert", UNCHANGED <<edge, edit>>,
                      NEW T \in SUBSET Visible, Loop(node', Visible, EdgesWith(edge', edit'[1]), T)
               PROVE  FALSE
    BY <1>2
  <2>1. EdgesWith(edge', edit'[1]) = EdgesWith(edge, edit[1])
    OBVIOUS
  <2>2. Loop(node, Visible, EdgesWith(edge, edit[1]), T)
    BY <1>5, <2>1
  <2> QED
    BY <2>2 DEF AcyclicInv
<1> QED
  BY <1>3, <1>4, <1>6, <1>7 DEF AcyclicInv

-----------------------------------------------------------------------------
(* Cycles: the steps of workers and edits.                                   *)

\* The rows in the steps of a worker.
LEMMA WorkerRows == ASSUME Tables, WorkerNext PROVE RowsKept /\ UNCHANGED <<edge, edit>>
<1>1. node \in Seq(NodeRow) /\ {"queued", "running", "done", "dead_letter"} \subseteq Statuses
  BY DEF Tables, StoreTyped, Statuses
<1>2. ASSUME NEW i, NEW s \in Statuses, node' = SetStatus({i}, s)
      PROVE  RowsKept
  BY <1>1, <1>2, StatusRows
<1>3. ASSUME NEW i \in Ids, Claim(i) PROVE RowsKept /\ UNCHANGED <<edge, edit>>
  BY <1>1, <1>2, <1>3 DEF Claim
<1>4. ASSUME NEW i \in Ids, NEW s \in {"done", "dead_letter"}, Finish(i, s)
      PROVE  RowsKept /\ UNCHANGED <<edge, edit>>
  BY <1>1, <1>2, <1>4 DEF Finish
<1>5. ASSUME NEW p \in releasing, ReleaseOne(p) PROVE RowsKept /\ UNCHANGED <<edge, edit>>
  <2> DEFINE i == p[2]
  <2>1. UNCHANGED <<edge, edit>> /\ (node' = node \/ node' = SetStatus({i}, "queued"))
    BY <1>5 DEF ReleaseOne
  <2> HIDE DEF i
  <2>2. node' = node => RowsKept
    BY <1>1 DEF RowsKept, SameRow, Ids
  <2> QED
    BY <1>1, <1>2, <2>1, <2>2
<1> QED
  BY <1>3, <1>4, <1>5 DEF WorkerNext

\* A new node of the user is waited for by none.
LEMMA NodeAcyclic ==
  ASSUME AcyclicInv, StoreTyped, NEW key \in NewKeys, NodeAdded(key), tasksByKey' = tasksByKey,
         ~(edit' # <<>> /\ edit'[1].op = "insert")
  PROVE  AcyclicInv'
<1>1. /\ Ids' = Ids \union {NewId} /\ NewId \notin Ids
      /\ \A i \in Ids : node'[i] = node[i]
      /\ node'[NewId].key = key /\ ~node'[NewId].deleted /\ key \notin VisibleKeys
      /\ \A e \in edge' \ edge : e.task = NewId /\ e.on \in Ids
      /\ \A e \in edge : e.task \in Ids /\ e.on \in Ids
  BY DEF NodeAdded, StoreTyped, Edges
<1>2. Visible' = Visible \union {NewId} /\ Visible \subseteq Ids
  BY <1>1 DEF Visible
<1>3. \A i \in Visible : node[i].key # key
  BY <1>1 DEF VisibleKeys
<1>4. \A i, j \in Visible' : node'[i].key = node'[j].key => i = j
  <2>1. \A i \in Visible : node'[i] = node[i]
    BY <1>1, <1>2
  <2> QED
    BY <1>1, <1>2, <1>3, <2>1 DEF AcyclicInv
<1>5. \A i \in Ids' : node'[i].key \in DOMAIN tasksByKey' \union NewKeys
  BY <1>1 DEF AcyclicInv
<1>6. ASSUME NEW T \in SUBSET Visible', Loop(node', Visible', edge', T)
      PROVE  FALSE
  <2> DEFINE old == T \intersect Visible
  <2>1. T # {} /\ \A i \in T : ~node'[i].materialization /\ \E e \in edge' : e.task = i /\ e.on \in T
    BY <1>6 DEF Loop
  <2>2. \A e \in edge' : e.on \in Ids
    BY <1>1
  <2>3. ASSUME NEW i \in T PROVE \E e \in edge' : e.task = i /\ e.on \in old
    <3>1. PICK e \in edge' : e.task = i /\ e.on \in T
      BY <2>1
    <3>2. e.on \in old
      BY <1>1, <1>2, <2>2, <3>1
    <3> QED
      BY <3>1, <3>2
  <2>4. old # {}
    BY <2>1, <2>3
  <2>5. ASSUME NEW i \in old
        PROVE  ~node[i].materialization /\ \E e \in edge : e.task = i /\ e.on \in old
    <3>1. PICK e \in edge' : e.task = i /\ e.on \in old
      BY <2>3
    <3>2. i \in Ids /\ e \in edge
      BY <1>1, <1>2, <3>1
    <3> QED
      BY <1>1, <2>1, <3>1, <3>2
  <2> HIDE DEF old
  <2>6. old \in SUBSET Visible
    BY DEF old
  <2>7. Loop(node, Visible, edge, old)
    BY <2>4, <2>5, <2>6 DEF Loop
  <2> QED
    BY <2>6, <2>7 DEF AcyclicInv
<1> QED
  BY <1>4, <1>5, <1>6 DEF AcyclicInv

\* The edits of a user at their beginning.
LEMMA EditAcyclic ==
  ASSUME TaskGraphExecutorAssumption, Tables, AcyclicInv, EditNext, tasksByKey' = tasksByKey
  PROVE  AcyclicInv'
<1>1. edit = <<>> /\ cut' = cut
  BY DEF EditNext, addTaskMindMapNode, addTaskMindMapNodeBefore, addTaskMindMapNodeAfter,
         updateTaskMindMapNode, deleteTaskMindMapNode, MayEdit
<1>2. EditInv' /\ cut' = {} /\ node \in Seq(NodeRow) /\ StoreTyped
  BY <1>1, EditTables, NoCut DEF Tables, StoreTyped
<1>3. ~(edit' # <<>> /\ edit'[1].op = "insert")
  <2>1. (EditInv /\ cut = {} => ~(edit # <<>> /\ edit[1].op = "insert"))'
    BY NoInsertion, PTL
  <2> QED
    BY <1>2, <2>1
<1>4. CASE UNCHANGED <<node, edge>>
  <2>1. RowsKept
    BY <1>2, <1>4 DEF RowsKept, SameRow, Ids
  <2> QED
    BY <1>3, <1>4, <2>1, AcyclicKept
<1>5. CASE \E key \in NewKeys : NodeAdded(key)
  BY <1>2, <1>3, <1>5, NodeAcyclic
<1> QED
  BY <1>4, <1>5, EditMoves

\* assertNoDependencyCycle: when it finds none, the row may be made to wait for the rows with
\* these keys. The keys of a loop through the row would lead from the row's key to itself.
LEMMA RewireLoop ==
  ASSUME StoreTyped, AcyclicInv, NEW i \in Ids, NEW next \in SUBSET VisibleKeys,
         ~DependencyCycle(node[i].key, next), NEW edges,
         \A e \in edges : \/ e \in edge /\ e.task # i
                          \/ e.task = i /\ \E k \in next : e.on = resolveNode(k),
         NEW T \in SUBSET Visible
  PROVE  ~Loop(node, Visible, edges, T)
<1> SUFFICES ASSUME Loop(node, Visible, edges, T) PROVE FALSE
  OBVIOUS
<1>1. /\ T # {}
      /\ \A j \in T : ~node[j].materialization /\ \E e \in edges : e.task = j /\ e.on \in T
  BY DEF Loop
<1>2. node \in Seq(NodeRow) /\ Visible \subseteq Ids /\ Ids \subseteq Nat
  BY KeyStrings DEF StoreTyped
<1>3. i \in T
  <2> SUFFICES ASSUME i \notin T PROVE FALSE
    OBVIOUS
  <2>1. \A e \in edges : e.task \in T /\ e.on \in T => \E f \in edge : f.task = e.task /\ f.on = e.on
    OBVIOUS
  <2>2. Loop(node, Visible, edge, T)
    BY <2>1, LoopThere
  <2> QED
    BY <2>2 DEF AcyclicInv
<1> DEFINE target == node[i].key
           keys == {node[j].key : j \in Visible} \union {target}
           P == [k \in keys |->
                   IF k = target THEN next ELSE FromKeys(Max({j \in Visible : node[j].key = k}))]
           R == ReachedFrom(target, keys, P)
<1>4. ~HasCycle(R, P)
  BY DEF DependencyCycle
<1>5. keys = VisibleKeys /\ target \in keys
  BY <1>3 DEF VisibleKeys
<1>6. IsFiniteSet(keys)
  <2>1. VisibleKeys \subseteq Keys
    BY <1>2 DEF VisibleKeys, Keys
  <2> HIDE DEF keys
  <2> QED
    BY <1>2, <1>5, <2>1, KeysFinite
<1>7. P[target] = next
  BY <1>5
<1>8. ASSUME NEW j \in Visible, j # i
      PROVE  node[j].key \in keys /\ P[node[j].key] = FromKeys(j)
  <2> DEFINE S == {h \in Visible : node[h].key = node[j].key}
  <2>1. S = {j}
    BY DEF AcyclicInv
  <2>2. Max(S) = j
    <3>1. {j} \in SUBSET Nat /\ {j} # {} /\ IsFiniteSet({j})
      BY <1>2, FS_Singleton
    <3>2. Max({j}) \in {j}
      BY <1>2, <3>1, MaxOfTwo
    <3> QED
      BY <2>1, <3>2
  <2>3. node[j].key # target
    <3>1. i \in Visible /\ node[i].key = target
      BY <1>3
    <3> HIDE DEF target
    <3> QED
      BY <1>8, <3>1 DEF AcyclicInv
  <2>4. node[j].key \in keys /\ P[node[j].key] = FromKeys(Max(S))
    BY <2>3
  <2> QED
    BY <2>2, <2>4
<1> HIDE DEF keys, P
<1>9. /\ target \in R /\ R \subseteq keys
      /\ \A k \in R : P[k] \intersect keys \subseteq R
  BY <1>5, <1>6, ReachedClosed
<1> HIDE DEF R
<1> DEFINE K == {node[j].key : j \in T} \intersect R
<1>10. ASSUME NEW k \in K
       PROVE  P[k] \intersect K # {}
  <2>1. PICK j \in T : node[j].key = k
    OBVIOUS
  <2>2. PICK e \in edges : e.task = j /\ e.on \in T
    BY <1>1
  <2>3. node[e.on].key \in keys
    BY <1>5, <2>2 DEF VisibleKeys
  <2>4. node[e.on].key \in P[k]
    <3>1. CASE j = i
      <4>1. PICK h \in next : e.on = resolveNode(h)
        BY <2>2, <3>1
      <4>2. node[e.on].key = h
        BY <1>2, <4>1, Resolves
      <4> QED
        BY <1>7, <2>1, <3>1, <4>2
    <3>2. CASE j # i
      <4>1. e \in edge /\ e.task = j /\ e.on \in Visible
        BY <2>2, <3>2
      <4>2. node[e.on].key \in FromKeys(j)
        BY <4>1 DEF FromKeys, Dependencies
      <4>3. P[k] = FromKeys(j)
        BY <1>8, <2>1, <3>2
      <4> QED
        BY <4>2, <4>3
    <3> QED
      BY <3>1, <3>2
  <2>5. node[e.on].key \in R
    BY <1>9, <2>3, <2>4
  <2> QED
    BY <2>2, <2>4, <2>5
<1>11. K # {} /\ K \in SUBSET R
  BY <1>3, <1>9
<1>12. Circle(R, P, K)
  <2> HIDE DEF K
  <2> QED
    BY <1>10, <1>11 DEF Circle
<1>13. IsFiniteSet(R)
  BY <1>6, <1>9, FS_Subset
<1> QED
  BY <1>4, <1>12, <1>13, CycleIsCircle

\* The first half of a rewiring deletes edges, and promises what the check has allowed.
LEMMA DeleteAcyclic ==
  ASSUME Tables, AcyclicInv, RewireDelete, tasksByKey' = tasksByKey
  PROVE  AcyclicInv'
<1> DEFINE step == Head(edit)
           i == CHOOSE j \in step.ids : TRUE
           op == Insertion(i, {resolveNode(k) : k \in step.next}, step.type)
<1>1. node \in Seq(NodeRow) /\ edit # <<>> /\ StoreTyped /\ "pending" \in Statuses
  BY DEF Tables, StoreTyped, RewireDelete, Statuses
<1>2. i \in Ids /\ step.next \subseteq VisibleKeys
  BY <1>1, HeadOp DEF RewireDelete, Tables
<1>3. node' = node => RowsKept
  BY <1>1 DEF RowsKept, SameRow, Ids
<1>4. node' = SetStatus({i}, "pending") => RowsKept
  <2> HIDE DEF i
  <2> QED
    BY <1>1, StatusRows
<1>5. CASE edit' = <<>> /\ edge' = edge /\ (node' = node \/ node' = SetStatus({i}, "pending"))
  <2> HIDE DEF i
  <2> QED
    BY <1>3, <1>4, <1>5, AcyclicKept
<1>6. CASE /\ node' = SetStatus({i}, "pending")
           /\ ~DependencyCycle(node[i].key, step.next)
           /\ edge' = edge \ Dependencies(i)
           /\ edit' = <<op>> \o Tail(edit)
  <2>1. Tail(edit) \in Seq(Ops)
    BY <1>1, HeadOp DEF Tables
  <2>2. op.ids = {i} /\ op.on = {resolveNode(k) : k \in step.next}
    BY DEF Insertion, Operation
  <2>3. edit'[1] = op
    <3> DEFINE rest == Tail(edit)
               first == op
    <3>1. edit' = <<first>> \o rest /\ rest \in Seq(Ops)
      BY <1>6, <2>1
    <3> HIDE DEF first, rest
    <3>2. edit'[1] = first
      BY <3>1
    <3> QED
      BY <3>2 DEF first
  <2> HIDE DEF i, op
  <2>4. /\ Ids' = Ids
        /\ \A j \in Ids : /\ node'[j].key = node[j].key /\ node'[j].deleted = node[j].deleted
                          /\ node'[j].materialization = node[j].materialization
    BY <1>4, <1>6 DEF RowsKept, SameRow
  <2>5. Visible' = Visible /\ Visible \subseteq Ids
    BY <2>4 DEF Visible
  <2>6. \A e \in edge' : e \in edge /\ e.task # i
    BY <1>6 DEF Dependencies
  <2>7. \A e \in EdgesWith(edge', op) :
          \/ e \in edge /\ e.task # i
          \/ e.task = i /\ \E k \in step.next : e.on = resolveNode(k)
    <3> SUFFICES ASSUME NEW e \in EdgesWith(edge', op), e \notin edge'
                 PROVE  e.task = i /\ \E k \in step.next : e.on = resolveNode(k)
      BY <2>6
    <3>1. e \in {[task |-> CHOOSE j \in op.ids : TRUE, on |-> k, type |-> op.type] : k \in op.on}
      BY DEF EdgesWith
    <3>2. (CHOOSE j \in {i} : TRUE) = i
      OBVIOUS
    <3> QED
      BY <2>2, <3>1, <3>2
  <2>8. ASSUME NEW edges, \A e \in edges : \/ e \in edge /\ e.task # i
                                           \/ e.task = i /\ \E k \in step.next : e.on = resolveNode(k),
               NEW T \in SUBSET Visible, Loop(node', Visible, edges, T)
        PROVE  FALSE
    <3>1. \A j \in T : ~node'[j].materialization => ~node[j].materialization
      BY <2>4, <2>5
    <3>2. Loop(node, Visible, edges, T)
      BY <2>8, <3>1, LoopThere
    <3> DEFINE next == step.next
    <3>3. next \in SUBSET VisibleKeys /\ ~DependencyCycle(node[i].key, next)
      BY <1>2, <1>6
    <3>4. \A e \in edges : \/ e \in edge /\ e.task # i
                           \/ e.task = i /\ \E k \in next : e.on = resolveNode(k)
      BY <2>8
    <3> HIDE DEF next
    <3> QED
      BY <1>1, <1>2, <3>2, <3>3, <3>4, RewireLoop
  <2>9. \A j, k \in Visible' : node'[j].key = node'[k].key => j = k
    BY <2>4, <2>5 DEF AcyclicInv
  <2>10. \A j \in Ids' : node'[j].key \in DOMAIN tasksByKey' \union NewKeys
    BY <2>4 DEF AcyclicInv
  <2>11. \A T \in SUBSET Visible' : ~Loop(node', Visible', edge', T)
    BY <2>5, <2>6, <2>8
  <2>12. \A T \in SUBSET Visible' : ~Loop(node', Visible', EdgesWith(edge', op), T)
    BY <2>5, <2>7, <2>8
  <2>13. EdgesWith(edge', op) = EdgesWith(edge', edit'[1])
    BY <2>3
  <2> QED
    BY <2>9, <2>10, <2>11, <2>12, <2>13 DEF AcyclicInv
<1> QED
  BY <1>5, <1>6 DEF RewireDelete

\* The second half keeps the promise.
LEMMA InsertAcyclic ==
  ASSUME Tables, AcyclicInv, RewireInsert, tasksByKey' = tasksByKey
  PROVE  AcyclicInv'
<1> DEFINE step == Head(edit)
           i == CHOOSE j \in step.ids : TRUE
<1>1. /\ edit # <<>> /\ step = edit[1] /\ step.op = "insert" /\ UNCHANGED <<node, tasksByKey>>
      /\ edge' = addTaskDependency(edge, {[task |-> i, on |-> j, type |-> step.type] : j \in step.on})
      /\ cut' = {}
  BY HeadOp DEF RewireInsert, Tables
<1>2. EditInv'
  BY InsertTables DEF Tables
<1>3. ~(edit' # <<>> /\ edit'[1].op = "insert")
  <2>1. (EditInv /\ cut = {} => ~(edit # <<>> /\ edit[1].op = "insert"))'
    BY NoInsertion, PTL
  <2> QED
    BY <1>1, <1>2, <2>1
<1>4. edge' \subseteq EdgesWith(edge, edit[1])
  BY <1>1 DEF addTaskDependency, EdgesWith
<1>5. Ids' = Ids /\ Visible' = Visible
  BY <1>1 DEF Ids, Visible
<1>6. ASSUME NEW T \in SUBSET Visible, Loop(node, Visible, edge', T)
      PROVE  FALSE
  <2>1. Loop(node, Visible, EdgesWith(edge, edit[1]), T)
    BY <1>4, <1>6, LoopThere
  <2> QED
    BY <1>1, <2>1 DEF AcyclicInv
<1> QED
  BY <1>1, <1>3, <1>5, <1>6 DEF AcyclicInv

\* A deletion leaves fewer rows to be seen.
LEMMA RemoveAcyclic ==
  ASSUME Tables, AcyclicInv, RemoveNodes, tasksByKey' = tasksByKey
  PROVE  AcyclicInv'
<1>1. edit # <<>> /\ Head(edit).op = "remove" /\ edge' = edge /\ cut' = cut
  BY DEF RemoveNodes
<1>2. EditInv' /\ cut' = {}
  BY <1>1, RemoveTables, CutOnlyByInsert DEF Tables
<1>3. ~(edit' # <<>> /\ edit'[1].op = "insert")
  <2>1. (EditInv /\ cut = {} => ~(edit # <<>> /\ edit[1].op = "insert"))'
    BY NoInsertion, PTL
  <2> QED
    BY <1>2, <2>1
<1>4. /\ Ids' = Ids
      /\ \A i \in Ids : /\ node'[i].key = node[i].key
                        /\ node[i].deleted => node'[i].deleted
                        /\ node'[i].materialization = node[i].materialization
  BY RemovedRows
<1>5. Visible' \subseteq Visible /\ Visible \subseteq Ids
  BY <1>4 DEF Visible
<1>6. ASSUME NEW T \in SUBSET Visible', Loop(node', Visible', edge', T)
      PROVE  FALSE
  <2>1. \A j \in T : ~node'[j].materialization => ~node[j].materialization
    BY <1>4, <1>5
  <2>2. Loop(node, Visible, edge, T) /\ T \in SUBSET Visible
    BY <1>1, <1>5, <1>6, <2>1, LoopThere
  <2> QED
    BY <2>2 DEF AcyclicInv
<1>7. \A i, j \in Visible' : node'[i].key = node'[j].key => i = j
  BY <1>4, <1>5 DEF AcyclicInv
<1>8. \A i \in Ids' : node'[i].key \in DOMAIN tasksByKey' \union NewKeys
  BY <1>4 DEF AcyclicInv
<1> QED
  BY <1>3, <1>6, <1>7, <1>8 DEF AcyclicInv

-----------------------------------------------------------------------------
(* Cycles: the steps of the executor, and the theorem.                       *)

\* createDynamicTasks makes a new task wait for rows that were there or for new tasks it names,
\* and makes materialization tasks wait for new ones; no other row waits for more than before.
LEMMA NewEdges ==
  ASSUME StoreTyped, tasksByKey \in [DOMAIN tasksByKey -> Ids],
         NEW specs \in Seq(Task), node[cur].key \notin TaskKeys(specs), NEW superseded,
         createDynamicTasks(specs, superseded), TasksAdded(specs),
         NEW e \in edge' \ edge
  PROVE  \/ node'[e.task].materialization
         \/ \E i \in 1..Len(specs) :
              /\ e.task = Len(node) + i
              /\ \/ e.on \in Ids
                 \/ \E j \in 1..Len(specs) :
                      e.on = Len(node) + j /\ specs[j].key \in specs[i].dependsOn
<1> DEFINE byKey == keysWith(specs)
           n == Len(node)
           names(spec) == IF spec.dependsOn = {} THEN {node[cur].key} ELSE spec.dependsOn
           of(k) == IF byKey[k] \in Ids THEN node[byKey[k]] ELSE specs[byKey[k] - Len(node)]
           own == dynamicDependencies(specs)
           links == linkDynamicTasksToMaterialization(specs)
<1>1. /\ n \in Nat /\ Ids = 1..n
      /\ DOMAIN specs = 1..Len(specs) /\ Len(specs) \in Nat
  BY RowIds DEF StoreTyped
<1>2. e \in own \/ e \in links
  <2>1. edge' = addTaskDependency(addTaskDependency(edge, own), links)
    BY DEF createDynamicTasks
  <2> HIDE DEF own, links
  <2> QED
    BY <2>1 DEF addTaskDependency
<1>3. ASSUME NEW k \in DOMAIN byKey, k \in TaskKeys(specs)
      PROVE  \E j \in 1..Len(specs) : byKey[k] = n + j /\ specs[j].key = k
  <2> DEFINE j == CHOOSE i \in DOMAIN specs : specs[i].key = k
  <2>1. j \in DOMAIN specs /\ specs[j].key = k
    BY <1>3 DEF TaskKeys
  <2>2. byKey[k] = n + j
    BY <1>3 DEF keysWith
  <2> QED
    BY <1>1, <2>1, <2>2
<1>4. ASSUME NEW k \in DOMAIN byKey, k \notin TaskKeys(specs)
      PROVE  byKey[k] \in Ids
  <2>1. k \in DOMAIN tasksByKey /\ byKey[k] = tasksByKey[k]
    BY <1>4 DEF keysWith
  <2> QED
    BY <2>1
<1>5. CASE e \in own
  <2>1. PICK i \in DOMAIN specs :
          e \in {[task |-> n + i, on |-> byKey[k], type |-> specs[i].dependencyType] :
                   k \in names(specs[i]) \intersect DOMAIN byKey}
    BY <1>5 DEF dynamicDependencies
  <2> HIDE DEF byKey, n
  <2>2. PICK k \in names(specs[i]) \intersect DOMAIN byKey : e.task = n + i /\ e.on = byKey[k]
    BY <2>1
  <2>3. CASE k \in TaskKeys(specs)
    <3>1. k \in specs[i].dependsOn
      BY <2>2, <2>3
    <3>2. PICK j \in 1..Len(specs) : byKey[k] = n + j /\ specs[j].key = k
      BY <1>3, <2>2, <2>3
    <3> QED
      BY <1>1, <2>2, <3>1, <3>2 DEF n
  <2>4. CASE k \notin TaskKeys(specs)
    BY <1>1, <1>4, <2>2, <2>4 DEF n
  <2> QED
    BY <2>3, <2>4
<1>6. CASE e \in links
  <2>1. PICK k \in DOMAIN byKey : of(k).materialization /\ e.task = byKey[k]
    BY <1>6 DEF linkDynamicTasksToMaterialization
  <2>2. CASE byKey[k] \in Ids
    <3>1. node[byKey[k]].materialization
      BY <2>1, <2>2
    <3> HIDE DEF byKey
    <3> QED
      BY <2>1, <2>2, <3>1 DEF TasksAdded, SameRow
  <2>3. CASE byKey[k] \notin Ids
    <3>1. specs[byKey[k] - n].materialization
      BY <2>1, <2>3
    <3> HIDE DEF byKey, n
    <3>2. PICK j \in 1..Len(specs) : byKey[k] = n + j
      BY <1>3, <1>4, <2>3
    <3>3. byKey[k] - n = j
      BY <1>1, <3>2
    <3>4. specs[j].materialization
      BY <3>1, <3>3
    <3>5. node'[Len(node) + j].materialization = specs[j].materialization
      BY DEF TasksAdded
    <3> QED
      BY <2>1, <3>2, <3>4, <3>5 DEF n
  <2> QED
    BY <2>2, <2>3
<1> QED
  BY <1>2, <1>5, <1>6

\* New tasks close no cycle: none of them has the key of a row, so a cycle through one of them
\* would be one of the patch.
LEMMA GrowsAcyclic ==
  ASSUME TaskGraphExecutorAssumption, KeysApart, Tables, AcyclicInv,
         tasksByKey \in [DOMAIN tasksByKey -> Ids], cur \in Ids, edit = <<>>, Grows
  PROVE  AcyclicInv'
<1>1. PICK specs, superseded :
        /\ Fresh(specs, slots) /\ Sound(specs, node[cur].key)
        /\ superseded \in BOOLEAN /\ createDynamicTasks(specs, superseded) /\ Resume
  BY DEF Grows
<1> DEFINE n == Len(node)
           m == Len(specs)
<1>2. /\ specs \in Seq(Task) /\ KeysDistinct(specs) /\ m \in Nat /\ DOMAIN specs = 1..m
      /\ n \in Nat /\ Ids = 1..n /\ StoreTyped
  BY <1>1, RowIds DEF Fresh, Tables, StoreTyped
<1>3. TasksAdded(specs)
  BY <1>1, <1>2, NewTasks
<1>4. \A k \in TaskKeys(specs) : k \notin DOMAIN tasksByKey \union NewKeys
  BY <1>1 DEF Fresh, Sound, KeysApart
<1>5. node[cur].key \notin TaskKeys(specs)
  BY <1>4 DEF AcyclicInv
<1>6. /\ Ids' = Ids \union {n + i : i \in 1..m}
      /\ \A i \in Ids : /\ node'[i].key = node[i].key
                        /\ node'[i].deleted = node[i].deleted
                        /\ node'[i].materialization = node[i].materialization
      /\ \A i \in 1..m : node'[n + i].key = specs[i].key /\ ~node'[n + i].deleted
      /\ DOMAIN tasksByKey' = DOMAIN tasksByKey \union TaskKeys(specs)
  BY <1>3 DEF TasksAdded, SameRow
<1>7. \A i \in 1..m : n + i \notin Ids /\ specs[i].key \in TaskKeys(specs)
  BY <1>2 DEF TaskKeys
<1> HIDE DEF n, m
<1>8. Visible' = Visible \union {n + i : i \in 1..m} /\ Visible \subseteq Ids
  BY <1>6, <1>7 DEF Visible
<1>9. \A i, j \in Visible' : node'[i].key = node'[j].key => i = j
  <2>1. \A i, j \in Visible : node'[i].key = node'[j].key => i = j
    BY <1>6, <1>8 DEF AcyclicInv
  <2>2. \A i \in Visible, j \in 1..m : node'[i].key # node'[n + j].key
    <3> SUFFICES ASSUME NEW i \in Visible, NEW j \in 1..m PROVE node'[i].key # node'[n + j].key
      OBVIOUS
    <3>1. node'[i].key \in DOMAIN tasksByKey \union NewKeys
      BY <1>6, <1>8 DEF AcyclicInv
    <3>2. node'[n + j].key \in TaskKeys(specs)
      BY <1>6, <1>7
    <3> QED
      BY <1>4, <3>1, <3>2
  <2>3. \A i, j \in 1..m : node'[n + i].key = node'[n + j].key => n + i = n + j
    <3> SUFFICES ASSUME NEW i \in 1..m, NEW j \in 1..m, node'[n + i].key = node'[n + j].key
                 PROVE  i = j
      OBVIOUS
    <3>1. specs[i].key = specs[j].key /\ i \in DOMAIN specs /\ j \in DOMAIN specs
      BY <1>2, <1>6
    <3> QED
      BY <1>2, <3>1 DEF KeysDistinct
  <2> QED
    BY <1>8, <2>1, <2>2, <2>3
<1>10. \A i \in Ids' : node'[i].key \in DOMAIN tasksByKey' \union NewKeys
  BY <1>6, <1>7 DEF AcyclicInv
<1>11. \A e \in edge : e.task \in Ids /\ e.on \in Ids
  BY <1>2 DEF StoreTyped, Edges
<1>12. ASSUME NEW e \in edge', e \notin edge, ~node'[e.task].materialization
       PROVE  \E i \in 1..m : /\ e.task = n + i
                              /\ \/ e.on \in Ids
                                 \/ \E j \in 1..m : /\ e.on = n + j
                                                    /\ specs[j].key \in specs[i].dependsOn
  BY <1>1, <1>2, <1>3, <1>5, <1>12, NewEdges DEF n, m
<1>13. ASSUME NEW T \in SUBSET Visible', Loop(node', Visible', edge', T)
       PROVE  FALSE
  <2>1. /\ T # {}
        /\ \A i \in T : ~node'[i].materialization /\ \E e \in edge' : e.task = i /\ e.on \in T
    BY <1>13 DEF Loop
  <2> DEFINE old == T \intersect Ids
             I == {i \in 1..m : n + i \in T}
  <2>2. ASSUME NEW i \in old
        PROVE  ~node[i].materialization /\ \E e \in edge : e.task = i /\ e.on \in old
    <3>1. PICK e \in edge' : e.task = i /\ e.on \in T
      BY <2>1
    <3>2. e \in edge
      BY <1>7, <1>12, <2>1, <3>1
    <3> QED
      BY <1>6, <1>11, <2>1, <3>1, <3>2
  <2>3. old \subseteq Visible
    BY <1>6, <1>7, <1>8
  <2>4. old = {}
    <3> HIDE DEF old
    <3> SUFFICES ASSUME old # {} PROVE FALSE
      OBVIOUS
    <3>1. Loop(node, Visible, edge, old)
      BY <2>2, <2>3 DEF Loop
    <3> QED
      BY <2>3, <3>1 DEF AcyclicInv
  <2>5. \A k \in T : \E i \in I : k = n + i
    BY <1>8, <2>4
  <2>6. ASSUME NEW i \in I
        PROVE  \E j \in I : specs[j].key \in specs[i].dependsOn
    <3>1. PICK e \in edge' : e.task = n + i /\ e.on \in T
      BY <2>1
    <3>2. e \notin edge
      BY <1>7, <1>11, <3>1
    <3>3. ~node'[e.task].materialization
      BY <2>1, <3>1
    <3>4. PICK h \in 1..m : /\ e.task = n + h
                            /\ \/ e.on \in Ids
                               \/ \E j \in 1..m : e.on = n + j /\ specs[j].key \in specs[h].dependsOn
      BY <1>12, <3>2, <3>3
    <3>5. h = i
      BY <1>2, <3>1, <3>4 DEF n
    <3>6. PICK j \in 1..m : e.on = n + j /\ specs[j].key \in specs[h].dependsOn
      BY <2>4, <3>1, <3>4
    <3> QED
      BY <3>1, <3>5, <3>6
  <2>7. I # {}
    BY <2>1, <2>5
  <2> HIDE DEF I
  <2>8. I \in SUBSET (1..m)
    BY DEF I
  <2>9. IndexCircle(specs, m, I)
    BY <2>6, <2>7, <2>8 DEF IndexCircle
  <2>10. PICK i \in I : specs[i].key = node[cur].key
    BY <1>1, <2>8, <2>9 DEF Sound, m
  <2> QED
    BY <1>5, <1>7, <2>8, <2>10
<1>14. ~(edit' # <<>> /\ edit'[1].op = "insert")
  BY <1>1 DEF Resume
<1> QED
  BY <1>9, <1>10, <1>13, <1>14 DEF AcyclicInv

\* A step of the executor adds new tasks, or keeps the rows, the edges and the keys.
LEMMA ExecutorRows ==
  ASSUME Invariant, ExecutorNext
  PROVE  \/ Grows /\ cur \in Ids
         \/ /\ RowsKept /\ UNCHANGED <<edge, edit>>
            /\ DOMAIN tasksByKey \subseteq DOMAIN tasksByKey'
<1> DEFINE Kept == /\ RowsKept /\ UNCHANGED <<edge, edit>>
                   /\ DOMAIN tasksByKey \subseteq DOMAIN tasksByKey'
<1>1. node \in Seq(NodeRow) /\ {"queued", "blocked", "cancelled"} \subseteq Statuses
  BY DEF Invariant, Tables, StoreTyped, Statuses
<1>2. ASSUME NEW i, NEW s \in Statuses, node' = SetStatus({i}, s)
      PROVE  RowsKept
  BY <1>1, <1>2, StatusRows
<1>3. node' = node => RowsKept
  BY <1>1 DEF RowsKept, SameRow, Ids
<1>4. CASE Sync
  <2>1. UNCHANGED <<node, edge, edit>>
    BY <1>4 DEF Sync, storeVars
  <2>2. DOMAIN tasksByKey' = Keys
    BY <1>4 DEF Sync, Keys
  <2> QED
    BY <1>3, <2>1, <2>2 DEF Invariant, ExecutorTyped
<1>5. ASSUME BlockTask
      PROVE  Kept
  <2>1. /\ node' = SetStatus({doomed}, "blocked") \/ node' = node
        /\ UNCHANGED <<edge, edit, tasksByKey>>
    BY <1>5 DEF BlockTask
  <2> QED
    BY <1>1, <1>2, <1>3, <2>1
<1>6. ASSUME NEW i, Launch(i)
      PROVE  Kept
  <2>1. (node' = SetStatus({i}, "queued") \/ node' = node) /\ UNCHANGED <<edge, edit, tasksByKey>>
    BY <1>6 DEF Launch
  <2> QED
    BY <1>1, <1>2, <1>3, <2>1
<1>7. ASSUME NEW i, Timeout(i)
      PROVE  Kept
  <2>1. /\ node' = SetStatus({i}, "cancelled") \/ node' = node
        /\ UNCHANGED <<edge, edit, tasksByKey>>
    BY <1>7 DEF Timeout
  <2> QED
    BY <1>1, <1>2, <1>3, <2>1
<1>8. ASSUME UNCHANGED <<node, edge, edit, tasksByKey>>
      PROVE  Kept
  BY <1>3, <1>8
<1>9. CASE WaveNext
  <2>1. PICK i \in DOMAIN wave : Launch(i) \/ Resolve(i) \/ Timeout(i)
    BY <1>9 DEF WaveNext
  <2>2. Resolve(i) => UNCHANGED <<node, edge, edit, tasksByKey>>
    BY DEF Resolve, storeVars
  <2> HIDE DEF Kept
  <2>3. Kept
    BY <1>6, <1>7, <1>8, <2>1, <2>2
  <2> QED
    BY <2>3 DEF Kept
<1>10. CASE PlannerNext
  <2>1. pc = "planning"
    BY <1>10 DEF PlannerNext, Replan, Expand, PlannerUseless, PlannerStops, PlannerAsks
  <2>2. slots # 0 /\ Tables /\ ExecutorTyped
    BY <2>1 DEF Invariant, BudgetInv
  <2>3. \/ Grows
        \/ UNCHANGED <<node, edge, tasksByKey, pending, expanded>> /\ Resume
        \/ PlannerAsks
    BY <1>10, <2>2, PlannerSteps, TaskGraphExecutorAssumption
  <2>4. \/ Grows
        \/ UNCHANGED <<node, edge, edit, tasksByKey>>
    BY <2>3 DEF Resume, PlannerAsks, storeVars
  <2>5. cur \in Ids
    BY <2>1, <2>2 DEF ExecutorTyped
  <2> QED
    BY <1>8, <2>4, <2>5
<1>11. CASE ChooseWave \/ AllBack \/ Collect \/ Collected \/ RemainingBlocked \/ Return
  <2>1. UNCHANGED <<node, edge, edit, tasksByKey>>
    BY <1>11 DEF ChooseWave, AllBack, Collect, Collected, RemainingBlocked, Return, storeVars
  <2> QED
    BY <1>8, <2>1
<1>12. CASE LookForUnreachable \/ LookForRemaining \/ ReadBlocked
  <2>1. UNCHANGED <<node, edge, edit, tasksByKey>>
    BY <1>12 DEF LookForUnreachable, LookForRemaining, Look, ReadBlocked, storeVars
  <2> QED
    BY <1>8, <2>1
<1>13. CASE BlockTask
  BY <1>5, <1>13
<1> QED
  BY <1>4, <1>9, <1>10, <1>11, <1>12, <1>13 DEF ExecutorNext

\* The plan, which validatePlanSpec let pass, has no cycle but through materialization tasks.
LEMMA InitAcyclic == Init => AcyclicInv
<1> SUFFICES ASSUME Init PROVE AcyclicInv
  OBVIOUS
<1> DEFINE tasks == plan.tasks
           F == [i \in DOMAIN tasks |->
                   IF tasks[i].materialization THEN {}
                   ELSE {j \in DOMAIN tasks : tasks[j].key \in tasks[i].dependsOn}]
<1>1. /\ plan \in Plans /\ Ids = DOMAIN tasks /\ Ids = 1..Len(node) /\ Len(node) \in Nat
      /\ \A i \in Ids : node[i].materialization = tasks[i].materialization
      /\ \A i, j \in Ids : node[i].key = node[j].key => i = j
      /\ DOMAIN tasksByKey = Keys
      /\ edge \subseteq Edges
      /\ \A e \in edge : tasks[e.on].key \in tasks[e.task].dependsOn
  BY InitRows
<1>2. ~HasCycle(DOMAIN tasks, F)
  <2>1. WorkAcyclic(tasks)
    BY <1>1, TaskGraphExecutorAssumption DEF TaskGraphExecutorAssumption
  <2> QED
    BY <2>1 DEF WorkAcyclic
<1>3. IsFiniteSet(DOMAIN tasks)
  BY <1>1, FS_Interval
<1>4. ASSUME NEW T \in SUBSET Visible, Loop(node, Visible, edge, T)
      PROVE  FALSE
  <2>1. /\ T # {} /\ T \subseteq DOMAIN tasks
        /\ \A i \in T : ~node[i].materialization /\ \E e \in edge : e.task = i /\ e.on \in T
    BY <1>1, <1>4 DEF Loop, Visible
  <2>2. ASSUME NEW i \in T
        PROVE  F[i] \intersect T # {}
    <3>1. PICK e \in edge : e.task = i /\ e.on \in T
      BY <2>1
    <3>2. ~tasks[i].materialization /\ i \in DOMAIN tasks
      BY <1>1, <2>1
    <3>3. e.on \in F[i]
      BY <1>1, <2>1, <3>1, <3>2
    <3> QED
      BY <3>1, <3>3
  <2> HIDE DEF F
  <2>3. Circle(DOMAIN tasks, F, T)
    BY <2>1, <2>2 DEF Circle
  <2> QED
    BY <1>2, <1>3, <2>3, CycleIsCircle
<1>5. Visible \subseteq Ids /\ edit = <<>>
  BY DEF Visible, Init
<1>6. \A i \in Ids : node[i].key \in DOMAIN tasksByKey
  BY <1>1 DEF Keys
<1> QED
  BY <1>1, <1>4, <1>5, <1>6 DEF AcyclicInv

\* Every step keeps the invariant of cycles.
LEMMA AcyclicSteps == KeysApart /\ Invariant /\ AcyclicInv /\ [Next]_vars => AcyclicInv'
<1> SUFFICES ASSUME KeysApart, Invariant, AcyclicInv, [Next]_vars PROVE AcyclicInv'
  OBVIOUS
<1>1. Tables /\ TaskGraphExecutorAssumption /\ node \in Seq(NodeRow)
  BY TaskGraphExecutorAssumption DEF Invariant, Tables, StoreTyped
<1>2. UNCHANGED exVars => tasksByKey' = tasksByKey
  BY DEF exVars
<1>3. CASE ExecutorNext
  <2>1. CASE Grows /\ cur \in Ids
    BY <1>1, <1>3, <2>1, ExecutorIdle, GrowsAcyclic DEF Invariant, ExecutorTyped
  <2>2. CASE /\ RowsKept /\ UNCHANGED <<edge, edit>>
             /\ DOMAIN tasksByKey \subseteq DOMAIN tasksByKey'
    BY <2>2, AcyclicKept
  <2> QED
    BY <1>3, <2>1, <2>2, ExecutorRows
<1>4. CASE WorkerNext /\ UNCHANGED exVars
  BY <1>1, <1>2, <1>4, WorkerRows, AcyclicKept
<1>5. CASE EditNext /\ UNCHANGED exVars
  BY <1>1, <1>2, <1>5, EditAcyclic
<1>6. CASE EditStep /\ UNCHANGED exVars
  BY <1>1, <1>2, <1>6, DeleteAcyclic, InsertAcyclic, RemoveAcyclic DEF EditStep
<1>7. CASE UNCHANGED vars
  <2>1. UNCHANGED <<node, edge, edit, tasksByKey>>
    BY <1>7 DEF vars, storeVars, exVars
  <2>2. RowsKept
    BY <1>1, <2>1 DEF RowsKept, SameRow, Ids
  <2> QED
    BY <2>1, <2>2, AcyclicKept
<1> QED
  BY <1>3, <1>4, <1>5, <1>6, <1>7 DEF Next, MainNext

\* The dependencies between the tasks the user sees never form a cycle, whatever nodes the user
\* adds, rewires and deletes while planners add tasks (assertNoDependencyCycle,
\* validateGraphPatchSpec), when he gives his nodes no key a planner gives a task.
THEOREM GraphAcyclic ==
  ASSUME KeysApart
  PROVE  Spec => []DependenciesAcyclic
<1>1. Init => AcyclicInv
  BY InitAcyclic
<1>2. Invariant /\ AcyclicInv /\ [Next]_vars => AcyclicInv'
  BY AcyclicSteps
<1>3. Invariant /\ AcyclicInv => DependenciesAcyclic
  BY NoLoopAcyclic DEF Invariant, Tables
<1> QED
  BY <1>1, <1>2, <1>3, GraphInvariant, PTL DEF Spec

=============================================================================
