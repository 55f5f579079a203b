-------------------------- MODULE TaskStore_proofs --------------------------
(***************************************************************************)
(* Proofs about TaskStore for every number of tasks, processes, tokens and *)
(* retries.                                                                 *)
(***************************************************************************)
EXTENDS TaskStore, TLAPS

USE TaskStoreAssumption

-----------------------------------------------------------------------------
(* Typing.                                                                   *)

\* The idle call is a call: every field has a default of its type.
LEMMA IdleCallType == IdleCall \in Call /\ NewRow \in Row /\ NoRun \in Run
<1>1. AnyTask \in Tasks  BY DEF AnyTask
<1> QED  BY <1>1 DEF IdleCall, Call, NewRow, Row, NoRun, Run, Ops, Pcs, RunPcs, Tokens,
                     Results, TaskStatuses, NoToken

\* Ending a call keeps the types.
LEMMA EndType ==
  ASSUME TypeOK, NEW p \in Procs, NEW ok \in BOOLEAN, End(p, ok)
  PROVE  /\ call' \in [Procs -> Call]
         /\ run' \in [Workers -> Run]
         /\ retrying' \in [Mains -> SUBSET Tasks]
<1>1. call' \in [Procs -> Call]
  BY IdleCallType DEF End, Becomes, TypeOK
<1>2. run' \in [Workers -> Run]
  <2>1. \A w \in Workers : AfterCall(w, ok) \in RunPcs
    BY DEF AfterCall, RunPcs
  <2> QED  BY <2>1, IdleCallType DEF End, TypeOK, Run
<1>3. retrying' \in [Mains -> SUBSET Tasks]
  BY DEF End, TypeOK, Call
<1> QED  BY <1>1, <1>2, <1>3

\* The literals of the model are in their types.
LEMMA Literals ==
  /\ {"idle", "row", "read", "check", "transition", "update", "upsert", "markRunning",
      "reread", "complete", "dependents", "release"} \subseteq Pcs
  /\ {"none", "enqueue", "claimNext", "claim", "finish", "fail", "recover", "cancel",
      "inspect", "verdict", "block"} \subseteq Ops
  /\ {"pending", "queued", "running", "blocked", "needs_inspection", "done", "failed",
      "cancelled", "dead_letter"} \subseteq TaskStatuses
  /\ {"off", "started", "working", "failing", "cancelling", "finally", "closing"} \subseteq RunPcs
BY DEF Pcs, Ops, TaskStatuses, RunPcs

\* A process that moves on to another call keeps the array of calls typed.
LEMMA BecomesType ==
  ASSUME call \in [Procs -> Call], NEW p \in Procs, NEW c \in Call, Becomes(p, c)
  PROVE  call' \in [Procs -> Call]
BY DEF Becomes

\* What the statements do to a call keeps its type.
LEMMA CallUpdate ==
  /\ \A c \in Call, pc \in Pcs : [c EXCEPT !.pc = pc] \in Call
  /\ \A c \in Call, pc \in Pcs, to \in TaskStatuses : [c EXCEPT !.pc = pc, !.to = to] \in Call
  /\ \A c \in Call, pc \in Pcs, row \in Row : [c EXCEPT !.pc = pc, !.row = row] \in Call
  /\ \A c \in Call, pc \in Pcs, todo \in SUBSET Tasks :
        [c EXCEPT !.pc = pc, !.todo = todo] \in Call
  /\ \A c \in Call, x \in Tasks : [c EXCEPT !.todo = @ \ {x}] \in Call
  /\ \A c \in Call, pc \in Pcs, to \in TaskStatuses, cur \in Tasks :
        [c EXCEPT !.pc = pc, !.to = to, !.cur = cur, !.todo = @ \ {cur}] \in Call
  /\ \A c \in Call, pc \in Pcs, token \in Tokens, cur \in Tasks :
        [c EXCEPT !.pc = pc, !.token = token, !.cur = cur, !.todo = @ \ {cur}] \in Call
  /\ \A c \in Call, pc \in Pcs, to \in TaskStatuses, expect \in BOOLEAN, retry \in Nat,
        result \in Results :
        [c EXCEPT !.pc = pc, !.to = to, !.expect = expect, !.retry = retry,
                  !.result = result] \in Call
BY DEF Call

\* A fresh call has the type of a call.
LEMMA FreshCall ==
  /\ \A op \in Ops, pc \in Pcs, t \in Tasks, token \in Tokens :
        [IdleCall EXCEPT !.op = op, !.pc = pc, !.task = t, !.cur = t, !.token = token] \in Call
  /\ \A op \in Ops, pc \in Pcs, todo \in SUBSET Tasks :
        [IdleCall EXCEPT !.op = op, !.pc = pc, !.todo = todo] \in Call
  /\ \A op \in Ops, pc \in Pcs, t \in Tasks, to \in TaskStatuses :
        [IdleCall EXCEPT !.op = op, !.pc = pc, !.task = t, !.cur = t, !.to = to] \in Call
  /\ \A op \in Ops, pc \in Pcs, t \in Tasks, cur \in Tasks, to \in TaskStatuses,
        todo \in SUBSET Tasks :
        [IdleCall EXCEPT !.op = op, !.pc = pc, !.task = t, !.cur = cur, !.to = to,
                         !.todo = todo] \in Call
  /\ \A op \in Ops, pc \in Pcs, t \in Tasks, result \in Results :
        [IdleCall EXCEPT !.op = op, !.pc = pc, !.task = t, !.cur = t, !.result = result]
          \in Call
<1> DEFINE idle == IdleCall
<1>1. idle \in Call  BY IdleCallType
<1> HIDE DEF idle
<1> QED  BY <1>1 DEF Call, idle

\* The fields of a process' call, and the row it is about, have their types.
LEMMA CallFields ==
  ASSUME TypeOK, NEW p \in Procs
  PROVE  /\ call[p] \in Call
         /\ call[p].op \in Ops /\ call[p].pc \in Pcs
         /\ call[p].task \in Tasks /\ call[p].cur \in Tasks
         /\ call[p].token \in Tokens /\ call[p].expect \in BOOLEAN
         /\ call[p].retry \in Nat /\ call[p].result \in Results
         /\ call[p].to \in TaskStatuses /\ call[p].row \in Row
         /\ call[p].todo \in SUBSET Tasks
         /\ task[call[p].cur] \in Row
BY DEF TypeOK, Call

\* A row has its fields.
LEMMA RowFields ==
  ASSUME NEW row \in Row
  PROVE  /\ row.status \in TaskStatuses /\ row.retry \in Nat
         /\ row.token \in Tokens /\ row.result \in Results
BY DEF Row

\* An exception keeps the types.
LEMMA ThrowType ==
  ASSUME TypeOK, NEW p \in Procs, Throw(p)
  PROVE  TypeOK'
<1>1. CASE call[p].op = "claimNext"
  <2> DEFINE c == [call[p] EXCEPT !.pc = "complete", !.to = task[call[p].cur].status]
  <2>1. c \in Call
    <3>1. task[call[p].cur].status \in TaskStatuses
      BY CallFields, RowFields
    <3> QED  BY <3>1, CallFields, CallUpdate, Literals
  <2>2. Becomes(p, c)
    BY <1>1 DEF Throw
  <2>3. call' \in [Procs -> Call]
    <3> HIDE DEF c
    <3> QED  BY <2>1, <2>2, BecomesType DEF TypeOK
  <2> QED  BY <1>1, <2>3 DEF Throw, TypeOK
<1>2. CASE call[p].op # "claimNext"
  <2>1. End(p, FALSE) /\ aborted' = aborted \union Unreleased(p)
    BY <1>2 DEF Throw
  <2>2. Unreleased(p) \subseteq Tasks
    BY DEF Unreleased, Dependents
  <2> QED  BY <1>2, <2>1, <2>2, EndType DEF Throw, TypeOK
<1> QED  BY <1>1, <1>2

\* Becoming a typed call keeps the types when nothing else changes.
LEMMA BecomesOnly ==
  ASSUME TypeOK, NEW p \in Procs, NEW c \in Call, Becomes(p, c),
         UNCHANGED <<task, queue, run, retrying, inspections, aborted>>, minted' \in Tokens
  PROVE  TypeOK'
BY BecomesType DEF TypeOK

\* Ending a call keeps the types when nothing else changes.
LEMMA EndOnly ==
  ASSUME TypeOK, NEW p \in Procs, NEW ok \in BOOLEAN, End(p, ok),
         UNCHANGED <<task, queue, inspections, aborted>>, minted' \in Tokens
  PROVE  TypeOK'
BY EndType DEF TypeOK

\* The row a transition writes is a row.
LEMMA WrittenRowType ==
  ASSUME NEW c \in Call, NEW p \in Procs
  PROVE  WrittenRow(c, p \in Workers) \in Row
<1>1. /\ c.to \in TaskStatuses /\ c.retry \in Nat /\ c.token \in Tokens
      /\ c.result \in Results /\ c.row \in Row
  BY DEF Call
<1>2. NoToken \in Tokens /\ Anonymous \in Results /\ Tokens \subseteq Results
  BY DEF NoToken, Tokens, Anonymous, Results
<1> QED  BY <1>1, <1>2, RowFields DEF WrittenRow, Row

\* What a method asks transitionTask for is typed.
LEMMA ReadType ==
  ASSUME TypeOK, NEW p \in Procs, NEW row \in Row
  PROVE  /\ Target(p, row) \in TaskStatuses
         /\ ExpectedLease(p, row) \in BOOLEAN
         /\ PatchedRetry(p, row) \in Nat
         /\ PatchedResult(p, row) \in Results
<1>1. Target(p, row) \in TaskStatuses
  BY DEF Target, TaskStatuses
<1>2. ExpectedLease(p, row) \in BOOLEAN
  BY DEF ExpectedLease
<1>3. PatchedRetry(p, row) \in Nat
  BY RowFields DEF PatchedRetry
<1>4. PatchedResult(p, row) \in Results
  BY RowFields, CallFields DEF PatchedResult
<1> QED  BY <1>1, <1>2, <1>3, <1>4

\* Each statement of a store method keeps the types.
LEMMA StatementType ==
  ASSUME TypeOK, NEW p \in Procs, Statement(p)
  PROVE  TypeOK'
<1> USE DEF At
<1>1. CASE ReadTask(p)
  <2> DEFINE row == task[call[p].cur]
  <2>1. row \in Row  BY CallFields
  <2>2. CASE ReadReturns(p, row)
    <3>1. End(p, TRUE) /\ UNCHANGED <<task, queue, inspections, minted, aborted>>
      BY <1>1, <2>2 DEF ReadTask
    <3> QED  BY <3>1, EndOnly DEF TypeOK
  <2>3. CASE ~ReadReturns(p, row) /\ ReadRefused(p, row)
    <3>1. Throw(p)  BY <1>1, <2>3 DEF ReadTask
    <3> QED  BY <3>1, ThrowType
  <2>4. CASE ~ReadReturns(p, row) /\ ~ReadRefused(p, row)
    <3> DEFINE c == [call[p] EXCEPT !.pc = "transition", !.to = Target(p, row),
                                    !.expect = ExpectedLease(p, row),
                                    !.retry = PatchedRetry(p, row),
                                    !.result = PatchedResult(p, row)]
    <3>1. Becomes(p, c) /\ UNCHANGED <<task, queue, run, retrying, inspections, minted, aborted>>
      BY <1>1, <2>4 DEF ReadTask
    <3>2. c \in Call
      <4> HIDE DEF row
      <4> QED  BY <2>1, ReadType, CallFields, CallUpdate, Literals
    <3> HIDE DEF c
    <3> QED  BY <3>1, <3>2, BecomesOnly DEF TypeOK
  <2> QED  BY <2>2, <2>3, <2>4
<1>2. CASE CheckDependencies(p)
  <2> DEFINE c == [call[p] EXCEPT !.pc = "transition", !.to = "queued"]
  <2>1. c \in Call  BY CallFields, CallUpdate, Literals
  <2>2. \/ Becomes(p, c) /\ UNCHANGED <<run, retrying>>
        \/ End(p, TRUE)
    BY <1>2 DEF CheckDependencies
  <2>3. UNCHANGED <<task, queue, inspections, minted, aborted>>
    BY <1>2 DEF CheckDependencies
  <2> HIDE DEF c
  <2> QED  BY <2>1, <2>2, <2>3, BecomesOnly, EndOnly DEF TypeOK
<1>3. CASE ReadTransition(p)
  <2> DEFINE c == [call[p] EXCEPT !.pc = "update", !.row = task[call[p].cur]]
  <2>1. c \in Call  BY CallFields, CallUpdate, Literals
  <2>2. \/ /\ Becomes(p, c)
           /\ UNCHANGED <<task, queue, run, retrying, inspections, minted, aborted>>
        \/ Throw(p)
    BY <1>3 DEF ReadTransition
  <2> HIDE DEF c
  <2> QED  BY <2>1, <2>2, BecomesOnly, ThrowType DEF TypeOK
<1>4. CASE UpdateTask(p) /\ CasHolds(call[p])
  <2> DEFINE c == call[p]
             d == [IdleCall EXCEPT !.op = c.op, !.pc = AfterUpdate(c), !.task = c.task,
                                   !.cur = c.cur, !.to = c.to, !.todo = c.todo]
  <2>1. task' \in [Tasks -> Row]
    <3>1. WrittenRow(c, p \in Workers) \in Row
      BY CallFields, WrittenRowType
    <3>2. task' = [task EXCEPT ![c.cur] = WrittenRow(c, p \in Workers)]
      BY <1>4 DEF UpdateTask
    <3> QED  BY <3>1, <3>2 DEF TypeOK
  <2>2. /\ call' \in [Procs -> Call]
        /\ run' \in [Workers -> Run]
        /\ retrying' \in [Mains -> SUBSET Tasks]
    <3>1. CASE AfterUpdate(c) = "idle"
      <4>1. End(p, TRUE)  BY <1>4, <3>1 DEF UpdateTask
      <4> QED  BY <4>1, EndType
    <3>2. CASE AfterUpdate(c) # "idle"
      <4>1. Becomes(p, d) /\ UNCHANGED <<run, retrying>>
        BY <1>4, <3>2 DEF UpdateTask
      <4>2. AfterUpdate(c) \in Pcs
        BY DEF AfterUpdate, Pcs
      <4>3. d \in Call
        BY <4>2, CallFields, FreshCall
      <4> HIDE DEF d
      <4> QED  BY <4>1, <4>3, BecomesType DEF TypeOK
    <3> QED  BY <3>1, <3>2
  <2>3. inspections' \in [Tasks -> Inspection] /\ aborted' \in SUBSET Tasks
    BY <1>4 DEF UpdateTask, TypeOK, Inspection
  <2>4. UNCHANGED <<queue, minted>>  BY <1>4 DEF UpdateTask
  <2> QED  BY <2>1, <2>2, <2>3, <2>4 DEF TypeOK
<1>5. CASE UpdateTask(p) /\ ~CasHolds(call[p])
  <2>1. Throw(p)  BY <1>5 DEF UpdateTask
  <2> QED  BY <2>1, ThrowType
<1>6. CASE UpsertQueue(p)
  <2> DEFINE c == [call[p] EXCEPT !.pc = "release"]
  <2>1. c \in Call  BY CallFields, CallUpdate, Literals
  <2>2. \/ Becomes(p, c) /\ UNCHANGED <<run, retrying>>
        \/ End(p, TRUE)
    BY <1>6 DEF UpsertQueue, Goto
  <2>3. queue' \in [Tasks -> QueueStatuses]
    BY <1>6 DEF UpsertQueue, TypeOK, QueueStatuses
  <2>4. UNCHANGED <<task, inspections, minted, aborted>>  BY <1>6 DEF UpsertQueue
  <2> HIDE DEF c
  <2> QED  BY <2>1, <2>2, <2>3, <2>4, BecomesType, EndType DEF TypeOK
<1>7. CASE CompleteQueueItem(p)
  <2> DEFINE c == [call[p] EXCEPT !.pc = "row"]
             d == [call[p] EXCEPT !.pc = "dependents"]
  <2>1. c \in Call /\ d \in Call  BY CallFields, CallUpdate, Literals
  <2>2. \/ (Becomes(p, c) \/ Becomes(p, d)) /\ UNCHANGED <<run, retrying>>
        \/ End(p, TRUE)
    BY <1>7 DEF CompleteQueueItem, Goto
  <2>3. queue' \in [Tasks -> QueueStatuses]
    <3>1. QueueStatusForTask(call[p].to) \in QueueStatuses
      BY DEF QueueStatusForTask, QueueStatuses
    <3>2. "none" \in QueueStatuses  BY DEF QueueStatuses
    <3> QED  BY <1>7, <3>1, <3>2 DEF CompleteQueueItem, TypeOK
  <2>4. inspections' \in [Tasks -> Inspection]
    BY <1>7 DEF CompleteQueueItem, TypeOK, Inspection
  <2>5. UNCHANGED <<task, minted, aborted>>  BY <1>7 DEF CompleteQueueItem
  <2> HIDE DEF c, d
  <2> QED  BY <2>1, <2>2, <2>3, <2>4, <2>5, BecomesType, EndType DEF TypeOK
<1>8. CASE ReadDependents(p)
  <2> DEFINE c == [call[p] EXCEPT !.pc = "release",
                                  !.todo = {x \in Dependents(call[p].task) :
                                              task[x].status \in {"pending", "blocked"}}]
  <2>1. {x \in Dependents(call[p].task) : task[x].status \in {"pending", "blocked"}}
          \in SUBSET Tasks
    BY DEF Dependents
  <2>2. c \in Call  BY <2>1, CallFields, CallUpdate, Literals
  <2>3. Becomes(p, c) /\ UNCHANGED <<task, queue, run, retrying, inspections, minted, aborted>>
    BY <1>8 DEF ReadDependents
  <2> HIDE DEF c
  <2> QED  BY <2>2, <2>3, BecomesOnly DEF TypeOK
<1>9. CASE ReleaseDependent(p)
  <2>1. CASE End(p, TRUE) /\ UNCHANGED <<task, queue, inspections, minted, aborted>>
    BY <2>1, EndOnly DEF TypeOK
  <2>2. ASSUME NEW x \in call[p].todo,
               \/ Becomes(p, [call[p] EXCEPT !.pc = "transition", !.to = "queued",
                                             !.cur = x, !.todo = @ \ {x}])
               \/ Becomes(p, [call[p] EXCEPT !.todo = @ \ {x}]),
               UNCHANGED <<task, queue, run, retrying, inspections, minted, aborted>>
        PROVE  TypeOK'
    <3> DEFINE c == [call[p] EXCEPT !.pc = "transition", !.to = "queued",
                                    !.cur = x, !.todo = @ \ {x}]
               d == [call[p] EXCEPT !.todo = @ \ {x}]
    <3>1. x \in Tasks  BY CallFields
    <3>2. c \in Call /\ d \in Call  BY <3>1, CallFields, CallUpdate, Literals
    <3>3. Becomes(p, c) \/ Becomes(p, d)  BY <2>2
    <3> HIDE DEF c, d
    <3> QED  BY <2>2, <3>2, <3>3, BecomesOnly DEF TypeOK
  <2> QED  BY <1>9, <2>1, <2>2 DEF ReleaseDependent
<1> QED  BY <1>1, <1>2, <1>3, <1>4, <1>5, <1>6, <1>7, <1>8, <1>9 DEF Statement

\* Beginning a call about a task keeps the types.
LEMMA BeginType ==
  ASSUME TypeOK, NEW p \in Procs, NEW op \in Ops, NEW pc \in Pcs, NEW t \in Tasks,
         NEW token \in Tokens, Begin(p, op, pc, t, token)
  PROVE  call' \in [Procs -> Call]
<1> DEFINE c == [IdleCall EXCEPT !.op = op, !.pc = pc, !.task = t, !.cur = t, !.token = token]
<1>1. c \in Call  BY FreshCall
<1>2. Becomes(p, c)  BY DEF Begin
<1> HIDE DEF c
<1> QED  BY <1>1, <1>2, BecomesType DEF TypeOK

\* What the steps of runTask do to a run keeps its type.
LEMMA RunUpdate ==
  /\ \A r \in Run, pc \in RunPcs : [r EXCEPT !.pc = pc] \in Run
  /\ \A r \in Run : [r EXCEPT !.cancelled = TRUE] \in Run
BY DEF Run

\* Each step of a main process keeps the types.
LEMMA MainType ==
  ASSUME TypeOK, NEW m \in Mains, MainStep(m)
  PROVE  TypeOK'
<1> USE DEF At
<1>0. m \in Procs /\ NoToken \in Tokens  BY DEF Procs, NoToken, Tokens
<1>1. CASE StartClaimNext(m)
  <2> PICK r \in {Role[t] : t \in Tasks} :
        Becomes(m, [IdleCall EXCEPT !.op = "claimNext", !.pc = "row",
                                    !.todo = {t \in Tasks : Role[t] = r /\ queue[t] = "queued"}])
    BY <1>1 DEF StartClaimNext
  <2> DEFINE rows == {t \in Tasks : Role[t] = r /\ queue[t] = "queued"}
             c == [IdleCall EXCEPT !.op = "claimNext", !.pc = "row", !.todo = rows]
  <2>1. rows \in SUBSET Tasks  OBVIOUS
  <2>2. c \in Call
    <3> HIDE DEF rows
    <3> QED  BY <2>1, FreshCall, Literals
  <2>3. Becomes(m, c)  OBVIOUS
  <2>4. UNCHANGED <<task, queue, run, retrying, inspections, minted, aborted>>
    BY <1>1 DEF StartClaimNext
  <2> HIDE DEF c
  <2> QED  BY <1>0, <2>2, <2>3, <2>4, BecomesOnly DEF TypeOK
<1>2. CASE ClaimRow(m)
  <2>1. CASE End(m, TRUE) /\ UNCHANGED <<task, queue, inspections, minted, aborted>>
    BY <1>0, <2>1, EndOnly DEF TypeOK
  <2>2. ASSUME NEW t \in call[m].todo,
               Becomes(m, [call[m] EXCEPT !.pc = "complete", !.to = task[t].status,
                                          !.cur = t, !.todo = @ \ {t}]),
               UNCHANGED <<task, queue, run, retrying, inspections, minted, aborted>>
        PROVE  TypeOK'
    <3> DEFINE c == [call[m] EXCEPT !.pc = "complete", !.to = task[t].status,
                                    !.cur = t, !.todo = @ \ {t}]
    <3>1. t \in Tasks  BY <1>0, CallFields
    <3>2. task[t].status \in TaskStatuses  BY <3>1 DEF TypeOK, Row
    <3>3. c \in Call  BY <1>0, <3>1, <3>2, CallFields, CallUpdate, Literals
    <3>4. Becomes(m, c)  BY <2>2
    <3> HIDE DEF c
    <3> QED  BY <1>0, <2>2, <3>3, <3>4, BecomesOnly DEF TypeOK
  <2>3. ASSUME NEW t \in call[m].todo, minted < MaxTokens, minted' = minted + 1,
               Becomes(m, [call[m] EXCEPT !.pc = "read", !.token = minted + 1,
                                          !.cur = t, !.todo = @ \ {t}]),
               UNCHANGED <<task, queue, run, retrying, inspections, aborted>>
        PROVE  TypeOK'
    <3> DEFINE c == [call[m] EXCEPT !.pc = "read", !.token = minted + 1,
                                    !.cur = t, !.todo = @ \ {t}]
    <3>1. t \in Tasks  BY <1>0, CallFields
    <3>2. minted + 1 \in Tokens  BY <2>3 DEF TypeOK, Tokens
    <3>3. c \in Call  BY <1>0, <3>1, <3>2, CallFields, CallUpdate, Literals
    <3>4. Becomes(m, c)  BY <2>3
    <3> HIDE DEF c
    <3> QED  BY <1>0, <2>3, <3>2, <3>3, <3>4, BecomesOnly
  <2> QED  BY <1>2, <2>1, <2>2, <2>3 DEF ClaimRow
<1>3. CASE MarkRunning(m)
  <2> DEFINE c == [call[m] EXCEPT !.pc = "reread"]
  <2>1. c \in Call  BY <1>0, CallFields, CallUpdate, Literals
  <2>2. Becomes(m, c)  BY <1>3 DEF MarkRunning, Goto
  <2>3. queue' \in [Tasks -> QueueStatuses]
    BY <1>3 DEF MarkRunning, TypeOK, QueueStatuses
  <2>4. UNCHANGED <<task, run, retrying, inspections, minted, aborted>>
    BY <1>3 DEF MarkRunning
  <2> HIDE DEF c
  <2> QED  BY <1>0, <2>1, <2>2, <2>3, <2>4, BecomesType DEF TypeOK
<1>4. CASE StartWorker(m)
  <2> DEFINE t == call[m].cur
  <2>1. t \in Tasks /\ task[t].token \in Tokens
    BY <1>0, CallFields, RowFields
  <2>2. run' \in [Workers -> Run]
    <3>1. [pc |-> "started", task |-> t, token |-> task[t].token, cancelled |-> FALSE] \in Run
      <4> HIDE DEF t
      <4> QED  BY <2>1 DEF Run, RunPcs
    <3> HIDE DEF t
    <3> QED  BY <1>4, <3>1 DEF StartWorker, TypeOK, t
  <2>3. Becomes(m, IdleCall) /\ UNCHANGED <<task, queue, retrying, inspections, minted, aborted>>
    BY <1>4 DEF StartWorker
  <2> QED  BY <1>0, <2>2, <2>3, BecomesType, IdleCallType DEF TypeOK
<1>5. ASSUME NEW t \in Tasks, StartEnqueue(m, t)  PROVE TypeOK'
  <2>1. call' \in [Procs -> Call]
    BY <1>0, <1>5, BeginType, Literals DEF StartEnqueue
  <2> QED  BY <1>5, <2>1 DEF StartEnqueue, TypeOK
<1>6. ASSUME NEW t \in Tasks, StartCancel(m, t)  PROVE TypeOK'
  <2>1. call' \in [Procs -> Call]
    BY <1>0, <1>6, BeginType, Literals DEF StartCancel
  <2>2. run' \in [Workers -> Run]
    BY <1>6, RunUpdate DEF StartCancel, TypeOK
  <2> QED  BY <1>6, <2>1, <2>2 DEF StartCancel, TypeOK
<1>7. ASSUME NEW t \in Tasks, StartRecover(m, t)  PROVE TypeOK'
  <2> DEFINE c == [IdleCall EXCEPT !.op = "finish", !.pc = "read", !.task = t,
                                   !.cur = t, !.result = task[t].result]
  <2>1. c \in Call  BY FreshCall, RowFields, Literals DEF TypeOK
  <2>2. \/ Becomes(m, c)
        \/ \E op \in Ops : Begin(m, op, "read", t, NoToken)
    BY <1>7, Literals DEF StartRecover
  <2> HIDE DEF c
  <2>3. call' \in [Procs -> Call]
    BY <1>0, <2>1, <2>2, BecomesType, BeginType, Literals DEF TypeOK
  <2> QED  BY <1>7, <2>3 DEF StartRecover, TypeOK
<1>8. ASSUME NEW t \in Tasks, StartBlock(m, t)  PROVE TypeOK'
  <2> DEFINE c == [IdleCall EXCEPT !.op = "block", !.pc = "transition", !.task = t,
                                   !.cur = t, !.to = "blocked"]
  <2>1. c \in Call  BY FreshCall, Literals
  <2>2. Becomes(m, c) /\ UNCHANGED <<task, queue, run, retrying, inspections, minted, aborted>>
    BY <1>8 DEF StartBlock
  <2> HIDE DEF c
  <2> QED  BY <1>0, <2>1, <2>2, BecomesOnly DEF TypeOK
<1> QED  BY <1>1, <1>2, <1>3, <1>4, <1>5, <1>6, <1>7, <1>8 DEF MainStep

\* Each step of a worker keeps the types.
LEMMA WorkerType ==
  ASSUME TypeOK, NEW w \in Workers, WorkerStep(w)
  PROVE  TypeOK'
<1>0. /\ w \in Procs /\ run[w] \in Run
      /\ run[w].task \in Tasks /\ run[w].token \in Tokens
  BY DEF Procs, TypeOK, Run
<1>1. CASE WorkerClaim(w)
  <2>1. call' \in [Procs -> Call] /\ minted' \in Tokens
    <3>1. CASE run[w].token # NoToken
      <4>1. Begin(w, "claim", "read", run[w].task, run[w].token) /\ UNCHANGED minted
        BY <1>1, <3>1 DEF WorkerClaim
      <4> QED  BY <1>0, <4>1, BeginType, Literals DEF TypeOK
    <3>2. CASE run[w].token = NoToken
      <4>1. /\ Begin(w, "claim", "read", run[w].task, minted + 1)
            /\ minted < MaxTokens /\ minted' = minted + 1
        BY <1>1, <3>2 DEF WorkerClaim
      <4>2. minted + 1 \in Tokens  BY <4>1 DEF TypeOK, Tokens
      <4> QED  BY <1>0, <4>1, <4>2, BeginType, Literals
    <3> QED  BY <3>1, <3>2
  <2> QED  BY <1>1, <2>1 DEF WorkerClaim, TypeOK
<1>2. CASE WorkerFinish(w)
  <2>1. call' \in [Procs -> Call]
    BY <1>0, <1>2, BeginType, Literals DEF WorkerFinish
  <2> QED  BY <1>2, <2>1 DEF WorkerFinish, TypeOK
<1>3. CASE WorkThrows(w)
  <2>1. run' \in [Workers -> Run]
    BY <1>0, <1>3, RunUpdate, Literals DEF WorkThrows, TypeOK
  <2> QED  BY <1>3, <2>1 DEF WorkThrows, TypeOK
<1>4. CASE WorkerCatch(w)
  <2>1. call' \in [Procs -> Call]
    BY <1>0, <1>4, BeginType, Literals DEF WorkerCatch
  <2> QED  BY <1>4, <2>1 DEF WorkerCatch, TypeOK
<1>5. CASE WorkerFinally(w)
  <2>1. call' \in [Procs -> Call]
    BY <1>0, <1>5, BeginType, Literals DEF WorkerFinally, TypeOK
  <2>2. run' \in [Workers -> Run]
    BY <1>0, <1>5, IdleCallType, RunUpdate, Literals DEF WorkerFinally, TypeOK
  <2> QED  BY <1>5, <2>1, <2>2 DEF WorkerFinally, TypeOK
<1> QED  BY <1>1, <1>2, <1>3, <1>4, <1>5 DEF WorkerStep

\* Every step keeps the types.
LEMMA NextType ==
  ASSUME TypeOK, [Next]_vars
  PROVE  TypeOK'
<1>1. ASSUME NEW p \in Procs, Crash(p)  PROVE TypeOK'
  <2>1. Becomes(p, IdleCall)  BY <1>1 DEF Crash
  <2>2. call' \in [Procs -> Call]  BY <2>1, IdleCallType, BecomesType DEF TypeOK
  <2>3. Unreleased(p) \subseteq Tasks  BY DEF Unreleased, Dependents
  <2>4. run' \in [Workers -> Run]  BY <1>1, IdleCallType DEF Crash, TypeOK
  <2> QED  BY <1>1, <2>2, <2>3, <2>4 DEF Crash, TypeOK
<1>2. ASSUME NEW i \in Inspectors, NEW t \in Tasks, StartVerdict(i, t)  PROVE TypeOK'
  <2>1. i \in Procs /\ NoToken \in Tokens  BY DEF Procs, NoToken, Tokens
  <2>2. call' \in [Procs -> Call]
    BY <1>2, <2>1, BeginType, Literals DEF StartVerdict
  <2> QED  BY <1>2, <2>2 DEF StartVerdict, TypeOK, Inspection
<1>3. CASE UNCHANGED vars
  BY <1>3 DEF vars, TypeOK
<1> QED  BY <1>1, <1>2, <1>3, StatementType, MainType, WorkerType DEF Next

\* Every variable stays in its type, for any number of tasks and processes.
THEOREM TypeCorrect == Spec => []TypeOK
<1>1. Init => TypeOK
  BY IdleCallType DEF Init, TypeOK, QueueStatuses, Inspection, Tokens
<1>2. TypeOK /\ [Next]_vars => TypeOK'
  BY NextType
<1> QED  BY <1>1, <1>2, PTL DEF Spec

-----------------------------------------------------------------------------
(* The inductive invariant.                                                  *)

\* The parts of the invariant that only depend on the tasks.
RowsOK == LeaseMatchesStatus /\ DeadLetterIffExhausted /\ StartedAfterDependencies

\* A step that leaves the tasks alone keeps the invariant when the call it
\* changes and the runs satisfy it.
LEMMA KeepRows ==
  ASSUME IInv, TypeOK', UNCHANGED task, NEW p \in Procs, NEW c \in Call, Becomes(p, c),
         CallOK(c), RunsOK'
  PROVE  IInv'
<1>1. \A t \in Tasks : DependenciesDone(t)' <=> DependenciesDone(t)
  BY DEF DependenciesDone
<1>2. RowsOK'
  BY <1>1 DEF IInv, RowsOK, LeaseMatchesStatus, DeadLetterIffExhausted,
              StartedAfterDependencies
<1>3. ASSUME NEW q \in Procs  PROVE CallOK(call[q])'
  <2>1. call'[q] = IF q = p THEN c ELSE call[q]
    BY DEF Becomes, IInv, TypeOK
  <2>2. CallOK(call'[q]) /\ call'[q].cur \in Tasks
    BY <2>1 DEF IInv, TypeOK, Call
  <2> QED  BY <1>1, <2>2 DEF CallOK, SnapshotOK, TargetOK, GateOK
<1> QED  BY <1>2, <1>3 DEF IInv, RowsOK

\* The idle call satisfies the invariant.
LEMMA IdleCallOK == CallOK(IdleCall)
BY DEF IdleCall, CallOK, SnapshotOK, TargetOK, GateOK

\* Ending a call leaves every live run with its task.
LEMMA EndRuns ==
  ASSUME TypeOK, NEW p \in Procs, NEW ok, End(p, ok), NEW w \in Workers, run'[w].pc # "off"
  PROVE  run[w].pc # "off" /\ run'[w].task = run[w].task
BY DEF End, TypeOK, NoRun, Run, AfterCall

\* Ending a call without touching the tasks keeps the invariant.
LEMMA KeepEnd ==
  ASSUME IInv, TypeOK', UNCHANGED task, NEW p \in Procs, NEW ok, End(p, ok)
  PROVE  IInv'
<1>1. RunsOK'
  BY EndRuns DEF IInv, RunsOK, DependenciesDone
<1>2. Becomes(p, IdleCall)
  BY DEF End
<1> QED  BY <1>1, <1>2, IdleCallType, IdleCallOK, KeepRows

\* Steps that leave the runs alone too.
LEMMA KeepBecomes ==
  ASSUME IInv, TypeOK', UNCHANGED <<task, run>>, NEW p \in Procs, NEW c \in Call,
         Becomes(p, c), CallOK(c)
  PROVE  IInv'
<1>1. RunsOK'
  BY DEF IInv, RunsOK, DependenciesDone
<1> QED  BY <1>1, KeepRows

\* An exception keeps the invariant.
LEMMA KeepThrow ==
  ASSUME IInv, TypeOK', NEW p \in Procs, Throw(p)
  PROVE  IInv'
<1>0. TypeOK /\ UNCHANGED task  BY DEF IInv, Throw
<1>1. CASE call[p].op = "claimNext"
  <2> DEFINE c == [call[p] EXCEPT !.pc = "complete", !.to = task[call[p].cur].status]
  <2>1. c \in Call
    <3>1. task[call[p].cur].status \in TaskStatuses
      BY <1>0, CallFields, RowFields
    <3> QED  BY <1>0, <3>1, CallFields, CallUpdate, Literals
  <2>2. CallOK(c)
    <3>1. c.pc = "complete"  BY <1>0, CallFields DEF Call
    <3> QED  BY <3>1 DEF CallOK, SnapshotOK, TargetOK, GateOK
  <2>3. Becomes(p, c) /\ UNCHANGED run  BY <1>1 DEF Throw
  <2> HIDE DEF c
  <2> QED  BY <1>0, <2>1, <2>2, <2>3, KeepBecomes
<1>2. CASE call[p].op # "claimNext"
  BY <1>0, <1>2, KeepEnd DEF Throw
<1> QED  BY <1>1, <1>2

\* A call in a state that no part of the invariant constrains satisfies it.
LEMMA FreeCall ==
  ASSUME NEW c, c.pc \in {"idle", "check", "upsert", "complete", "dependents", "release"}
  PROVE  CallOK(c)
BY DEF CallOK, SnapshotOK, TargetOK, GateOK

\* Neither is a claimNextQueuedTask between two rows.
LEMMA RowCall ==
  ASSUME NEW c, c.pc = "row", c.op = "claimNext"
  PROVE  CallOK(c)
BY DEF CallOK, SnapshotOK, TargetOK, GateOK, FailOps

\* The row a transition overwrites has the status of its snapshot, so what is
\* done, cancelled or dead-lettered stays so.
LEMMA FinalStays ==
  ASSUME IInv, NEW p \in Procs, UpdateTask(p), CasHolds(call[p]),
         NEW t \in Tasks, task[t].status \in FinalStatuses
  PROVE  task'[t].status = task[t].status
<1> DEFINE c == call[p]
<1>0. TypeOK  BY DEF IInv
<1>1. At(p, "update") /\ task' = [task EXCEPT ![c.cur] = WrittenRow(c, p \in Workers)]
  BY DEF UpdateTask
<1>2. CASE t # c.cur
  BY <1>0, <1>1, <1>2 DEF TypeOK
<1>3. CASE t = c.cur
  <2>1. Allowed(c.row.status, c.to) /\ c.row.status = task[t].status
    BY <1>1, <1>3 DEF IInv, CallOK, SnapshotOK, At, CasHolds
  <2>2. c.to = task[t].status
    BY <2>1 DEF Allowed, ALLOWED_TRANSITIONS, FinalStatuses, TaskStatuses
  <2>3. task'[t].status = c.to
    BY <1>0, <1>1, <1>3 DEF TypeOK, WrittenRow
  <2> QED  BY <2>2, <2>3
<1> QED  BY <1>2, <1>3

\* A write of the task table keeps the invariant of the rows.
LEMMA UpdateRows ==
  ASSUME IInv, NEW p \in Procs, UpdateTask(p), CasHolds(call[p])
  PROVE  RowsOK'
<1> DEFINE c == call[p]
           new == WrittenRow(c, p \in Workers)
<1>0. TypeOK /\ CallOK(c) /\ c.pc = "update" /\ c.cur \in Tasks /\ c.to \in TaskStatuses
  BY CallFields DEF IInv, UpdateTask, At
<1>1. /\ task'[c.cur] = new
      /\ \A t \in Tasks : t # c.cur => task'[t] = task[t]
  BY <1>0 DEF UpdateTask, TypeOK
<1>2. task[c.cur].status = c.row.status /\ Allowed(c.row.status, c.to)
  BY <1>0 DEF CasHolds, CallOK, SnapshotOK
<1>3. new.status = c.to
  BY DEF WrittenRow
<1>4. LeaseMatchesStatus'
  <2>1. c.to = "running" => new.token # NoToken
    <3>1. c.to = "running" => c.token # NoToken
      BY <1>0 DEF CallOK, TargetOK
    <3> QED  BY <3>1 DEF WrittenRow, TERMINAL_STATUSES
  <2>2. c.to \in TERMINAL_STATUSES => new.token = NoToken
    BY DEF WrittenRow
  <2> HIDE DEF new, c
  <2> QED  BY <1>0, <1>1, <1>3, <2>1, <2>2 DEF IInv, LeaseMatchesStatus
<1>5. DeadLetterIffExhausted'
  <2>1. (new.retry > MaxRetries[c.cur]) <=> (c.to = "dead_letter")
    <3>1. CASE c.op \in FailOps /\ c.to # "queued"
      BY <1>0, <3>1 DEF WrittenRow, CallOK, TargetOK
    <3>2. CASE ~(c.op \in FailOps /\ c.to # "queued")
      <4>1. c.to # "dead_letter"
        BY <1>0, <3>2 DEF CallOK, TargetOK
      <4>2. c.row.status # "dead_letter"
        BY <1>2, <4>1 DEF Allowed, ALLOWED_TRANSITIONS, TaskStatuses
      <4>3. new.retry = c.row.retry
        BY <3>2 DEF WrittenRow
      <4> HIDE DEF new
      <4> QED  BY <1>0, <4>1, <4>2, <4>3 DEF CallOK, SnapshotOK
    <3> QED  BY <3>1, <3>2
  <2> HIDE DEF new, c
  <2> QED  BY <1>0, <1>1, <1>3, <2>1 DEF IInv, DeadLetterIffExhausted
<1>6. StartedAfterDependencies'
  <2>1. \A t \in Tasks : DependenciesDone(t) => DependenciesDone(t)'
    <3>1. \A d \in Tasks : task[d].status = "done" => task'[d].status = "done"
      BY FinalStays DEF FinalStatuses
    <3> QED  BY <3>1 DEF DependenciesDone
  <2>2. c.to \in StartedStatuses => DependenciesDone(c.cur)
    <3>1. CASE c.to = "queued"
      BY <1>0, <3>1 DEF CallOK, GateOK
    <3>2. CASE c.to = "running"
      BY <1>0, <3>2 DEF CallOK, GateOK
    <3>3. CASE c.to \in {"needs_inspection", "done", "failed"}
      <4>1. c.row.status \in StartedStatuses
        BY <1>0, <1>2, <3>3, CallFields, RowFields
           DEF Allowed, ALLOWED_TRANSITIONS, TaskStatuses, StartedStatuses
      <4> QED  BY <1>0, <1>2, <4>1 DEF IInv, StartedAfterDependencies
    <3> QED  BY <3>1, <3>2, <3>3 DEF StartedStatuses
  <2> HIDE DEF new, c
  <2> QED  BY <1>0, <1>1, <1>3, <2>1, <2>2 DEF IInv, StartedAfterDependencies
<1> QED  BY <1>4, <1>5, <1>6 DEF RowsOK

\* A write of the task table keeps the invariant.
LEMMA KeepUpdate ==
  ASSUME IInv, TypeOK', NEW p \in Procs, UpdateTask(p), CasHolds(call[p])
  PROVE  IInv'
<1> DEFINE c == call[p]
           d == [IdleCall EXCEPT !.op = c.op, !.pc = AfterUpdate(c), !.task = c.task,
                                 !.cur = c.cur, !.to = c.to, !.todo = c.todo]
<1>0. TypeOK  BY DEF IInv
<1>1. \A t \in Tasks : DependenciesDone(t) => DependenciesDone(t)'
  <2>1. \A x \in Tasks : task[x].status = "done" => task'[x].status = "done"
    BY FinalStays DEF FinalStatuses
  <2> QED  BY <2>1 DEF DependenciesDone
<1>2. \/ End(p, TRUE)
      \/ Becomes(p, d) /\ UNCHANGED run
  BY DEF UpdateTask
<1>3. RunsOK'
  <2>1. \A w \in Workers : run'[w].pc # "off" => /\ run[w].pc # "off"
                                                 /\ run'[w].task = run[w].task
    <3> HIDE DEF d
    <3> QED  BY <1>0, <1>2, EndRuns
  <2>2. \A w \in Workers : run[w].task \in Tasks
    BY <1>0 DEF TypeOK, Run
  <2> QED  BY <1>1, <2>1, <2>2 DEF IInv, RunsOK
<1>4. ASSUME NEW q \in Procs  PROVE CallOK(call[q])'
  <2>1. CASE q # p
    <3>1. call'[q] = call[q]
      <4> HIDE DEF d
      <4> QED  BY <1>0, <1>2, <2>1 DEF End, Becomes, TypeOK
    <3>2. CallOK(call[q]) /\ call[q].cur \in Tasks
      BY <1>0, CallFields DEF IInv
    <3> QED  BY <1>1, <3>1, <3>2 DEF CallOK, SnapshotOK, TargetOK, GateOK
  <2>2. CASE q = p /\ End(p, TRUE)
    <3>1. call'[q] = IdleCall
      BY <1>0, <2>2 DEF End, Becomes, TypeOK
    <3> QED  BY <3>1 DEF IdleCall, CallOK, SnapshotOK, TargetOK, GateOK
  <2>3. CASE q = p /\ Becomes(p, d)
    <3>1. d.pc = AfterUpdate(c) /\ d.cur = c.cur
      BY DEF IdleCall
    <3>2. call'[q] = d
      <4> HIDE DEF d
      <4> QED  BY <1>0, <2>3 DEF Becomes, TypeOK
    <3>3. d.pc \in {"idle", "upsert", "markRunning", "complete"}
      BY <3>1 DEF AfterUpdate
    <3>4. d.pc = "markRunning" => DependenciesDone(c.cur)
      <4>1. c.pc = "update" /\ GateOK(c)
        BY DEF UpdateTask, At, IInv, CallOK
      <4>2. AfterUpdate(c) = "markRunning" => c.op = "claimNext"
        BY DEF AfterUpdate
      <4> HIDE DEF c, d
      <4> QED  BY <3>1, <4>1, <4>2 DEF GateOK
    <3>5. d.pc = "markRunning" => \A x \in SuccessDeps[d.cur] : task'[x].status = "done"
      <4>1. c.cur \in Tasks  BY <1>0, CallFields
      <4> HIDE DEF c, d
      <4> QED  BY <1>1, <3>1, <3>4, <4>1 DEF DependenciesDone
    <3> HIDE DEF d
    <3> QED
      BY <3>2, <3>3, <3>5 DEF CallOK, SnapshotOK, TargetOK, GateOK, DependenciesDone
  <2> QED  BY <1>2, <2>1, <2>2, <2>3
<1> QED  BY <1>3, <1>4, UpdateRows DEF IInv, RowsOK

\* Each statement of a store method keeps the invariant.
LEMMA StatementKeeps ==
  ASSUME IInv, TypeOK', NEW p \in Procs, Statement(p)
  PROVE  IInv'
<1>0. TypeOK /\ CallOK(call[p])  BY DEF IInv
<1>1. CASE ReadTask(p)
  <2> DEFINE row == task[call[p].cur]
  <2>0. row \in Row /\ call[p].pc = "read"
    BY <1>0, <1>1, CallFields DEF ReadTask, At
  <2>1. CASE ReadReturns(p, row)
    <3>1. End(p, TRUE) /\ UNCHANGED task
      BY <1>1, <2>1 DEF ReadTask
    <3> QED  BY <3>1, KeepEnd
  <2>2. CASE ~ReadReturns(p, row) /\ ReadRefused(p, row)
    <3>1. Throw(p)  BY <1>1, <2>2 DEF ReadTask
    <3> QED  BY <3>1, KeepThrow
  <2>3. CASE ~ReadReturns(p, row) /\ ~ReadRefused(p, row)
    <3> DEFINE to == Target(p, row)
               retry == PatchedRetry(p, row)
               c == [call[p] EXCEPT !.pc = "transition", !.to = to,
                                    !.expect = ExpectedLease(p, row),
                                    !.retry = retry,
                                    !.result = PatchedResult(p, row)]
    <3>1. Becomes(p, c) /\ UNCHANGED <<task, run>>
      BY <1>1, <2>3 DEF ReadTask
    <3>2. c \in Call
      <4> HIDE DEF row
      <4> QED  BY <1>0, <2>0, ReadType, CallFields, CallUpdate, Literals
    <3>3. /\ c.pc = "transition" /\ c.op = call[p].op /\ c.to = to /\ c.retry = retry
          /\ c.task = call[p].task /\ c.cur = call[p].cur /\ c.token = call[p].token
      <4> HIDE DEF row, to, retry
      <4> QED  BY <1>0, CallFields DEF Call
    <3>4. /\ to # "queued"
          /\ to = "running" => c.op \in {"claim", "claimNext"}
          /\ c.op \notin FailOps => to # "dead_letter"
      <4> HIDE DEF row, c
      <4> QED  BY <3>3 DEF Target, FailOps
    <3>5. c.op \in FailOps => ((to = "dead_letter") <=> (retry > MaxRetries[c.task]))
      <4> HIDE DEF row, c
      <4> QED  BY <3>3 DEF Target, PatchedRetry, FailOps
    <3>6. CallOK(c)
      <4> HIDE DEF row, to, retry, c
      <4>1. SnapshotOK(c)  BY <3>3 DEF SnapshotOK
      <4>2. TargetOK(c)
        BY <1>0, <2>0, <3>3, <3>4, <3>5 DEF CallOK, TargetOK
      <4>3. GateOK(c)
        BY <1>0, <2>0, <3>3, <3>4 DEF CallOK, GateOK
      <4> QED  BY <4>1, <4>2, <4>3 DEF CallOK
    <3> HIDE DEF c
    <3> QED  BY <3>1, <3>2, <3>6, KeepBecomes
  <2> QED  BY <2>1, <2>2, <2>3
<1>2. CASE CheckDependencies(p)
  <2> DEFINE c == [call[p] EXCEPT !.pc = "transition", !.to = "queued"]
  <2>1. CASE DependenciesSatisfied(call[p].cur)
    <3>1. Becomes(p, c) /\ UNCHANGED <<task, run>>
      BY <1>2, <2>1 DEF CheckDependencies
    <3>2. c \in Call
      BY <1>0, CallFields, CallUpdate, Literals
    <3>3. /\ c.pc = "transition" /\ c.to = "queued" /\ c.cur = call[p].cur
          /\ c.op = call[p].op /\ call[p].pc = "check"
      BY <1>0, <1>2, CallFields DEF Call, CheckDependencies, At
    <3>4. DependenciesDone(c.cur)
      BY <2>1, <3>3 DEF DependenciesSatisfied, DependenciesDone
    <3>5. c.op \in {"claim", "claimNext"} => DependenciesDone(c.cur)
      BY <3>4
    <3> HIDE DEF c
    <3>6. CallOK(c)
      BY <3>3, <3>4 DEF CallOK, SnapshotOK, TargetOK, GateOK
    <3> QED  BY <3>1, <3>2, <3>6, KeepBecomes
  <2>2. CASE ~DependenciesSatisfied(call[p].cur)
    <3>1. End(p, TRUE) /\ UNCHANGED task
      BY <1>2, <2>2 DEF CheckDependencies
    <3> QED  BY <3>1, KeepEnd
  <2> QED  BY <2>1, <2>2
<1>3. CASE ReadTransition(p)
  <2> DEFINE row == task[call[p].cur]
             c == [call[p] EXCEPT !.pc = "update", !.row = row]
  <2>0. row \in Row /\ call[p].cur \in Tasks /\ call[p].pc = "transition"
    BY <1>0, <1>3, CallFields DEF ReadTransition, At
  <2>1. CASE Allowed(row.status, call[p].to)
    <3>1. Becomes(p, c) /\ UNCHANGED <<task, run>>
      BY <1>3, <2>1 DEF ReadTransition
    <3>2. c \in Call
      BY <1>0, CallFields, CallUpdate, Literals
    <3>3. /\ c.pc = "update" /\ c.row = row /\ c.op = call[p].op /\ c.to = call[p].to
          /\ c.retry = call[p].retry /\ c.token = call[p].token
          /\ c.task = call[p].task /\ c.cur = call[p].cur
      <4> HIDE DEF row
      <4> QED  BY <1>0, CallFields DEF Call
    <3>4. SnapshotOK(c)
      <4>1. (row.retry > MaxRetries[c.cur]) <=> (row.status = "dead_letter")
        BY <2>0, <3>3 DEF IInv, DeadLetterIffExhausted
      <4> HIDE DEF row, c
      <4> QED  BY <2>1, <3>3, <4>1 DEF SnapshotOK
    <3> HIDE DEF row, c
    <3>5. TargetOK(c)
      BY <1>0, <2>0, <3>3 DEF CallOK, TargetOK
    <3>6. GateOK(c)
      BY <1>0, <2>0, <3>3 DEF CallOK, GateOK
    <3> QED  BY <3>1, <3>2, <3>4, <3>5, <3>6, KeepBecomes DEF CallOK
  <2>2. CASE ~Allowed(row.status, call[p].to)
    <3>1. Throw(p)  BY <1>3, <2>2 DEF ReadTransition
    <3> QED  BY <3>1, KeepThrow
  <2> QED  BY <2>1, <2>2
<1>4. CASE UpdateTask(p)
  <2>1. CASE CasHolds(call[p])
    BY <1>4, <2>1, KeepUpdate
  <2>2. CASE ~CasHolds(call[p])
    <3>1. Throw(p)  BY <1>4, <2>2 DEF UpdateTask
    <3> QED  BY <3>1, KeepThrow
  <2> QED  BY <2>1, <2>2
<1>5. CASE UpsertQueue(p)
  <2> DEFINE c == [call[p] EXCEPT !.pc = "release"]
  <2>1. c \in Call
    BY <1>0, CallFields, CallUpdate, Literals
  <2>2. CallOK(c)
    <3>1. c.pc = "release"  BY <1>0, CallFields DEF Call
    <3> HIDE DEF c
    <3> QED  BY <3>1, FreeCall
  <2>3. UNCHANGED task /\ (End(p, TRUE) \/ (Becomes(p, c) /\ UNCHANGED run))
    BY <1>5 DEF UpsertQueue, Goto
  <2> HIDE DEF c
  <2> QED  BY <2>1, <2>2, <2>3, KeepEnd, KeepBecomes
<1>6. CASE CompleteQueueItem(p)
  <2> DEFINE c == [call[p] EXCEPT !.pc = "row"]
             d == [call[p] EXCEPT !.pc = "dependents"]
  <2>1. c \in Call /\ d \in Call
    BY <1>0, CallFields, CallUpdate, Literals
  <2>2. (call[p].op = "claimNext" => CallOK(c)) /\ CallOK(d)
    <3>1. c.pc = "row" /\ c.op = call[p].op /\ d.pc = "dependents"
      BY <1>0, CallFields DEF Call
    <3> HIDE DEF c, d
    <3> QED  BY <3>1, FreeCall, RowCall
  <2>3. /\ UNCHANGED task
        /\ \/ End(p, TRUE)
           \/ Becomes(p, c) /\ call[p].op = "claimNext" /\ UNCHANGED run
           \/ Becomes(p, d) /\ UNCHANGED run
    BY <1>6 DEF CompleteQueueItem, Goto
  <2> HIDE DEF c, d
  <2> QED  BY <2>1, <2>2, <2>3, KeepEnd, KeepBecomes
<1>7. CASE ReadDependents(p)
  <2> DEFINE todo == {x \in Dependents(call[p].task) : task[x].status \in {"pending", "blocked"}}
             c == [call[p] EXCEPT !.pc = "release", !.todo = todo]
  <2>1. todo \in SUBSET Tasks  BY DEF Dependents
  <2>2. c \in Call
    <3> HIDE DEF todo
    <3> QED  BY <1>0, <2>1, CallFields, CallUpdate, Literals
  <2>4. c.pc = "release"
    <3> HIDE DEF todo
    <3> QED  BY <1>0, CallFields DEF Call
  <2>3. Becomes(p, c) /\ UNCHANGED <<task, run>>
    BY <1>7 DEF ReadDependents
  <2> HIDE DEF c
  <2> QED  BY <2>2, <2>3, <2>4, FreeCall, KeepBecomes
<1>8. CASE ReleaseDependent(p)
  <2>1. CASE End(p, TRUE) /\ UNCHANGED task
    BY <2>1, KeepEnd
  <2>2. ASSUME NEW x \in call[p].todo, UNCHANGED <<task, run>>, call[p].pc = "release",
               IF DependenciesSatisfied(x)
               THEN Becomes(p, [call[p] EXCEPT !.pc = "transition", !.to = "queued",
                                               !.cur = x, !.todo = @ \ {x}])
               ELSE Becomes(p, [call[p] EXCEPT !.todo = @ \ {x}])
        PROVE  IInv'
    <3> DEFINE c == [call[p] EXCEPT !.pc = "transition", !.to = "queued",
                                    !.cur = x, !.todo = @ \ {x}]
               d == [call[p] EXCEPT !.todo = @ \ {x}]
    <3>1. x \in Tasks  BY <1>0, CallFields
    <3>2. c \in Call /\ d \in Call
      BY <1>0, <3>1, CallFields, CallUpdate, Literals
    <3>3. c.pc = "transition" /\ c.to = "queued" /\ c.cur = x /\ d.pc = "release"
      BY <1>0, <2>2, CallFields DEF Call
    <3>4. \/ Becomes(p, c) /\ DependenciesDone(x)
          \/ Becomes(p, d)
      BY <2>2 DEF DependenciesSatisfied, DependenciesDone
    <3> HIDE DEF c, d
    <3>5. CallOK(d)
      BY <3>3, FreeCall
    <3>6. DependenciesDone(x) => CallOK(c)
      BY <3>3 DEF CallOK, SnapshotOK, TargetOK, GateOK
    <3> QED  BY <2>2, <3>2, <3>4, <3>5, <3>6, KeepBecomes
  <2> QED  BY <1>8, <2>1, <2>2 DEF ReleaseDependent, At
<1> QED  BY <1>1, <1>2, <1>3, <1>4, <1>5, <1>6, <1>7, <1>8 DEF Statement

\* A method that begins with its first read satisfies the invariant.
LEMMA BeginOK ==
  ASSUME IInv, TypeOK', UNCHANGED task, NEW p \in Procs, NEW op \in Ops, NEW pc \in Pcs,
         NEW t \in Tasks, NEW token \in Tokens, Begin(p, op, pc, t, token),
         pc \in {"read", "check"},
         pc = "read" /\ op \in {"claim", "claimNext"} => token # NoToken /\ DependenciesDone(t),
         RunsOK'
  PROVE  IInv'
<1> DEFINE c == [IdleCall EXCEPT !.op = op, !.pc = pc, !.task = t, !.cur = t, !.token = token]
<1>1. c \in Call  BY FreshCall
<1>2. c.op = op /\ c.pc = pc /\ c.task = t /\ c.cur = t /\ c.token = token
  BY DEF IdleCall
<1>3. Becomes(p, c)  BY DEF Begin
<1> HIDE DEF c
<1>4. CallOK(c)
  BY <1>2 DEF CallOK, SnapshotOK, TargetOK, GateOK
<1> QED  BY <1>1, <1>3, <1>4, KeepRows

\* Each step of a main process keeps the invariant.
LEMMA MainKeeps ==
  ASSUME IInv, TypeOK', NEW m \in Mains, MainStep(m)
  PROVE  IInv'
<1>0. m \in Procs /\ TypeOK /\ NoToken \in Tokens
  BY DEF Procs, IInv, NoToken, Tokens
<1>a. UNCHANGED task /\ UNCHANGED run => RunsOK'
  BY DEF IInv, RunsOK, DependenciesDone
<1>1. CASE StartClaimNext(m)
  <2> PICK r \in {Role[t] : t \in Tasks} :
        Becomes(m, [IdleCall EXCEPT !.op = "claimNext", !.pc = "row",
                                    !.todo = {t \in Tasks : Role[t] = r /\ queue[t] = "queued"}])
    BY <1>1 DEF StartClaimNext
  <2> DEFINE rows == {t \in Tasks : Role[t] = r /\ queue[t] = "queued"}
             c == [IdleCall EXCEPT !.op = "claimNext", !.pc = "row", !.todo = rows]
  <2>1. rows \in SUBSET Tasks  OBVIOUS
  <2>2. c \in Call
    <3> HIDE DEF rows
    <3> QED  BY <2>1, FreshCall, Literals
  <2>3. c.pc = "row" /\ c.op = "claimNext"
    <3> HIDE DEF rows
    <3> QED  BY DEF IdleCall
  <2>4. Becomes(m, c) /\ UNCHANGED <<task, run>>
    BY <1>1 DEF StartClaimNext
  <2> HIDE DEF c
  <2> QED  BY <1>0, <2>2, <2>3, <2>4, RowCall, KeepBecomes
<1>2. CASE ClaimRow(m)
  <2>0. call[m].pc = "row"  BY <1>2 DEF ClaimRow, At
  <2>1. CASE End(m, TRUE) /\ UNCHANGED task
    BY <1>0, <2>1, KeepEnd
  <2>2. ASSUME NEW t \in call[m].todo, UNCHANGED <<task, run>>,
               Becomes(m, [call[m] EXCEPT !.pc = "complete", !.to = task[t].status,
                                          !.cur = t, !.todo = @ \ {t}])
        PROVE  IInv'
    <3> DEFINE c == [call[m] EXCEPT !.pc = "complete", !.to = task[t].status,
                                    !.cur = t, !.todo = @ \ {t}]
    <3>1. t \in Tasks  BY <1>0, CallFields
    <3>2. task[t].status \in TaskStatuses  BY <1>0, <3>1 DEF TypeOK, Row
    <3>3. c \in Call  BY <1>0, <3>1, <3>2, CallFields, CallUpdate, Literals
    <3>4. c.pc = "complete"  BY <1>0, CallFields DEF Call
    <3>5. Becomes(m, c)  BY <2>2
    <3> HIDE DEF c
    <3> QED  BY <1>0, <2>2, <3>3, <3>4, <3>5, FreeCall, KeepBecomes
  <2>3. ASSUME NEW t \in call[m].todo, task[t].status = "queued", minted < MaxTokens,
               UNCHANGED <<task, run>>,
               Becomes(m, [call[m] EXCEPT !.pc = "read", !.token = minted + 1,
                                          !.cur = t, !.todo = @ \ {t}])
        PROVE  IInv'
    <3> DEFINE token == minted + 1
               c == [call[m] EXCEPT !.pc = "read", !.token = token,
                                    !.cur = t, !.todo = @ \ {t}]
    <3>1. t \in Tasks  BY <1>0, CallFields
    <3>2. token \in Tokens /\ token # NoToken
      BY <1>0, <2>3 DEF TypeOK, Tokens, NoToken
    <3>3. Becomes(m, c)  BY <2>3
    <3> HIDE DEF token
    <3>4. c \in Call  BY <1>0, <3>1, <3>2, CallFields, CallUpdate, Literals
    <3>5. c.pc = "read" /\ c.cur = t /\ c.token = token /\ c.op = call[m].op
      BY <1>0, CallFields DEF Call
    <3>8. call[m].op = "claimNext"
      BY <1>0, <2>0 DEF IInv, CallOK, TargetOK
    <3>6. DependenciesDone(t)
      BY <2>3, <3>1 DEF IInv, StartedAfterDependencies, StartedStatuses
    <3> HIDE DEF c
    <3>7. CallOK(c)
      BY <3>2, <3>5, <3>6, <3>8 DEF CallOK, SnapshotOK, TargetOK, GateOK, FailOps
    <3> QED  BY <1>0, <2>3, <3>3, <3>4, <3>7, KeepBecomes
  <2> QED  BY <1>2, <2>1, <2>2, <2>3 DEF ClaimRow
<1>3. CASE MarkRunning(m)
  <2> DEFINE c == [call[m] EXCEPT !.pc = "reread"]
  <2>1. c \in Call  BY <1>0, CallFields, CallUpdate, Literals
  <2>2. c.pc = "reread" /\ c.cur = call[m].cur  BY <1>0, CallFields DEF Call
  <2>3. DependenciesDone(call[m].cur)
    BY <1>0, <1>3 DEF MarkRunning, At, IInv, CallOK, GateOK
  <2>4. Becomes(m, c) /\ UNCHANGED <<task, run>>  BY <1>3 DEF MarkRunning, Goto
  <2> HIDE DEF c
  <2>5. CallOK(c)
    BY <2>2, <2>3 DEF CallOK, SnapshotOK, TargetOK, GateOK
  <2> QED  BY <1>0, <2>1, <2>4, <2>5, KeepBecomes
<1>4. CASE StartWorker(m)
  <2>1. DependenciesDone(call[m].cur)
    BY <1>0, <1>4 DEF StartWorker, At, IInv, CallOK, GateOK
  <2>2. \A w \in Workers : \/ run'[w] = run[w]
                           \/ run'[w].task = call[m].cur
    BY <1>0, <1>4 DEF StartWorker, TypeOK
  <2>3. UNCHANGED task /\ Becomes(m, IdleCall)
    BY <1>4 DEF StartWorker
  <2>4. RunsOK'
    BY <2>1, <2>2, <2>3 DEF IInv, RunsOK, DependenciesDone
  <2> QED  BY <1>0, <2>3, <2>4, IdleCallType, IdleCallOK, KeepRows
<1>5. ASSUME NEW t \in Tasks, StartEnqueue(m, t)  PROVE IInv'
  <2>1. Begin(m, "enqueue", "check", t, NoToken) /\ UNCHANGED <<task, run>>
    BY <1>5 DEF StartEnqueue
  <2> QED  BY <1>0, <1>a, <2>1, BeginOK, Literals
<1>6. ASSUME NEW t \in Tasks, StartCancel(m, t)  PROVE IInv'
  <2>1. Begin(m, "cancel", "read", t, NoToken) /\ UNCHANGED task
    BY <1>6 DEF StartCancel
  <2>2. \A w \in Workers : run'[w].pc = run[w].pc /\ run'[w].task = run[w].task
    BY <1>0, <1>6 DEF StartCancel, TypeOK, Run
  <2>3. RunsOK'
    BY <2>1, <2>2 DEF IInv, RunsOK, DependenciesDone
  <2> QED  BY <1>0, <2>1, <2>3, BeginOK, Literals
<1>7. ASSUME NEW t \in Tasks, StartRecover(m, t)  PROVE IInv'
  <2> DEFINE c == [IdleCall EXCEPT !.op = "finish", !.pc = "read", !.task = t,
                                   !.cur = t, !.result = task[t].result]
  <2>1. c \in Call  BY <1>0, FreshCall, RowFields, Literals DEF TypeOK
  <2>2. c.op = "finish" /\ c.pc = "read" /\ c.task = t /\ c.cur = t
    BY DEF IdleCall
  <2>3. UNCHANGED <<task, run>>  BY <1>7 DEF StartRecover
  <2>4. \/ Becomes(m, c)
        \/ \E op \in {"recover", "fail", "inspect"} : Begin(m, op, "read", t, NoToken)
    BY <1>7 DEF StartRecover
  <2> HIDE DEF c
  <2>5. CallOK(c)
    BY <2>2 DEF CallOK, SnapshotOK, TargetOK, GateOK, FailOps
  <2>6. CASE Becomes(m, c)
    BY <1>0, <2>1, <2>3, <2>5, <2>6, KeepBecomes
  <2>7. CASE \E op \in {"recover", "fail", "inspect"} : Begin(m, op, "read", t, NoToken)
    BY <1>0, <1>a, <2>7, <2>3, BeginOK, Literals
  <2> QED  BY <2>4, <2>6, <2>7
<1>8. ASSUME NEW t \in Tasks, StartBlock(m, t)  PROVE IInv'
  <2> DEFINE c == [IdleCall EXCEPT !.op = "block", !.pc = "transition", !.task = t,
                                   !.cur = t, !.to = "blocked"]
  <2>1. c \in Call  BY FreshCall, Literals
  <2>2. Becomes(m, c) /\ UNCHANGED <<task, run>>
    BY <1>8 DEF StartBlock
  <2>3. c.pc = "transition" /\ c.op = "block" /\ c.to = "blocked"
    BY DEF IdleCall
  <2> HIDE DEF c
  <2>4. CallOK(c)
    BY <2>3 DEF CallOK, SnapshotOK, TargetOK, GateOK, FailOps
  <2> QED  BY <1>0, <2>1, <2>2, <2>4, KeepBecomes
<1> QED  BY <1>1, <1>2, <1>3, <1>4, <1>5, <1>6, <1>7, <1>8 DEF MainStep

\* Each step of a worker keeps the invariant.
LEMMA WorkerKeeps ==
  ASSUME IInv, TypeOK', NEW w \in Workers, WorkerStep(w)
  PROVE  IInv'
<1>0. /\ w \in Procs /\ TypeOK /\ run[w] \in Run
      /\ run[w].task \in Tasks /\ run[w].token \in Tokens
  BY DEF Procs, IInv, TypeOK, Run
<1>1. run[w].pc # "off" => DependenciesDone(run[w].task)
  BY DEF IInv, RunsOK
<1>a. UNCHANGED task /\ UNCHANGED run => RunsOK'
  BY DEF IInv, RunsOK, DependenciesDone
<1>2. CASE WorkerClaim(w)
  <2>1. UNCHANGED <<task, run>> /\ run[w].pc = "started"
    BY <1>2 DEF WorkerClaim
  <2>2. CASE run[w].token # NoToken
    <3>1. Begin(w, "claim", "read", run[w].task, run[w].token)
      BY <1>2, <2>2 DEF WorkerClaim
    <3> QED  BY <1>0, <1>1, <1>a, <2>1, <2>2, <3>1, BeginOK, Literals
  <2>3. CASE run[w].token = NoToken
    <3>1. Begin(w, "claim", "read", run[w].task, minted + 1) /\ minted < MaxTokens
      BY <1>2, <2>3 DEF WorkerClaim
    <3>2. minted + 1 \in Tokens /\ minted + 1 # NoToken
      BY <1>0, <3>1 DEF TypeOK, Tokens, NoToken
    <3> QED  BY <1>0, <1>1, <1>a, <2>1, <3>1, <3>2, BeginOK, Literals
  <2> QED  BY <2>2, <2>3
<1>3. CASE WorkerFinish(w)
  <2>1. Begin(w, "finish", "read", run[w].task, run[w].token) /\ UNCHANGED <<task, run>>
    BY <1>3 DEF WorkerFinish
  <2> QED  BY <1>0, <1>a, <2>1, BeginOK, Literals
<1>4. CASE WorkThrows(w)
  <2>1. UNCHANGED <<task, call>>  BY <1>4 DEF WorkThrows
  <2>2. \A v \in Workers : run'[v].pc # "off" => /\ run[v].pc # "off"
                                                 /\ run'[v].task = run[v].task
    BY <1>0, <1>4 DEF WorkThrows, TypeOK, Run
  <2>3. RunsOK'
    BY <2>1, <2>2 DEF IInv, RunsOK, DependenciesDone
  <2>4. Becomes(w, call[w])  BY <1>0, <2>1 DEF Becomes, TypeOK
  <2>5. call[w] \in Call /\ CallOK(call[w])  BY <1>0, CallFields DEF IInv
  <2> QED  BY <1>0, <2>1, <2>3, <2>4, <2>5, KeepRows
<1>5. CASE WorkerCatch(w)
  <2>1. PICK op \in {"fail", "cancel"} : Begin(w, op, "read", run[w].task, run[w].token)
    BY <1>5 DEF WorkerCatch
  <2>2. UNCHANGED <<task, run>>  BY <1>5 DEF WorkerCatch
  <2> QED  BY <1>0, <1>a, <2>1, <2>2, BeginOK, Literals
<1>6. CASE WorkerFinally(w)
  <2>1. UNCHANGED task  BY <1>6 DEF WorkerFinally
  <2>2. \A v \in Workers : run'[v].pc # "off" => /\ run[v].pc # "off"
                                                 /\ run'[v].task = run[v].task
    BY <1>0, <1>6 DEF WorkerFinally, TypeOK, Run, NoRun
  <2>3. RunsOK'
    BY <2>1, <2>2 DEF IInv, RunsOK, DependenciesDone
  <2>4. CASE Begin(w, "fail", "read", run[w].task, run[w].token)
    BY <1>0, <2>1, <2>3, <2>4, BeginOK, Literals
  <2>5. CASE UNCHANGED call
    <3>1. Becomes(w, call[w])  BY <1>0, <2>5 DEF Becomes, TypeOK
    <3>2. call[w] \in Call /\ CallOK(call[w])  BY <1>0, CallFields DEF IInv
    <3> QED  BY <1>0, <2>1, <2>3, <3>1, <3>2, KeepRows
  <2> QED  BY <1>6, <2>4, <2>5 DEF WorkerFinally
<1> QED  BY <1>2, <1>3, <1>4, <1>5, <1>6 DEF WorkerStep

\* Every step keeps the invariant.
LEMMA NextKeeps ==
  ASSUME IInv, [Next]_vars
  PROVE  IInv'
<1>0. TypeOK /\ TypeOK'  BY NextType DEF IInv
<1>1. ASSUME NEW p \in Procs, Crash(p)  PROVE IInv'
  <2>1. Becomes(p, IdleCall) /\ UNCHANGED task  BY <1>1 DEF Crash
  <2>2. \A v \in Workers : run'[v].pc # "off" => /\ run[v].pc # "off"
                                                 /\ run'[v].task = run[v].task
    BY <1>0, <1>1 DEF Crash, TypeOK, Run, NoRun
  <2>3. RunsOK'
    BY <2>1, <2>2 DEF IInv, RunsOK, DependenciesDone
  <2> QED  BY <1>0, <2>1, <2>3, IdleCallType, IdleCallOK, KeepRows
<1>2. ASSUME NEW i \in Inspectors, NEW t \in Tasks, StartVerdict(i, t)  PROVE IInv'
  <2>1. i \in Procs /\ NoToken \in Tokens  BY DEF Procs, NoToken, Tokens
  <2>2. Begin(i, "verdict", "read", t, NoToken) /\ UNCHANGED <<task, run>>
    BY <1>2 DEF StartVerdict
  <2>3. RunsOK'  BY <2>2 DEF IInv, RunsOK, DependenciesDone
  <2> QED  BY <1>0, <2>1, <2>2, <2>3, BeginOK, Literals
<1>3. CASE UNCHANGED vars
  <2>1. UNCHANGED <<task, call, run>>  BY <1>3 DEF vars
  <2>2. RowsOK' /\ RunsOK'
    BY <2>1 DEF IInv, RowsOK, LeaseMatchesStatus, DeadLetterIffExhausted,
                StartedAfterDependencies, DependenciesDone, RunsOK
  <2>3. \A p \in Procs : CallOK(call[p])'
    BY <2>1 DEF IInv, CallOK, SnapshotOK, TargetOK, GateOK, DependenciesDone
  <2> QED  BY <1>0, <2>2, <2>3 DEF IInv, RowsOK
<1>4. ASSUME NEW p \in Procs, Statement(p)  PROVE IInv'
  BY <1>0, <1>4, StatementKeeps
<1>5. ASSUME NEW m \in Mains, MainStep(m)  PROVE IInv'
  BY <1>0, <1>5, MainKeeps
<1>6. ASSUME NEW w \in Workers, WorkerStep(w)  PROVE IInv'
  BY <1>0, <1>6, WorkerKeeps
<1> QED  BY <1>1, <1>2, <1>3, <1>4, <1>5, <1>6 DEF Next

\* The invariant holds at the start: nothing is queued, failed or claimed.
LEMMA InitInvariant == Init => IInv
<1> SUFFICES ASSUME Init PROVE IInv  OBVIOUS
<1>1. TypeOK
  BY IdleCallType DEF Init, TypeOK, QueueStatuses, Inspection, Tokens
<1>2. \A t \in Tasks : task[t] = NewRow /\ task[t].status = "pending" /\ task[t].retry = 0
                       /\ task[t].token = NoToken
  BY DEF Init, NewRow
<1>3. RowsOK
  BY <1>2 DEF RowsOK, LeaseMatchesStatus, DeadLetterIffExhausted, StartedAfterDependencies,
              StartedStatuses, TERMINAL_STATUSES
<1>4. \A p \in Procs : CallOK(call[p])
  BY IdleCallOK DEF Init
<1>5. RunsOK
  BY DEF Init, RunsOK, NoRun
<1> QED  BY <1>1, <1>3, <1>4, <1>5 DEF IInv, RowsOK

\* The invariant holds in every reachable state.
THEOREM Invariance == Spec => []IInv
<1>1. Init => IInv  BY InitInvariant
<1>2. IInv /\ [Next]_vars => IInv'  BY NextKeeps
<1> QED  BY <1>1, <1>2, PTL DEF Spec

\* A running task carries a lease and a terminal one none (claimTask, transitionTask).
THEOREM LeaseSafety == Spec => []LeaseMatchesStatus
<1>1. IInv => LeaseMatchesStatus  BY DEF IInv
<1> QED  BY <1>1, Invariance, PTL

\* A task is dead-lettered exactly when its failures exceed max_retries (failTask).
THEOREM DeadLetterSafety == Spec => []DeadLetterIffExhausted
<1>1. IInv => DeadLetterIffExhausted  BY DEF IInv
<1> QED  BY <1>1, Invariance, PTL

\* A task starts only after its "success" dependencies are done (enqueueTask,
\* releaseReadyDependents), although claimTask does not check them.
THEOREM DependencySafety == Spec => []StartedAfterDependencies
<1>1. IInv => StartedAfterDependencies  BY DEF IInv
<1> QED  BY <1>1, Invariance, PTL

\* Only a successful UPDATE of transitionTask changes the task table.
LEMMA TaskWrites ==
  ASSUME Next, task' # task
  PROVE  \E p \in Procs : UpdateTask(p) /\ CasHolds(call[p])
BY DEF Next, Statement, MainStep, WorkerStep, ReadTask, CheckDependencies, ReadTransition,
       UpdateTask, UpsertQueue, CompleteQueueItem, ReadDependents, ReleaseDependent, Throw,
       StartClaimNext, ClaimRow, MarkRunning, StartWorker, StartEnqueue, StartCancel,
       StartRecover, StartBlock, WorkerClaim, WorkerFinish, WorkThrows, WorkerCatch,
       WorkerFinally, StartVerdict, Crash

\* done, cancelled and dead_letter are final, whatever late process writes.
THEOREM FinalSafety == Spec => FinalStatusesStay
<1>1. ASSUME IInv, [Next]_vars
      PROVE  \A t \in Tasks : task[t].status \in FinalStatuses => task'[t].status = task[t].status
  <2>1. CASE task' = task
    BY <2>1
  <2>2. CASE Next /\ task' # task
    BY <1>1, <2>2, TaskWrites, FinalStays
  <2> QED  BY <1>1, <2>1, <2>2 DEF vars
<1>2. IInv /\ [Next]_vars =>
        [\A t \in Tasks : task[t].status \in FinalStatuses => task'[t].status = task[t].status]_vars
  BY <1>1
<1> QED  BY <1>2, Invariance, PTL DEF Spec, FinalStatusesStay

\* The store implements the abstract life cycle: a successful UPDATE is one move
\* of it, or rewrites a row without changing its status; every other step stutters.
THEOREM Refinement == Spec => ImplementsLifecycle
<1> DEFINE status == [t \in Tasks |-> task[t].status]
<1>1. Init => Lifecycle!Init
  BY DEF Init, Lifecycle!Init, NewRow
<1>2. ASSUME IInv, [Next]_vars  PROVE [Lifecycle!Next]_status
  <2>1. CASE task' = task
    BY <2>1
  <2>2. CASE Next /\ task' # task
    <3>1. PICK p \in Procs : UpdateTask(p) /\ CasHolds(call[p])
      BY <2>2, TaskWrites
    <3> DEFINE c == call[p]
    <3>0. /\ TypeOK /\ CallOK(c) /\ c.pc = "update"
          /\ c.cur \in Tasks /\ c.to \in TaskStatuses
      BY <1>2, <3>1, CallFields DEF IInv, UpdateTask, At
    <3>a. PICK t \in Tasks, to \in TaskStatuses : t = c.cur /\ to = c.to
      BY <3>0
    <3>2. Allowed(task[t].status, to)
      BY <3>0, <3>a, <3>1 DEF CallOK, SnapshotOK, CasHolds
    <3>3. status' = [status EXCEPT ![t] = to]
      <4>1. task' = [task EXCEPT ![t] = WrittenRow(c, p \in Workers)]
        BY <3>a, <3>1 DEF UpdateTask
      <4>2. WrittenRow(c, p \in Workers).status = to
        BY <3>a DEF WrittenRow
      <4> QED  BY <3>0, <4>1, <4>2 DEF TypeOK
    <3>4. to \in {"queued", "running"} => Lifecycle!DependenciesDone(t)
      <4>1. to \in {"queued", "running"} => DependenciesDone(t)
        BY <3>0, <3>a DEF CallOK, GateOK
      <4>2. DependenciesDone(t) => Lifecycle!DependenciesDone(t)
        BY DEF DependenciesDone, Lifecycle!DependenciesDone
      <4> QED  BY <4>1, <4>2
    <3>5. CASE to = task[t].status
      BY <3>3, <3>5
    <3>6. CASE to # task[t].status
      <4>1. to \in ALLOWED_TRANSITIONS[status[t]]
        BY <3>2, <3>6 DEF Allowed
      <4>2. Lifecycle!Move(t, to)
        BY <3>3, <3>4, <4>1 DEF Lifecycle!Move, Lifecycle!ALLOWED_TRANSITIONS,
                                ALLOWED_TRANSITIONS, Lifecycle!TaskStatuses, TaskStatuses
      <4>3. to \in Lifecycle!TaskStatuses
        BY DEF Lifecycle!TaskStatuses, TaskStatuses
      <4> QED  BY <4>2, <4>3 DEF Lifecycle!Next
    <3> QED  BY <3>5, <3>6
  <2> QED  BY <1>2, <2>1, <2>2 DEF vars
<1> QED  BY <1>1, <1>2, Invariance, PTL DEF Spec, ImplementsLifecycle, Lifecycle!Spec

-----------------------------------------------------------------------------
(* No lost release. Who still has a dependent to release is known from the  *)
(* calls in progress, so the invariant says what each call is about, and    *)
(* that a task that waits for its dependencies was never claimed: nothing   *)
(* then takes it back to waiting once it has been queued.                   *)

Releasing == FailOps \union {"finish"}

WaitingStatuses == {"pending", "blocked"}

\* The call c is about to take, or has just taken, task x for a worker.
Claims(c, x) ==
  /\ c.op \in {"claim", "claimNext"}
  /\ c.pc \in {"read", "transition", "update", "markRunning", "reread"}
  /\ c.cur = x

\* A worker has been sent x, or a call is about to claim it.
Claimed(x) ==
  \/ \E w \in Workers : run[w].pc # "off" /\ run[w].task = x
  \/ \E p \in Procs : Claims(call[p], x)

\* What the statement a call has reached says about its method: only finishTask and
\* failTask give a task its outcome, and only that of the task they were called with;
\* only blockTask blocks; only these two and enqueueTask queue; nothing goes back to pending.
StepOK(c) ==
  /\ c.pc = "idle" => c.op = "none"
  /\ c.pc = "check" => c.op = "enqueue"
  /\ c.pc \in {"markRunning", "reread"} => c.op = "claimNext"
  /\ c.pc = "upsert" => c.op \in Releasing \union {"enqueue"}
  /\ c.pc \in {"dependents", "release"} => c.op \in Releasing
  /\ c.op = "block" => c.pc \in {"transition", "update"} /\ c.to = "blocked"
  /\ c.op \in Releasing /\ c.pc = "read" => c.to # "queued" /\ c.cur = c.task
  /\ c.pc \in {"transition", "update"} =>
       /\ c.to # "pending"
       /\ c.to = "queued" => c.op \in Releasing \union {"enqueue"}
       /\ c.to = "blocked" => c.op = "block"
       /\ c.to \in {"done", "dead_letter"} => c.op \in Releasing /\ c.cur = c.task

\* Only a main process claims from the queue and blocks tasks.
StepsOK ==
  \A p \in Procs : StepOK(call[p]) /\ (call[p].op \in {"block", "claimNext"} => p \in Mains)

\* blockTask is called for a task that waits; it is not claimed before the call ends.
BlocksOK ==
  \A p \in Procs :
    call[p].op = "block" => task[call[p].cur].status # "running" /\ ~Claimed(call[p].cur)

\* enqueueTask inserts the queue row of a task that has been queued.
UpsertsOK ==
  \A p \in Procs : call[p].pc = "upsert" => task[call[p].cur].status \notin WaitingStatuses

WaitingUnclaimed ==
  \A x \in Tasks : task[x].status \in WaitingStatuses => ~Claimed(x)

ReleaseInv ==
  IInv /\ StepsOK /\ BlocksOK /\ UpsertsOK /\ WaitingUnclaimed /\ NoLostRelease

\* The dependents the call c has still to look at.
Owed(c) ==
  {x \in Dependents(c.task) :
     /\ c.op \in Releasing
     /\ task[x].status \in WaitingStatuses
     /\ \/ c.pc \in {"complete", "dependents"}
        \/ c.pc = "release" /\ x \in c.todo
        \/ c.pc # "release" /\ c.to = "queued" /\ x \in c.todo \union {c.cur}}

\* A step of process p that leaves the tasks alone: its new call is as it should be, claims only
\* what was claimed or queued, and p drops no dependent that could be released, unless noted.
QuietStep(p) ==
  /\ task' = task
  /\ \A q \in Procs \ {p} : call'[q] = call[q]
  /\ StepOK(call'[p]) /\ (call'[p].op \in {"block", "claimNext"} => p \in Mains)
  /\ call'[p].pc # "upsert"
  /\ call'[p].op = "block" => \/ call[p].op = "block" /\ call'[p].cur = call[p].cur
                              \/ task[call'[p].cur].status = "pending"
  /\ \A w \in Workers : run'[w].pc # "off" => Claimed(run'[w].task)
  /\ \A x : Claims(call'[p], x) =>
              Claimed(x) \/ (call'[p].op = "claimNext" /\ task[x].status = "queued")
  /\ aborted \subseteq aborted'
  /\ \A x \in Owed(call[p]) : DependenciesSatisfied(x) => x \in Owed(call'[p]) \union aborted'

\* What a process still has to release is what its call owes.
LEMMA UnreleasedIsOwed ==
  ASSUME NEW p \in Procs
  PROVE  Unreleased(p) = Owed(call[p])
BY DEF Unreleased, Owed, Releasing, WaitingStatuses

\* The same of the next state, when the tasks stay.
LEMMA UnreleasedNext ==
  ASSUME NEW p \in Procs, task' = task
  PROVE  Unreleased(p)' = Owed(call'[p])
BY DEF Unreleased, Owed, Releasing, WaitingStatuses, FailOps, Dependents

\* A task is claimed after a quiet step only if it was, or has just been taken off the queue.
LEMMA QuietClaims ==
  ASSUME NEW p \in Procs, QuietStep(p), NEW x, Claimed(x)'
  PROVE  \/ Claimed(x)
         \/ call'[p].op = "claimNext" /\ task[x].status = "queued"
<1>1. CASE \E w \in Workers : run'[w].pc # "off" /\ run'[w].task = x
  BY <1>1 DEF QuietStep
<1>2. CASE \E q \in Procs : Claims(call'[q], x)
  <2>1. PICK q \in Procs : Claims(call'[q], x)
    BY <1>2
  <2>2. CASE q = p
    BY <2>1, <2>2 DEF QuietStep
  <2>3. CASE q # p
    <3>1. Claims(call[q], x)
      BY <2>1, <2>3 DEF QuietStep
    <3> QED
      BY <3>1 DEF Claimed
  <2> QED
    BY <2>2, <2>3
<1> QED
  BY <1>1, <1>2 DEF Claimed, Claims

\* A quiet step keeps what the invariant says about calls and claims.
LEMMA QuietCalls ==
  ASSUME ReleaseInv, TypeOK', \A m, n \in Mains : m = n, NEW p \in Procs, QuietStep(p)
  PROVE  StepsOK' /\ BlocksOK' /\ UpsertsOK' /\ WaitingUnclaimed'
<1>1. \A q \in Procs : q # p => call'[q] = call[q]
  BY DEF QuietStep
<1>2. StepsOK'
  <2>1. \A q \in Procs :
          StepOK(call'[q]) /\ (call'[q].op \in {"block", "claimNext"} => q \in Mains)
    BY <1>1 DEF QuietStep, ReleaseInv, StepsOK
  <2> QED
    BY <2>1 DEF StepsOK, StepOK
<1>3. BlocksOK'
  <2> SUFFICES ASSUME NEW q \in Procs, NEW x, call'[q].op = "block", x = call'[q].cur
               PROVE  task'[x].status # "running" /\ ~Claimed(x)'
    BY DEF BlocksOK, Claimed
  <2>1. task' = task /\ q \in Mains
    BY <1>2 DEF QuietStep, StepsOK
  <2>2. task[x].status # "running" /\ ~Claimed(x)
    <3>1. CASE q # p
      BY <1>1, <3>1 DEF ReleaseInv, BlocksOK
    <3>2. CASE q = p /\ call[p].op = "block" /\ call'[p].cur = call[p].cur
      BY <3>2 DEF ReleaseInv, BlocksOK
    <3>3. CASE q = p /\ task[x].status = "pending"
      <4>1. x \in Tasks
        BY <2>1, <3>3 DEF TypeOK, Call
      <4> QED
        BY <3>3, <4>1 DEF ReleaseInv, WaitingUnclaimed, WaitingStatuses
    <3> QED
      BY <3>1, <3>2, <3>3 DEF QuietStep
  <2>3. call'[p].op # "claimNext"
    <3>1. call'[p].op = "claimNext" => p \in Mains
      BY DEF QuietStep
    <3> QED
      BY <2>1, <3>1
  <2>4. ~Claimed(x)'
    BY <2>2, <2>3, QuietClaims
  <2> QED
    BY <2>1, <2>2, <2>4
<1>4. UpsertsOK'
  <2>1. \A q \in Procs : call'[q].pc = "upsert" => call'[q] = call[q]
    BY <1>1 DEF QuietStep
  <2> QED
    BY <2>1 DEF ReleaseInv, UpsertsOK, QuietStep
<1>5. WaitingUnclaimed'
  <2>1. \A x \in Tasks : task[x].status \in WaitingStatuses => ~Claimed(x)'
    BY QuietClaims DEF ReleaseInv, WaitingUnclaimed, WaitingStatuses
  <2> QED
    BY <2>1 DEF WaitingUnclaimed, QuietStep
<1> QED
  BY <1>2, <1>3, <1>4, <1>5

\* A quiet step loses no release.
LEMMA QuietRelease ==
  ASSUME ReleaseInv, NEW p \in Procs, QuietStep(p)
  PROVE  NoLostRelease'
<1> SUFFICES ASSUME NEW x \in Tasks,
                    SuccessDeps[x] \union FinishedDeps[x] # {},
                    \A d \in SuccessDeps[x] : task'[d].status = "done",
                    \A d \in FinishedDeps[x] : task'[d].status \in {"done", "dead_letter"},
                    task'[x].status \in {"pending", "blocked"},
                    x \notin aborted'
             PROVE  \E q \in Procs : x \in Unreleased(q)'
  BY DEF NoLostRelease
<1>1. task' = task /\ x \notin aborted
  BY DEF QuietStep
<1>2. PICK q \in Procs : x \in Owed(call[q])
  BY <1>1, UnreleasedIsOwed DEF ReleaseInv, NoLostRelease
<1>3. DependenciesSatisfied(x)
  BY <1>1 DEF DependenciesSatisfied, TERMINAL_STATUSES
<1>4. x \in Owed(call'[q])
  <2>1. CASE q = p
    BY <1>2, <1>3, <2>1 DEF QuietStep
  <2>2. CASE q # p
    <3>1. call'[q] = call[q]
      BY <2>2 DEF QuietStep
    <3> QED
      BY <1>2, <3>1
  <2> QED
    BY <2>1, <2>2
<1> QED
  BY <1>1, <1>4, UnreleasedNext

\* A quiet step keeps the invariant.
LEMMA QuietKeeps ==
  ASSUME ReleaseInv, IInv', \A m, n \in Mains : m = n, NEW p \in Procs, QuietStep(p)
  PROVE  ReleaseInv'
<1>1. TypeOK'
  BY DEF IInv
<1> QED
  BY <1>1, QuietCalls, QuietRelease DEF ReleaseInv

\* Going on to another call, with the runs as they are, is a quiet step if the call is as it should
\* be and drops no dependent that could be released.
LEMMA BecomesQuiet ==
  ASSUME ReleaseInv, NEW p \in Procs, NEW c, Becomes(p, c), UNCHANGED <<task, run, aborted>>,
         StepOK(c), c.op \in {"block", "claimNext"} => p \in Mains, c.pc # "upsert",
         c.op = "block" => \/ call[p].op = "block" /\ c.cur = call[p].cur
                           \/ task[c.cur].status = "pending",
         \A x : Claims(c, x) =>
                  Claimed(x) \/ (c.op = "claimNext" /\ task[x].status = "queued"),
         \A x \in Owed(call[p]) : DependenciesSatisfied(x) => x \in Owed(c)
  PROVE  QuietStep(p)
<1>1. call'[p] = c /\ \A q \in Procs \ {p} : call'[q] = call[q]
  BY DEF Becomes, ReleaseInv, IInv, TypeOK
<1>2. \A w \in Workers : run'[w].pc # "off" => Claimed(run'[w].task)
  BY DEF Claimed
<1> QED
  BY <1>1, <1>2 DEF QuietStep

\* An idle call owes nothing, claims nothing and is as it should be.
LEMMA IdleQuiet ==
  /\ StepOK(IdleCall) /\ IdleCall.op = "none" /\ IdleCall.pc = "idle"
  /\ Owed(IdleCall) = {} /\ \A x : ~Claims(IdleCall, x)
BY DEF IdleCall, StepOK, Owed, Claims, Releasing, FailOps

\* Going idle is a quiet step if what the call owed is noted and no task is sent to a worker but
\* claimed ones.
LEMMA IdleStep ==
  ASSUME ReleaseInv, NEW p \in Procs, Becomes(p, IdleCall), UNCHANGED task,
         \A w \in Workers : run'[w].pc # "off" => Claimed(run'[w].task),
         aborted \subseteq aborted',
         \A x \in Owed(call[p]) : DependenciesSatisfied(x) => x \in aborted'
  PROVE  QuietStep(p)
<1>1. call'[p] = IdleCall /\ \A q \in Procs \ {p} : call'[q] = call[q]
  BY DEF Becomes, ReleaseInv, IInv, TypeOK
<1> QED
  BY <1>1, IdleQuiet DEF QuietStep

\* So is ending a call.
LEMMA EndQuiet ==
  ASSUME ReleaseInv, NEW p \in Procs, NEW ok, End(p, ok), UNCHANGED task,
         aborted \subseteq aborted',
         \A x \in Owed(call[p]) : DependenciesSatisfied(x) => x \in aborted'
  PROVE  QuietStep(p)
<1>1. Becomes(p, IdleCall)
  BY DEF End
<1>2. \A w \in Workers : run'[w].pc # "off" => run[w].pc # "off" /\ run'[w].task = run[w].task
  BY EndRuns DEF ReleaseInv, IInv
<1>3. \A w \in Workers : run'[w].pc # "off" => Claimed(run'[w].task)
  BY <1>2 DEF Claimed
<1> QED
  BY <1>1, <1>3, IdleStep

\* An exception is a quiet step: the dependents it cuts off are noted.
LEMMA ThrowQuiet ==
  ASSUME ReleaseInv, NEW p \in Procs, Throw(p)
  PROVE  QuietStep(p)
<1>1. CASE call[p].op = "claimNext"
  <2> DEFINE c == [call[p] EXCEPT !.pc = "complete", !.to = task[call[p].cur].status]
  <2>1. Becomes(p, c) /\ UNCHANGED <<task, run, aborted>>
    BY <1>1 DEF Throw
  <2>2. c.pc = "complete" /\ c.op = "claimNext"
    BY <1>1, CallFields DEF Call, ReleaseInv, IInv
  <2>3. p \in Mains /\ Owed(call[p]) = {}
    BY <1>1 DEF ReleaseInv, StepsOK, Owed, Releasing, FailOps
  <2> HIDE DEF c
  <2>4. StepOK(c) /\ \A x : ~Claims(c, x)
    BY <2>2 DEF StepOK, Claims, Releasing, FailOps
  <2> QED
    BY <2>1, <2>2, <2>3, <2>4, BecomesQuiet
<1>2. CASE call[p].op # "claimNext"
  <2>1. End(p, FALSE) /\ UNCHANGED task /\ aborted' = aborted \union Owed(call[p])
    BY <1>2, UnreleasedIsOwed DEF Throw
  <2> QED
    BY <2>1, EndQuiet
<1> QED
  BY <1>1, <1>2

\* A successful UPDATE writes the status its call asked for, to a row whose status allows it.
LEMMA UpdateFacts ==
  ASSUME ReleaseInv, NEW p \in Procs, UpdateTask(p), CasHolds(call[p])
  PROVE  /\ call[p].pc = "update" /\ call[p].cur \in Tasks /\ call[p].to # "pending"
         /\ task[call[p].cur].status \in TaskStatuses
         /\ Allowed(task[call[p].cur].status, call[p].to)
         /\ task'[call[p].cur].status = call[p].to
         /\ \A x \in Tasks : x # call[p].cur => task'[x] = task[x]
<1> DEFINE c == call[p]
<1>1. /\ TypeOK /\ CallOK(c) /\ StepOK(c) /\ c.pc = "update"
      /\ c.cur \in Tasks /\ task[c.cur] \in Row
  BY CallFields DEF ReleaseInv, IInv, StepsOK, UpdateTask, At
<1>2. task' = [task EXCEPT ![c.cur] = WrittenRow(c, p \in Workers)]
  BY DEF UpdateTask
<1>3. WrittenRow(c, p \in Workers).status = c.to
  BY DEF WrittenRow
<1>4. Allowed(task[c.cur].status, c.to)
  BY <1>1 DEF CasHolds, CallOK, SnapshotOK
<1>5. task[c.cur].status \in TaskStatuses /\ c.to # "pending"
  BY <1>1, RowFields DEF StepOK
<1> HIDE DEF c
<1>6. task'[c.cur].status = c.to /\ \A x \in Tasks : x # c.cur => task'[x] = task[x]
  BY <1>1, <1>2, <1>3 DEF TypeOK
<1> QED
  BY <1>1, <1>4, <1>5, <1>6 DEF c

\* The call that made it goes idle, or on to the queue row.
LEMMA UpdateCall ==
  ASSUME ReleaseInv, NEW p \in Procs, UpdateTask(p), CasHolds(call[p])
  PROVE  /\ \A q \in Procs \ {p} : call'[q] = call[q]
         /\ \/ AfterUpdate(call[p]) = "idle" /\ call'[p] = IdleCall
            \/ /\ AfterUpdate(call[p]) # "idle" /\ call'[p].pc = AfterUpdate(call[p])
               /\ call'[p].op = call[p].op /\ call'[p].task = call[p].task
               /\ call'[p].cur = call[p].cur /\ call'[p].to = call[p].to
               /\ call'[p].todo = call[p].todo
         /\ \A w \in Workers : run'[w].pc # "off" => run[w].pc # "off" /\ run'[w].task = run[w].task
<1> DEFINE c == call[p]
           d == [IdleCall EXCEPT !.op = c.op, !.pc = AfterUpdate(c), !.task = c.task,
                                 !.cur = c.cur, !.to = c.to, !.todo = c.todo]
<1>0. TypeOK
  BY DEF ReleaseInv, IInv
<1>1. \/ AfterUpdate(c) = "idle" /\ End(p, TRUE)
      \/ AfterUpdate(c) # "idle" /\ Becomes(p, d) /\ UNCHANGED run
  BY DEF UpdateTask
<1>2. /\ d.op = c.op /\ d.pc = AfterUpdate(c) /\ d.task = c.task
      /\ d.cur = c.cur /\ d.to = c.to /\ d.todo = c.todo
  BY DEF IdleCall
<1> HIDE DEF d
<1>3. CASE AfterUpdate(c) = "idle" /\ End(p, TRUE)
  <2>1. Becomes(p, IdleCall)
    BY <1>3 DEF End
  <2>2. call'[p] = IdleCall /\ \A q \in Procs \ {p} : call'[q] = call[q]
    BY <1>0, <2>1 DEF Becomes, TypeOK
  <2> QED
    BY <1>0, <1>3, <2>2, EndRuns
<1>4. CASE AfterUpdate(c) # "idle" /\ Becomes(p, d) /\ UNCHANGED run
  <2>1. call'[p] = d /\ \A q \in Procs \ {p} : call'[q] = call[q]
    BY <1>0, <1>4 DEF Becomes, TypeOK
  <2> QED
    BY <1>2, <1>4, <2>1
<1> QED
  BY <1>1, <1>3, <1>4

\* Nothing goes back to waiting: a task that waits after an UPDATE waited before.
LEMMA NoReturn ==
  ASSUME ReleaseInv, NEW p \in Procs, UpdateTask(p), CasHolds(call[p]),
         NEW x \in Tasks, task'[x].status \in WaitingStatuses
  PROVE  task[x].status \in WaitingStatuses
<1>1. CASE x # call[p].cur
  BY <1>1, UpdateFacts
<1>2. CASE x = call[p].cur
  <2>1. call[p].pc = "update" /\ call[p].to = "blocked"
    BY <1>2, UpdateFacts DEF WaitingStatuses
  <2>2. call[p].op = "block"
    BY <2>1 DEF ReleaseInv, StepsOK, StepOK
  <2>3. task[x].status # "running"
    BY <1>2, <2>2 DEF ReleaseInv, BlocksOK
  <2>4. task[x].status \in TaskStatuses /\ Allowed(task[x].status, "blocked")
    BY <1>2, <2>1, UpdateFacts
  <2> QED
    BY <2>3, <2>4 DEF Allowed, ALLOWED_TRANSITIONS, TaskStatuses, WaitingStatuses
<1> QED
  BY <1>1, <1>2

\* It claims nothing that was not claimed.
LEMMA UpdateClaims ==
  ASSUME ReleaseInv, NEW p \in Procs, UpdateTask(p), CasHolds(call[p]), NEW x, Claimed(x)'
  PROVE  Claimed(x)
<1>1. CASE \E w \in Workers : run'[w].pc # "off" /\ run'[w].task = x
  BY <1>1, UpdateCall DEF Claimed
<1>2. CASE \E q \in Procs : Claims(call'[q], x)
  <2>1. PICK q \in Procs : Claims(call'[q], x)
    BY <1>2
  <2>2. CASE q # p
    <3>1. Claims(call[q], x)
      BY <2>1, <2>2, UpdateCall
    <3> QED
      BY <3>1 DEF Claimed
  <2>3. CASE q = p
    <3>1. call'[p] # IdleCall
      BY <2>1, <2>3, IdleQuiet
    <3>2. Claims(call[p], x)
      BY <2>1, <2>3, <3>1, UpdateCall, UpdateFacts DEF Claims
    <3> QED
      BY <3>2 DEF Claimed
  <2> QED
    BY <2>2, <2>3
<1> QED
  BY <1>1, <1>2 DEF Claimed, Claims

\* It keeps what the invariant says about calls and claims.
LEMMA UpdateCalls ==
  ASSUME ReleaseInv, TypeOK', NEW p \in Procs, UpdateTask(p), CasHolds(call[p])
  PROVE  StepsOK' /\ BlocksOK' /\ UpsertsOK' /\ WaitingUnclaimed'
<1> DEFINE c == call[p]
<1>0. StepOK(c) /\ (c.op \in {"block", "claimNext"} => p \in Mains) /\ c.pc = "update"
  BY UpdateFacts DEF ReleaseInv, StepsOK
<1>1. \A q \in Procs : q # p => call'[q] = call[q]
  BY UpdateCall
<1>2. StepsOK'
  <2>1. StepOK(call'[p]) /\ (call'[p].op \in {"block", "claimNext"} => p \in Mains)
    <3>1. CASE call'[p] = IdleCall
      BY <3>1, IdleQuiet
    <3>2. CASE call'[p] # IdleCall
      <4>1. /\ call'[p].pc = AfterUpdate(c) /\ call'[p].pc # "idle"
            /\ call'[p].op = c.op /\ call'[p].to = c.to
        BY <3>2, UpdateCall
      <4>2. /\ AfterUpdate(c) \in {"idle", "upsert", "markRunning", "complete"}
            /\ AfterUpdate(c) = "markRunning" => c.op = "claimNext"
            /\ AfterUpdate(c) = "upsert" => c.to = "queued"
            /\ c.op = "block" /\ c.to = "blocked" => AfterUpdate(c) = "idle"
        BY DEF AfterUpdate
      <4> QED
        BY <1>0, <4>1, <4>2 DEF StepOK
    <3> QED
      BY <3>1, <3>2
  <2>2. \A q \in Procs :
          StepOK(call'[q]) /\ (call'[q].op \in {"block", "claimNext"} => q \in Mains)
    BY <1>1, <2>1 DEF ReleaseInv, StepsOK
  <2> QED
    BY <2>2 DEF StepsOK, StepOK
<1>3. BlocksOK'
  <2> SUFFICES ASSUME NEW q \in Procs, NEW x, call'[q].op = "block", x = call'[q].cur
               PROVE  task'[x].status # "running" /\ ~Claimed(x)'
    BY DEF BlocksOK, Claimed
  <2>1. q # p
    <3>1. ASSUME q = p  PROVE FALSE
      <4>1. call'[p] # IdleCall
        BY <3>1, IdleQuiet
      <4>2. AfterUpdate(c) # "idle" /\ c.op = "block"
        BY <3>1, <4>1, UpdateCall
      <4>3. c.to = "blocked"
        BY <1>0, <4>2 DEF StepOK
      <4> QED
        BY <4>2, <4>3 DEF AfterUpdate
    <3> QED
      BY <3>1
  <2>2. x \in Tasks /\ task[x].status # "running" /\ ~Claimed(x)
    BY <1>1, <2>1, CallFields DEF ReleaseInv, IInv, BlocksOK
  <2>3. task'[x].status # "running"
    <3>1. CASE x # c.cur
      BY <2>2, <3>1, UpdateFacts
    <3>2. CASE x = c.cur
      <4>1. c.to = "running" => c.op \in {"claim", "claimNext"}
        BY <1>0 DEF ReleaseInv, IInv, CallOK, GateOK
      <4>2. c.to = "running" => Claims(c, x)
        BY <1>0, <3>2, <4>1 DEF Claims
      <4>3. c.to # "running"
        BY <2>2, <4>2 DEF Claimed
      <4> QED
        BY <3>2, <4>3, UpdateFacts
    <3> QED
      BY <3>1, <3>2
  <2>4. ~Claimed(x)'
    BY <2>2, UpdateClaims
  <2> QED
    BY <2>3, <2>4
<1>4. UpsertsOK'
  <2> SUFFICES ASSUME NEW q \in Procs, call'[q].pc = "upsert"
               PROVE  task'[call'[q].cur].status \notin WaitingStatuses
    BY DEF UpsertsOK
  <2>1. CASE q = p
    <3>1. call'[p] # IdleCall
      BY <2>1, IdleQuiet
    <3>2. AfterUpdate(c) = "upsert" /\ call'[p].cur = c.cur
      BY <2>1, <3>1, UpdateCall
    <3>3. c.to = "queued"
      BY <3>2 DEF AfterUpdate
    <3> QED
      BY <2>1, <3>2, <3>3, UpdateFacts DEF WaitingStatuses
  <2>2. CASE q # p
    <3> DEFINE x == call[q].cur
    <3>1. call'[q] = call[q] /\ x \in Tasks /\ task[x].status \notin WaitingStatuses
      BY <1>1, <2>2, CallFields DEF ReleaseInv, IInv, UpsertsOK
    <3>2. task'[x].status \notin WaitingStatuses
      <4> HIDE DEF x
      <4> QED
        BY <3>1, NoReturn
    <3> QED
      BY <3>1, <3>2
  <2> QED
    BY <2>1, <2>2
<1>5. WaitingUnclaimed'
  <2>1. \A x \in Tasks : task'[x].status \in WaitingStatuses => ~Claimed(x)'
    BY NoReturn, UpdateClaims DEF ReleaseInv, WaitingUnclaimed
  <2> QED
    BY <2>1 DEF WaitingUnclaimed
<1> QED
  BY <1>2, <1>3, <1>4, <1>5

\* It loses no release: who gives a task its outcome owes the task's dependents.
LEMMA UpdateRelease ==
  ASSUME ReleaseInv, TypeOK', NEW p \in Procs, UpdateTask(p), CasHolds(call[p])
  PROVE  NoLostRelease'
<1> DEFINE c == call[p]
<1>0. StepOK(c) /\ c.pc = "update" /\ c.cur \in Tasks
  BY UpdateFacts DEF ReleaseInv, StepsOK
<1> SUFFICES ASSUME NEW x \in Tasks,
                    SuccessDeps[x] \union FinishedDeps[x] # {},
                    \A d \in SuccessDeps[x] : task'[d].status = "done",
                    \A d \in FinishedDeps[x] : task'[d].status \in {"done", "dead_letter"},
                    task'[x].status \in {"pending", "blocked"},
                    x \notin aborted'
             PROVE  \E q \in Procs : x \in Unreleased(q)'
  BY DEF NoLostRelease
<1>1. task[x].status \in WaitingStatuses
  BY NoReturn DEF WaitingStatuses
<1>2. x \notin aborted
  <2>1. c.to \in {"queued", "cancelled"} => x # c.cur
    BY <1>0, UpdateFacts
  <2>2. aborted' = IF c.to \in {"queued", "cancelled"} THEN aborted \ {c.cur} ELSE aborted
    BY DEF UpdateTask
  <2> QED
    BY <2>1, <2>2
<1>3. CASE /\ \A d \in SuccessDeps[x] : task[d].status = "done"
           /\ \A d \in FinishedDeps[x] : task[d].status \in {"done", "dead_letter"}
  <2>1. PICK q \in Procs : x \in Owed(call[q])
    BY <1>1, <1>2, <1>3, UnreleasedIsOwed DEF ReleaseInv, NoLostRelease, WaitingStatuses
  <2>2. CASE q # p
    <3>1. call'[q] = call[q]
      BY <2>2, UpdateCall
    <3>2. x \in Unreleased(q)'
      BY <2>1, <3>1 DEF Unreleased, Owed, Releasing, FailOps, Dependents
    <3> QED
      BY <3>2
  <2>3. CASE q = p
    <3>1. /\ x \in Dependents(c.task) /\ c.op \in Releasing /\ c.to = "queued"
          /\ x \in c.todo \union {c.cur}
      BY <1>0, <2>1, <2>3 DEF Owed
    <3>2. x # c.cur
      BY <3>1, UpdateFacts
    <3>3. AfterUpdate(c) = "upsert"
      <4>1. c.to = "queued"
        BY <3>1
      <4> QED
        BY <4>1 DEF AfterUpdate
    <3>4. /\ call'[p].pc = "upsert" /\ call'[p].op = c.op /\ call'[p].task = c.task
          /\ call'[p].to = c.to /\ call'[p].todo = c.todo
      BY <3>3, UpdateCall
    <3>5. x \in Unreleased(p)'
      BY <3>1, <3>2, <3>4 DEF Unreleased, Releasing, FailOps, Dependents
    <3> QED
      BY <3>5
  <2> QED
    BY <2>2, <2>3
<1>4. CASE ~(/\ \A d \in SuccessDeps[x] : task[d].status = "done"
             /\ \A d \in FinishedDeps[x] : task[d].status \in {"done", "dead_letter"})
  <2>1. PICK d \in SuccessDeps[x] \union FinishedDeps[x] :
          task[d].status # task'[d].status /\ task'[d].status \in {"done", "dead_letter"}
    BY <1>4
  <2>2. d \in Tasks /\ x \in Dependents(d)
    BY TaskStoreAssumption DEF TaskStoreAssumption, Dependents
  <2>3. d = c.cur /\ c.to \in {"done", "dead_letter"}
    BY <2>1, <2>2, UpdateFacts
  <2>4. c.op \in Releasing /\ c.task = d
    BY <1>0, <2>3 DEF StepOK
  <2>5. AfterUpdate(c) = "complete"
    BY <2>3, <2>4 DEF AfterUpdate, Releasing, FailOps
  <2>6. call'[p].pc = "complete" /\ call'[p].op = c.op /\ call'[p].task = c.task
    BY <2>5, UpdateCall
  <2>7. x \in Unreleased(p)'
    BY <2>2, <2>4, <2>6 DEF Unreleased, Releasing, FailOps, Dependents
  <2> QED
    BY <2>7
<1> QED
  BY <1>3, <1>4

\* Each statement of a store method but a successful UPDATE is a quiet step.
LEMMA StatementQuiet ==
  ASSUME ReleaseInv, NEW p \in Procs, Statement(p), ~(UpdateTask(p) /\ CasHolds(call[p]))
  PROVE  QuietStep(p)
<1> DEFINE b == call[p]
<1>0. /\ TypeOK /\ b \in Call /\ StepOK(b)
      /\ b.op \in {"block", "claimNext"} => p \in Mains
  BY CallFields DEF ReleaseInv, IInv, StepsOK
<1>1. CASE ReadTask(p)
  <2> DEFINE row == task[b.cur]
  <2>0. b.pc = "read"
    BY <1>1 DEF ReadTask, At
  <2>1. CASE ReadReturns(p, row)
    <3>1. End(p, TRUE) /\ UNCHANGED <<task, aborted>>
      BY <1>1, <2>1 DEF ReadTask
    <3>2. Owed(b) = {}
      BY <2>1 DEF ReadReturns, Owed, Releasing, FailOps
    <3> QED
      BY <3>1, <3>2, EndQuiet
  <2>2. CASE ~ReadReturns(p, row) /\ ReadRefused(p, row)
    <3>1. Throw(p)
      BY <1>1, <2>2 DEF ReadTask
    <3> QED
      BY <3>1, ThrowQuiet
  <2>3. CASE ~ReadReturns(p, row) /\ ~ReadRefused(p, row)
    <3> DEFINE to == Target(p, row)
               c == [b EXCEPT !.pc = "transition", !.to = to,
                              !.expect = ExpectedLease(p, row),
                              !.retry = PatchedRetry(p, row),
                              !.result = PatchedResult(p, row)]
    <3>1. Becomes(p, c) /\ UNCHANGED <<task, run, aborted>>
      BY <1>1, <2>3 DEF ReadTask
    <3>2. /\ c.pc = "transition" /\ c.op = b.op /\ c.to = to
          /\ c.task = b.task /\ c.cur = b.cur
      <4> HIDE DEF b, row, to
      <4> QED
        BY <1>0 DEF Call
    <3>3. /\ to \notin {"pending", "blocked", "queued"}
          /\ to \in {"done", "dead_letter"} => b.op \in Releasing
      BY DEF Target, Releasing, FailOps
    <3> HIDE DEF c, to
    <3>5. StepOK(c)
      BY <1>0, <2>0, <3>2, <3>3 DEF StepOK
    <3>6. \A x : Claims(c, x) => Claimed(x)
      BY <2>0, <3>2 DEF Claims, Claimed
    <3>7. Owed(b) = {}
      BY <1>0, <2>0 DEF Owed, StepOK
    <3> QED
      BY <1>0, <3>1, <3>2, <3>5, <3>6, <3>7, BecomesQuiet
  <2> QED
    BY <2>1, <2>2, <2>3
<1>2. CASE CheckDependencies(p)
  <2> DEFINE c == [b EXCEPT !.pc = "transition", !.to = "queued"]
  <2>0. b.op = "enqueue"
    BY <1>0, <1>2 DEF CheckDependencies, At, StepOK
  <2>1. Owed(b) = {}
    BY <2>0 DEF Owed, Releasing, FailOps
  <2>2. CASE DependenciesSatisfied(b.cur)
    <3>1. Becomes(p, c) /\ UNCHANGED <<task, run, aborted>>
      BY <1>2, <2>2 DEF CheckDependencies
    <3>2. c.pc = "transition" /\ c.to = "queued" /\ c.op = "enqueue"
      BY <1>0, <2>0 DEF Call
    <3> HIDE DEF c
    <3>3. StepOK(c) /\ \A x : ~Claims(c, x)
      BY <3>2 DEF StepOK, Claims, Releasing, FailOps
    <3> QED
      BY <2>1, <3>1, <3>2, <3>3, BecomesQuiet
  <2>3. CASE ~DependenciesSatisfied(b.cur)
    <3>1. End(p, TRUE) /\ UNCHANGED <<task, aborted>>
      BY <1>2, <2>3 DEF CheckDependencies
    <3> QED
      BY <2>1, <3>1, EndQuiet
  <2> QED
    BY <2>2, <2>3
<1>3. CASE ReadTransition(p)
  <2> DEFINE row == task[b.cur]
             c == [b EXCEPT !.pc = "update", !.row = row]
  <2>0. b.pc = "transition"
    BY <1>3 DEF ReadTransition, At
  <2>1. CASE Allowed(row.status, b.to)
    <3>1. Becomes(p, c) /\ UNCHANGED <<task, run, aborted>>
      BY <1>3, <2>1 DEF ReadTransition
    <3>2. /\ c.pc = "update" /\ c.op = b.op /\ c.to = b.to
          /\ c.task = b.task /\ c.cur = b.cur /\ c.todo = b.todo
      <4> HIDE DEF row, b
      <4> QED
        BY <1>0 DEF Call
    <3> HIDE DEF c
    <3>3. StepOK(c)
      BY <1>0, <2>0, <3>2 DEF StepOK
    <3>4. \A x : Claims(c, x) => Claimed(x)
      BY <2>0, <3>2 DEF Claims, Claimed
    <3>5. Owed(b) \subseteq Owed(c)
      BY <2>0, <3>2 DEF Owed
    <3> QED
      BY <1>0, <3>1, <3>2, <3>3, <3>4, <3>5, BecomesQuiet
  <2>2. CASE ~Allowed(row.status, b.to)
    <3>1. Throw(p)
      BY <1>3, <2>2 DEF ReadTransition
    <3> QED
      BY <3>1, ThrowQuiet
  <2> QED
    BY <2>1, <2>2
<1>4. CASE UpdateTask(p)
  <2>1. Throw(p)
    BY <1>4 DEF UpdateTask
  <2> QED
    BY <2>1, ThrowQuiet
<1>5. CASE UpsertQueue(p)
  <2> DEFINE c == [b EXCEPT !.pc = "release"]
  <2>0. b.pc = "upsert" /\ UNCHANGED <<task, aborted>>
    BY <1>5 DEF UpsertQueue, At
  <2>1. CASE b.op = "enqueue"
    <3>1. End(p, TRUE)
      BY <1>5, <2>1 DEF UpsertQueue
    <3>2. Owed(b) = {}
      BY <2>1 DEF Owed, Releasing, FailOps
    <3> QED
      BY <2>0, <3>1, <3>2, EndQuiet
  <2>2. CASE b.op # "enqueue"
    <3>1. Becomes(p, c) /\ UNCHANGED run
      BY <1>5, <2>2 DEF UpsertQueue, Goto
    <3>2. c.pc = "release" /\ c.op = b.op /\ c.task = b.task /\ c.todo = b.todo
          /\ c.cur = b.cur /\ c.to = b.to
      <4> HIDE DEF b
      <4> QED
        BY <1>0 DEF Call
    <3> HIDE DEF c
    <3>3. StepOK(c) /\ \A x : ~Claims(c, x)
      BY <1>0, <2>0, <2>2, <3>2 DEF StepOK, Claims
    <3>4. Owed(b) \subseteq Owed(c)
      <4>1. task[b.cur].status \notin WaitingStatuses
        BY <2>0 DEF ReleaseInv, UpsertsOK
      <4> QED
        BY <2>0, <3>2, <4>1 DEF Owed
    <3> QED
      BY <1>0, <2>0, <3>1, <3>2, <3>3, <3>4, BecomesQuiet
  <2> QED
    BY <2>1, <2>2
<1>6. CASE CompleteQueueItem(p)
  <2> DEFINE c == [b EXCEPT !.pc = "row"]
             d == [b EXCEPT !.pc = "dependents"]
  <2>0. b.pc = "complete" /\ UNCHANGED <<task, aborted>>
    BY <1>6 DEF CompleteQueueItem, At
  <2>1. CASE b.op = "claimNext"
    <3>1. Becomes(p, c) /\ UNCHANGED run
      BY <1>6, <2>1 DEF CompleteQueueItem, Goto
    <3>2. c.pc = "row" /\ c.op = "claimNext"
      BY <1>0, <2>1 DEF Call
    <3>3. Owed(b) = {}
      BY <2>1 DEF Owed, Releasing, FailOps
    <3> HIDE DEF c
    <3>4. StepOK(c) /\ \A x : ~Claims(c, x)
      BY <3>2 DEF StepOK, Claims, Releasing, FailOps
    <3> QED
      BY <1>0, <2>0, <2>1, <3>1, <3>2, <3>3, <3>4, BecomesQuiet
  <2>2. CASE b.op \in {"finish", "fail", "recover"}
    <3>1. Becomes(p, d) /\ UNCHANGED run
      BY <1>6, <2>2 DEF CompleteQueueItem, Goto
    <3>2. d.pc = "dependents" /\ d.op = b.op /\ d.task = b.task
      BY <1>0 DEF Call
    <3> HIDE DEF d
    <3>3. StepOK(d) /\ \A x : ~Claims(d, x)
      BY <2>2, <3>2 DEF StepOK, Claims, Releasing, FailOps
    <3>4. Owed(b) \subseteq Owed(d)
      BY <3>2 DEF Owed
    <3> QED
      BY <1>0, <2>0, <2>2, <3>1, <3>2, <3>3, <3>4, BecomesQuiet
  <2>3. CASE b.op \notin {"claimNext", "finish", "fail", "recover"}
    <3>1. End(p, TRUE)
      BY <1>6, <2>3 DEF CompleteQueueItem
    <3>2. Owed(b) = {}
      BY <2>3 DEF Owed, Releasing, FailOps
    <3> QED
      BY <2>0, <3>1, <3>2, EndQuiet
  <2> QED
    BY <2>1, <2>2, <2>3
<1>7. CASE ReadDependents(p)
  <2> DEFINE todo == {x \in Dependents(b.task) : task[x].status \in {"pending", "blocked"}}
             c == [b EXCEPT !.pc = "release", !.todo = todo]
  <2>1. Becomes(p, c) /\ UNCHANGED <<task, run, aborted>>
    BY <1>7 DEF ReadDependents
  <2>2. /\ c.pc = "release" /\ c.op = b.op /\ c.task = b.task /\ c.todo = todo
        /\ c.cur = b.cur /\ c.to = b.to
    <3> HIDE DEF b, todo
    <3> QED
      BY <1>0 DEF Call
  <2> HIDE DEF c
  <2>0. b.pc = "dependents"
    BY <1>7 DEF ReadDependents, At
  <2>3. StepOK(c) /\ \A x : ~Claims(c, x)
    BY <1>0, <2>0, <2>2 DEF StepOK, Claims
  <2>4. Owed(b) \subseteq Owed(c)
    BY <2>2 DEF Owed, WaitingStatuses
  <2> QED
    BY <1>0, <2>1, <2>2, <2>3, <2>4, BecomesQuiet
<1>8. CASE ReleaseDependent(p)
  <2>0. b.pc = "release" /\ UNCHANGED <<task, aborted>>
    BY <1>8 DEF ReleaseDependent, At
  <2>1. CASE b.todo = {} /\ End(p, TRUE)
    <3>1. Owed(b) = {}
      BY <2>0, <2>1 DEF Owed
    <3> QED
      BY <2>0, <2>1, <3>1, EndQuiet
  <2>2. ASSUME NEW x \in b.todo, UNCHANGED run,
               IF DependenciesSatisfied(x)
               THEN Becomes(p, [b EXCEPT !.pc = "transition", !.to = "queued",
                                         !.cur = x, !.todo = @ \ {x}])
               ELSE Becomes(p, [b EXCEPT !.todo = @ \ {x}])
        PROVE  QuietStep(p)
    <3> DEFINE c == [b EXCEPT !.pc = "transition", !.to = "queued",
                              !.cur = x, !.todo = @ \ {x}]
               d == [b EXCEPT !.todo = @ \ {x}]
    <3>0. b.op \in Releasing /\ b.op \notin {"block", "claim", "claimNext"}
      BY <1>0, <2>0 DEF StepOK, Releasing, FailOps
    <3>1. CASE DependenciesSatisfied(x)
      <4>1. Becomes(p, c)
        BY <2>2, <3>1
      <4>2. /\ c.pc = "transition" /\ c.to = "queued" /\ c.cur = x /\ c.op = b.op
            /\ c.task = b.task /\ c.todo = b.todo \ {x}
        <5> HIDE DEF b
        <5> QED
          BY <1>0 DEF Call
      <4> HIDE DEF c
      <4>3. StepOK(c) /\ \A y : ~Claims(c, y)
        BY <3>0, <4>2 DEF StepOK, Claims
      <4>4. Owed(b) \subseteq Owed(c)
        BY <2>0, <4>2 DEF Owed
      <4> QED
        BY <2>0, <2>2, <3>0, <4>1, <4>2, <4>3, <4>4, BecomesQuiet
    <3>2. CASE ~DependenciesSatisfied(x)
      <4>1. Becomes(p, d)
        BY <2>2, <3>2
      <4>2. /\ d.pc = "release" /\ d.op = b.op /\ d.task = b.task /\ d.todo = b.todo \ {x}
            /\ d.to = b.to /\ d.cur = b.cur
        <5> HIDE DEF b
        <5> QED
          BY <1>0, <2>0 DEF Call, b
      <4> HIDE DEF d
      <4>3. StepOK(d) /\ \A y : ~Claims(d, y)
        BY <3>0, <4>2 DEF StepOK, Claims
      <4>4. \A y \in Owed(b) : DependenciesSatisfied(y) => y \in Owed(d)
        BY <2>0, <3>2, <4>2 DEF Owed
      <4> QED
        BY <2>0, <2>2, <3>0, <4>1, <4>2, <4>3, <4>4, BecomesQuiet
    <3> QED
      BY <3>1, <3>2
  <2> QED
    BY <1>8, <2>1, <2>2 DEF ReleaseDependent
<1> QED
  BY <1>1, <1>2, <1>3, <1>4, <1>5, <1>6, <1>7, <1>8 DEF Statement

\* Beginning a call about t is a quiet step if it claims only what a worker was sent.
LEMMA BeginQuiet ==
  ASSUME ReleaseInv, NEW p \in Procs, NEW op, NEW pc, NEW t, NEW token,
         Begin(p, op, pc, t, token), Idle(p), UNCHANGED <<task, aborted>>,
         \/ pc = "check" /\ op = "enqueue"
         \/ pc = "read" /\ op \notin {"none", "block", "claimNext"},
         op = "claim" => Claimed(t),
         \A w \in Workers : run'[w].pc # "off" => Claimed(run'[w].task)
  PROVE  QuietStep(p)
<1> DEFINE c == [IdleCall EXCEPT !.op = op, !.pc = pc, !.task = t, !.cur = t, !.token = token]
<1>1. call'[p] = c /\ \A q \in Procs \ {p} : call'[q] = call[q]
  BY DEF Begin, Becomes, ReleaseInv, IInv, TypeOK
<1>2. c.op = op /\ c.pc = pc /\ c.task = t /\ c.cur = t /\ c.to = "pending"
  BY DEF IdleCall
<1>3. Owed(call[p]) = {}
  BY DEF Idle, ReleaseInv, StepsOK, StepOK, Owed, Releasing, FailOps
<1> HIDE DEF c
<1>4. StepOK(c)
  BY <1>2 DEF StepOK
<1>5. \A x : Claims(c, x) => Claimed(x)
  BY <1>2 DEF Claims
<1> QED
  BY <1>1, <1>2, <1>3, <1>4, <1>5 DEF QuietStep

\* Each step of a main process is quiet.
LEMMA MainQuiet ==
  ASSUME ReleaseInv, NEW m \in Mains, MainStep(m)
  PROVE  QuietStep(m)
<1> DEFINE b == call[m]
<1>0. m \in Procs /\ TypeOK /\ b \in Call /\ StepOK(b)
  BY CallFields DEF Procs, ReleaseInv, IInv, StepsOK
<1>a. UNCHANGED run => \A w \in Workers : run'[w].pc # "off" => Claimed(run'[w].task)
  BY DEF Claimed
<1>b. Idle(m) => Owed(b) = {}
  BY <1>0 DEF Idle, StepOK, Owed, Releasing, FailOps
<1>1. CASE StartClaimNext(m)
  <2> PICK rows : Becomes(m, [IdleCall EXCEPT !.op = "claimNext", !.pc = "row", !.todo = rows])
    BY <1>1 DEF StartClaimNext
  <2> DEFINE c == [IdleCall EXCEPT !.op = "claimNext", !.pc = "row", !.todo = rows]
  <2>1. Becomes(m, c)
    OBVIOUS
  <2>2. c.pc = "row" /\ c.op = "claimNext"
    BY DEF IdleCall
  <2>3. Idle(m) /\ UNCHANGED <<task, run, aborted>>
    BY <1>1 DEF StartClaimNext
  <2> HIDE DEF c
  <2>4. StepOK(c) /\ \A x : ~Claims(c, x)
    BY <2>2 DEF StepOK, Claims, Releasing, FailOps
  <2> QED
    BY <1>0, <1>b, <2>1, <2>2, <2>3, <2>4, BecomesQuiet
<1>2. CASE ClaimRow(m)
  <2>0. b.pc = "row" /\ UNCHANGED <<task, aborted>>
    BY <1>2 DEF ClaimRow, At
  <2>1. b.op = "claimNext"
    BY <1>0, <2>0 DEF ReleaseInv, IInv, CallOK, TargetOK
  <2>2. Owed(b) = {}
    BY <2>1 DEF Owed, Releasing, FailOps
  <2>3. CASE End(m, TRUE)
    BY <1>0, <2>0, <2>2, <2>3, EndQuiet
  <2>4. ASSUME NEW t \in b.todo, UNCHANGED run,
               Becomes(m, [b EXCEPT !.pc = "complete", !.to = task[t].status,
                                    !.cur = t, !.todo = @ \ {t}])
        PROVE  QuietStep(m)
    <3> DEFINE c == [b EXCEPT !.pc = "complete", !.to = task[t].status,
                              !.cur = t, !.todo = @ \ {t}]
    <3>1. Becomes(m, c)
      BY <2>4
    <3>2. c.pc = "complete" /\ c.op = "claimNext"
      BY <1>0, <2>1 DEF Call
    <3> HIDE DEF c
    <3>3. StepOK(c) /\ \A x : ~Claims(c, x)
      BY <3>2 DEF StepOK, Claims, Releasing, FailOps
    <3> QED
      BY <1>0, <2>0, <2>2, <2>4, <3>1, <3>2, <3>3, BecomesQuiet
  <2>5. ASSUME NEW t \in b.todo, task[t].status = "queued", UNCHANGED run,
               Becomes(m, [b EXCEPT !.pc = "read", !.token = minted + 1,
                                    !.cur = t, !.todo = @ \ {t}])
        PROVE  QuietStep(m)
    <3> DEFINE c == [b EXCEPT !.pc = "read", !.token = minted + 1,
                              !.cur = t, !.todo = @ \ {t}]
    <3>1. Becomes(m, c)
      BY <2>5
    <3>2. c.pc = "read" /\ c.op = "claimNext" /\ c.cur = t
      BY <1>0, <2>1 DEF Call
    <3> HIDE DEF c
    <3>3. StepOK(c)
      BY <3>2 DEF StepOK, Releasing, FailOps
    <3>4. \A x : Claims(c, x) => c.op = "claimNext" /\ task[x].status = "queued"
      BY <2>5, <3>2 DEF Claims
    <3> QED
      BY <1>0, <2>0, <2>2, <2>5, <3>1, <3>2, <3>3, <3>4, BecomesQuiet
  <2> QED
    BY <1>2, <2>3, <2>4, <2>5 DEF ClaimRow
<1>3. CASE MarkRunning(m)
  <2> DEFINE c == [b EXCEPT !.pc = "reread"]
  <2>0. b.pc = "markRunning" /\ UNCHANGED <<task, run, aborted>> /\ Becomes(m, c)
    BY <1>3 DEF MarkRunning, At, Goto
  <2>1. b.op = "claimNext"
    BY <1>0, <2>0 DEF StepOK
  <2>2. c.pc = "reread" /\ c.op = "claimNext" /\ c.cur = b.cur
    BY <1>0, <2>1 DEF Call
  <2>3. Owed(b) = {}
    BY <2>1 DEF Owed, Releasing, FailOps
  <2> HIDE DEF c
  <2>4. StepOK(c)
    BY <2>2 DEF StepOK, Releasing, FailOps
  <2>5. \A x : Claims(c, x) => Claims(b, x)
    BY <2>0, <2>1, <2>2 DEF Claims
  <2>6. \A x : Claims(c, x) => Claimed(x)
    BY <1>0, <2>5 DEF Claimed
  <2> QED
    BY <1>0, <2>0, <2>2, <2>3, <2>4, <2>6, BecomesQuiet
<1>4. CASE StartWorker(m)
  <2>0. b.pc = "reread" /\ UNCHANGED <<task, aborted>> /\ Becomes(m, IdleCall)
    BY <1>4 DEF StartWorker, At
  <2>1. b.op = "claimNext"
    BY <1>0, <2>0 DEF StepOK
  <2>2. Owed(b) = {}
    BY <2>1 DEF Owed, Releasing, FailOps
  <2>3. Claimed(b.cur)
    <3>1. Claims(b, b.cur)
      BY <2>0, <2>1 DEF Claims
    <3> QED
      BY <1>0, <3>1 DEF Claimed
  <2>4. \A w \in Workers : run'[w] = run[w] \/ run'[w].task = b.cur
    BY <1>0, <1>4 DEF StartWorker, TypeOK
  <2>5. \A w \in Workers : run'[w].pc # "off" => Claimed(run'[w].task)
    BY <2>3, <2>4 DEF Claimed
  <2> QED
    BY <1>0, <2>0, <2>2, <2>5, IdleStep
<1>5. ASSUME NEW t \in Tasks, StartEnqueue(m, t)  PROVE QuietStep(m)
  <2>1. /\ Begin(m, "enqueue", "check", t, NoToken) /\ Idle(m)
        /\ UNCHANGED <<task, run, aborted>>
    BY <1>5 DEF StartEnqueue
  <2> QED
    BY <1>0, <1>a, <2>1, BeginQuiet
<1>6. ASSUME NEW t \in Tasks, StartCancel(m, t)  PROVE QuietStep(m)
  <2>1. Begin(m, "cancel", "read", t, NoToken) /\ Idle(m) /\ UNCHANGED <<task, aborted>>
    BY <1>6 DEF StartCancel
  <2>2. \A w \in Workers : run'[w].pc = run[w].pc /\ run'[w].task = run[w].task
    BY <1>0, <1>6 DEF StartCancel, TypeOK, Run
  <2>3. \A w \in Workers : run'[w].pc # "off" => Claimed(run'[w].task)
    BY <2>2 DEF Claimed
  <2> QED
    BY <1>0, <2>1, <2>3, BeginQuiet
<1>7. ASSUME NEW t \in Tasks, StartRecover(m, t)  PROVE QuietStep(m)
  <2> DEFINE c == [IdleCall EXCEPT !.op = "finish", !.pc = "read", !.task = t,
                                   !.cur = t, !.result = task[t].result]
  <2>0. Idle(m) /\ UNCHANGED <<task, run, aborted>>
    BY <1>7 DEF StartRecover
  <2>1. \/ Becomes(m, c)
        \/ \E op \in {"recover", "fail", "inspect"} : Begin(m, op, "read", t, NoToken)
    BY <1>7 DEF StartRecover
  <2>2. c.op = "finish" /\ c.pc = "read" /\ c.task = t /\ c.cur = t /\ c.to = "pending"
    BY DEF IdleCall
  <2> HIDE DEF c
  <2>3. StepOK(c) /\ \A x : ~Claims(c, x)
    BY <2>2 DEF StepOK, Claims
  <2>4. CASE Becomes(m, c)
    BY <1>0, <1>b, <2>0, <2>2, <2>3, <2>4, BecomesQuiet
  <2>5. ASSUME NEW op \in {"recover", "fail", "inspect"}, Begin(m, op, "read", t, NoToken)
        PROVE  QuietStep(m)
    BY <1>0, <1>a, <2>0, <2>5, BeginQuiet
  <2> QED
    BY <2>1, <2>4, <2>5
<1>8. ASSUME NEW t \in Tasks, StartBlock(m, t)  PROVE QuietStep(m)
  <2> DEFINE c == [IdleCall EXCEPT !.op = "block", !.pc = "transition", !.task = t,
                                   !.cur = t, !.to = "blocked"]
  <2>0. /\ Idle(m) /\ UNCHANGED <<task, run, aborted>> /\ Becomes(m, c)
        /\ task[t].status = "pending"
    BY <1>8 DEF StartBlock
  <2>1. c.op = "block" /\ c.pc = "transition" /\ c.cur = t /\ c.to = "blocked"
    BY DEF IdleCall
  <2> HIDE DEF c
  <2>2. StepOK(c) /\ \A x : ~Claims(c, x)
    BY <2>1 DEF StepOK, Claims, Releasing, FailOps
  <2> QED
    BY <1>0, <1>b, <2>0, <2>1, <2>2, BecomesQuiet
<1> QED
  BY <1>1, <1>2, <1>3, <1>4, <1>5, <1>6, <1>7, <1>8 DEF MainStep

\* Each step of a worker between two calls is quiet.
LEMMA WorkerQuiet ==
  ASSUME ReleaseInv, NEW w \in Workers, WorkerStep(w)
  PROVE  QuietStep(w)
<1>0. w \in Procs /\ TypeOK /\ call[w].pc = "idle" /\ UNCHANGED <<task, aborted>>
  BY DEF Procs, ReleaseInv, IInv, WorkerStep, WorkerClaim, WorkerFinish, WorkThrows, WorkerCatch,
         WorkerFinally, Idle
<1>1. run[w].pc # "off" => Claimed(run[w].task)
  BY DEF Claimed
<1>2. \A v \in Workers : run'[v].pc # "off" => run[v].pc # "off" /\ run'[v].task = run[v].task
  BY <1>0 DEF WorkerStep, WorkerClaim, WorkerFinish, WorkThrows, WorkerCatch, WorkerFinally,
              TypeOK, Run, NoRun
<1>3. \A v \in Workers : run'[v].pc # "off" => Claimed(run'[v].task)
  BY <1>2 DEF Claimed
<1>4. CASE WorkerClaim(w)
  <2>1. Claimed(run[w].task)
    BY <1>1, <1>4 DEF WorkerClaim
  <2>2. PICK token : Begin(w, "claim", "read", run[w].task, token)
    BY <1>4 DEF WorkerClaim
  <2> QED
    BY <1>0, <1>3, <2>1, <2>2, BeginQuiet DEF Idle
<1>5. ASSUME NEW op \in {"finish", "fail", "cancel"},
             Begin(w, op, "read", run[w].task, run[w].token)
      PROVE  QuietStep(w)
  BY <1>0, <1>3, <1>5, BeginQuiet DEF Idle
<1>6. CASE UNCHANGED call
  <2>1. /\ StepOK(call[w]) /\ call[w].op = "none" /\ Owed(call[w]) = {}
        /\ \A x : ~Claims(call[w], x)
    <3>1. StepOK(call[w])
      BY <1>0 DEF ReleaseInv, StepsOK
    <3>2. call[w].op = "none"
      BY <1>0, <3>1 DEF StepOK
    <3> QED
      BY <3>1, <3>2 DEF Owed, Claims, Releasing, FailOps
  <2> QED
    BY <1>0, <1>3, <1>6, <2>1 DEF QuietStep
<1> QED
  BY <1>4, <1>5, <1>6 DEF WorkerStep, WorkerFinish, WorkThrows, WorkerCatch, WorkerFinally

\* Every step but a successful UPDATE is a quiet step of some process.
LEMMA NextQuiet ==
  ASSUME ReleaseInv, Next
  PROVE  \E p \in Procs : QuietStep(p) \/ (UpdateTask(p) /\ CasHolds(call[p]))
<1>1. ASSUME NEW p \in Procs, Crash(p)  PROVE QuietStep(p)
  <2>1. /\ Becomes(p, IdleCall) /\ UNCHANGED task
        /\ aborted' = aborted \union Owed(call[p])
    BY <1>1, UnreleasedIsOwed DEF Crash
  <2>2. \A w \in Workers : run'[w].pc # "off" => run[w].pc # "off" /\ run'[w].task = run[w].task
    BY <1>1 DEF Crash, ReleaseInv, IInv, TypeOK, Run, NoRun
  <2>3. \A w \in Workers : run'[w].pc # "off" => Claimed(run'[w].task)
    BY <2>2 DEF Claimed
  <2> QED
    BY <2>1, <2>3, IdleStep
<1>2. ASSUME NEW i \in Inspectors, NEW t \in Tasks, StartVerdict(i, t)  PROVE QuietStep(i)
  <2>1. /\ Begin(i, "verdict", "read", t, NoToken) /\ Idle(i) /\ i \in Procs
        /\ UNCHANGED <<task, run, aborted>>
    BY <1>2 DEF StartVerdict, Procs
  <2>2. \A w \in Workers : run'[w].pc # "off" => Claimed(run'[w].task)
    BY <2>1 DEF Claimed
  <2> QED
    BY <2>1, <2>2, BeginQuiet
<1>3. Mains \subseteq Procs /\ Workers \subseteq Procs /\ Inspectors \subseteq Procs
  BY DEF Procs
<1> QED
  BY <1>1, <1>2, <1>3, StatementQuiet, MainQuiet, WorkerQuiet DEF Next

\* When a task's last dependency ends, some process still has to release it, whichever of several
\* workers came last, unless a crash or an exception cut the release off (releaseReadyDependents).
\* Of two main processes one may block a task that the other has queued and started meanwhile;
\* nothing releases it then, so that this is a theorem about one.
THEOREM NoReleaseLost ==
  ASSUME \A m, n \in Mains : m = n
  PROVE  Spec => []NoLostRelease
<1>1. Init => ReleaseInv
  <2> SUFFICES ASSUME Init  PROVE ReleaseInv
    OBVIOUS
  <2>1. \A p \in Procs : call[p] = IdleCall
    BY DEF Init
  <2>2. StepsOK /\ BlocksOK /\ UpsertsOK
    BY <2>1, IdleQuiet DEF StepsOK, BlocksOK, UpsertsOK
  <2>3. \A x : ~Claimed(x)
    BY <2>1, IdleQuiet DEF Claimed, Init, NoRun
  <2>4. NoLostRelease
    BY DEF NoLostRelease, Init, NewRow
  <2> QED
    BY <2>2, <2>3, <2>4, InitInvariant DEF ReleaseInv, WaitingUnclaimed
<1>2. ReleaseInv /\ [Next]_vars => ReleaseInv'
  <2> SUFFICES ASSUME ReleaseInv, [Next]_vars  PROVE ReleaseInv'
    OBVIOUS
  <2>1. IInv' /\ TypeOK'
    BY NextKeeps DEF ReleaseInv, IInv
  <2>2. CASE Next
    <3>1. PICK p \in Procs : QuietStep(p) \/ (UpdateTask(p) /\ CasHolds(call[p]))
      BY <2>2, NextQuiet
    <3>2. CASE QuietStep(p)
      BY <2>1, <3>2, QuietKeeps
    <3>3. CASE UpdateTask(p) /\ CasHolds(call[p])
      BY <2>1, <3>3, UpdateCalls, UpdateRelease DEF ReleaseInv
    <3> QED
      BY <3>1, <3>2, <3>3
  <2>3. CASE UNCHANGED vars
    <3>1. UNCHANGED <<task, call, run, aborted>>
      BY <2>3 DEF vars
    <3>2. StepsOK' /\ BlocksOK' /\ UpsertsOK' /\ WaitingUnclaimed'
      BY <3>1 DEF ReleaseInv, StepsOK, StepOK, BlocksOK, UpsertsOK, WaitingUnclaimed, Claimed, Claims
    <3>3. NoLostRelease'
      BY <3>1 DEF ReleaseInv, NoLostRelease, Unreleased, Dependents, FailOps
    <3> QED
      BY <2>1, <3>2, <3>3 DEF ReleaseInv
  <2> QED
    BY <2>2, <2>3
<1>3. ReleaseInv => NoLostRelease
  BY DEF ReleaseInv
<1> QED
  BY <1>1, <1>2, <1>3, PTL DEF Spec
=============================================================================
