---------------------- MODULE RoleAgentManager_proofs ----------------------
(***************************************************************************)
(* Proofs about RoleAgentManager, for every set of tasks and of roles, any *)
(* number of worker processes and of restarts.                             *)
(*                                                                         *)
(* SlotsInv is the argument why a role never stays busy without a worker   *)
(* that will free it. The slot of a role knows its worker; a worker that   *)
(* may be given more work has at most the job its slot names. A claim has  *)
(* a token of its own, so a task.finished never frees the slot of a later  *)
(* claim, and the only steps that take a job, a message or a process away  *)
(* leave behind the next thing the main process will hear of.              *)
(***************************************************************************)
EXTENDS RoleAgentManager, FiniteSetTheorems, TLAPS

USE RoleAgentManagerAssumption

-----------------------------------------------------------------------------
(* Typing.                                                                   *)

\* The values every variable may take.
LEMMA Shapes ==
  /\ Children \subseteq Tokens /\ Children \subseteq Nat /\ NoChild \notin Children
  /\ NoToken \in Tokens
  /\ TERMINAL_STATUSES \subseteq TaskStatuses
  /\ FreeSlot \in Slot /\ NoReconcile \in Reconcile /\ NewRow \in Row
  BY DEF Children, Tokens, NoChild, NoToken, TERMINAL_STATUSES, TaskStatuses, FreeSlot, Slot,
     NoReconcile,
     Reconcile, NewRow, Row

\* What the TaskStore methods write is a row.
LEMMA RowTypes ==
  /\ \A row \in Row, to \in TaskStatuses : Moved(row, to) \in Row
  /\ \A row \in Row : Finished(row) \in Row
  /\ \A row \in Row, t \in Tasks, b \in BOOLEAN :
        FailStatus(t, row) \in TaskStatuses /\ Failed(t, row, b) \in Row
  /\ \A row \in Row, token \in Tokens : Claimed(row, token) \in Row
<1>1. ASSUME NEW row \in Row, NEW to \in TaskStatuses PROVE Moved(row, to) \in Row
  BY Shapes DEF Moved, Row
<1>2. ASSUME NEW row \in Row PROVE Finished(row) \in Row
  <2>1. Moved(row, "done") \in Row
    BY <1>1 DEF TaskStatuses
  <2> QED
    BY <2>1 DEF Finished, Row
<1>3. ASSUME NEW row \in Row, NEW t \in Tasks PROVE FailStatus(t, row) \in TaskStatuses
  BY DEF FailStatus, TaskStatuses
<1>4. ASSUME NEW row \in Row, NEW t \in Tasks, NEW b \in BOOLEAN PROVE Failed(t, row, b) \in Row
  <2> DEFINE moved == Moved(row, FailStatus(t, row))
  <2>1. moved \in Row
    BY <1>1, <1>3
  <2>2. Failed(t, row, b) = [moved EXCEPT !.retry = moved.retry + 1, !.result = moved.result \/ b]
    BY DEF Failed
  <2> HIDE DEF moved
  <2>3. moved.retry + 1 \in Nat /\ (moved.result \/ b) \in BOOLEAN
    BY <2>1 DEF Row
  <2> DEFINE retry == moved.retry + 1
             result == moved.result \/ b
  <2>4. Failed(t, row, b) = [moved EXCEPT !.retry = retry, !.result = result]
    BY <2>2
  <2>5. retry \in Nat /\ result \in BOOLEAN
    BY <2>3
  <2> HIDE DEF retry, result
  <2> QED
    BY <2>1, <2>4, <2>5 DEF Row
<1>5. ASSUME NEW row \in Row, NEW token \in Tokens PROVE Claimed(row, token) \in Row
  <2>1. Moved(row, "running") \in Row
    BY <1>1 DEF TaskStatuses
  <2> QED
    BY <2>1 DEF Claimed, Row
<1> QED
  BY <1>1, <1>2, <1>3, <1>4, <1>5

\* What the dispatcher makes of a slot is a slot.
LEMMA SlotTypes ==
  /\ \A s \in Slot : Exited(s) \in Slot
  /\ \A s \in Slot, c \in Children, t \in Tasks, token \in Tokens :
       [s EXCEPT !.child = c, !.active = t, !.lease = token, !.timer = FALSE] \in Slot
  /\ \A s \in Slot, b \in BOOLEAN : [s EXCEPT !.active = NoTask, !.lease = NoToken, !.timer = b] \in Slot
  /\ \A s \in Slot : [s EXCEPT !.active = NoTask, !.lease = NoToken] \in Slot
  BY Shapes DEF Slot, Exited

\* A worker process stays one when it is killed, gets a job or sends a message.
LEMMA ChildTypes ==
  /\ \A x \in Child : Killed(x) \in Child
  /\ \A x \in Child, pc \in {"none", "alive", "dead", "gone"}, jobs \in SUBSET Job :
        [x EXCEPT !.pc = pc, !.jobs = jobs] \in Child
  /\ \A x \in Child, jobs \in SUBSET Job, sent \in SUBSET Message :
        [x EXCEPT !.jobs = jobs, !.sent = sent] \in Child
  BY DEF Child, Killed

\* What a suspended method remembers.
LEMMA ContTypes ==
  /\ \A t \in Tasks, then \in {"drain", "reconcile"} : EnqueueLater(t, then) \in Cont
  /\ \A m \in Message, b \in BOOLEAN : FinishedLater(m, b) \in Cont
  BY Shapes DEF EnqueueLater, FinishedLater, Cont, Message

\* The writes to rows and queues keep the tables typed.
LEMMA SettleTypes ==
  ASSUME task \in [Tasks -> Row], queued \in SUBSET Tasks, NEW t \in Tasks, NEW row \in Row
  PROVE  /\ Settle(t, row) => task' \in [Tasks -> Row] /\ queued' \in SUBSET Tasks
         /\ EnqueueTask(t, row) => task' \in [Tasks -> Row] /\ queued' \in SUBSET Tasks
<1>1. Moved(row, "queued") \in Row
  BY RowTypes DEF TaskStatuses
<1> QED
  BY <1>1 DEF Settle, EnqueueTask

\* What reconcile has left to look at.
Todo == [task : Tasks, row : Row]

\* How the caller of recoverTask goes on.
LEMMA CallerTypes ==
  ASSUME TypeOK, NEW then \in {"drain", "reconcile"}, NEW todo \in SUBSET Todo
  PROVE  /\ \A roles \in SUBSET Roles : Proceed(then, todo, roles) =>
              conts' \in SUBSET Cont /\ due' \in SUBSET Roles /\ reconcile' \in Reconcile
         /\ \A t \in Tasks : Enqueueing(t, then, todo) =>
              conts' \in SUBSET Cont /\ due' \in SUBSET Roles /\ reconcile' \in Reconcile
         /\ Throws(then) => due' \in SUBSET Roles /\ reconcile' \in Reconcile
<1>1. /\ \A b \in BOOLEAN : [on |-> TRUE, waiting |-> b, todo |-> todo] \in Reconcile
      /\ NoReconcile \in Reconcile /\ reconcile \in Reconcile
  BY Shapes DEF Reconcile, Todo, TypeOK
<1>2. conts \in SUBSET Cont /\ due \in SUBSET Roles
  BY DEF TypeOK
<1>3. ASSUME NEW roles \in SUBSET Roles, Proceed(then, todo, roles)
      PROVE  conts' \in SUBSET Cont /\ due' \in SUBSET Roles /\ reconcile' \in Reconcile
  BY <1>1, <1>2, <1>3 DEF Proceed
<1>4. ASSUME NEW t \in Tasks, Enqueueing(t, then, todo)
      PROVE  conts' \in SUBSET Cont /\ due' \in SUBSET Roles /\ reconcile' \in Reconcile
  BY <1>1, <1>2, <1>4, ContTypes DEF Enqueueing
<1>5. Throws(then) => due' \in SUBSET Roles /\ reconcile' \in Reconcile
  BY <1>1, <1>2 DEF Throws
<1> QED
  BY <1>3, <1>4, <1>5

\* The variables a recovery writes, typed.
RecoveryTyped ==
  /\ task' \in [Tasks -> Row] /\ queued' \in SUBSET Tasks
  /\ conts' \in SUBSET Cont /\ due' \in SUBSET Roles /\ reconcile' \in Reconcile

\* enqueueInspection writes what is typed.
LEMMA InspectionTypes ==
  ASSUME TypeOK, NEW t \in Tasks, NEW now \in Row, NEW row \in Row,
         NEW then \in {"drain", "reconcile"},
         NEW todo \in SUBSET Todo, EnqueueInspection(t, now, row, then, todo)
  PROVE  RecoveryTyped
<1>1. CASE task' = [task EXCEPT ![t] = now] /\ queued' = queued /\ Proceed(then, todo, {})
  BY <1>1, CallerTypes DEF RecoveryTyped, TypeOK
<1>2. ASSUME NEW i \in Inspectors,
             LET new == [task EXCEPT ![i] = [NewRow EXCEPT !.target = t]] IN
          /\ task[i].status = "absent"
          /\ IF CanMove(now, "needs_inspection")
             THEN /\ task' = [new EXCEPT ![t] = [Moved(now, "needs_inspection")
                                                   EXCEPT !.inspected = TRUE]]
                  /\ queued' = queued \ {t}
                  /\ Enqueueing(i, then, todo)
             ELSE /\ task' = new
                  /\ UNCHANGED <<queued, conts>>
                  /\ Throws(then)
      PROVE  RecoveryTyped
  <2> DEFINE new == [task EXCEPT ![i] = [NewRow EXCEPT !.target = t]]
  <2>1. i \in Tasks
    OBVIOUS
  <2>2. [NewRow EXCEPT !.target = t] \in Row
    BY Shapes DEF Row
  <2>3. new \in [Tasks -> Row]
    BY <2>1, <2>2 DEF TypeOK
  <2>4. [Moved(now, "needs_inspection") EXCEPT !.inspected = TRUE] \in Row
    <3>1. Moved(now, "needs_inspection") \in Row
      BY RowTypes DEF TaskStatuses
    <3> QED
      BY <3>1 DEF Row
  <2>5. task' \in [Tasks -> Row]
    BY <1>2, <2>3, <2>4
  <2>6. queued' \in SUBSET Tasks
    BY <1>2 DEF TypeOK
  <2>7. conts' \in SUBSET Cont /\ due' \in SUBSET Roles /\ reconcile' \in Reconcile
    <3>1. CASE Enqueueing(i, then, todo)
      BY <2>1, <3>1, CallerTypes
    <3>2. CASE UNCHANGED conts /\ Throws(then)
      BY <3>2, CallerTypes DEF TypeOK
    <3> QED
      BY <1>2, <3>1, <3>2
  <2> QED
    BY <2>5, <2>6, <2>7 DEF RecoveryTyped
<1> QED
  BY <1>1, <1>2 DEF EnqueueInspection

\* So does recoverTask.
LEMMA RecoverTypes ==
  ASSUME TypeOK, NEW t \in Tasks, NEW now \in Row, NEW row \in Row,
         NEW then \in {"drain", "reconcile"},
         NEW todo \in SUBSET Todo, RecoverTask(t, now, row, then, todo)
  PROVE  RecoveryTyped
<1>1. CASE EnqueueInspection(t, now, row, then, todo)
  BY <1>1, InspectionTypes
<1>2. CASE EnqueueTask(t, Failed(t, now, FALSE)) /\ Proceed(then, todo, {Role[t]})
  <2>1. Failed(t, now, FALSE) \in Row /\ {Role[t]} \subseteq Roles
    BY RowTypes
  <2>2. Moved(Failed(t, now, FALSE), "queued") \in Row
    BY <2>1, RowTypes DEF TaskStatuses
  <2>3. task' \in [Tasks -> Row] /\ queued' \in SUBSET Tasks
    BY <1>2, <2>2 DEF EnqueueTask, TypeOK
  <2> QED
    BY <1>2, <2>1, <2>3, CallerTypes DEF RecoveryTyped
<1>3. CASE /\ Settle(t, Finished(now)) \/ Settle(t, Failed(t, now, FALSE))
           /\ Proceed(then, todo, {})
  <2>1. Finished(now) \in Row /\ Failed(t, now, FALSE) \in Row
    BY RowTypes
  <2>2. task' \in [Tasks -> Row] /\ queued' \in SUBSET Tasks
    BY <1>3, <2>1, SettleTypes DEF TypeOK
  <2> QED
    BY <1>3, <2>2, CallerTypes DEF RecoveryTyped
<1>4. CASE UNCHANGED <<task, queued, conts>> /\ Throws(then)
  BY <1>4, CallerTypes DEF RecoveryTyped, TypeOK
<1> QED
  BY <1>1, <1>2, <1>3, <1>4 DEF RecoverTask

\* The initial states are typed.
LEMMA TypeInit == Init => TypeOK
<1> SUFFICES ASSUME Init PROVE TypeOK
  OBVIOUS
<1>1. [NewRow EXCEPT !.status = "absent"] \in Row
  BY Shapes DEF Row
<1>2. (CHOOSE r \in Roles : TRUE) \in Roles
  OBVIOUS
<1>3. child \in [Children -> Child]
  BY <1>2 DEF Init, Child
<1> QED
  BY <1>1, <1>3, Shapes DEF Init, TypeOK, Tokens

\* Every step keeps the types.
LEMMA TypeNext == TypeOK /\ [Next]_vars => TypeOK'
<1> SUFFICES ASSUME TypeOK, [Next]_vars PROVE TypeOK'
  OBVIOUS
<1>0. /\ task \in [Tasks -> Row] /\ queued \in SUBSET Tasks /\ claims \in Tokens
      /\ slot \in [Roles -> Slot]
      /\ child \in [Children -> Child] /\ conts \in SUBSET Cont /\ due \in SUBSET Roles
      /\ reconcile \in Reconcile /\ restarts \in 0..MaxRestarts
  BY DEF TypeOK
<1>1. ASSUME NEW t \in Tasks, StartTask(t) PROVE TypeOK'
  BY <1>0, <1>1, SettleTypes DEF StartTask, TypeOK
<1>2. ASSUME NEW t \in Tasks, CancelTask(t) PROVE TypeOK'
  <2>1. task' \in [Tasks -> Row] /\ queued' \in SUBSET Tasks
    BY <1>0, <1>2, SettleTypes, RowTypes DEF CancelTask, TaskStatuses
  <2>2. slot' \in [Roles -> Slot]
    BY <1>0, <1>2, SlotTypes DEF CancelTask
  <2>3. child' \in [Children -> Child]
    BY <1>0, <1>2, ChildTypes DEF CancelTask
  <2> QED
    BY <1>0, <1>2, <2>1, <2>2, <2>3 DEF CancelTask, TypeOK
<1>3. ASSUME NEW t \in Tasks, LeaseExpires(t) PROVE TypeOK'
  <2>1. \A row \in Row : [row EXCEPT !.expired = TRUE] \in Row
    BY DEF Row
  <2>2. task' \in [Tasks -> Row]
    BY <1>0, <1>3, <2>1 DEF LeaseExpires
  <2> QED
    BY <1>0, <1>3, <2>2 DEF LeaseExpires, TypeOK
<1>4. ASSUME NEW k \in conts, EnqueueTurn(k) PROVE TypeOK'
  <2>1. k.task \in Tasks /\ k.then \in {"drain", "reconcile"}
    BY <1>0 DEF Cont
  <2>2. task' \in [Tasks -> Row] /\ queued' \in SUBSET Tasks
    BY <1>0, <1>4, <2>1, SettleTypes DEF EnqueueTurn
  <2>3. due' \in SUBSET Roles /\ reconcile' \in Reconcile
    <3>1. [reconcile EXCEPT !.waiting = FALSE] \in Reconcile
      BY <1>0 DEF Reconcile
    <3> QED
      BY <1>0, <1>4, <2>1, <3>1, Shapes DEF EnqueueTurn, Throws
  <2> QED
    BY <1>0, <1>4, <2>2, <2>3 DEF EnqueueTurn, TypeOK
<1>5. ASSUME NEW k \in conts, FinishedTurn(k) PROVE TypeOK'
  BY <1>0, <1>5 DEF FinishedTurn, TypeOK
<1>6. ASSUME NEW r \in Roles, DrainNothing(r) PROVE TypeOK'
  BY <1>0, <1>6 DEF DrainNothing, TypeOK
<1>7. ASSUME NEW r \in Roles, NEW t \in Tasks, DrainClaim(r, t) PROVE TypeOK'
  <2> DEFINE token == claims + 1
             job == [task |-> t, token |-> token, pc |-> "sent"]
             fresh == [pc |-> "alive", role |-> r, killed |-> FALSE, linked |-> TRUE,
                       jobs |-> {job}, sent |-> {}]
  <2>1. token \in Children /\ token \in Tokens
    BY <1>7, Shapes DEF DrainClaim
  <2>2. task' \in [Tasks -> Row] /\ claims' \in Tokens /\ due' \in SUBSET Roles
    BY <1>0, <1>7, <2>1, RowTypes DEF DrainClaim
  <2>3. queued' \in SUBSET Tasks
    BY <1>0, <1>7 DEF DrainClaim
  <2>4. job \in Job
    BY <2>1 DEF Job
  <2>5. fresh \in Child
    BY <2>4 DEF Child
  <2>6. slot' \in [Roles -> Slot] /\ child' \in [Children -> Child]
    <3>1. CASE /\ MayReuse(slot[r].child)
               /\ slot' = [slot EXCEPT ![r] = [@ EXCEPT !.child = slot[r].child, !.active = t,
                                                        !.lease = token, !.timer = FALSE]]
               /\ child' = [child EXCEPT ![slot[r].child].jobs =
                              IF MustReuse(slot[r].child) THEN @ \union {job} ELSE @]
      <4>1. slot[r].child \in Children
        BY <1>0, <3>1 DEF MayReuse, Slot
      <4>2. slot' \in [Roles -> Slot]
        BY <1>0, <2>1, <3>1, <4>1, SlotTypes
      <4>3. [child[slot[r].child] EXCEPT !.jobs = IF MustReuse(slot[r].child)
                                                  THEN @ \union {job} ELSE @] \in Child
        BY <1>0, <2>4, <4>1 DEF Child
      <4>4. child' \in [Children -> Child]
        BY <1>0, <3>1, <4>1, <4>3
      <4> QED
        BY <4>2, <4>4
    <3>2. CASE /\ slot' = [slot EXCEPT ![r] = [@ EXCEPT !.child = token, !.active = t,
                                                        !.lease = token, !.timer = FALSE]]
               /\ child' = [child EXCEPT ![token] = fresh]
      BY <1>0, <2>1, <2>5, <3>2, SlotTypes
    <3> QED
      BY <1>7, <3>1, <3>2 DEF DrainClaim
  <2> QED
    BY <1>0, <1>7, <2>2, <2>3, <2>6 DEF DrainClaim, TypeOK
<1>8. ASSUME NEW r \in Roles, NEW t \in Tasks, DrainFails(r, t) PROVE TypeOK'
  <2>1. claims' \in Tokens /\ claims + 1 \in Tokens
    BY <1>8, Shapes DEF DrainFails
  <2>2. Claimed(task[t], claims + 1) \in Row
    BY <1>0, <2>1, RowTypes
  <2>3. RecoveryTyped
    BY <1>0, <1>8, <2>2, RecoverTypes DEF DrainFails
  <2>4. [slot[r] EXCEPT !.timer = FALSE,
                        !.child = IF MayReuse(slot[r].child) THEN slot[r].child ELSE NoChild] \in Slot
    <3>1. \A s \in Slot : \A c \in Children \union {NoChild} :
            [s EXCEPT !.timer = FALSE, !.child = c] \in Slot
      BY DEF Slot
    <3>2. slot[r] \in Slot /\ slot[r].child \in Children \union {NoChild}
      BY <1>0 DEF Slot
    <3> QED
      BY <3>1, <3>2
  <2>5. slot' = [slot EXCEPT ![r] =
                   [slot[r] EXCEPT !.timer = FALSE,
                                   !.child = IF MayReuse(slot[r].child) THEN slot[r].child ELSE NoChild]]
    BY <1>0, <1>8 DEF DrainFails, Slot
  <2>6. slot' \in [Roles -> Slot]
    BY <1>0, <2>4, <2>5
  <2> QED
    BY <1>0, <1>8, <2>1, <2>3, <2>6 DEF DrainFails, TypeOK, RecoveryTyped
<1>9. ASSUME NEW r \in Roles, IdleTimer(r) PROVE TypeOK'
  <2> DEFINE release == slot[r].child # NoChild /\ ~child[slot[r].child].killed /\ slot[r].active = NoTask
  <2>1. slot' = [slot EXCEPT ![r] =
                   [slot[r] EXCEPT !.timer = FALSE, !.releasing = slot[r].releasing \/ release]]
    BY <1>0, <1>9 DEF IdleTimer, Slot
  <2>2. [slot[r] EXCEPT !.timer = FALSE, !.releasing = slot[r].releasing \/ release] \in Slot
    <3>1. \A s \in Slot : \A b \in BOOLEAN : [s EXCEPT !.timer = FALSE, !.releasing = b] \in Slot
      BY DEF Slot
    <3>2. slot[r] \in Slot /\ (slot[r].releasing \/ release) \in BOOLEAN
      BY <1>0 DEF Slot
    <3> QED
      BY <3>1, <3>2
  <2>3. slot[r].child \in Children \union {NoChild}
    BY <1>0 DEF Slot
  <2>4. slot' \in [Roles -> Slot]
    BY <1>0, <2>1, <2>2
  <2>5. child' \in [Children -> Child]
    BY <1>0, <1>9, <2>3, ChildTypes DEF IdleTimer
  <2> QED
    BY <1>0, <1>9, <2>4, <2>5 DEF IdleTimer, TypeOK
<1>10. /\ ExpiredLeases \subseteq Todo
       /\ \A todo \in SUBSET Todo : RecoverNext(todo) => RecoveryTyped
       /\ EndReconcile => RecoveryTyped
  <2>1. ExpiredLeases \subseteq Todo
    BY <1>0 DEF ExpiredLeases, Todo
  <2>2. ASSUME NEW todo \in SUBSET Todo, RecoverNext(todo) PROVE RecoveryTyped
    <3>1. PICK s \in todo : RecoverTask(s.task, task[s.task], s.row, "reconcile", todo \ {s})
      BY <2>2 DEF RecoverNext
    <3>2. s.task \in Tasks /\ s.row \in Row
      BY DEF Todo
    <3> QED
      BY <1>0, <3>1, <3>2, RecoverTypes
  <2>3. EndReconcile => RecoveryTyped
    BY <1>0, Shapes DEF EndReconcile, RecoveryTyped
  <2> QED
    BY <2>1, <2>2, <2>3
<1>11. ASSUME StartReconcile \/ ReconcileNext PROVE TypeOK'
  <2>1. reconcile.todo \in SUBSET Todo
    BY <1>0 DEF Reconcile, Todo
  <2>2. RecoveryTyped
    BY <1>10, <1>11, <2>1 DEF StartReconcile, ReconcileNext
  <2> QED
    BY <1>0, <1>11, <2>2 DEF StartReconcile, ReconcileNext, RecoveryTyped, TypeOK
<1>12. ASSUME Restart PROVE TypeOK'
  <2>1. restarts' \in 0..MaxRestarts
    <3>1. restarts < MaxRestarts /\ restarts' = restarts + 1
      BY <1>12 DEF Restart
    <3>2. restarts \in Nat /\ MaxRestarts \in Nat
      BY <1>0
    <3> QED
      BY <3>1, <3>2
  <2>2. PICK K \in SUBSET {c \in Children : child[c].pc = "alive"} :
          child' = [c \in Children |->
                   [child[c] EXCEPT !.pc = IF @ = "dead" THEN "gone" ELSE @,
                                    !.killed = @ \/ c \in K,
                                    !.linked = FALSE, !.sent = {}]]
    BY <1>12 DEF Restart
  <2>3. ASSUME NEW c \in Children
        PROVE  [child[c] EXCEPT !.pc = IF child[c].pc = "dead" THEN "gone" ELSE child[c].pc,
                                !.killed = child[c].killed \/ c \in K,
                                !.linked = FALSE, !.sent = {}] \in Child
    <3>1. \A x \in Child : \A pc \in {"none", "alive", "dead", "gone"}, b \in BOOLEAN :
            [x EXCEPT !.pc = pc, !.killed = b, !.linked = FALSE, !.sent = {}] \in Child
      BY DEF Child
    <3>2. /\ child[c] \in Child /\ child[c].pc \in {"none", "alive", "dead", "gone"}
          /\ (child[c].killed \/ c \in K) \in BOOLEAN
      BY <1>0 DEF Child
    <3> QED
      BY <3>1, <3>2
  <2>4. child' \in [Children -> Child]
    BY <2>2, <2>3
  <2> QED
    BY <1>0, <1>12, <2>1, <2>4, Shapes DEF Restart, TypeOK
<1>13. ASSUME NEW c \in Children, NEW m \in child[c].sent, HandleFinished(c, m) PROVE TypeOK'
  <2>1. child[c] \in Child /\ child[c].role \in Roles /\ m \in Message
    BY <1>0 DEF Child
  <2>2. [child[c] EXCEPT !.sent = @ \ {m}] \in Child
    BY <2>1 DEF Child
  <2>3. child' \in [Children -> Child]
    BY <1>0, <1>13, <2>2 DEF HandleFinished
  <2>4. slot' \in [Roles -> Slot]
    BY <1>0, <1>13, <2>1, SlotTypes DEF HandleFinished
  <2>5. conts' \in SUBSET Cont
    <3>1. (task[m.task].status \in TERMINAL_STATUSES) \in BOOLEAN
      OBVIOUS
    <3>2. FinishedLater(m, task[m.task].status \in TERMINAL_STATUSES) \in Cont
      BY <2>1, <3>1, ContTypes
    <3>3. conts' = conts \union {FinishedLater(m, task[m.task].status \in TERMINAL_STATUSES)}
      BY <1>13 DEF HandleFinished
    <3> QED
      BY <1>0, <3>2, <3>3
  <2> QED
    BY <1>0, <1>13, <2>3, <2>4, <2>5 DEF HandleFinished, TypeOK
<1>14. ASSUME NEW c \in Children, HandleExit(c) PROVE TypeOK'
  <2>1. child[c] \in Child /\ child[c].role \in Roles
    BY <1>0 DEF Child
  <2>2. [child[c] EXCEPT !.pc = "gone"] \in Child
    BY <2>1 DEF Child
  <2>3. child' \in [Children -> Child] /\ slot' \in [Roles -> Slot]
    BY <1>0, <1>14, <2>1, <2>2, SlotTypes DEF HandleExit
  <2>4. slot[child[c].role].active \in Tasks \union {NoTask}
    BY <1>0, <2>1 DEF Slot
  <2>5. RecoveryTyped
    <3>1. ASSUME NEW t \in Tasks, RecoverTask(t, task[t], task[t], "drain", {}) PROVE RecoveryTyped
      BY <1>0, <3>1, RecoverTypes
    <3>2. ASSUME due' = Roles, UNCHANGED <<task, queued, conts, reconcile>> PROVE RecoveryTyped
      BY <1>0, <3>2 DEF RecoveryTyped
    <3> QED
      BY <1>14, <2>4, <3>1, <3>2 DEF HandleExit
  <2> QED
    BY <1>0, <1>14, <2>3, <2>5 DEF HandleExit, RecoveryTyped, TypeOK
<1>15. ASSUME NEW c \in Children, NEW j \in child[c].jobs
       PROVE  /\ j \in Job
              /\ \A pc \in {"sent", "working", "inspected", "failing"} : JobGoes(c, j, pc) =>
                   child' \in [Children -> Child]
              /\ JobEnds(c, j) => child' \in [Children -> Child]
  <2>1. child[c] \in Child /\ j \in Job
    BY <1>0 DEF Child
  <2>2. ASSUME NEW pc \in {"sent", "working", "inspected", "failing"}, JobGoes(c, j, pc)
        PROVE  child' \in [Children -> Child]
    <3>1. [j EXCEPT !.pc = pc] \in Job
      BY <2>1 DEF Job
    <3>2. [child[c] EXCEPT !.jobs = (@ \ {j}) \union {[j EXCEPT !.pc = pc]}] \in Child
      BY <2>1, <3>1 DEF Child
    <3> QED
      BY <1>0, <2>2, <3>2 DEF JobGoes
  <2>3. ASSUME JobEnds(c, j) PROVE child' \in [Children -> Child]
    <3> DEFINE jobs == child[c].jobs \ {j}
               sent == IF child[c].linked /\ ~child[c].killed
                       THEN child[c].sent \union {[task |-> j.task, token |-> j.token]} ELSE child[c].sent
    <3>1. child' = [child EXCEPT ![c] = [child[c] EXCEPT !.jobs = jobs, !.sent = sent]]
      BY <1>0, <2>3 DEF JobEnds, Child
    <3>2. [task |-> j.task, token |-> j.token] \in Message
      BY <2>1 DEF Job, Message
    <3>3. [child[c] EXCEPT !.jobs = jobs, !.sent = sent] \in Child
      BY <2>1, <3>2 DEF Child
    <3> QED
      BY <1>0, <3>1, <3>3
  <2> QED
    BY <2>1, <2>2, <2>3
<1>16. ASSUME NEW c \in Children, NEW j \in child[c].jobs, JobClaims(c, j) PROVE TypeOK'
  <2>1. j.task \in Tasks /\ j.token \in Tokens
    BY <1>15 DEF Job
  <2>2. child' \in [Children -> Child]
    BY <1>15, <1>16 DEF JobClaims
  <2>3. task' \in [Tasks -> Row]
    BY <1>0, <1>16, <2>1, RowTypes DEF JobClaims
  <2> QED
    BY <1>0, <1>16, <2>2, <2>3 DEF JobClaims, TypeOK
<1>17. ASSUME NEW c \in Children, NEW j \in child[c].jobs, JobInspects(c, j) PROVE TypeOK'
  <2>1. j.task \in Tasks
    BY <1>15 DEF Job
  <2>2. child' \in [Children -> Child]
    BY <1>15, <1>17 DEF JobInspects
  <2>3. task' \in [Tasks -> Row]
    <3> DEFINE x == task[j.task].target
    <3>1. CASE task' = [task EXCEPT ![x] = Moved(@, "failed")]
      <4>1. CASE x \in Tasks
        BY <1>0, <3>1, <4>1, RowTypes DEF TaskStatuses
      <4>2. CASE x \notin Tasks
        BY <1>0, <3>1, <4>2
      <4> QED
        BY <4>1, <4>2
    <3> QED
      BY <1>0, <1>17, <3>1 DEF JobInspects
  <2> QED
    BY <1>0, <1>17, <2>2, <2>3 DEF JobInspects, TypeOK
<1>18. ASSUME NEW c \in Children, NEW j \in child[c].jobs,
              JobFinishes(c, j) \/ JobThrows(c, j) \/ JobFails(c, j)
       PROVE  TypeOK'
  <2>1. j.task \in Tasks
    BY <1>15 DEF Job
  <2>2. child' \in [Children -> Child]
    BY <1>15, <1>18 DEF JobFinishes, JobThrows, JobFails
  <2>3. task' \in [Tasks -> Row] /\ queued' \in SUBSET Tasks
    <3>1. Finished(task[j.task]) \in Row /\ Failed(j.task, task[j.task], TRUE) \in Row
      BY <1>0, <2>1, RowTypes
    <3> QED
      BY <1>0, <1>18, <2>1, <3>1, SettleTypes DEF JobFinishes, JobThrows, JobFails
  <2> QED
    BY <1>0, <1>18, <2>2, <2>3 DEF JobFinishes, JobThrows, JobFails, TypeOK
<1>19. ASSUME NEW c \in Children, ChildDies(c) PROVE TypeOK'
  <2>1. [child[c] EXCEPT !.pc = IF child[c].linked THEN "dead" ELSE "gone", !.jobs = {}] \in Child
    BY <1>0, ChildTypes
  <2>2. child' = [child EXCEPT ![c] =
                    [child[c] EXCEPT !.pc = IF child[c].linked THEN "dead" ELSE "gone", !.jobs = {}]]
    BY <1>0, <1>19 DEF ChildDies, Child
  <2>3. child' \in [Children -> Child]
    BY <1>0, <2>1, <2>2
  <2> QED
    BY <1>0, <1>19, <2>3 DEF ChildDies, TypeOK
<1>20. ASSUME NEW c \in Children, NEW t \in Tasks, Heartbeat(c, t) PROVE TypeOK'
  <2>1. \A row \in Row : [row EXCEPT !.expired = FALSE] \in Row
    BY DEF Row
  <2>2. task' \in [Tasks -> Row]
    BY <1>0, <1>20, <2>1 DEF Heartbeat
  <2> QED
    BY <1>0, <1>20, <2>2 DEF Heartbeat, TypeOK
<1>21. CASE UNCHANGED vars
  BY <1>0, <1>21 DEF vars, TypeOK
<1>22. CASE Next
  BY <1>1, <1>2, <1>3, <1>4, <1>5, <1>6, <1>7, <1>8, <1>9, <1>11, <1>12, <1>13, <1>14, <1>16,
     <1>17, <1>18, <1>19, <1>20, <1>22 DEF Next, DrainRole, FinishedMessage, JobStep
<1> QED
  BY <1>21, <1>22

-----------------------------------------------------------------------------
(* Slots and their workers.                                                  *)

\* A slot's worker was forked for its role, by this main process.
SlotKnowsChild ==
  \A r \in Roles : slot[r].child # NoChild =>
    child[slot[r].child].role = r /\ child[slot[r].child].linked

\* What a slot's worker works on is the task and the lease of the slot.
SlotKnowsJob ==
  \A r \in Roles : slot[r].child # NoChild =>
    LET x == child[slot[r].child] IN
    x.pc = "alive" /\ ~x.killed =>
      \A j \in x.jobs : slot[r].active = j.task /\ slot[r].lease = j.token

\* A worker process has at most one job.
OneJob == \A c \in Children : \A j, k \in child[c].jobs : j = k

\* Jobs and messages carry the token of a claim that was made.
TokensUsed ==
  \A c \in Children :
    /\ \A j \in child[c].jobs : j.token <= claims
    /\ \A m \in child[c].sent : m.token <= claims

\* Two workers never work on the same claim, and once the end of a claim has been
\* reported no worker works on it.
TokensApart ==
  \A c, d \in Children :
    /\ \A j \in child[c].jobs, k \in child[d].jobs : j.token = k.token => c = d
    /\ \A m \in child[c].sent, j \in child[d].jobs : m.token # j.token

\* Worker processes are forked by the claim they are numbered by.
Unforked == \A c \in Children : c > claims => ~child[c].linked

\* The part of the invariant about claims and their tokens.
Tokened == OneJob /\ TokensUsed /\ TokensApart /\ Unforked

\* Worker process x will free the slot of role r from the claim of t by this token.
Serves(x, r, t, token) ==
  /\ x.role = r /\ x.linked
  /\ \/ x.pc = "dead"
     \/ [task |-> t, token |-> token] \in x.sent
     \/ /\ x.pc = "alive" /\ ~x.killed
        /\ \E j \in x.jobs : j.task = t /\ j.token = token

\* ActiveSlotHasWorker in terms of Serves.
LEMMA ServedSlots ==
  ActiveSlotHasWorker <=>
    \A r \in Roles : slot[r].active # NoTask =>
      \E c \in Children : Serves(child[c], r, slot[r].active, slot[r].lease)
  BY Zenon DEF ActiveSlotHasWorker, Serves

\* The inductive invariant.
SlotsInv == Tokened /\ SlotKnowsChild /\ SlotKnowsJob /\ ActiveSlotHasWorker

\* There are neither workers nor busy slots at first.
LEMMA SlotsInit == Init => SlotsInv
<1> SUFFICES ASSUME Init PROVE SlotsInv
  OBVIOUS
<1>1. /\ \A r \in Roles : slot[r].child = NoChild /\ slot[r].active = NoTask
      /\ \A c \in Children : child[c].jobs = {} /\ child[c].sent = {} /\ child[c].linked = FALSE
  BY DEF Init, FreeSlot
<1> QED
  BY <1>1 DEF SlotsInv, Tokened, OneJob, TokensUsed, TokensApart, Unforked, SlotKnowsChild,
     SlotKnowsJob,
     ActiveSlotHasWorker

\* A step that makes no claim and adds neither jobs nor messages keeps Tokened.
LEMMA QuietTokens ==
  ASSUME Tokened, claims' = claims,
         \A c \in Children : /\ child'[c].jobs \subseteq child[c].jobs
                             /\ child'[c].sent \subseteq child[c].sent
                             /\ child'[c].linked => child[c].linked
  PROVE  Tokened'
  BY DEF Tokened, OneJob, TokensUsed, TokensApart, Unforked

\* A step that touches neither slots nor workers keeps the invariant.
LEMMA QuietSlots ==
  ASSUME SlotsInv, UNCHANGED <<claims, slot, child>>
  PROVE  SlotsInv'
  BY DEF SlotsInv, Tokened, OneJob, TokensUsed, TokensApart, Unforked, SlotKnowsChild, SlotKnowsJob,
     ActiveSlotHasWorker

\* What a kill leaves of a worker process.
LEMMA KilledChild ==
  ASSUME NEW x \in Child
  PROVE  /\ Killed(x).role = x.role /\ Killed(x).linked = x.linked /\ Killed(x).pc = x.pc
         /\ Killed(x).jobs = x.jobs /\ Killed(x).sent = {}
         /\ x.pc = "alive" => Killed(x).killed
  BY DEF Killed, Child

\* A busy slot keeps a worker, when its claim stays and whoever serves it still does, or
\* when it gets a new one.
LEMMA StillServed ==
  ASSUME ActiveSlotHasWorker,
         \A r \in Roles : slot'[r].active # NoTask =>
           \/ /\ slot'[r].active = slot[r].active /\ slot'[r].lease = slot[r].lease
              /\ \A c \in Children : Serves(child[c], r, slot[r].active, slot[r].lease) =>
                                     Serves(child'[c], r, slot[r].active, slot[r].lease)
           \/ \E c \in Children : Serves(child'[c], r, slot'[r].active, slot'[r].lease)
  PROVE  ActiveSlotHasWorker'
<1> SUFFICES ASSUME NEW r \in Roles, slot'[r].active # NoTask
             PROVE  \E c \in Children : Serves(child'[c], r, slot'[r].active, slot'[r].lease)
  BY Zenon DEF ActiveSlotHasWorker, Serves
<1>1. CASE \E c \in Children : Serves(child'[c], r, slot'[r].active, slot'[r].lease)
  BY <1>1
<1>2. CASE /\ slot'[r].active = slot[r].active /\ slot'[r].lease = slot[r].lease
           /\ \A c \in Children : Serves(child[c], r, slot[r].active, slot[r].lease) =>
                                  Serves(child'[c], r, slot[r].active, slot[r].lease)
  <2>1. PICK c \in Children : Serves(child[c], r, slot[r].active, slot[r].lease)
    BY <1>2, ServedSlots
  <2> QED
    BY <1>2, <2>1
<1> QED
  BY <1>1, <1>2

\* A slot that keeps its worker knows it still.
LEMMA StillKnown ==
  ASSUME SlotKnowsChild, NEW q \in Roles, slot[q].child \in Children,
         slot'[q].child = slot[q].child,
         \A c \in Children : child'[c].role = child[c].role /\ child'[c].linked = child[c].linked
  PROVE  child'[slot'[q].child].role = q /\ child'[slot'[q].child].linked
<1> DEFINE c == slot[q].child
<1>1. c \in Children /\ slot'[q].child = c
  OBVIOUS
<1>2. c # NoChild
  BY <1>1, Shapes
<1>3. child[c].role = q /\ child[c].linked
  BY <1>2 DEF SlotKnowsChild
<1>4. child'[c].role = child[c].role /\ child'[c].linked = child[c].linked
  BY <1>1
<1> QED
  BY <1>1, <1>3, <1>4

\* So do all slots that keep their worker or lose it.
LEMMA StillKnowsChild ==
  ASSUME TypeOK, SlotKnowsChild,
         \A q \in Roles : slot'[q].child \in {slot[q].child, NoChild},
         \A c \in Children : child'[c].role = child[c].role /\ child'[c].linked = child[c].linked
  PROVE  SlotKnowsChild'
<1> SUFFICES ASSUME NEW q \in Roles, slot'[q].child # NoChild
             PROVE  child'[slot'[q].child].role = q /\ child'[slot'[q].child].linked
  BY DEF SlotKnowsChild
<1>1. slot'[q].child = slot[q].child
  OBVIOUS
<1>2. slot[q].child \in Children \union {NoChild}
  BY DEF TypeOK, Slot
<1> QED
  BY <1>1, <1>2, StillKnown

\* Slots that keep their claim know the jobs of their workers, when no worker gets a job
\* of another claim or comes back to life.
LEMMA StillKnowsJob ==
  ASSUME TypeOK, SlotKnowsJob,
         \A q \in Roles : /\ slot'[q].child \in {slot[q].child, NoChild}
                          /\ slot'[q].active = slot[q].active /\ slot'[q].lease = slot[q].lease,
         \A c \in Children : child'[c].pc = "alive" /\ ~child'[c].killed =>
           /\ child[c].pc = "alive" /\ ~child[c].killed
           /\ \A j \in child'[c].jobs : \E i \in child[c].jobs : j.task = i.task /\ j.token = i.token
  PROVE  SlotKnowsJob'
<1> SUFFICES ASSUME NEW q \in Roles, slot'[q].child # NoChild, child'[slot'[q].child].pc = "alive",
                    ~child'[slot'[q].child].killed, NEW j \in child'[slot'[q].child].jobs
             PROVE  slot'[q].active = j.task /\ slot'[q].lease = j.token
  BY DEF SlotKnowsJob
<1> DEFINE c == slot[q].child
<1>1. slot'[q].child = c /\ c # NoChild
  OBVIOUS
<1>2. c \in Children
  BY <1>1 DEF TypeOK, Slot
<1>3. /\ child[c].pc = "alive" /\ ~child[c].killed
      /\ \E i \in child[c].jobs : j.task = i.task /\ j.token = i.token
  BY <1>1, <1>2
<1> QED
  BY <1>1, <1>3 DEF SlotKnowsJob

\* Every step keeps the invariant, in every typed state.
LEMMA SlotsNext ==
  ASSUME TypeOK, SlotsInv, [Next]_vars
  PROVE  SlotsInv'
<1>0. /\ slot \in [Roles -> Slot] /\ child \in [Children -> Child] /\ claims \in Nat
      /\ \A r \in Roles : slot[r].child \in Children \union {NoChild} /\ slot[r].active \in Tasks \union {NoTask}
      /\ \A c \in Children :
           /\ child[c] \in Child /\ child[c].role \in Roles
           /\ child[c].jobs \subseteq Job /\ child[c].sent \subseteq Message
      /\ NoChild \notin Children /\ Children \subseteq Nat
  BY Shapes DEF TypeOK, Slot, Child, Tokens
<1>used. ASSUME NEW d \in Children
         PROVE  /\ \A j \in child[d].jobs : j.token <= claims /\ j.token \in Nat
                /\ \A m \in child[d].sent : m.token <= claims /\ m.token \in Nat
  <2>1. TokensUsed
    BY DEF SlotsInv, Tokened
  <2>2. ASSUME NEW j \in child[d].jobs PROVE j.token <= claims /\ j.token \in Nat
    <3>1. j \in Job
      BY <1>0
    <3>2. j.token <= claims
      BY <2>1 DEF TokensUsed
    <3> QED
      BY <3>1, <3>2 DEF Job, Tokens
  <2>3. ASSUME NEW m \in child[d].sent PROVE m.token <= claims /\ m.token \in Nat
    <3>1. m \in Message
      BY <1>0
    <3>2. m.token <= claims
      BY <2>1 DEF TokensUsed
    <3> QED
      BY <3>1, <3>2 DEF Message, Tokens
  <2> QED
    BY <2>2, <2>3
<1>1. ASSUME NEW r \in Roles, NEW t \in Tasks, DrainClaim(r, t) PROVE SlotsInv'
  <2> DEFINE token == claims + 1
             job == [task |-> t, token |-> token, pc |-> "sent"]
             c == slot[r].child
  <2>1. token \in Children /\ claims' = token /\ token > claims /\ slot[r].active = NoTask
    BY <1>0, <1>1 DEF DrainClaim, Occupied
  <2>2. job.task = t /\ job.token = token
    OBVIOUS
  <2>3. ~child[token].linked
    BY <2>1 DEF SlotsInv, Tokened, Unforked
  <2>4. CASE /\ MayReuse(c)
             /\ slot' = [slot EXCEPT ![r] = [@ EXCEPT !.child = c, !.active = t, !.lease = token, !.timer = FALSE]]
             /\ child' = [child EXCEPT ![c].jobs = IF MustReuse(c) THEN @ \union {job} ELSE @]
    <3>1. c \in Children /\ child[c].role = r /\ child[c].linked
      BY <1>0, <2>4 DEF MayReuse, SlotsInv, SlotKnowsChild
    <3>2. child[c].pc = "dead" \/ (MustReuse(c) /\ child[c].pc = "alive" /\ ~child[c].killed)
      BY <2>4 DEF MayReuse, MustReuse
    <3>3. MustReuse(c) => child[c].jobs = {}
      <4> SUFFICES ASSUME MustReuse(c), NEW j \in child[c].jobs PROVE FALSE
        OBVIOUS
      <4>1. slot[r].active = j.task
        BY <1>0, <3>1 DEF MustReuse, MayReuse, SlotsInv, SlotKnowsJob
      <4>2. j \in Job
        BY <1>0, <3>1
      <4>3. j.task \in Tasks
        BY <4>2 DEF Job
      <4> QED
        BY <2>1, <4>1, <4>3
    <3>4. /\ \A d \in Children : d # c => child'[d] = child[d]
          /\ child'[c].role = r /\ child'[c].linked /\ child'[c].pc = child[c].pc
          /\ child'[c].killed = child[c].killed /\ child'[c].sent = child[c].sent
          /\ child'[c].jobs = IF MustReuse(c) THEN {job} ELSE child[c].jobs
      <4> DEFINE jobs == IF MustReuse(c) THEN {job} ELSE child[c].jobs
      <4>1. child[c] \in Child
        BY <1>0, <3>1
      <4>2. jobs = IF MustReuse(c) THEN child[c].jobs \union {job} ELSE child[c].jobs
        BY <3>3
      <4>3. child' = [child EXCEPT ![c] = [child[c] EXCEPT !.jobs = jobs]]
        BY <2>4, <4>2 DEF Child
      <4>4. child'[c] = [child[c] EXCEPT !.jobs = jobs]
        BY <1>0, <3>1, <4>3
      <4>5. child'[c].jobs = jobs
        BY <4>1, <4>4 DEF Child
      <4>6. /\ child'[c].role = r /\ child'[c].linked /\ child'[c].pc = child[c].pc
            /\ child'[c].killed = child[c].killed /\ child'[c].sent = child[c].sent
        BY <3>1, <4>1, <4>4 DEF Child
      <4> QED
        BY <1>0, <4>3, <4>5, <4>6
    <3>5. /\ slot'[r].child = c /\ slot'[r].active = t /\ slot'[r].lease = token
          /\ \A q \in Roles : q # r => slot'[q] = slot[q]
      BY <1>0, <2>4 DEF Slot
    <3> HIDE DEF c, job, token
    <3>6. Tokened'
      <4>1. OneJob' /\ TokensUsed' /\ Unforked'
        BY <1>0, <2>1, <2>2, <3>1, <3>4 DEF SlotsInv, Tokened, OneJob, TokensUsed, Unforked, Job,
           Message, Tokens
      <4>2. \A d \in Children : \A j : j \in child'[d].jobs => j \in child[d].jobs \/ (d = c /\ j = job)
        BY <3>1, <3>4
      <4>3. \A d \in Children : \A j \in child[d].jobs : j.token <= claims /\ j.token \in Nat
        BY <1>used
      <4>4. \A d \in Children : \A m \in child[d].sent : m.token <= claims /\ m.token \in Nat
        BY <1>used
      <4>5. \A d \in Children : child'[d].sent = child[d].sent
        BY <3>4
      <4>6. \A d, e \in Children : \A j \in child'[d].jobs, k \in child'[e].jobs : j.token = k.token => d = e
        BY <1>0, <2>1, <2>2, <4>2, <4>3 DEF SlotsInv, Tokened, TokensApart
      <4>7. \A d, e \in Children : \A m \in child'[d].sent, j \in child'[e].jobs : m.token # j.token
        BY <1>0, <2>1, <2>2, <4>2, <4>3, <4>4, <4>5 DEF SlotsInv, Tokened, TokensApart
      <4> QED
        BY <4>1, <4>6, <4>7 DEF Tokened, TokensApart
    <3>7. SlotKnowsChild'
      <4>1. \A q \in Roles : slot'[q].child \in {slot[q].child, NoChild}
        BY <3>5 DEF c
      <4>2. \A d \in Children : child'[d].role = child[d].role /\ child'[d].linked = child[d].linked
        <5> SUFFICES ASSUME NEW d \in Children
                     PROVE  child'[d].role = child[d].role /\ child'[d].linked = child[d].linked
          OBVIOUS
        <5>1. CASE d = c
          <6>1. child'[c].role = child[c].role
            BY <3>1, <3>4
          <6>2. child'[c].linked = TRUE /\ child[c].linked = TRUE
            BY <1>0, <3>1, <3>4
          <6> QED
            BY <5>1, <6>1, <6>2
        <5>2. CASE d # c
          BY <3>4, <5>2
        <5> QED
          BY <5>1, <5>2
      <4> QED
        BY <4>1, <4>2, StillKnowsChild DEF SlotsInv
    <3>8. SlotKnowsJob'
      <4> SUFFICES ASSUME NEW q \in Roles, slot'[q].child # NoChild,
                          child'[slot'[q].child].pc = "alive",
                          ~child'[slot'[q].child].killed, NEW j \in child'[slot'[q].child].jobs
                   PROVE  slot'[q].active = j.task /\ slot'[q].lease = j.token
        BY DEF SlotKnowsJob
      <4>1. CASE q = r
        BY <4>1, <2>2, <3>2, <3>4, <3>5
      <4>2. CASE q # r
        <5>1. slot[q].child \in Children /\ slot'[q] = slot[q] /\ child[slot[q].child].role = q
          BY <1>0, <4>2, <3>5 DEF SlotsInv, SlotKnowsChild
        <5>2. child'[slot[q].child] = child[slot[q].child]
          BY <4>2, <5>1, <3>1, <3>4
        <5> QED
          BY <5>1, <5>2 DEF SlotsInv, SlotKnowsJob
      <4> QED
        BY <4>1, <4>2
    <3>9. ActiveSlotHasWorker'
      <4>1. Serves(child'[c], r, t, token)
        BY <2>2, <3>2, <3>4 DEF Serves
      <4>2. ASSUME NEW q \in Roles, q # r, NEW d \in Children,
                   Serves(child[d], q, slot[q].active, slot[q].lease)
            PROVE  Serves(child'[d], q, slot[q].active, slot[q].lease)
        <5>1. d # c
          BY <4>2, <3>1 DEF Serves
        <5> QED
          BY <5>1, <4>2, <3>4
      <4> QED
        BY <3>1, <3>5, <4>1, <4>2, StillServed DEF SlotsInv
    <3> QED
      BY <3>6, <3>7, <3>8, <3>9 DEF SlotsInv
  <2>5. CASE /\ slot' = [slot EXCEPT ![r] = [@ EXCEPT !.child = token, !.active = t, !.lease = token, !.timer = FALSE]]
             /\ child' = [child EXCEPT ![token] = [pc |-> "alive", role |-> r, killed |-> FALSE, linked |-> TRUE,
                                                   jobs |-> {job}, sent |-> {}]]
    <3>1. /\ \A d \in Children : d # token => child'[d] = child[d]
          /\ child'[token].role = r /\ child'[token].linked /\ child'[token].pc = "alive"
          /\ ~child'[token].killed /\ child'[token].sent = {} /\ child'[token].jobs = {job}
      BY <1>0, <2>1, <2>5
    <3>2. /\ slot'[r].child = token /\ slot'[r].active = t /\ slot'[r].lease = token
          /\ \A q \in Roles : q # r => slot'[q] = slot[q]
      BY <1>0, <2>5 DEF Slot
    <3>3. \A q \in Roles : slot[q].child # token
      BY <1>0, <2>1, <2>3 DEF SlotsInv, SlotKnowsChild
    <3> HIDE DEF c, job, token
    <3>4. Tokened'
      <4>1. OneJob' /\ TokensUsed' /\ Unforked'
        BY <1>0, <2>1, <2>2, <3>1 DEF SlotsInv, Tokened, OneJob, TokensUsed, Unforked, Job, Message,
           Tokens
      <4>2. \A d \in Children : \A j : j \in child'[d].jobs =>
              (d # token /\ j \in child[d].jobs) \/ (d = token /\ j = job)
        BY <2>1, <3>1
      <4>3. \A d \in Children : \A j \in child[d].jobs : j.token <= claims /\ j.token \in Nat
        BY <1>used
      <4>4. \A d \in Children : \A m \in child[d].sent : m.token <= claims /\ m.token \in Nat
        BY <1>used
      <4>5. \A d \in Children : child'[d].sent \subseteq child[d].sent
        BY <3>1
      <4>6. \A d, e \in Children : \A j \in child'[d].jobs, k \in child'[e].jobs : j.token = k.token => d = e
        <5> SUFFICES ASSUME NEW d \in Children, NEW e \in Children, NEW j \in child'[d].jobs,
                            NEW k \in child'[e].jobs, j.token = k.token
                     PROVE  d = e
          OBVIOUS
        <5>1. CASE j \in child[d].jobs /\ k \in child[e].jobs
          BY <5>1 DEF SlotsInv, Tokened, TokensApart
        <5>2. CASE j \in child[d].jobs /\ e = token /\ k = job
          BY <1>0, <2>1, <2>2, <4>3, <5>2
        <5>3. CASE d = token /\ j = job /\ k \in child[e].jobs
          BY <1>0, <2>1, <2>2, <4>3, <5>3
        <5>4. CASE d = token /\ e = token
          BY <5>4
        <5> QED
          BY <4>2, <5>1, <5>2, <5>3, <5>4
      <4>7. \A d, e \in Children : \A m \in child'[d].sent, j \in child'[e].jobs : m.token # j.token
        BY <1>0, <2>1, <2>2, <4>2, <4>3, <4>4, <4>5 DEF SlotsInv, Tokened, TokensApart
      <4> QED
        BY <4>1, <4>6, <4>7 DEF Tokened, TokensApart
    <3>5. SlotKnowsChild'
      <4> SUFFICES ASSUME NEW q \in Roles, slot'[q].child # NoChild
                   PROVE  child'[slot'[q].child].role = q /\ child'[slot'[q].child].linked
        BY DEF SlotKnowsChild
      <4>1. CASE q = r
        BY <3>1, <3>2, <4>1
      <4>2. CASE q # r
        <5>1. slot'[q].child = slot[q].child /\ slot[q].child \in Children
          BY <1>0, <3>2, <4>2
        <5>2. child'[slot[q].child] = child[slot[q].child]
          BY <3>1, <3>3, <5>1
        <5> QED
          BY <5>1, <5>2 DEF SlotsInv, SlotKnowsChild
      <4> QED
        BY <4>1, <4>2
    <3>6. SlotKnowsJob'
      <4> SUFFICES ASSUME NEW q \in Roles, slot'[q].child # NoChild,
                          child'[slot'[q].child].pc = "alive",
                          ~child'[slot'[q].child].killed, NEW j \in child'[slot'[q].child].jobs
                   PROVE  slot'[q].active = j.task /\ slot'[q].lease = j.token
        BY DEF SlotKnowsJob
      <4>1. CASE q = r
        BY <4>1, <2>2, <3>1, <3>2
      <4>2. CASE q # r
        <5>1. slot[q].child \in Children /\ slot'[q] = slot[q]
          BY <1>0, <4>2, <3>2
        <5>2. child'[slot[q].child] = child[slot[q].child]
          BY <5>1, <3>1, <3>3
        <5> QED
          BY <5>1, <5>2 DEF SlotsInv, SlotKnowsJob
      <4> QED
        BY <4>1, <4>2
    <3>7. ActiveSlotHasWorker'
      <4>1. Serves(child'[token], r, t, token)
        BY <2>2, <3>1 DEF Serves
      <4>2. ASSUME NEW q \in Roles, q # r, NEW d \in Children,
                   Serves(child[d], q, slot[q].active, slot[q].lease)
            PROVE  Serves(child'[d], q, slot[q].active, slot[q].lease)
        <5>1. d # token
          BY <4>2, <2>3 DEF Serves
        <5> QED
          BY <5>1, <4>2, <3>1
      <4> QED
        BY <2>1, <3>2, <4>1, <4>2, StillServed DEF SlotsInv
    <3> QED
      BY <3>4, <3>5, <3>6, <3>7 DEF SlotsInv
  <2> QED
    BY <1>1, <2>4, <2>5 DEF DrainClaim
<1>2. ASSUME NEW r \in Roles, NEW t \in Tasks, DrainFails(r, t) PROVE SlotsInv'
  <2>1. /\ claims' = claims + 1 /\ UNCHANGED child
        /\ slot' = [slot EXCEPT ![r].timer = FALSE,
                                ![r].child = IF MayReuse(@) THEN @ ELSE NoChild]
    BY <1>2 DEF DrainFails
  <2>2. \A q \in Roles : /\ slot'[q].child \in {slot[q].child, NoChild}
                          /\ slot'[q].active = slot[q].active /\ slot'[q].lease = slot[q].lease
    BY <1>0, <2>1 DEF Slot
  <2>3. Tokened'
    BY <1>0, <2>1 DEF SlotsInv, Tokened, OneJob, TokensUsed, TokensApart, Unforked, Job, Message,
       Tokens
  <2>4. SlotKnowsChild' /\ SlotKnowsJob'
    BY <2>1, <2>2, StillKnowsChild, StillKnowsJob DEF SlotsInv
  <2>5. ActiveSlotHasWorker'
    BY <2>1, <2>2, StillServed DEF SlotsInv
  <2> QED
    BY <2>3, <2>4, <2>5 DEF SlotsInv
<1>3. ASSUME NEW c \in Children, NEW m \in child[c].sent, HandleFinished(c, m) PROVE SlotsInv'
  <2> DEFINE r == child[c].role
  <2>1. /\ child' = [child EXCEPT ![c].sent = @ \ {m}] /\ claims' = claims
        /\ slot' = IF SameActiveLease(r, m)
                   THEN [slot EXCEPT ![r] = [@ EXCEPT !.active = NoTask, !.lease = NoToken,
                                                      !.timer = slot[r].child # NoChild]]
                   ELSE slot
    BY <1>3 DEF HandleFinished
  <2>2. r \in Roles /\ m \in Message
    BY <1>0
  <2>3. /\ \A d \in Children : d # c => child'[d] = child[d]
        /\ child'[c].role = r /\ child'[c].linked = child[c].linked /\ child'[c].pc = child[c].pc
        /\ child'[c].killed = child[c].killed /\ child'[c].jobs = child[c].jobs
        /\ child'[c].sent = child[c].sent \ {m}
    BY <1>0, <2>1 DEF Child
  <2>4. /\ \A q \in Roles : slot'[q].child = slot[q].child
        /\ SameActiveLease(r, m) => slot'[r].active = NoTask
        /\ \A q \in Roles : q # r \/ ~SameActiveLease(r, m) =>
             slot'[q].active = slot[q].active /\ slot'[q].lease = slot[q].lease
    BY <1>0, <2>1, <2>2 DEF Slot
  <2> HIDE DEF r
  <2>5. Tokened'
    BY <2>1, <2>3, QuietTokens DEF SlotsInv
  <2>6. SlotKnowsChild'
    <3>1. \A d \in Children : child'[d].role = child[d].role /\ child'[d].linked = child[d].linked
      BY <2>3 DEF r
    <3>2. \A q \in Roles : slot'[q].child \in {slot[q].child, NoChild}
      BY <2>4
    <3> QED
      BY <3>1, <3>2, StillKnowsChild DEF SlotsInv
  <2>7. SlotKnowsJob'
    <3> SUFFICES ASSUME NEW q \in Roles, slot'[q].child # NoChild,
                        child'[slot'[q].child].pc = "alive",
                        ~child'[slot'[q].child].killed, NEW j \in child'[slot'[q].child].jobs
                 PROVE  slot'[q].active = j.task /\ slot'[q].lease = j.token
      BY DEF SlotKnowsJob
    <3>1. slot[q].child \in Children /\ slot[q].child # NoChild /\ j \in child[slot[q].child].jobs
      BY <1>0, <2>3, <2>4
    <3>2. child[slot[q].child].pc = "alive" /\ ~child[slot[q].child].killed
      BY <2>3, <2>4, <3>1
    <3>3. slot[q].active = j.task /\ slot[q].lease = j.token
      BY <3>1, <3>2 DEF SlotsInv, SlotKnowsJob
    <3>4. m.token # j.token
      BY <3>1 DEF SlotsInv, Tokened, TokensApart
    <3>5. q # r \/ ~SameActiveLease(r, m)
      BY <3>3, <3>4 DEF SameActiveLease
    <3> QED
      BY <2>4, <3>3, <3>5
  <2>8. ActiveSlotHasWorker'
    <3>1. ASSUME NEW q \in Roles, slot'[q].active # NoTask, NEW d \in Children,
                 Serves(child[d], q, slot[q].active, slot[q].lease)
          PROVE  Serves(child'[d], q, slot[q].active, slot[q].lease)
      <4>1. CASE d # c
        BY <2>3, <3>1, <4>1
      <4>2. CASE d = c
        <5>1. q = r /\ ~SameActiveLease(r, m)
          BY <2>4, <3>1, <4>2 DEF Serves, r
        <5>2. [task |-> slot[q].active, token |-> slot[q].lease] # m
          BY <5>1 DEF SameActiveLease
        <5> QED
          BY <2>3, <3>1, <4>2, <5>1, <5>2 DEF Serves
      <4> QED
        BY <4>1, <4>2
    <3>2. \A q \in Roles : slot'[q].active # NoTask =>
            slot'[q].active = slot[q].active /\ slot'[q].lease = slot[q].lease
      BY <2>4
    <3> QED
      BY <3>1, <3>2, StillServed DEF SlotsInv
  <2> QED
    BY <2>5, <2>6, <2>7, <2>8 DEF SlotsInv
<1>4. ASSUME NEW c \in Children, HandleExit(c) PROVE SlotsInv'
  <2> DEFINE r == child[c].role
  <2>1. /\ child[c].pc = "dead" /\ child' = [child EXCEPT ![c].pc = "gone"]
        /\ slot' = [slot EXCEPT ![r] = FreeSlot] /\ claims' = claims
    BY <1>4 DEF HandleExit, Exited
  <2>2. r \in Roles
    BY <1>0
  <2>3. /\ \A d \in Children : d # c => child'[d] = child[d]
        /\ child'[c].jobs = child[c].jobs /\ child'[c].sent = child[c].sent
        /\ child'[c].linked = child[c].linked
    BY <1>0, <2>1 DEF Child
  <2>4. /\ slot'[r].child = NoChild /\ slot'[r].active = NoTask
        /\ \A q \in Roles : q # r => slot'[q] = slot[q]
    BY <1>0, <2>1, <2>2 DEF FreeSlot
  <2>5. \A q \in Roles : q # r => slot[q].child # c
    BY <1>0 DEF SlotsInv, SlotKnowsChild
  <2>6. ASSUME NEW q \in Roles, q # r, NEW d \in Children,
               Serves(child[d], q, slot[q].active, slot[q].lease)
        PROVE  Serves(child'[d], q, slot[q].active, slot[q].lease)
    <3>1. d # c
      BY <2>6 DEF Serves
    <3> QED
      BY <2>3, <2>6, <3>1
  <2> HIDE DEF r
  <2>7. Tokened'
    BY <2>1, <2>3, QuietTokens DEF SlotsInv
  <2>8. SlotKnowsChild' /\ SlotKnowsJob'
    BY <1>0, <2>3, <2>4, <2>5 DEF SlotsInv, SlotKnowsChild, SlotKnowsJob
  <2>9. ActiveSlotHasWorker'
    BY <2>4, <2>6, StillServed DEF SlotsInv
  <2> QED
    BY <2>7, <2>8, <2>9 DEF SlotsInv
<1>5. ASSUME NEW r \in Roles, IdleTimer(r) PROVE SlotsInv'
  <2> DEFINE c == slot[r].child
             release == c # NoChild /\ ~child[c].killed /\ slot[r].active = NoTask
  <2>1. /\ slot' = [slot EXCEPT ![r].timer = FALSE, ![r].releasing = @ \/ release]
        /\ child' = IF release THEN [child EXCEPT ![c] = Killed(@)] ELSE child
        /\ claims' = claims
    BY <1>5 DEF IdleTimer
  <2>2. \A q \in Roles : /\ slot'[q].child = slot[q].child /\ slot'[q].active = slot[q].active
                          /\ slot'[q].lease = slot[q].lease
    <3> HIDE DEF release
    <3> QED
      BY <1>0, <2>1 DEF Slot
  <2>3. CASE release
    <3>1. c \in Children /\ child[c].role = r
      BY <1>0, <2>3 DEF SlotsInv, SlotKnowsChild
    <3>2. /\ \A d \in Children : d # c => child'[d] = child[d]
          /\ child'[c] = Killed(child[c])
      BY <1>0, <2>1, <2>3, <3>1
    <3>3. /\ child'[c].role = r /\ child'[c].linked = child[c].linked /\ child'[c].pc = child[c].pc
          /\ child'[c].jobs = child[c].jobs /\ child'[c].sent = {}
          /\ child[c].pc = "alive" => child'[c].killed
      BY <1>0, <3>1, <3>2, KilledChild
    <3>4. Tokened'
      BY <2>1, <3>2, <3>3, QuietTokens DEF SlotsInv
    <3>5. SlotKnowsChild'
      <4>1. \A d \in Children : child'[d].role = child[d].role /\ child'[d].linked = child[d].linked
        BY <3>1, <3>2, <3>3
      <4>2. \A q \in Roles : slot'[q].child \in {slot[q].child, NoChild}
        BY <2>2
      <4> QED
        BY <4>1, <4>2, StillKnowsChild DEF SlotsInv
    <3>6. SlotKnowsJob'
      <4>1. \A d \in Children : child'[d].pc = "alive" /\ ~child'[d].killed =>
              d # c /\ child'[d] = child[d]
        BY <3>2, <3>3
      <4>2. \A d \in Children : child'[d].pc = "alive" /\ ~child'[d].killed =>
              /\ child[d].pc = "alive" /\ ~child[d].killed
              /\ \A j \in child'[d].jobs : \E i \in child[d].jobs : j.task = i.task /\ j.token = i.token
        BY <4>1
      <4>3. \A q \in Roles : /\ slot'[q].child \in {slot[q].child, NoChild}
                             /\ slot'[q].active = slot[q].active /\ slot'[q].lease = slot[q].lease
        BY <2>2
      <4> QED
        BY <4>2, <4>3, StillKnowsJob DEF SlotsInv
    <3>7. ASSUME NEW q \in Roles, slot'[q].active # NoTask, NEW d \in Children,
                 Serves(child[d], q, slot[q].active, slot[q].lease)
          PROVE  Serves(child'[d], q, slot[q].active, slot[q].lease)
      <4>1. d # c
        BY <2>2, <2>3, <3>1, <3>7 DEF Serves
      <4> QED
        BY <3>2, <3>7, <4>1
    <3>8. ActiveSlotHasWorker'
      BY <2>2, <3>7, StillServed DEF SlotsInv
    <3> QED
      BY <3>4, <3>5, <3>6, <3>8 DEF SlotsInv
  <2>4. CASE ~release
    <3>1. child' = child
      BY <2>1, <2>4
    <3>2. Tokened'
      BY <2>1, <3>1, QuietTokens DEF SlotsInv
    <3>3. SlotKnowsChild' /\ SlotKnowsJob'
      BY <2>2, <3>1 DEF SlotsInv, SlotKnowsChild, SlotKnowsJob
    <3>4. ActiveSlotHasWorker'
      BY <2>2, <3>1, StillServed DEF SlotsInv
    <3> QED
      BY <3>2, <3>3, <3>4 DEF SlotsInv
  <2> QED
    BY <2>3, <2>4
<1>6. ASSUME NEW t \in Tasks, CancelTask(t) PROVE SlotsInv'
  <2> DEFINE mine == {r \in Roles : slot[r].active = t}
             children == {slot[r].child : r \in mine} \ {NoChild}
  <2>1. /\ slot' = [r \in Roles |-> IF r \in mine
                              THEN [slot[r] EXCEPT !.active = NoTask, !.lease = NoToken]
                              ELSE slot[r]]
        /\ child' = [c \in Children |-> IF c \in children /\ ~child[c].killed
                                       THEN Killed(child[c]) ELSE child[c]]
        /\ claims' = claims
    BY <1>6 DEF CancelTask
  <2>2. /\ \A r \in Roles : slot'[r].child = slot[r].child
        /\ \A r \in mine : slot'[r].active = NoTask
        /\ \A r \in Roles \ mine : slot'[r] = slot[r]
    <3>1. ASSUME NEW r \in mine PROVE slot'[r].child = slot[r].child /\ slot'[r].active = NoTask
      <4>1. slot'[r] = [slot[r] EXCEPT !.active = NoTask, !.lease = NoToken] /\ slot[r] \in Slot
        BY <1>0, <2>1
      <4> QED
        BY <4>1 DEF Slot
    <3>2. ASSUME NEW r \in Roles \ mine PROVE slot'[r] = slot[r]
      BY <2>1
    <3> QED
      BY <3>1, <3>2
  <2>3. ASSUME NEW c \in Children
        PROVE  /\ child'[c].role = child[c].role /\ child'[c].linked = child[c].linked
               /\ child'[c].pc = child[c].pc /\ child'[c].jobs = child[c].jobs
               /\ child'[c].sent \subseteq child[c].sent
               /\ c \notin children => child'[c] = child[c]
               /\ c \in children /\ child[c].pc = "alive" => child'[c].killed
               /\ ~child'[c].killed => ~child[c].killed
    <3>1. CASE c \in children /\ ~child[c].killed
      <4>1. child'[c] = Killed(child[c])
        BY <2>1, <3>1
      <4> QED
        BY <1>0, <3>1, <4>1, KilledChild
    <3>2. CASE ~(c \in children /\ ~child[c].killed)
      <4>1. child'[c] = child[c]
        BY <2>1, <3>2
      <4> QED
        BY <3>2, <4>1
    <3> QED
      BY <3>1, <3>2
  <2>4. \A c \in children : child[c].role \in mine
    BY <1>0 DEF SlotsInv, SlotKnowsChild
  <2>5. \A r \in mine : slot[r].child # NoChild => slot[r].child \in children
    OBVIOUS
  <2>6. mine \subseteq Roles
    OBVIOUS
  <2> HIDE DEF mine, children
  <2>7. Tokened'
    <3>1. \A c \in Children : /\ child'[c].jobs \subseteq child[c].jobs
                              /\ child'[c].sent \subseteq child[c].sent
                              /\ child'[c].linked => child[c].linked
      <4> SUFFICES ASSUME NEW c \in Children
                   PROVE  /\ child'[c].jobs \subseteq child[c].jobs
                          /\ child'[c].sent \subseteq child[c].sent
                          /\ child'[c].linked => child[c].linked
        OBVIOUS
      <4>1. /\ child'[c].linked = child[c].linked /\ child'[c].jobs = child[c].jobs
            /\ child'[c].sent \subseteq child[c].sent
        BY <2>3
      <4> QED
        BY <4>1
    <3> QED
      BY <2>1, <3>1, QuietTokens DEF SlotsInv
  <2>8. SlotKnowsChild'
    <3>1. \A c \in Children : child'[c].role = child[c].role /\ child'[c].linked = child[c].linked
      BY <2>3
    <3>2. \A q \in Roles : slot'[q].child \in {slot[q].child, NoChild}
      BY <2>2
    <3> QED
      BY <3>1, <3>2, StillKnowsChild DEF SlotsInv
  <2>9. SlotKnowsJob'
    <3> SUFFICES ASSUME NEW q \in Roles, slot'[q].child # NoChild,
                        child'[slot'[q].child].pc = "alive",
                        ~child'[slot'[q].child].killed, NEW j \in child'[slot'[q].child].jobs
                 PROVE  slot'[q].active = j.task /\ slot'[q].lease = j.token
      BY DEF SlotKnowsJob
    <3>1. slot[q].child \in Children /\ slot'[q].child = slot[q].child
      BY <1>0, <2>2
    <3> DEFINE c == slot[q].child
    <3>0. /\ child'[c].pc = child[c].pc /\ child'[c].jobs = child[c].jobs
          /\ c \in children /\ child[c].pc = "alive" => child'[c].killed
          /\ ~child'[c].killed => ~child[c].killed
      BY <2>3, <3>1
    <3>2. slot[q].child \notin children
      BY <3>0, <3>1
    <3>3. q \notin mine
      BY <2>2, <2>5, <3>2
    <3>4. /\ child[slot[q].child].pc = "alive" /\ ~child[slot[q].child].killed
          /\ j \in child[slot[q].child].jobs
      BY <3>0, <3>1
    <3> QED
      BY <2>2, <3>1, <3>3, <3>4 DEF SlotsInv, SlotKnowsJob
  <2>10. ActiveSlotHasWorker'
    <3>1. ASSUME NEW q \in Roles \ mine, NEW d \in Children,
                 Serves(child[d], q, slot[q].active, slot[q].lease)
          PROVE  Serves(child'[d], q, slot[q].active, slot[q].lease)
      <4>1. d \notin children
        BY <2>4, <3>1 DEF Serves
      <4>2. child'[d] = child[d]
        BY <2>3, <4>1
      <4> QED
        BY <3>1, <4>2
    <3> QED
      BY <2>2, <2>6, <3>1, StillServed DEF SlotsInv
  <2> QED
    BY <2>7, <2>8, <2>9, <2>10 DEF SlotsInv
<1>7. ASSUME Restart PROVE SlotsInv'
  <2>1. PICK K \in SUBSET {c \in Children : child[c].pc = "alive"} :
          child' = [c \in Children |->
                   [child[c] EXCEPT !.pc = IF @ = "dead" THEN "gone" ELSE @,
                                    !.killed = @ \/ c \in K,
                                    !.linked = FALSE, !.sent = {}]]
    BY <1>7 DEF Restart
  <2>2. ASSUME NEW c \in Children
        PROVE  child'[c].jobs = child[c].jobs /\ child'[c].sent = {} /\ child'[c].linked = FALSE
    <3> DEFINE pc == IF child[c].pc = "dead" THEN "gone" ELSE child[c].pc
               killed == child[c].killed \/ c \in K
    <3>1. child'[c] = [child[c] EXCEPT !.pc = pc, !.killed = killed, !.linked = FALSE, !.sent = {}]
      BY <2>1
    <3> HIDE DEF pc, killed
    <3> QED
      BY <1>0, <3>1 DEF Child
  <2>3. Tokened'
    BY <1>7, <2>2, QuietTokens DEF SlotsInv, Restart
  <2>4. \A r \in Roles : slot'[r].child = NoChild /\ slot'[r].active = NoTask
    BY <1>7 DEF Restart, FreeSlot
  <2> QED
    BY <2>3, <2>4 DEF SlotsInv, SlotKnowsChild, SlotKnowsJob, ActiveSlotHasWorker
<1>8. ASSUME NEW c \in Children, NEW j \in child[c].jobs,
             NEW pc \in {"sent", "working", "inspected", "failing"},
             JobGoes(c, j, pc), UNCHANGED <<claims, slot>>
      PROVE  SlotsInv'
  <2> DEFINE next == [j EXCEPT !.pc = pc]
  <2>1. next.task = j.task /\ next.token = j.token /\ j.token \in Nat
    BY <1>0 DEF Job, Tokens
  <2>2. child[c].jobs = {j}
    BY DEF SlotsInv, Tokened, OneJob
  <2>3. /\ \A d \in Children : d # c => child'[d] = child[d]
        /\ child'[c].role = child[c].role /\ child'[c].linked = child[c].linked
        /\ child'[c].pc = child[c].pc
        /\ child'[c].killed = child[c].killed /\ child'[c].sent = child[c].sent
        /\ child'[c].jobs = {next}
    BY <1>0, <1>8, <2>2 DEF JobGoes, Child
  <2> HIDE DEF next
  <2>4. Tokened'
    <3>1. \A d \in Children : \A k : k \in child'[d].jobs => \E i \in child[d].jobs : k.token = i.token
      BY <2>1, <2>3
    <3>2. OneJob' /\ Unforked'
      BY <1>8, <2>3 DEF SlotsInv, Tokened, OneJob, Unforked
    <3>3. \A d \in Children : child'[d].sent = child[d].sent
      BY <2>3
    <3>4. TokensUsed' /\ TokensApart'
      BY <1>8, <3>1, <3>3 DEF SlotsInv, Tokened, TokensUsed, TokensApart
    <3> QED
      BY <3>2, <3>4 DEF Tokened
  <2>5. SlotKnowsChild' /\ SlotKnowsJob'
    <3>1. SlotKnowsChild'
      BY <1>0, <1>8, <2>3 DEF SlotsInv, SlotKnowsChild
    <3>2. SlotKnowsJob'
      <4>1. \A d \in Children : child'[d].pc = "alive" /\ ~child'[d].killed =>
              /\ child[d].pc = "alive" /\ ~child[d].killed
              /\ \A k \in child'[d].jobs : \E i \in child[d].jobs : k.task = i.task /\ k.token = i.token
        <5> SUFFICES ASSUME NEW d \in Children, child'[d].pc = "alive", ~child'[d].killed
                     PROVE  /\ child[d].pc = "alive" /\ ~child[d].killed
                            /\ \A k \in child'[d].jobs : \E i \in child[d].jobs : k.task = i.task /\ k.token = i.token
          OBVIOUS
        <5>1. CASE d = c
          BY <2>1, <2>3, <5>1
        <5>2. CASE d # c
          BY <2>3, <5>2
        <5> QED
          BY <5>1, <5>2
      <4>2. \A q \in Roles : /\ slot'[q].child \in {slot[q].child, NoChild}
                             /\ slot'[q].active = slot[q].active /\ slot'[q].lease = slot[q].lease
        BY <1>8
      <4> QED
        BY <4>1, <4>2, StillKnowsJob DEF SlotsInv
    <3> QED
      BY <3>1, <3>2
  <2>6. \A d \in Children, q \in Roles :
          Serves(child[d], q, slot[q].active, slot[q].lease) =>
            Serves(child'[d], q, slot[q].active, slot[q].lease)
    BY <2>1, <2>2, <2>3 DEF Serves
  <2>7. ActiveSlotHasWorker'
    BY <1>8, <2>6, StillServed DEF SlotsInv
  <2> QED
    BY <2>4, <2>5, <2>7 DEF SlotsInv
<1>9. ASSUME NEW c \in Children, NEW j \in child[c].jobs, JobEnds(c, j), UNCHANGED <<claims, slot>>
      PROVE  SlotsInv'
  <2> DEFINE message == [task |-> j.task, token |-> j.token]
  <2>1. message.task = j.task /\ message.token = j.token /\ j.token \in Nat
    BY <1>0 DEF Job, Tokens
  <2>2. child[c].jobs = {j}
    BY DEF SlotsInv, Tokened, OneJob
  <2>3. /\ \A d \in Children : d # c => child'[d] = child[d]
        /\ child'[c].role = child[c].role /\ child'[c].linked = child[c].linked
        /\ child'[c].pc = child[c].pc
        /\ child'[c].killed = child[c].killed /\ child'[c].jobs = {}
        /\ child'[c].sent = IF child[c].linked /\ ~child[c].killed
                            THEN child[c].sent \union {message} ELSE child[c].sent
    BY <1>0, <1>9, <2>2 DEF JobEnds, Child
  <2>4. \A k \in child[c].jobs, q \in Roles :
          k.task = slot[q].active /\ k.token = slot[q].lease =>
            message = [task |-> slot[q].active, token |-> slot[q].lease]
    BY <2>2
  <2> HIDE DEF message
  <2>5. Tokened'
    <3>1. \A d \in Children : \A m : m \in child'[d].sent =>
            m \in child[d].sent \/ (d = c /\ m = message)
      BY <2>3
    <3>2. \A d \in Children : \A k : k \in child'[d].jobs => d # c /\ k \in child[d].jobs
      BY <2>3
    <3>3. OneJob' /\ Unforked'
      BY <1>9, <2>3 DEF SlotsInv, Tokened, OneJob, Unforked
    <3>4. TokensUsed'
      BY <1>9, <2>1, <3>1, <3>2 DEF SlotsInv, Tokened, TokensUsed
    <3>5. TokensApart'
      BY <2>1, <3>1, <3>2 DEF SlotsInv, Tokened, TokensApart
    <3> QED
      BY <3>3, <3>4, <3>5 DEF Tokened
  <2>6. SlotKnowsChild'
    <3>1. \A d \in Children : child'[d].role = child[d].role /\ child'[d].linked = child[d].linked
      BY <2>3
    <3>2. \A q \in Roles : slot'[q].child \in {slot[q].child, NoChild}
      BY <1>9
    <3> QED
      BY <3>1, <3>2, StillKnowsChild DEF SlotsInv
  <2>7. SlotKnowsJob'
    <3>1. \A d \in Children : child'[d].pc = "alive" /\ ~child'[d].killed =>
            /\ child[d].pc = "alive" /\ ~child[d].killed
            /\ \A k \in child'[d].jobs : \E i \in child[d].jobs : k.task = i.task /\ k.token = i.token
      <4> SUFFICES ASSUME NEW d \in Children, child'[d].pc = "alive", ~child'[d].killed
                   PROVE  /\ child[d].pc = "alive" /\ ~child[d].killed
                          /\ \A k \in child'[d].jobs : \E i \in child[d].jobs : k.task = i.task /\ k.token = i.token
        OBVIOUS
      <4>1. CASE d = c
        BY <2>3, <4>1
      <4>2. CASE d # c
        BY <2>3, <4>2
      <4> QED
        BY <4>1, <4>2
    <3>2. \A q \in Roles : /\ slot'[q].child \in {slot[q].child, NoChild}
                           /\ slot'[q].active = slot[q].active /\ slot'[q].lease = slot[q].lease
      BY <1>9
    <3> QED
      BY <3>1, <3>2, StillKnowsJob DEF SlotsInv
  <2>8. ASSUME NEW d \in Children, NEW q \in Roles,
               Serves(child[d], q, slot[q].active, slot[q].lease)
        PROVE  Serves(child'[d], q, slot[q].active, slot[q].lease)
    <3>1. CASE d # c
      BY <2>3, <2>8, <3>1
    <3>2. CASE d = c
      BY <2>3, <2>4, <2>8, <3>2 DEF Serves
    <3> QED
      BY <3>1, <3>2
  <2>9. ActiveSlotHasWorker'
    BY <1>9, <2>8, StillServed DEF SlotsInv
  <2> QED
    BY <2>5, <2>6, <2>7, <2>9 DEF SlotsInv
<1>10. ASSUME NEW c \in Children, ChildDies(c) PROVE SlotsInv'
  <2> DEFINE pc == IF child[c].linked THEN "dead" ELSE "gone"
  <2>1. child' = [child EXCEPT ![c] = [child[c] EXCEPT !.pc = pc, !.jobs = {}]]
    BY <1>0, <1>10 DEF ChildDies, Child
  <2>2. /\ \A d \in Children : d # c => child'[d] = child[d]
        /\ child'[c].role = child[c].role /\ child'[c].linked = child[c].linked
        /\ child'[c].sent = child[c].sent /\ child'[c].jobs = {} /\ child'[c].pc = pc
    BY <1>0, <2>1 DEF Child
  <2>3. UNCHANGED <<claims, slot>>
    BY <1>10 DEF ChildDies
  <2>4. Tokened'
    BY <2>2, <2>3, QuietTokens DEF SlotsInv
  <2>5. SlotKnowsChild'
    BY <1>0, <2>2, <2>3 DEF SlotsInv, SlotKnowsChild
  <2>6. SlotKnowsJob'
    BY <1>0, <2>2, <2>3 DEF SlotsInv, SlotKnowsJob
  <2>7. \A d \in Children, r \in Roles :
          Serves(child[d], r, slot[r].active, slot[r].lease) =>
            Serves(child'[d], r, slot[r].active, slot[r].lease)
    BY <1>0, <2>2 DEF Serves
  <2>8. ActiveSlotHasWorker'
    BY <2>3, <2>7, StillServed DEF SlotsInv
  <2> QED
    BY <2>4, <2>5, <2>6, <2>8 DEF SlotsInv
<1>11. ASSUME NEW c \in Children, JobStep(c) PROVE SlotsInv'
  <2>1. PICK j \in child[c].jobs : \/ JobClaims(c, j) \/ JobInspects(c, j) \/ JobFinishes(c, j)
                                  \/ JobThrows(c, j) \/ JobFails(c, j)
    BY <1>11 DEF JobStep
  <2>2. /\ UNCHANGED <<claims, slot>>
        /\ JobEnds(c, j) \/ \E pc \in {"sent", "working", "inspected", "failing"} : JobGoes(c, j, pc)
    BY <2>1 DEF JobClaims, JobInspects, JobFinishes, JobThrows, JobFails
  <2> QED
    BY <1>8, <1>9, <2>2
<1>12. ASSUME NEW t \in Tasks, StartTask(t) \/ LeaseExpires(t) PROVE SlotsInv'
  BY <1>12, QuietSlots DEF StartTask, LeaseExpires
<1>13. ASSUME NEW k \in conts, EnqueueTurn(k) \/ FinishedTurn(k) PROVE SlotsInv'
  BY <1>13, QuietSlots DEF EnqueueTurn, FinishedTurn
<1>14. ASSUME NEW r \in Roles, DrainNothing(r) PROVE SlotsInv'
  BY <1>14, QuietSlots DEF DrainNothing
<1>15. ASSUME StartReconcile \/ ReconcileNext PROVE SlotsInv'
  BY <1>15, QuietSlots DEF StartReconcile, ReconcileNext
<1>16. ASSUME NEW c \in Children, NEW t \in Tasks, Heartbeat(c, t) PROVE SlotsInv'
  BY <1>16, QuietSlots DEF Heartbeat
<1>17. CASE UNCHANGED vars
  BY <1>17, QuietSlots DEF vars
<1>18. CASE Next
  BY <1>1, <1>2, <1>3, <1>4, <1>5, <1>6, <1>7, <1>10, <1>11, <1>12, <1>13, <1>14, <1>15, <1>16,
     <1>18
     DEF Next, DrainRole, FinishedMessage
<1> QED
  BY <1>17, <1>18

-----------------------------------------------------------------------------
(* The theorems.                                                             *)

\* Rows, slots, worker processes and suspended methods keep the shapes of the tables and
\* maps they stand for, whatever the workers, the timers and the restarts do.
THEOREM ManagerTypes == Spec => []TypeOK
<1>1. Init => TypeOK
  BY TypeInit
<1>2. TypeOK /\ [Next]_vars => TypeOK'
  BY TypeNext
<1> QED
  BY <1>1, <1>2, PTL DEF Spec

\* The invariant of slots, workers and claims holds in every reachable state.
THEOREM SlotsAlways == Spec => []SlotsInv
<1>1. Init => SlotsInv
  BY SlotsInit
<1>2. TypeOK /\ SlotsInv /\ [Next]_vars => SlotsInv'
  BY SlotsNext
<1> QED
  BY <1>1, <1>2, ManagerTypes, PTL DEF Spec

\* A role that is marked busy has a worker that runs its task, or whose task.finished or
\* exit event is still to come (drainRole, handleWorkerMessage, handleWorkerExit).
THEOREM BusySlots == Spec => []ActiveSlotHasWorker
<1>1. SlotsInv => ActiveSlotHasWorker
  BY DEF SlotsInv
<1> QED
  BY <1>1, SlotsAlways, PTL

\* drainRole never gives a worker process a second task while it works on one, although
\* it reuses the process of the role and does not ask it.
THEOREM OneTaskEach == Spec => []OneTaskPerWorker
<1>1. SlotsInv => OneTaskPerWorker
  <2> SUFFICES ASSUME SlotsInv, NEW c \in Children PROVE Cardinality(child[c].jobs) <= 1
    BY DEF OneTaskPerWorker
  <2>1. CASE child[c].jobs = {}
    BY <2>1, FS_EmptySet
  <2>2. ASSUME NEW j \in child[c].jobs PROVE Cardinality(child[c].jobs) <= 1
    <3>1. child[c].jobs = {j}
      BY DEF SlotsInv, Tokened, OneJob
    <3>2. Cardinality({j}) = 1
      BY FS_Singleton
    <3> QED
      BY <3>1, <3>2
  <2> QED
    BY <2>1, <2>2
<1> QED
  BY <1>1, SlotsAlways, PTL
=============================================================================
