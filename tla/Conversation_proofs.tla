------------------------ MODULE Conversation_proofs ------------------------
(***************************************************************************)
(* Proofs about Conversation for every set of messages, every request made *)
(* of them and every bound on the events.                                  *)
(*                                                                         *)
(* Two arguments meet in the invariant IInv. Remembering is about the two  *)
(* loops that decide candidates: what an approver is remembering was       *)
(* approved, by it alone, and is not stored yet. HandlersInv is about the  *)
(* handlers: the steps a handler has still to take never decide the run a  *)
(* second time, which TaskStep and VerdictStep turn into what any step can *)
(* do to a task and to the verdict of a run.                               *)
(***************************************************************************)
EXTENDS Conversation, TLAPS

-----------------------------------------------------------------------------
(* Typing.                                                                   *)

\* The steps the paths of handleUserMessage are made of.
Steps == {"beforeRun", "rememberUser", "model", "planner", "execute", "review", "approve", "decide",
          "wait", "complete", "rememberAnswer", "afterRun", "return", "rememberError", "lastHook"}

\* TypeOK, and the variables it leaves out.
Typed ==
  /\ TypeOK
  /\ todo \in [Messages -> Seq(Steps)]
  /\ outcome \in [Messages -> {"none", "refused", "rejected", "answered", "lost", "crashed"}]
  /\ cancel \in [run : Messages \union {"none"}, tasks : SUBSET Tasks]
  /\ cancel.tasks # {} => cancel.run \in Messages

\* Every path is a sequence of steps.
LEMMA StepTypes ==
  /\ \A k : Prologue \o Path(k) \in Seq(Steps)
  /\ {Synthesis, Pause, PlanOnly, ErrorPath, <<"execute">>, <<"review">>, <<>>} \subseteq Seq(Steps)
<1>1. /\ Ending \in Seq(Steps)
      /\ <<"rememberAnswer", "complete">> \in Seq(Steps)
      /\ <<"model", "rememberAnswer", "approve", "decide", "complete">> \in Seq(Steps)
      /\ <<"wait", "rememberAnswer">> \in Seq(Steps)
      /\ <<"approve", "decide", "wait", "rememberAnswer">> \in Seq(Steps)
      /\ <<"rememberAnswer", "approve", "decide", "complete">> \in Seq(Steps)
      /\ <<"model", "planner">> \in Seq(Steps)
      /\ {ErrorPath, <<"execute">>, <<"review">>, <<>>} \subseteq Seq(Steps)
      /\ Prologue \in Seq(Steps)
  BY DEF Ending, Steps, ErrorPath, Prologue
<1>2. \A p, q \in Seq(Steps) : p \o q \in Seq(Steps)
  OBVIOUS
<1>3. {Identity, Synthesis, Clarify, Pause, PlanOnly} \subseteq Seq(Steps)
  BY <1>1, <1>2 DEF Identity, Synthesis, Clarify, Pause, PlanOnly
<1>4. \A k : Path(k) \in Seq(Steps)
  BY <1>1, <1>3 DEF Path
<1> QED
  BY <1>1, <1>2, <1>3, <1>4

\* The initial states are typed.
LEMMA TypedInit == ASSUME ConversationAssumption, Init PROVE Typed
<1>1. kind \in [Messages -> {"identity", "chat", "clarify", "plan", "task", "unsent"}]
  BY DEF Init, kindOf, classifyUserMessageIntent
<1>2. todo \in [Messages -> Seq(Steps)]
  BY StepTypes DEF Init
<1> QED
  BY <1>1, <1>2 DEF Init, Typed, TypeOK, ConversationAssumption, RunStatuses, ActiveRuns,
       Open, Terminal, None, Approvers, Candidates

\* What is left of the bounds stays a natural number.
LEMMA SpendTyped ==
  ASSUME left \in [{"events", "proposals"} -> Nat], Spend
  PROVE  left' \in [{"events", "proposals"} -> Nat]
<1>1. left["events"] - 1 \in Nat
  BY DEF Spend
<1> QED
  BY <1>1 DEF Spend

\* The statuses of a task, and its absence.
TaskStatuses == Open \union Terminal \union {"none"}

\* The writes to tasks keep the table typed.
LEMMA TaskTyped ==
  ASSUME task \in [Messages -> [Tasks -> TaskStatuses]], NEW m \in Messages
  PROVE  /\ \A t \in Tasks, s \in TaskStatuses :
              [task EXCEPT ![m][t] = s] \in [Messages -> [Tasks -> TaskStatuses]]
         /\ \A s \in TaskStatuses :
              [task EXCEPT ![m]["work1"] = s, ![m]["work2"] = s]
                \in [Messages -> [Tasks -> TaskStatuses]]
<1>1. ASSUME NEW t \in Tasks, NEW s \in TaskStatuses
      PROVE  [task EXCEPT ![m][t] = s] \in [Messages -> [Tasks -> TaskStatuses]]
  OBVIOUS
<1>2. ASSUME NEW s \in TaskStatuses
      PROVE  [task EXCEPT ![m]["work1"] = s, ![m]["work2"] = s] \in [Messages -> [Tasks -> TaskStatuses]]
  <2>1. [task[m] EXCEPT !["work1"] = s, !["work2"] = s] \in [Tasks -> TaskStatuses]
    OBVIOUS
  <2>2. [task EXCEPT ![m]["work1"] = s, ![m]["work2"] = s]
         = [task EXCEPT ![m] = [task[m] EXCEPT !["work1"] = s, !["work2"] = s]]
    OBVIOUS
  <2> QED
    BY <2>1, <2>2
<1> QED
  BY <1>1, <1>2

\* Every step keeps the types.
LEMMA TypedNext == ASSUME Typed, [Next]_vars PROVE Typed'
<1> USE DEF Typed, TypeOK, RunStatuses, ActiveRuns, Open, Terminal, Approvers,
            rowVars, approverVars, boundVars
<1>1. ASSUME NEW m \in Messages, Receive(m) PROVE Typed'
  BY <1>1, StepTypes DEF Receive
<1>2. ASSUME NEW m \in Messages, Refuse(m) PROVE Typed'
  BY <1>2 DEF Refuse
<1>3. ASSUME NEW m \in Messages, Await(m) PROVE Typed'
  BY <1>3 DEF Await, At, Advance
<1>4. ASSUME NEW m \in Messages, CreatePlanner(m) PROVE Typed'
  BY <1>4 DEF CreatePlanner, SetTask, Tasks
<1>5. ASSUME NEW m \in Messages, Planned(m) PROVE Typed'
  <2>1. task' \in [Messages -> [Tasks -> TaskStatuses]]
    <3>1. \A s \in TaskStatuses :
              [task EXCEPT ![m]["work1"] = s, ![m]["work2"] = s]
                \in [Messages -> [Tasks -> TaskStatuses]]
      BY TaskTyped DEF TaskStatuses
    <3>2. {"open", "draft"} \subseteq TaskStatuses /\ task \in [Messages -> [Tasks -> TaskStatuses]]
      BY DEF TaskStatuses
    <3>3. \/ UNCHANGED task
          \/ task' = [task EXCEPT ![m]["work1"] = "draft", ![m]["work2"] = "draft"]
          \/ task' = [task EXCEPT ![m]["work1"] = "open", ![m]["work2"] = "open"]
      BY <1>5 DEF Planned
    <3> HIDE DEF Typed, TypeOK, TaskStatuses
    <3> QED
      BY <3>1, <3>2, <3>3
  <2>2. todo' \in [Messages -> Seq(Steps)]
    BY <1>5, StepTypes DEF Planned, Go
  <2>3. results' \in [Messages -> SUBSET Tasks]
    BY <1>5 DEF Planned, Record, Tasks
  <2> QED
    BY <1>5, <2>1, <2>2, <2>3 DEF Planned, TaskStatuses
<1>6. ASSUME NEW m \in Messages, BlockDependent(m) PROVE Typed'
  BY <1>6 DEF BlockDependent, SetTask, Tasks
<1>7. ASSUME NEW m \in Messages, Executed(m) PROVE Typed'
  <2>1. task' \in [Messages -> [Tasks -> TaskStatuses]]
    <3>1. [task EXCEPT ![m]["review"] = "open"] \in [Messages -> [Tasks -> TaskStatuses]]
      BY TaskTyped DEF TaskStatuses, Tasks
    <3>2. UNCHANGED task \/ task' = [task EXCEPT ![m]["review"] = "open"]
      BY <1>7 DEF Executed
    <3> QED
      BY <3>1, <3>2 DEF TaskStatuses
  <2>2. todo' \in [Messages -> Seq(Steps)]
    <3>1. \/ todo' = [todo EXCEPT ![m] = Pause]
          \/ todo' = [todo EXCEPT ![m] = <<"review">>]
          \/ todo' = [todo EXCEPT ![m] = Synthesis]
      BY <1>7 DEF Executed, Go
    <3>2. {Pause, <<"review">>, Synthesis} \subseteq Seq(Steps) /\ todo \in [Messages -> Seq(Steps)]
      BY StepTypes
    <3> HIDE DEF Typed, TypeOK
    <3> QED
      BY <3>1, <3>2
  <2>3. run' \in [Messages -> RunStatuses]
    BY <1>7 DEF Executed
  <2>4. results' \in [Messages -> SUBSET Tasks]
    <3>1. PICK seen \in SUBSET Work : results' = [results EXCEPT ![m] = @ \union seen]
      BY <1>7 DEF Executed, Record
    <3>2. results \in [Messages -> SUBSET Tasks] /\ seen \subseteq Tasks
      BY DEF Work, Tasks
    <3> HIDE DEF Typed, TypeOK
    <3> QED
      BY <3>1, <3>2
  <2> QED
    BY <1>7, <2>1, <2>2, <2>3, <2>4 DEF Executed, TaskStatuses
<1>8. ASSUME NEW m \in Messages, Reviewed(m) PROVE Typed'
  BY <1>8, StepTypes DEF Reviewed, Go, Record, Tasks
<1>9. ASSUME NEW m \in Messages, Complete(m) PROVE Typed'
  <2>1. Decisions(m) \subseteq RunStatuses
    BY DEF Decisions, runStatusFrom
  <2>2. verdict' \in [Messages -> RunStatuses] /\ run' \in [Messages -> RunStatuses]
    BY <1>9, <2>1 DEF Complete, completeRun
  <2>3. todo[m] # <<>>
    BY <1>9 DEF Complete, At
  <2>4. todo' \in [Messages -> Seq(Steps)]
    BY <1>9, <2>3 DEF Complete, Advance
  <2> QED
    BY <1>9, <2>2, <2>4 DEF Complete
<1>10. ASSUME NEW m \in Messages, Return(m) PROVE Typed'
  <2>1. todo' \in [Messages -> Seq(Steps)]
    BY <1>10 DEF Return, Advance, At
  <2>2. outcome' \in [Messages -> {"none", "refused", "rejected", "answered", "lost", "crashed"}]
    BY <1>10 DEF Return
  <2> QED
    BY <1>10, <2>1, <2>2 DEF Return
<1>11. ASSUME NEW m \in Messages, Approve(m) PROVE Typed'
  BY <1>11 DEF Approve, Advance, At, pendingCandidates, Candidates
<1>12. ASSUME NEW m \in Messages, Decided(m) PROVE Typed'
  BY <1>12 DEF Decided, Advance, At
<1>13. ASSUME NEW m \in Messages, Throw(m) PROVE Typed'
  <2>1. task' \in [Messages -> [Tasks -> TaskStatuses]]
    <3>1. \A t \in Tasks : [task EXCEPT ![m][t] = "cancelled"] \in [Messages -> [Tasks -> TaskStatuses]]
      BY TaskTyped DEF TaskStatuses
    <3>2. UNCHANGED task \/ \E t \in Tasks : task' = [task EXCEPT ![m][t] = "cancelled"]
      <4>1. \/ UNCHANGED task
            \/ \E t \in Tasks : SetTask(m, t, IF task[m][t] = "open" THEN "cancelled" ELSE task[m][t])
        BY <1>13 DEF Throw, Tasks
      <4>2. \A t \in Tasks : SetTask(m, t, task[m][t]) => UNCHANGED task
        BY DEF SetTask
      <4> QED
        BY <4>1, <4>2 DEF SetTask
    <3>3. task \in [Messages -> [Tasks -> TaskStatuses]]
      BY DEF TaskStatuses
    <3> HIDE DEF Typed, TypeOK, TaskStatuses
    <3> QED
      BY <3>1, <3>2, <3>3
  <2>2. todo' \in [Messages -> Seq(Steps)]
    BY <1>13, StepTypes DEF Throw, Caught, Go
  <2>3. verdict' \in [Messages -> RunStatuses] /\ run' \in [Messages -> RunStatuses]
    BY <1>13 DEF Throw, Caught, completeRun
  <2>4. left' \in [{"events", "proposals"} -> Nat]
    BY <1>13, SpendTyped DEF Throw, Fault
  <2> QED
    BY <1>13, <2>1, <2>2, <2>3, <2>4 DEF Throw, TaskStatuses
<1>14. ASSUME NEW m \in Messages, Reject(m) PROVE Typed'
  BY <1>14, StepTypes, SpendTyped DEF Reject, Fault, Go
<1>15. ASSUME NEW m \in Messages, CancelRunStarts(m) PROVE Typed'
  BY <1>15, SpendTyped DEF CancelRunStarts, Event
<1>16. ASSUME NEW m \in Messages, NEW t \in Tasks, CancelTask(m, t) PROVE Typed'
  BY <1>16, SpendTyped DEF CancelTask, Event, SetTask
<1>17. ASSUME NEW m \in Messages, NEW t \in Tasks, Propose(m, t) PROVE Typed'
  <2>1. left["proposals"] - 1 \in Nat
    BY <1>17 DEF Propose
  <2>2. left' \in [{"events", "proposals"} -> Nat]
    BY <1>17, <2>1 DEF Propose
  <2>3. <<m, t>> \in Candidates
    BY DEF Candidates
  <2>4. /\ cand' \in [Candidates -> {"none", "pending", "approved", "rejected"}]
        /\ accepted' \subseteq Candidates
    BY <1>17, <2>3 DEF Propose
  <2> QED
    BY <1>17, <2>2, <2>4 DEF Propose
<1>18. ASSUME NEW m \in Messages, NEW t \in Tasks, Finish(m, t) PROVE Typed'
  BY <1>18 DEF Finish, SetTask
<1>19. ASSUME NEW a \in Approvers, DecideNext(a) PROVE Typed'
  BY <1>19 DEF DecideNext, Decidable, decide
<1>20. ASSUME NEW a \in Approvers, Remembered(a) PROVE Typed'
  BY <1>20 DEF Remembered
<1>21. ASSUME NEW a \in Approvers, NotRemembered(a) PROVE Typed'
  <2>1. left' \in [{"events", "proposals"} -> Nat]
    BY <1>21, SpendTyped DEF NotRemembered, Fault
  <2>2. queue' \in [Approvers -> SUBSET Candidates] /\ committing' \in [Approvers -> Candidates \union {None}]
    BY <1>21 DEF NotRemembered
  <2>3. todo' \in [Messages -> Seq(Steps)]
    BY <1>21, StepTypes DEF NotRemembered, Caught, Go
  <2>4. verdict' \in [Messages -> RunStatuses]
    BY <1>21 DEF NotRemembered, Caught, completeRun
  <2>5. run' \in [Messages -> RunStatuses]
    BY <1>21 DEF NotRemembered, Caught, completeRun
  <2>6. stored' \in [Candidates -> Nat]
    <3> DEFINE c == committing[a]
    <3>1. c \in Candidates /\ stored' \in {stored, [stored EXCEPT ![c] = @ + 1]}
      BY <1>21 DEF NotRemembered
    <3>2. stored \in [Candidates -> Nat] /\ stored[c] + 1 \in Nat
      BY <3>1
    <3> HIDE DEF c, Typed, TypeOK
    <3> QED
      BY <3>1, <3>2
  <2> QED
    BY <1>21, <2>1, <2>2, <2>3, <2>4, <2>5, <2>6 DEF NotRemembered
<1>22. ASSUME MaintenanceStarts PROVE Typed'
  BY <1>22, SpendTyped DEF MaintenanceStarts, Event
<1>23. ASSUME RecoverRuns PROVE Typed'
  BY <1>23 DEF RecoverRuns, recoverableRunStatusFromTasks, pendingCandidates, getActiveRuns
<1>24. ASSUME AllDecided PROVE Typed'
  BY <1>24 DEF AllDecided
<1>25. ASSUME ArchiveSessions PROVE Typed'
  BY <1>25 DEF ArchiveSessions
<1>26. ASSUME EditSession PROVE Typed'
  BY <1>26, SpendTyped DEF EditSession, Event
<1>27. ASSUME CancelNext PROVE Typed'
  <2>1. PICK t \in cancel.tasks :
          /\ cancel' = [cancel EXCEPT !.tasks = @ \ {t}]
          /\ task' = IF task[cancel.run][t] \in Open THEN [task EXCEPT ![cancel.run][t] = "cancelled"]
                     ELSE task
    BY <1>27 DEF CancelNext
  <2>2. task' \in [Messages -> [Tasks -> Open \union Terminal \union {"none"}]]
    BY <2>1
  <2>3. /\ cancel' \in [run : Messages \union {"none"}, tasks : SUBSET Tasks]
        /\ (cancel'.tasks # {} => cancel'.run \in Messages)
    BY <2>1
  <2> QED
    BY <1>27, <2>2, <2>3 DEF CancelNext
<1>28. ASSUME CancelRun PROVE Typed'
  BY <1>28 DEF CancelRun, completeRun
<1>29. ASSUME Crash PROVE Typed'
  BY <1>29, StepTypes, SpendTyped DEF Crash, Fault
<1>30. CASE UNCHANGED vars
  BY <1>30 DEF vars
<1> QED
  BY <1>1, <1>2, <1>3, <1>4, <1>5, <1>6, <1>7, <1>8, <1>9, <1>10, <1>11, <1>12, <1>13,
     <1>14, <1>15, <1>16, <1>17, <1>18, <1>19, <1>20, <1>21, <1>22, <1>23, <1>24, <1>25, <1>26,
     <1>27, <1>28, <1>29, <1>30
     DEF Next, HandlerNext, LoopNext, MaintenanceNext

-----------------------------------------------------------------------------
(* Candidates.                                                               *)

\* No candidate is the value for none: no task is named so.
LEMMA NoneOutside == None \notin Candidates
  BY DEF None, Candidates, Tasks

\* What an approver is remembering was approved and is not in the memory yet.
CommitsApproved ==
  \A a \in Approvers : committing[a] # None =>
    cand[committing[a]] = "approved" /\ stored[committing[a]] = 0

\* No two approvers remember the same candidate.
CommitsApart ==
  \A a, b \in Approvers : committing[a] # None /\ committing[a] = committing[b] => a = b

\* The invariant of the two loops that decide candidates.
Remembering ==
  /\ CandidateStoredOnce
  /\ ApprovedIsRemembered
  /\ CommitsApproved
  /\ CommitsApart

\* There are no candidates at first.
LEMMA RememberingInit == ASSUME Init PROVE Remembering
  BY DEF Init, Remembering, CandidateStoredOnce, ApprovedIsRemembered, CommitsApproved, CommitsApart

\* A step that leaves the candidates, the memory and the commits alone keeps it.
LEMMA OutsideRemembering ==
  ASSUME Remembering, UNCHANGED <<cand, stored, committing>>, broken' = broken \/ broken' = TRUE
  PROVE  Remembering'
<1>1. CandidateStoredOnce' /\ CommitsApproved' /\ CommitsApart'
  BY DEF Remembering, CandidateStoredOnce, CommitsApproved, CommitsApart
<1>2. ApprovedIsRemembered'
  <2>1. CASE broken' = TRUE
    BY <2>1, Zenon DEF ApprovedIsRemembered
  <2>2. CASE broken' = broken
    BY <2>2, Zenon DEF Remembering, ApprovedIsRemembered
  <2> QED
    BY <2>1, <2>2
<1> QED
  BY <1>1, <1>2 DEF Remembering

\* Every step keeps it: a candidate is decided while it is pending, hence by one loop.
LEMMA RememberingNext == ASSUME Typed, Remembering, [Next]_vars PROVE Remembering'
<1>1. ASSUME NEW m \in Messages,
             HandlerNext(m) \/ Throw(m) \/ Reject(m) \/ CancelRunStarts(m)
      PROVE  Remembering'
  <2>1. UNCHANGED <<cand, stored, committing>>
    BY <1>1 DEF HandlerNext, Receive, Refuse, Await, CreatePlanner, Planned, BlockDependent, Executed,
         Reviewed, Complete, Return, Approve, Decided, Throw, Reject, CancelRunStarts, rowVars, approverVars
  <2>2. broken' = broken \/ broken' = TRUE
    BY <1>1, Zenon DEF HandlerNext, Receive, Refuse, Await, CreatePlanner, Planned,
         BlockDependent, Executed, Reviewed, Complete, Return, Approve, Decided, Throw, Reject,
         CancelRunStarts, Event, Fault, boundVars
  <2> QED
    BY <2>1, <2>2, OutsideRemembering
<1>2. ASSUME NEW m \in Messages, NEW t \in Tasks, CancelTask(m, t) \/ Finish(m, t)
      PROVE  Remembering'
  BY <1>2, OutsideRemembering DEF CancelTask, Finish, Event, boundVars, approverVars
<1>3. ASSUME MaintenanceStarts \/ MaintenanceNext \/ EditSession \/ CancelNext \/ CancelRun
      PROVE  Remembering'
  <2>1. UNCHANGED <<cand, stored, committing, broken>>
    BY <1>3 DEF MaintenanceStarts, MaintenanceNext, RecoverRuns, AllDecided, ArchiveSessions, EditSession,
         CancelNext, CancelRun, Event, rowVars, approverVars, boundVars
  <2> QED
    BY <2>1, OutsideRemembering
<1>4. ASSUME NEW m \in Messages, NEW t \in Tasks, Propose(m, t) PROVE Remembering'
  <2>1. /\ <<m, t>> \in Candidates /\ cand[<<m, t>>] = "none"
        /\ cand' = [cand EXCEPT ![<<m, t>>] = "pending"]
        /\ UNCHANGED <<stored, committing, broken>>
    BY <1>4 DEF Propose, Candidates, approverVars
  <2>2. cand \in [Candidates -> {"none", "pending", "approved", "rejected"}]
    BY DEF Typed, TypeOK
  <2>3. \A a \in Approvers : committing[a] # None => committing[a] \in Candidates /\ committing[a] # <<m, t>>
    BY <2>1 DEF Remembering, CommitsApproved, Typed, TypeOK
  <2>4. CandidateStoredOnce' /\ CommitsApproved' /\ CommitsApart'
    BY <2>1, <2>2, <2>3 DEF Remembering, CandidateStoredOnce, CommitsApproved, CommitsApart
  <2>5. \A c \in Candidates : cand'[c] = "approved" => cand[c] = "approved"
    BY <2>1, <2>2
  <2>6. ApprovedIsRemembered'
    BY <2>1, <2>5, Zenon DEF Remembering, ApprovedIsRemembered
  <2> QED
    BY <2>4, <2>6 DEF Remembering
<1>5. ASSUME NEW a \in Approvers, DecideNext(a) PROVE Remembering'
  <2>1. PICK c \in queue[a] :
          /\ cand' = IF Decidable(c) THEN [cand EXCEPT ![c] = decide(c)] ELSE cand
          /\ committing' = IF Decidable(c) /\ c \in accepted THEN [committing EXCEPT ![a] = c]
                           ELSE committing
    BY <1>5 DEF DecideNext
  <2>2. c \in Candidates /\ committing[a] = None /\ UNCHANGED <<stored, broken>>
    <3>1. queue \in [Approvers -> SUBSET Candidates]
      BY DEF Typed, TypeOK
    <3>2. c \in Candidates
      BY <2>1, <3>1
    <3> QED
      BY <1>5, <3>2 DEF DecideNext, boundVars
  <2>3. CASE ~Decidable(c)
    BY <2>1, <2>2, <2>3, OutsideRemembering
  <2>4. CASE Decidable(c) /\ c \in accepted
    <3>1. /\ cand[c] = "pending"
          /\ cand' = [cand EXCEPT ![c] = "approved"] /\ committing' = [committing EXCEPT ![a] = c]
      BY <2>1, <2>4 DEF Decidable, decide
    <3>2. stored[c] = 0
      BY <2>2, <3>1 DEF Remembering, CandidateStoredOnce, Typed, TypeOK
    <3>3. \A b \in Approvers : committing[b] # c
      BY <2>2, <3>1, NoneOutside DEF Remembering, CommitsApproved
    <3>4. /\ cand \in [Candidates -> {"none", "pending", "approved", "rejected"}]
          /\ committing \in [Approvers -> Candidates \union {None}]
      BY DEF Typed, TypeOK
    <3>5. CandidateStoredOnce'
      BY <2>2, <3>1, <3>2, <3>4 DEF Remembering, CandidateStoredOnce
    <3>6. CommitsApproved' /\ CommitsApart'
      BY <2>2, <3>1, <3>2, <3>3, <3>4 DEF Remembering, CommitsApproved, CommitsApart
    <3>7. ASSUME NEW d \in Candidates, cand'[d] = "approved", ~broken'
          PROVE  stored'[d] = 1 \/ \E b \in Approvers : committing'[b] = d
      <4>1. CASE d = c
        BY <4>1, <3>1, <3>4
      <4>2. CASE d # c
        <5>1. cand[d] = "approved" /\ d # None
          BY <4>2, <3>1, <3>4, <3>7, NoneOutside
        <5>2. ~broken
          BY <3>7, <2>2, Zenon
        <5>3. stored[d] = 1 \/ \E b \in Approvers : committing[b] = d
          BY <5>1, <5>2, Zenon DEF Remembering, ApprovedIsRemembered
        <5> QED
          BY <5>1, <5>3, <3>1, <3>4, <2>2
      <4> QED
        BY <4>1, <4>2
    <3>8. ApprovedIsRemembered'
      BY <3>7, Zenon DEF ApprovedIsRemembered
    <3> QED
      BY <3>5, <3>6, <3>8 DEF Remembering
  <2>5. CASE Decidable(c) /\ c \notin accepted
    <3>1. cand[c] = "pending" /\ cand' = [cand EXCEPT ![c] = "rejected"] /\ UNCHANGED committing
      BY <2>1, <2>5 DEF Decidable, decide
    <3>2. cand \in [Candidates -> {"none", "pending", "approved", "rejected"}]
      BY DEF Typed, TypeOK
    <3>3. \A b \in Approvers : committing[b] # None => committing[b] \in Candidates /\ committing[b] # c
      BY <3>1 DEF Remembering, CommitsApproved, Typed, TypeOK
    <3>4. CandidateStoredOnce' /\ CommitsApproved' /\ CommitsApart'
      BY <2>2, <3>1, <3>2, <3>3 DEF Remembering, CandidateStoredOnce, CommitsApproved, CommitsApart
    <3>5. \A d \in Candidates : cand'[d] = "approved" => cand[d] = "approved"
      BY <3>1, <3>2
    <3>6. ApprovedIsRemembered'
      BY <2>2, <3>1, <3>5, Zenon DEF Remembering, ApprovedIsRemembered
    <3> QED
      BY <3>4, <3>6 DEF Remembering
  <2> QED
    BY <2>3, <2>4, <2>5
<1>6. ASSUME NEW a \in Approvers, Remembered(a) PROVE Remembering'
  <2> DEFINE c == committing[a]
  <2>1. /\ c # None /\ c \in Candidates
        /\ stored' = [stored EXCEPT ![c] = @ + 1] /\ committing' = [committing EXCEPT ![a] = None]
        /\ UNCHANGED <<cand, broken>>
    BY <1>6 DEF Remembered, Typed, TypeOK, rowVars, boundVars
  <2>2. stored[c] = 0 /\ cand[c] = "approved"
    BY <2>1 DEF Remembering, CommitsApproved
  <2>3. /\ stored \in [Candidates -> Nat]
        /\ committing \in [Approvers -> Candidates \union {None}]
    BY DEF Typed, TypeOK
  <2>4. \A b \in Approvers : b # a => committing[b] # c
    BY <2>1 DEF Remembering, CommitsApart
  <2> HIDE DEF c
  <2>5. stored'[c] = 1 /\ \A d \in Candidates : d # c => stored'[d] = stored[d]
    BY <2>1, <2>2, <2>3
  <2>6. committing'[a] = None /\ \A b \in Approvers : b # a => committing'[b] = committing[b]
    BY <2>1, <2>3
  <2>7. CandidateStoredOnce'
    BY <2>1, <2>2, <2>5 DEF Remembering, CandidateStoredOnce
  <2>8. CommitsApproved' /\ CommitsApart'
    BY <2>1, <2>3, <2>4, <2>5, <2>6 DEF Remembering, CommitsApproved, CommitsApart
  <2>9. ASSUME NEW d \in Candidates, cand'[d] = "approved", ~broken'
        PROVE  stored'[d] = 1 \/ \E b \in Approvers : committing'[b] = d
    <3>1. CASE d = c
      BY <3>1, <2>5
    <3>2. CASE d # c
      <4>1. cand[d] = "approved" /\ ~broken
        BY <2>1, <2>9, Zenon
      <4>2. stored[d] = 1 \/ \E b \in Approvers : committing[b] = d
        BY <4>1, Zenon DEF Remembering, ApprovedIsRemembered
      <4>3. committing[a] # d
        BY <3>2 DEF c
      <4> QED
        BY <4>2, <4>3, <3>2, <2>5, <2>6
    <3> QED
      BY <3>1, <3>2
  <2>10. ApprovedIsRemembered'
    BY <2>9, Zenon DEF ApprovedIsRemembered
  <2> QED
    BY <2>7, <2>8, <2>10 DEF Remembering
<1>7. ASSUME UNCHANGED <<cand, stored>>, broken' = TRUE,
             \A a \in Approvers : committing'[a] \in {committing[a], None}
      PROVE  Remembering'
  <2>1. ApprovedIsRemembered'
    BY <1>7, Zenon DEF ApprovedIsRemembered
  <2>2. CandidateStoredOnce' /\ CommitsApproved' /\ CommitsApart'
    BY <1>7 DEF Remembering, CandidateStoredOnce, CommitsApproved, CommitsApart
  <2> QED
    BY <2>1, <2>2 DEF Remembering
<1>8. ASSUME NEW a \in Approvers, NotRemembered(a) PROVE Remembering'
  <2> DEFINE c == committing[a]
  <2>1. /\ c # None /\ UNCHANGED cand /\ broken' = TRUE
        /\ stored' \in {stored, [stored EXCEPT ![c] = @ + 1]}
        /\ committing' = [committing EXCEPT ![a] = None]
    BY <1>8 DEF NotRemembered, Fault
  <2>2. cand[c] = "approved" /\ stored[c] = 0
    BY <2>1 DEF Remembering, CommitsApproved
  <2>3. /\ stored \in [Candidates -> Nat]
        /\ committing \in [Approvers -> Candidates \union {None}]
    BY DEF Typed, TypeOK
  <2>4. \A b \in Approvers : b # a => committing[b] # c
    BY <2>1 DEF Remembering, CommitsApart
  <2>5. committing'[a] = None /\ \A b \in Approvers : b # a => committing'[b] = committing[b]
    BY <2>1, <2>3
  <2> HIDE DEF c
  <2>6. CASE stored' = stored
    <3>1. \A b \in Approvers : committing'[b] \in {committing[b], None}
      BY <2>5
    <3> QED
      BY <1>7, <2>1, <2>6, <3>1
  <2>7. CASE stored' = [stored EXCEPT ![c] = @ + 1]
    <3>1. stored'[c] = 1 /\ \A d \in Candidates : d # c => stored'[d] = stored[d]
      <4>1. c \in Candidates
        BY <2>1, <2>3 DEF c
      <4> QED
        BY <4>1, <2>2, <2>3, <2>7
    <3>2. CandidateStoredOnce'
      BY <2>1, <2>2, <3>1 DEF Remembering, CandidateStoredOnce
    <3>3. CommitsApproved' /\ CommitsApart'
      BY <2>1, <2>3, <2>4, <2>5, <3>1 DEF Remembering, CommitsApproved, CommitsApart
    <3>4. ApprovedIsRemembered'
      BY <2>1, Zenon DEF ApprovedIsRemembered
    <3> QED
      BY <3>2, <3>3, <3>4 DEF Remembering
  <2> QED
    BY <2>1, <2>6, <2>7
<1>9. ASSUME Crash PROVE Remembering'
  BY <1>7, <1>9 DEF Crash, Fault, rowVars
<1>10. CASE UNCHANGED vars
  BY <1>10, OutsideRemembering DEF vars
<1> QED
  BY <1>1, <1>2, <1>3, <1>4, <1>5, <1>6, <1>8, <1>9, <1>10 DEF Next, LoopNext

-----------------------------------------------------------------------------
(* Paths.                                                                    *)

\* The steps after which a run may get its status, or that lead to them.
Deciding == {"complete", "wait", "planner", "execute", "review"}

\* A step is among the steps still to take.
Occurs(s, x) == \E i \in 1..Len(s) : s[i] = x

\* What is left to do decides nothing about the run any more.
Settled(s) == \A x \in Deciding : ~Occurs(s, x)

\* After a deciding step there is no other.
DecidesOnce(s) == \A i, j \in 1..Len(s) : i < j /\ s[i] \in Deciding => s[j] \notin Deciding

\* A path decides once and ends by returning, unless it is continued by the planner's,
\* the executor's or the reviewer's answer.
Ordered(s) ==
  /\ s \in Seq(Steps)
  /\ s # <<>> => s[Len(s)] \in {"return", "planner", "execute", "review"}
  /\ DecidesOnce(s)

\* A step of two paths in a row is a step of one of them.
LEMMA OccursConcat ==
  ASSUME NEW p \in Seq(Steps), NEW q \in Seq(Steps), NEW x
  PROVE  Occurs(p \o q, x) <=> Occurs(p, x) \/ Occurs(q, x)
<1>1. Len(p \o q) = Len(p) + Len(q) /\ Len(p) \in Nat /\ Len(q) \in Nat
  OBVIOUS
<1>2. \A i \in 1..Len(p) : (p \o q)[i] = p[i]
  OBVIOUS
<1>3. \A i \in 1..Len(q) : (p \o q)[Len(p) + i] = q[i]
  OBVIOUS
<1>4. ASSUME Occurs(p \o q, x) PROVE Occurs(p, x) \/ Occurs(q, x)
  <2>1. PICK i \in 1..Len(p \o q) : (p \o q)[i] = x
    BY <1>4 DEF Occurs
  <2>2. CASE i \in 1..Len(p)
    BY <2>1, <2>2, <1>2 DEF Occurs
  <2>3. CASE i - Len(p) \in 1..Len(q)
    BY <2>1, <2>3, <1>1, <1>3 DEF Occurs
  <2> QED
    BY <1>1, <2>2, <2>3
<1>5. ASSUME Occurs(p, x) \/ Occurs(q, x) PROVE Occurs(p \o q, x)
  <2>1. CASE Occurs(p, x)
    BY <2>1, <1>1, <1>2 DEF Occurs
  <2>2. CASE Occurs(q, x)
    <3>1. PICK i \in 1..Len(q) : q[i] = x
      BY <2>2 DEF Occurs
    <3>2. Len(p) + i \in 1..Len(p \o q)
      BY <1>1
    <3> QED
      BY <3>1, <3>2, <1>3 DEF Occurs
  <2> QED
    BY <1>5, <2>1, <2>2
<1> QED
  BY <1>4, <1>5

\* The next step is one of those to take, and the rest are among them.
LEMMA OccursTail ==
  ASSUME NEW s \in Seq(Steps), s # <<>>
  PROVE  /\ Occurs(s, Head(s))
         /\ \A x : Occurs(Tail(s), x) => Occurs(s, x)
  BY SMTT(30) DEF Occurs

\* A path after steps that decide nothing is still ordered.
LEMMA OrderedAfter ==
  ASSUME NEW p \in Seq(Steps), Settled(p), NEW q, Ordered(q), q # <<>>
  PROVE  Ordered(p \o q)
  BY SMTT(60) DEF Ordered, DecidesOnce, Settled, Occurs

\* Steps that decide once, before an ending, are an ordered path.
LEMMA OrderedBefore ==
  ASSUME NEW p \in Seq(Steps), DecidesOnce(p), NEW q \in Seq(Steps), Settled(q), q # <<>>,
         q[Len(q)] = "return"
  PROVE  Ordered(p \o q)
  BY SMTT(60) DEF Ordered, DecidesOnce, Settled, Occurs

\* What remains of an ordered path is ordered, and decides nothing once it has decided.
LEMMA OrderedTail ==
  ASSUME NEW s, Ordered(s), s # <<>>
  PROVE  /\ Ordered(Tail(s))
         /\ Head(s) \in Deciding => Settled(Tail(s))
         /\ Tail(s) = <<>> => Head(s) \in {"return", "planner", "execute", "review"}
<1>1. Ordered(Tail(s))
  BY SMTT(30) DEF Ordered, DecidesOnce
<1>2. Head(s) \in Deciding => Settled(Tail(s))
  BY SMTT(30) DEF Ordered, DecidesOnce, Settled, Occurs
<1>3. Tail(s) = <<>> => Head(s) \in {"return", "planner", "execute", "review"}
  <2>1. s \in Seq(Steps) /\ s[Len(s)] \in {"return", "planner", "execute", "review"}
    BY DEF Ordered
  <2>2. Tail(s) = <<>> => Len(s) = 1
    <3>1. Len(Tail(s)) = Len(s) - 1 /\ Len(s) \in Nat
      BY <2>1
    <3>2. Len(<<>>) = 0
      OBVIOUS
    <3> QED
      BY <3>1, <3>2
  <2>3. Head(s) = s[1]
    BY <2>1
  <2> QED
    BY <2>1, <2>2, <2>3
<1> QED
  BY <1>1, <1>2, <1>3

\* The paths of handleUserMessage are ordered, and what steps they do not have.
LEMMA PathSteps ==
  /\ Ordered(Synthesis) /\ \A x \in {"planner", "execute", "review", "wait"} : ~Occurs(Synthesis, x)
  /\ Ordered(Identity) /\ \A x \in {"planner", "execute", "review", "wait"} : ~Occurs(Identity, x)
  /\ Ordered(PlanOnly) /\ \A x \in {"planner", "execute", "review", "wait"} : ~Occurs(PlanOnly, x)
  /\ Ordered(Clarify) /\ \A x \in {"planner", "execute", "review", "complete"} : ~Occurs(Clarify, x)
  /\ Ordered(Pause) /\ \A x \in {"planner", "execute", "review", "complete"} : ~Occurs(Pause, x)
  /\ Ordered(ErrorPath) /\ Settled(ErrorPath)
  /\ Ordered(<<"execute">>) /\ Ordered(<<"review">>) /\ Ordered(<<>>) /\ Settled(<<>>)
  /\ Ordered(<<"model", "planner">>)
  /\ \A x \in {"execute", "review", "wait", "complete"} : ~Occurs(<<"model", "planner">>, x)
<1>1. Ending \in Seq(Steps) /\ Settled(Ending) /\ Ending # <<>> /\ Ending[Len(Ending)] = "return"
  BY DEF Ending, Steps, Settled, Deciding, Occurs
<1> DEFINE identity == <<"rememberAnswer", "complete">>
           synthesis == <<"model", "rememberAnswer", "approve", "decide", "complete">>
           clarify == <<"wait", "rememberAnswer">>
           pause == <<"approve", "decide", "wait", "rememberAnswer">>
           planOnly == <<"rememberAnswer", "approve", "decide", "complete">>
           Whole(p) == p \in Seq(Steps) /\ DecidesOnce(p)
<1>2. Whole(identity) /\ \A x \in {"planner", "execute", "review", "wait"} : ~Occurs(identity, x)
  BY DEF Steps, DecidesOnce, Deciding, Occurs
<1>3. Whole(synthesis) /\ \A x \in {"planner", "execute", "review", "wait"} : ~Occurs(synthesis, x)
  BY DEF Steps, DecidesOnce, Deciding, Occurs
<1>4. Whole(planOnly) /\ \A x \in {"planner", "execute", "review", "wait"} : ~Occurs(planOnly, x)
  BY DEF Steps, DecidesOnce, Deciding, Occurs
<1>5. Whole(clarify) /\ \A x \in {"planner", "execute", "review", "complete"} : ~Occurs(clarify, x)
  BY DEF Steps, DecidesOnce, Deciding, Occurs
<1>6. Whole(pause) /\ \A x \in {"planner", "execute", "review", "complete"} : ~Occurs(pause, x)
  BY DEF Steps, DecidesOnce, Deciding, Occurs
<1>7. /\ Identity = identity \o Ending /\ Synthesis = synthesis \o Ending
      /\ PlanOnly = planOnly \o Ending /\ Clarify = clarify \o Ending /\ Pause = pause \o Ending
  BY DEF Identity, Synthesis, PlanOnly, Clarify, Pause
<1> HIDE DEF identity, synthesis, clarify, pause, planOnly
<1>8. ASSUME NEW p, Whole(p) PROVE Ordered(p \o Ending)
  BY <1>1, <1>8, OrderedBefore
<1>9. ASSUME NEW p, Whole(p), NEW x \in Deciding, ~Occurs(p, x) PROVE ~Occurs(p \o Ending, x)
  BY <1>1, <1>9, OccursConcat DEF Settled
<1>10. {"planner", "execute", "review", "wait", "complete"} \subseteq Deciding
  BY DEF Deciding
<1> HIDE DEF Whole
<1>11. Ordered(ErrorPath) /\ Settled(ErrorPath)
  BY DEF ErrorPath, Ordered, Settled, Steps, DecidesOnce, Deciding, Occurs
<1>12. Ordered(<<"execute">>) /\ Ordered(<<"review">>) /\ Ordered(<<>>) /\ Settled(<<>>)
  BY DEF Ordered, Settled, Steps, DecidesOnce, Deciding, Occurs
<1>13. /\ Ordered(<<"model", "planner">>)
       /\ \A x \in {"execute", "review", "wait", "complete"} : ~Occurs(<<"model", "planner">>, x)
  BY DEF Ordered, Steps, DecidesOnce, Deciding, Occurs
<1>14. Ordered(Identity) /\ Ordered(Synthesis) /\ Ordered(PlanOnly) /\ Ordered(Clarify) /\ Ordered(Pause)
  BY <1>2, <1>3, <1>4, <1>5, <1>6, <1>7, <1>8
<1>15. /\ \A x \in {"planner", "execute", "review", "wait"} :
            ~Occurs(Identity, x) /\ ~Occurs(Synthesis, x) /\ ~Occurs(PlanOnly, x)
       /\ \A x \in {"planner", "execute", "review", "complete"} : ~Occurs(Clarify, x) /\ ~Occurs(Pause, x)
  BY <1>2, <1>3, <1>4, <1>5, <1>6, <1>7, <1>9, <1>10
<1> QED
  BY <1>11, <1>12, <1>13, <1>14, <1>15

-----------------------------------------------------------------------------
(* Handlers.                                                                 *)

\* The kinds of message that are delegated to tasks.
Planning == {"plan", "task"}

\* The invariant of a handler: it is on an ordered path, only a message that is delegated
\* waits for tasks, its run is completed after the planner ended, and no verdict has been
\* given while a step is left that gives one.
HandlerInv(m) ==
  /\ Ordered(todo[m])
  /\ kind[m] \notin Planning => \A x \in {"planner", "execute", "review"} : ~Occurs(todo[m], x)
  /\ (kind[m] \in Planning /\ \E x \in {"complete", "execute", "review"} : Occurs(todo[m], x))
       => task[m]["planner"] \in Terminal
  /\ (~Settled(todo[m]) \/ (outcome[m] = "none" /\ todo[m] = <<>>)) => verdict[m] = "none"

HandlersInv == \A m \in Messages : HandlerInv(m)

\* No handler has begun at first.
LEMMA HandlersInit == ASSUME Init PROVE HandlersInv
<1>1. Ordered(<<>>) /\ Settled(<<>>) /\ \A x \in Deciding : ~Occurs(<<>>, x)
  BY PathSteps DEF Settled
<1> QED
  BY <1>1 DEF Init, HandlersInv, HandlerInv, Deciding

\* What a handler that is at a step may rely on.
LEMMA AtStep ==
  ASSUME NEW m \in Messages, NEW x \in Steps, HandlerInv(m), At(m, x)
  PROVE  /\ Occurs(todo[m], x)
         /\ x \in {"planner", "execute", "review"} => kind[m] \in Planning
         /\ x \in Deciding => ~Settled(todo[m]) /\ verdict[m] = "none"
         /\ x \in {"complete", "execute", "review"} /\ kind[m] \in Planning
              => task[m]["planner"] \in Terminal
<1>1. todo[m] \in Seq(Steps) /\ todo[m] # <<>> /\ Head(todo[m]) = x
  BY DEF HandlerInv, Ordered, At
<1>2. Occurs(todo[m], x)
  BY <1>1, OccursTail
<1> QED
  BY <1>2 DEF HandlerInv, Settled

\* What a step can do to a task: end one that is open, or, as long as the handler has not
\* decided, create one that is not the planner again, in one of three steps of the handler.
LEMMA TaskStep ==
  ASSUME Typed, HandlersInv, [Next]_vars, NEW n \in Messages, NEW u \in Tasks
  PROVE  \/ task'[n][u] = task[n][u]
         \/ (task[n][u] \in Open /\ task'[n][u] \in Terminal)
         \/ /\ ~Settled(todo[n]) /\ kind[n] \in Planning
            /\ u = "planner" => task[n][u] = "none"
            /\ CreatePlanner(n) \/ Planned(n) \/ Executed(n)
<1> DEFINE Goal == \/ task'[n][u] = task[n][u]
                   \/ (task[n][u] \in Open /\ task'[n][u] \in Terminal)
                   \/ /\ ~Settled(todo[n]) /\ kind[n] \in Planning
                      /\ u = "planner" => task[n][u] = "none"
                      /\ CreatePlanner(n) \/ Planned(n) \/ Executed(n)
<1>1. task \in [Messages -> [Tasks -> Open \union Terminal \union {"none"}]]
  BY DEF Typed, TypeOK
<1>2. HandlerInv(n) /\ {"planner", "execute"} \subseteq Deciding \intersect Steps
  BY DEF HandlersInv, Deciding, Steps
<1>3. ASSUME NEW m \in Messages, NEW t \in Tasks, NEW s \in Terminal, task[m][t] \in Open, SetTask(m, t, s)
      PROVE  Goal
  BY <1>1, <1>3 DEF SetTask
<1>4. ASSUME UNCHANGED task PROVE Goal
  BY <1>4
<1>5. {"open", "draft"} = Open /\ {"done", "failed", "blocked", "cancelled"} = Terminal
      /\ {"planner", "work1", "work2", "review"} = Tasks
  BY DEF Open, Terminal, Tasks
<1>6. ASSUME NEW m \in Messages, CreatePlanner(m) PROVE Goal
  <2>1. At(m, "planner") /\ task[m]["planner"] = "none" /\ task' = [task EXCEPT ![m]["planner"] = "open"]
    BY <1>6 DEF CreatePlanner, SetTask
  <2>2. CASE n = m
    BY <1>1, <1>2, <1>5, <1>6, <2>1, <2>2, AtStep
  <2>3. CASE n # m
    BY <1>1, <2>1, <2>3
  <2> QED
    BY <2>2, <2>3
<1>7. ASSUME NEW m \in Messages, Planned(m) PROVE Goal
  <2>1. /\ At(m, "planner")
        /\ \/ UNCHANGED task
           \/ task' = [task EXCEPT ![m]["work1"] = "draft", ![m]["work2"] = "draft"]
           \/ task' = [task EXCEPT ![m]["work1"] = "open", ![m]["work2"] = "open"]
    BY <1>7 DEF Planned
  <2>2. CASE n = m
    <3>1. ~Settled(todo[n]) /\ kind[n] \in Planning
      BY <1>2, <2>1, <2>2, AtStep
    <3>2. u = "planner" => task'[n][u] = task[n][u]
      BY <1>1, <1>5, <2>1
    <3> QED
      BY <1>7, <2>2, <3>1, <3>2
  <2>3. CASE n # m
    BY <1>1, <2>1, <2>3
  <2> QED
    BY <2>2, <2>3
<1>8. ASSUME NEW m \in Messages, BlockDependent(m) PROVE Goal
  BY <1>3, <1>5, <1>8 DEF BlockDependent
<1>9. ASSUME NEW m \in Messages, Executed(m) PROVE Goal
  <2>1. At(m, "execute") /\ (UNCHANGED task \/ task' = [task EXCEPT ![m]["review"] = "open"])
    BY <1>9 DEF Executed
  <2>2. CASE n = m
    <3>1. ~Settled(todo[n]) /\ kind[n] \in Planning
      BY <1>2, <2>1, <2>2, AtStep
    <3>2. u = "planner" => task'[n][u] = task[n][u]
      BY <1>1, <1>5, <2>1
    <3> QED
      BY <1>9, <2>2, <3>1, <3>2
  <2>3. CASE n # m
    BY <1>1, <2>1, <2>3
  <2> QED
    BY <2>2, <2>3
<1>10. ASSUME NEW m \in Messages, Throw(m) PROVE Goal
  <2>1. ASSUME NEW t \in Tasks, SetTask(m, t, task[m][t]) PROVE UNCHANGED task
    BY <1>1, <2>1 DEF SetTask
  <2>2. \/ UNCHANGED task
        \/ \E t \in Tasks : SetTask(m, t, IF task[m][t] = "open" THEN "cancelled" ELSE task[m][t])
    BY <1>5, <1>10 DEF Throw
  <2> QED
    BY <1>3, <1>4, <1>5, <2>1, <2>2
<1>11. ASSUME NEW m \in Messages,
              \/ Receive(m) \/ Refuse(m) \/ Await(m) \/ Reviewed(m) \/ Complete(m) \/ Return(m)
              \/ Approve(m) \/ Decided(m) \/ Reject(m) \/ CancelRunStarts(m)
       PROVE  Goal
  BY <1>4, <1>11 DEF Receive, Refuse, Await, Reviewed, Complete, Return, Approve, Decided, Reject,
       CancelRunStarts, rowVars
<1>12. ASSUME NEW m \in Messages, NEW t \in Tasks, CancelTask(m, t) \/ Finish(m, t) PROVE Goal
  BY <1>3, <1>5, <1>12 DEF CancelTask, Finish, Runnable
<1>13. ASSUME NEW m \in Messages, NEW t \in Tasks, Propose(m, t) PROVE Goal
  BY <1>4, <1>13 DEF Propose
<1>14. ASSUME NEW a \in Approvers, LoopNext(a) \/ NotRemembered(a) PROVE Goal
  BY <1>4, <1>14 DEF LoopNext, DecideNext, Remembered, NotRemembered, rowVars
<1>15. ASSUME MaintenanceStarts \/ MaintenanceNext \/ EditSession \/ Crash PROVE Goal
  BY <1>4, <1>15 DEF MaintenanceStarts, MaintenanceNext, RecoverRuns, AllDecided, ArchiveSessions,
       EditSession, Crash, rowVars
<1>16. ASSUME CancelNext PROVE Goal
  <2>1. PICK t \in cancel.tasks :
          task' = IF task[cancel.run][t] \in Open THEN [task EXCEPT ![cancel.run][t] = "cancelled"]
                  ELSE task
    BY <1>16 DEF CancelNext
  <2>2. cancel.run \in Messages /\ t \in Tasks
    BY DEF Typed
  <2>3. CASE task[cancel.run][t] \in Open
    BY <1>3, <1>5, <2>1, <2>2, <2>3 DEF SetTask
  <2>4. CASE task[cancel.run][t] \notin Open
    BY <1>4, <2>1, <2>4
  <2> QED
    BY <2>3, <2>4
<1>17. ASSUME CancelRun PROVE Goal
  <2>1. task' = [task EXCEPT ![cancel.run] =
                   [t \in Tasks |-> IF task[cancel.run][t] \in Open THEN "cancelled"
                                    ELSE task[cancel.run][t]]]
    BY <1>17 DEF CancelRun
  <2> QED
    BY <1>1, <1>5, <2>1
<1>18. CASE UNCHANGED vars
  BY <1>4, <1>18 DEF vars
<1>19. ASSUME NEW m \in Messages, HandlerNext(m) PROVE Goal
  BY <1>6, <1>7, <1>8, <1>9, <1>11, <1>19 DEF HandlerNext
<1>20. CASE Next
  BY <1>10, <1>11, <1>12, <1>13, <1>14, <1>15, <1>16, <1>17, <1>19, <1>20 DEF Next
<1> QED
  BY <1>18, <1>20

\* A step that leaves a handler alone keeps its invariant.
LEMMA StillHandled ==
  ASSUME Typed, HandlersInv, [Next]_vars, NEW n \in Messages,
         kind' = kind, todo'[n] = todo[n], outcome'[n] = outcome[n], verdict'[n] = verdict[n]
  PROVE  HandlerInv(n)'
<1>1. HandlerInv(n) /\ "planner" \in Tasks
  BY DEF HandlersInv, Tasks
<1>2. task[n]["planner"] \in Terminal => task'[n]["planner"] \in Terminal
  BY <1>1, TaskStep DEF Open, Terminal
<1> QED
  BY <1>1, <1>2 DEF HandlerInv

\* A handler that goes on to its next step keeps it.
LEMMA Advanced ==
  ASSUME Typed, HandlersInv, [Next]_vars, NEW n \in Messages, NEW x \in Steps, At(n, x), Advance(n),
         kind' = kind, verdict'[n] = verdict[n] \/ x \in Deciding,
         \/ outcome'[n] # "none"
         \/ (outcome'[n] = outcome[n] /\ x \notin {"return", "planner", "execute", "review"})
  PROVE  HandlerInv(n)'
<1>1. HandlerInv(n) /\ "planner" \in Tasks
  BY DEF HandlersInv, Tasks
<1>2. task[n]["planner"] \in Terminal => task'[n]["planner"] \in Terminal
  BY <1>1, TaskStep DEF Open, Terminal
<1>3. /\ todo[n] # <<>> /\ Head(todo[n]) = x /\ todo'[n] = Tail(todo[n])
      /\ Ordered(todo[n]) /\ todo[n] \in Seq(Steps)
  BY <1>1 DEF At, Advance, Typed, HandlerInv, Ordered
<1>4. /\ Ordered(todo'[n])
      /\ x \in Deciding => Settled(todo'[n])
      /\ todo'[n] = <<>> => x \in {"return", "planner", "execute", "review"}
  BY <1>3, OrderedTail
<1>5. \A y : Occurs(todo'[n], y) => Occurs(todo[n], y)
  BY <1>3, OccursTail
<1>6. ~Settled(todo'[n]) => ~Settled(todo[n])
  BY <1>5 DEF Settled
<1>7. kind'[n] \notin Planning => \A y \in {"planner", "execute", "review"} : ~Occurs(todo'[n], y)
  BY <1>1, <1>5 DEF HandlerInv
<1>8. (kind'[n] \in Planning /\ \E y \in {"complete", "execute", "review"} : Occurs(todo'[n], y))
        => task'[n]["planner"] \in Terminal
  BY <1>1, <1>2, <1>5 DEF HandlerInv
<1>9. ~Settled(todo'[n]) => verdict'[n] = "none"
  BY <1>1, <1>4, <1>6 DEF HandlerInv
<1>10. todo'[n] = <<>> => outcome'[n] # "none"
  BY <1>4
<1> QED
  BY <1>4, <1>7, <1>8, <1>9, <1>10 DEF HandlerInv

\* Every step keeps the invariant of every handler.
LEMMA HandlersNext ==
  ASSUME Typed, HandlersInv, [Next]_vars
  PROVE  HandlersInv'
<1> SUFFICES ASSUME NEW n \in Messages PROVE HandlerInv(n)'
  BY DEF HandlersInv
<1>1. HandlerInv(n) /\ "planner" \in Tasks
  BY DEF HandlersInv, Tasks
<1>2. task[n]["planner"] \in Terminal => task'[n]["planner"] \in Terminal
  BY <1>1, TaskStep DEF Open, Terminal
<1>3. /\ todo \in [Messages -> Seq(Steps)] /\ verdict \in [Messages -> RunStatuses]
      /\ outcome \in [Messages -> {"none", "refused", "rejected", "answered", "lost", "crashed"}]
      /\ kind \in [Messages -> {"identity", "chat", "clarify", "plan", "task", "unsent"}]
  BY DEF Typed, TypeOK
<1>4. {"beforeRun", "rememberUser", "model", "rememberAnswer", "afterRun", "rememberError", "lastHook",
       "planner", "execute", "review", "wait", "complete", "return", "approve", "decide"} \subseteq Steps
  BY DEF Steps
<1>5. {"planner", "execute", "review", "wait", "complete"} = Deciding
  BY DEF Deciding
<1>6. ASSUME NEW m \in Messages, Caught(m), UNCHANGED <<kind, outcome>> PROVE HandlerInv(n)'
  <2>1. /\ verdict' = [verdict EXCEPT ![m] = "failed"] /\ todo' = [todo EXCEPT ![m] = ErrorPath]
    BY <1>6 DEF Caught, Go
  <2>2. CASE n = m
    <3>1. todo'[n] = ErrorPath /\ ErrorPath # <<>>
      BY <1>3, <2>1, <2>2 DEF ErrorPath
    <3> QED
      BY <3>1, PathSteps, <1>5, <1>6 DEF HandlerInv, Settled
  <2>3. CASE n # m
    BY <1>3, <1>6, <2>1, <2>3, StillHandled
  <2> QED
    BY <2>2, <2>3
<1>7. ASSUME NEW m \in Messages, NEW x \in {"planner", "execute", "review"}, At(m, x),
             task[m]["planner"] \in Terminal, UNCHANGED <<kind, outcome, verdict>>,
             NEW s \in {Synthesis, Pause, PlanOnly, <<"execute">>, <<"review">>}, Go(m, s)
      PROVE  HandlerInv(n)'
  <2>1. todo' = [todo EXCEPT ![m] = s]
    BY <1>7 DEF Go
  <2>2. CASE n = m
    <3>1. verdict[n] = "none" /\ kind[n] \in Planning
      BY <1>1, <1>4, <1>5, <1>7, <2>2, AtStep
    <3>2. todo'[n] = s /\ Ordered(s) /\ task'[n]["planner"] \in Terminal
      BY <1>2, <1>3, <1>7, <2>1, <2>2, PathSteps
    <3> QED
      BY <3>1, <3>2, <1>7 DEF HandlerInv
  <2>3. CASE n # m
    BY <1>3, <1>7, <2>1, <2>3, StillHandled
  <2> QED
    BY <2>2, <2>3
<1>8. ASSUME NEW m \in Messages, NEW x \in Steps, At(m, x), Advance(m), kind' = kind,
             \/ UNCHANGED verdict
             \/ x \in Deciding /\ \E v : verdict' = [verdict EXCEPT ![m] = v],
             \/ UNCHANGED outcome /\ x \notin {"return", "planner", "execute", "review"}
             \/ \E v \in {"answered", "lost"} : outcome' = [outcome EXCEPT ![m] = v]
      PROVE  HandlerInv(n)'
  <2>1. CASE n = m
    <3>1. verdict'[n] = verdict[n] \/ x \in Deciding
      BY <1>8
    <3>2. \/ outcome'[n] # "none"
          \/ (outcome'[n] = outcome[n] /\ x \notin {"return", "planner", "execute", "review"})
      BY <1>3, <1>8, <2>1
    <3> QED
      BY <3>1, <3>2, <1>8, <2>1, Advanced
  <2>2. CASE n # m
    <3>1. todo'[n] = todo[n] /\ verdict'[n] = verdict[n] /\ outcome'[n] = outcome[n]
      BY <1>3, <1>8, <2>2 DEF Advance
    <3> QED
      BY <3>1, <1>8, StillHandled
  <2> QED
    BY <2>1, <2>2
<1>9. ASSUME UNCHANGED <<kind, todo, outcome, verdict>> PROVE HandlerInv(n)'
  BY <1>9, StillHandled
<1>10. ASSUME NEW m \in Messages, Receive(m) PROVE HandlerInv(n)'
  <2>1. /\ kind[m] # "unsent" /\ outcome[m] = "none" /\ todo[m] = <<>>
        /\ todo' = [todo EXCEPT ![m] = Prologue \o Path(kind[m])] /\ UNCHANGED <<kind, outcome, verdict>>
    BY <1>10 DEF Receive
  <2>2. CASE n = m
    <3>1. todo'[n] = Prologue \o Path(kind[n]) /\ verdict[n] = "none"
      BY <1>1, <1>3, <2>1, <2>2 DEF HandlerInv
    <3>2. Prologue \in Seq(Steps) /\ Settled(Prologue)
      BY DEF Prologue, Steps, Settled, Deciding, Occurs
    <3>3. /\ Ordered(Path(kind[n])) /\ Path(kind[n]) # <<>>
          /\ kind[n] \notin Planning => \A x \in {"planner", "execute", "review"} : ~Occurs(Path(kind[n]), x)
          /\ kind[n] \in Planning => \A x \in {"complete", "execute", "review"} : ~Occurs(Path(kind[n]), x)
      <4>1. /\ Path("identity") = Identity /\ Path("chat") = Synthesis /\ Path("clarify") = Clarify
            /\ Path("plan") = <<"model", "planner">> /\ Path("task") = <<"model", "planner">>
        BY DEF Path
      <4>2. {Identity, Synthesis, Clarify, <<"model", "planner">>} \subseteq {s \in Seq(Steps) : s # <<>>}
        <5>1. Ordered(Identity) /\ Ordered(Synthesis) /\ Ordered(Clarify) /\ Ordered(<<"model", "planner">>)
          BY PathSteps
        <5>2. \A p \in Seq(Steps) : p \o Ending # <<>>
          BY DEF Ending, Steps
        <5>3. /\ <<"rememberAnswer", "complete">> \in Seq(Steps)
              /\ <<"wait", "rememberAnswer">> \in Seq(Steps)
              /\ <<"model", "rememberAnswer", "approve", "decide", "complete">> \in Seq(Steps)
          BY DEF Steps
        <5>4. Identity # <<>> /\ Synthesis # <<>> /\ Clarify # <<>>
          BY <5>2, <5>3 DEF Identity, Synthesis, Clarify
        <5> QED
          BY <5>1, <5>4 DEF Ordered
      <4>3. kind[n] \in {"identity", "chat", "clarify", "plan", "task"}
        BY <1>3, <2>1, <2>2
      <4> QED
        BY <4>1, <4>2, <4>3, PathSteps DEF Planning
    <3>4. Ordered(todo'[n])
      BY <3>1, <3>2, <3>3, OrderedAfter
    <3>5. \A x \in Deciding : Occurs(todo'[n], x) => Occurs(Path(kind[n]), x)
      BY <3>1, <3>2, <3>3, OccursConcat DEF Settled, Ordered
    <3> QED
      BY <1>5, <2>1, <3>1, <3>3, <3>4, <3>5 DEF HandlerInv
  <2>3. CASE n # m
    BY <1>3, <2>1, <2>3, StillHandled
  <2> QED
    BY <2>2, <2>3
<1>11. ASSUME NEW m \in Messages, Refuse(m) \/ Reject(m) PROVE HandlerInv(n)'
  <2>1. /\ outcome' = [outcome EXCEPT ![m] = "refused"] \/ outcome' = [outcome EXCEPT ![m] = "rejected"]
        /\ UNCHANGED todo \/ todo' = [todo EXCEPT ![m] = <<>>]
        /\ UNCHANGED <<kind, verdict>>
    BY <1>11 DEF Refuse, Reject, Go
  <2>2. CASE n = m
    <3>1. outcome'[n] # "none" /\ (todo'[n] = todo[n] \/ todo'[n] = <<>>)
      BY <1>3, <2>1, <2>2
    <3>2. Ordered(<<>>) /\ Settled(<<>>)
      BY PathSteps
    <3> QED
      BY <1>1, <1>2, <1>5, <2>1, <3>1, <3>2 DEF HandlerInv, Settled
  <2>3. CASE n # m
    BY <1>3, <2>1, <2>3, StillHandled
  <2> QED
    BY <2>2, <2>3
<1>12. ASSUME NEW m \in Messages, Await(m) PROVE HandlerInv(n)'
  <2>1. PICK x \in {"beforeRun", "rememberUser", "model", "rememberAnswer", "afterRun",
                   "rememberError", "lastHook"} :
          At(m, x) /\ Advance(m) /\ UNCHANGED <<kind, verdict, outcome>>
    BY <1>12 DEF Await
  <2> QED
    BY <1>4, <1>8, <2>1
<1>13. ASSUME NEW m \in Messages, Planned(m) PROVE HandlerInv(n)'
  <2>1. At(m, "planner") /\ task[m]["planner"] \in Terminal /\ UNCHANGED <<kind, verdict, outcome>>
    BY <1>13 DEF Planned
  <2>2. Go(m, Synthesis) \/ Go(m, Pause) \/ Go(m, PlanOnly) \/ Go(m, <<"execute">>)
    BY <1>13 DEF Planned
  <2> QED
    BY <1>7, <2>1, <2>2
<1>14. ASSUME NEW m \in Messages, Executed(m) \/ Reviewed(m) PROVE HandlerInv(n)'
  <2>1. /\ At(m, "execute") \/ At(m, "review")
        /\ UNCHANGED <<kind, verdict, outcome>>
        /\ Go(m, Synthesis) \/ Go(m, Pause) \/ Go(m, <<"review">>)
    BY <1>14 DEF Executed, Reviewed
  <2>2. HandlerInv(m)
    BY DEF HandlersInv
  <2>3. task[m]["planner"] \in Terminal
    BY <1>4, <2>1, <2>2, AtStep
  <2> QED
    BY <1>7, <2>1, <2>3
<1>15. ASSUME NEW m \in Messages, Complete(m) PROVE HandlerInv(n)'
  <2>1. /\ At(m, "complete") \/ At(m, "wait")
        /\ Advance(m) /\ UNCHANGED <<kind, outcome>> /\ \E v : verdict' = [verdict EXCEPT ![m] = v]
    BY <1>15 DEF Complete
  <2> QED
    BY <1>4, <1>5, <1>8, <2>1
<1>16. ASSUME NEW m \in Messages, Return(m) PROVE HandlerInv(n)'
  <2>1. /\ At(m, "return") /\ Advance(m) /\ UNCHANGED <<kind, verdict>>
        /\ \E v \in {"answered", "lost"} : outcome' = [outcome EXCEPT ![m] = v]
    BY <1>16 DEF Return
  <2> QED
    BY <1>4, <1>8, <2>1
<1>17. ASSUME NEW m \in Messages, Approve(m) \/ Decided(m) PROVE HandlerInv(n)'
  <2>1. At(m, "approve") \/ At(m, "decide")
    BY <1>17 DEF Approve, Decided
  <2>2. Advance(m) /\ UNCHANGED <<kind, verdict, outcome>>
    BY <1>17 DEF Approve, Decided
  <2> QED
    BY <1>4, <1>8, <2>1, <2>2
<1>18. ASSUME NEW m \in Messages, Throw(m) PROVE HandlerInv(n)'
  BY <1>6, <1>18 DEF Throw
<1>19. ASSUME NEW m \in Messages,
              CreatePlanner(m) \/ BlockDependent(m) \/ CancelRunStarts(m)
       PROVE  HandlerInv(n)'
  BY <1>9, <1>19 DEF CreatePlanner, BlockDependent, CancelRunStarts
<1>20. ASSUME NEW m \in Messages, NEW t \in Tasks, CancelTask(m, t) \/ Propose(m, t) \/ Finish(m, t)
       PROVE  HandlerInv(n)'
  BY <1>9, <1>20 DEF CancelTask, Propose, Finish
<1>21. ASSUME NEW a \in Approvers, LoopNext(a) PROVE HandlerInv(n)'
  BY <1>9, <1>21 DEF LoopNext, DecideNext, Remembered
<1>22. ASSUME NEW a \in Approvers, NotRemembered(a) PROVE HandlerInv(n)'
  <2>1. UNCHANGED <<kind, outcome>> /\ ((a \in Messages /\ Caught(a)) \/ UNCHANGED <<verdict, todo>>)
    BY <1>22 DEF NotRemembered
  <2> QED
    BY <1>6, <1>9, <2>1
<1>23. ASSUME MaintenanceStarts \/ MaintenanceNext \/ EditSession \/ CancelNext \/ CancelRun
       PROVE  HandlerInv(n)'
  BY <1>9, <1>23 DEF MaintenanceStarts, MaintenanceNext, RecoverRuns, AllDecided, ArchiveSessions,
       EditSession, CancelNext, CancelRun
<1>24. ASSUME Crash PROVE HandlerInv(n)'
  <2>1. /\ todo'[n] = <<>> /\ UNCHANGED <<kind, verdict>>
        /\ outcome'[n] = IF todo[n] # <<>> THEN "crashed" ELSE outcome[n]
    BY <1>24 DEF Crash
  <2>2. Ordered(<<>>) /\ Settled(<<>>)
    BY PathSteps
  <2> QED
    BY <1>1, <1>5, <2>1, <2>2 DEF HandlerInv, Settled
<1>25. CASE UNCHANGED vars
  BY <1>9, <1>25 DEF vars
<1>26. ASSUME NEW m \in Messages, HandlerNext(m) PROVE HandlerInv(n)'
  BY <1>10, <1>11, <1>12, <1>13, <1>14, <1>15, <1>16, <1>17, <1>19, <1>26 DEF HandlerNext
<1>27. CASE Next
  BY <1>11, <1>18, <1>19, <1>20, <1>21, <1>22, <1>23, <1>24, <1>26, <1>27 DEF Next
<1> QED
  BY <1>25, <1>27

-----------------------------------------------------------------------------
(* Runs and their tasks.                                                     *)

\* No handler decides that its run is active.
RunsInv == \A m \in Messages : verdict[m] \notin ActiveRuns

\* What a step can do to the verdict and the status of a run: nothing, cancel the run,
\* change a run that is active or not decided, fail both, or complete both alike.
LEMMA VerdictStep ==
  ASSUME Typed, HandlersInv, [Next]_vars, NEW n \in Messages
  PROVE  \/ /\ verdict'[n] = verdict[n]
            /\ \/ run'[n] \in {run[n], "cancelled"}
               \/ run[n] \in ActiveRuns
               \/ verdict[n] = "none"
         \/ verdict'[n] = "failed" /\ run'[n] = "failed"
         \/ /\ At(n, "complete") \/ At(n, "wait")
            /\ verdict'[n] \in Decisions(n) /\ run'[n] = verdict'[n]
            /\ kind' = kind /\ task' = task
<1> DEFINE Kept == /\ verdict'[n] = verdict[n]
                   /\ \/ run'[n] \in {run[n], "cancelled"}
                      \/ run[n] \in ActiveRuns
                      \/ verdict[n] = "none"
           Goal == \/ Kept
                   \/ verdict'[n] = "failed" /\ run'[n] = "failed"
                   \/ /\ At(n, "complete") \/ At(n, "wait")
                      /\ verdict'[n] \in Decisions(n) /\ run'[n] = verdict'[n]
                      /\ kind' = kind /\ task' = task
<1>1. verdict \in [Messages -> RunStatuses] /\ run \in [Messages -> RunStatuses]
  BY DEF Typed, TypeOK
<1>2. ASSUME UNCHANGED <<verdict, run>> PROVE Goal
  BY <1>2
<1>3. ASSUME NEW m \in Messages, Caught(m) PROVE Goal
  BY <1>1, <1>3 DEF Caught, completeRun
<1>4. ASSUME NEW m \in Messages, Receive(m) PROVE Goal
  <2>1. /\ outcome[m] = "none" /\ todo[m] = <<>>
        /\ run' = [run EXCEPT ![m] = "running"] /\ UNCHANGED verdict
    BY <1>4 DEF Receive
  <2>2. verdict[m] = "none"
    BY <2>1 DEF HandlersInv, HandlerInv
  <2> QED
    BY <1>1, <2>1, <2>2
<1>5. ASSUME NEW m \in Messages, Executed(m) PROVE Goal
  <2>1. At(m, "execute") /\ (UNCHANGED run \/ run' = [run EXCEPT ![m] = "reviewing"]) /\ UNCHANGED verdict
    BY <1>5 DEF Executed
  <2>2. HandlerInv(m) /\ "execute" \in Steps \intersect Deciding
    BY DEF HandlersInv, Steps, Deciding
  <2>3. verdict[m] = "none"
    BY <2>1, <2>2, AtStep
  <2> QED
    BY <1>1, <2>1, <2>3
<1>6. ASSUME NEW m \in Messages, Complete(m) PROVE Goal
  <2>1. PICK status \in Decisions(m) :
          verdict' = [verdict EXCEPT ![m] = status] /\ run' = [run EXCEPT ![m] = status]
    BY <1>6 DEF Complete, completeRun
  <2>2. (At(m, "complete") \/ At(m, "wait")) /\ UNCHANGED <<kind, task>>
    BY <1>6 DEF Complete
  <2> QED
    BY <1>1, <2>1, <2>2
<1>7. ASSUME NEW m \in Messages,
             \/ Refuse(m) \/ Await(m) \/ CreatePlanner(m) \/ Planned(m) \/ BlockDependent(m) \/ Reviewed(m)
             \/ Return(m) \/ Approve(m) \/ Decided(m) \/ Reject(m) \/ CancelRunStarts(m)
      PROVE  Goal
  <2>1. UNCHANGED <<verdict, run>>
    BY <1>7 DEF Refuse, Await, CreatePlanner, Planned, BlockDependent, Reviewed, Return, Approve, Decided,
         Reject, CancelRunStarts, rowVars
  <2> QED
    BY <1>2, <2>1
<1>8. ASSUME NEW m \in Messages, Throw(m) PROVE Goal
  BY <1>3, <1>8 DEF Throw
<1>9. ASSUME NEW m \in Messages, NEW t \in Tasks, CancelTask(m, t) \/ Propose(m, t) \/ Finish(m, t)
      PROVE  Goal
  BY <1>2, <1>9 DEF CancelTask, Propose, Finish
<1>10. ASSUME NEW a \in Approvers, LoopNext(a) PROVE Goal
  BY <1>2, <1>10 DEF LoopNext, DecideNext, Remembered, rowVars
<1>11. ASSUME NEW a \in Approvers, NotRemembered(a) PROVE Goal
  BY <1>2, <1>3, <1>11 DEF NotRemembered
<1>12. ASSUME RecoverRuns PROVE Goal
  BY <1>1, <1>12 DEF RecoverRuns, getActiveRuns
<1>13. ASSUME MaintenanceStarts \/ AllDecided \/ ArchiveSessions \/ EditSession \/ CancelNext \/ Crash
       PROVE  Goal
  BY <1>2, <1>13 DEF MaintenanceStarts, AllDecided, ArchiveSessions, EditSession, CancelNext, Crash, rowVars
<1>14. ASSUME CancelRun PROVE Goal
  BY <1>1, <1>14 DEF CancelRun, completeRun
<1>15. CASE UNCHANGED vars
  BY <1>2, <1>15 DEF vars
<1>16. ASSUME NEW m \in Messages, HandlerNext(m) PROVE Goal
  BY <1>4, <1>5, <1>6, <1>7, <1>16 DEF HandlerNext
<1>17. CASE Next
  BY <1>7, <1>8, <1>9, <1>10, <1>11, <1>12, <1>13, <1>14, <1>16, <1>17 DEF Next, MaintenanceNext
<1> QED
  BY <1>15, <1>17

\* A verdict and the status of its run change together.
LEMMA RunsNext ==
  ASSUME Typed, HandlersInv, [Next]_vars, RunsInv, RunEndsAsDecided
  PROVE  RunsInv' /\ RunEndsAsDecided'
<1> SUFFICES ASSUME NEW m \in Messages
             PROVE  /\ verdict'[m] \notin ActiveRuns
                    /\ verdict'[m] # "none" => run'[m] \in {verdict'[m], "cancelled"}
  BY DEF RunsInv, RunEndsAsDecided
<1>1. Decisions(m) \intersect ActiveRuns = {}
  BY DEF Decisions, runStatusFrom, ActiveRuns
<1>2. /\ verdict[m] \notin ActiveRuns
      /\ verdict[m] # "none" => run[m] \in {verdict[m], "cancelled"}
      /\ {"failed", "cancelled"} \intersect ActiveRuns = {}
  BY DEF RunsInv, RunEndsAsDecided, ActiveRuns
<1>3. CASE /\ verdict'[m] = verdict[m]
           /\ (run'[m] \in {run[m], "cancelled"} \/ run[m] \in ActiveRuns \/ verdict[m] = "none")
  BY <1>2, <1>3
<1>4. CASE verdict'[m] = "failed" /\ run'[m] = "failed"
  BY <1>2, <1>4
<1>5. CASE verdict'[m] \in Decisions(m) /\ run'[m] = verdict'[m]
  BY <1>1, <1>5
<1> QED
  BY <1>3, <1>4, <1>5, VerdictStep

\* A message that is answered at once has no tasks.
PlainHasNoTasks ==
  \A m \in Messages : kind[m] \notin Planning => \A t \in Tasks : task[m][t] = "none"

\* What a message asks for does not change.
LEMMA KindStays == ASSUME [Next]_vars PROVE kind' = kind
<1>1. ASSUME NEW m \in Messages, HandlerNext(m) \/ Throw(m) \/ Reject(m) \/ CancelRunStarts(m)
      PROVE  kind' = kind
  BY <1>1 DEF HandlerNext, Receive, Refuse, Await, CreatePlanner, Planned, BlockDependent, Executed,
       Reviewed, Complete, Return, Approve, Decided, Throw, Reject, CancelRunStarts
<1>2. ASSUME NEW m \in Messages, NEW t \in Tasks, CancelTask(m, t) \/ Propose(m, t) \/ Finish(m, t)
      PROVE  kind' = kind
  BY <1>2 DEF CancelTask, Propose, Finish
<1>3. ASSUME NEW a \in Approvers, LoopNext(a) \/ NotRemembered(a) PROVE kind' = kind
  BY <1>3 DEF LoopNext, DecideNext, Remembered, NotRemembered
<1>4. ASSUME MaintenanceStarts \/ MaintenanceNext \/ EditSession \/ CancelNext \/ CancelRun \/ Crash
      PROVE  kind' = kind
  BY <1>4 DEF MaintenanceStarts, MaintenanceNext, RecoverRuns, AllDecided, ArchiveSessions, EditSession,
       CancelNext, CancelRun, Crash
<1>5. CASE UNCHANGED vars
  BY <1>5 DEF vars
<1> QED
  BY <1>1, <1>2, <1>3, <1>4, <1>5 DEF Next

\* Nothing has been planned yet.
Fresh(m) == (outcome[m] = "none" /\ todo[m] = <<>>) \/ Occurs(todo[m], "planner")

Missing(m) == TasksOf(m) \ results[m]
Excused(m) == {t \in Work : task[m][t] = "cancelled" \/ (t = "work2" /\ task[m]["work1"] = "done")}
NeedsResults(m) == kind[m] = "task" \/ task[m]["planner"] \in Terminal \ {"done"}

\* The results of a handler are of tasks that are over, and when it decides how the run ends
\* from them the tasks it has no result of are those the executor may overlook.
Accounted(m) ==
  /\ \A t \in results[m] : task[m][t] \in Terminal
  /\ Fresh(m) => \A t \in Tasks \ {"planner"} : task[m][t] = "none"
  /\ Occurs(todo[m], "execute") => "planner" \in results[m] /\ task[m]["review"] = "none"
  /\ Occurs(todo[m], "review") => Missing(m) \subseteq Excused(m) \union {"review"}
  /\ Occurs(todo[m], "complete") /\ NeedsResults(m) => Missing(m) \subseteq Excused(m)

AccountedInv == \A m \in Messages : Accounted(m)

\* The results change in three steps of the handler, and it has more steps left to decide in
\* only after those and after the message was received.
LEMMA PathStep ==
  ASSUME Typed, HandlersInv, [Next]_vars, NEW n \in Messages
  PROVE  \/ Planned(n) \/ Executed(n) \/ Reviewed(n)
         \/ results'[n] = results[n] /\ Receive(n)
         \/ /\ results'[n] = results[n]
            /\ \A x \in Deciding : Occurs(todo'[n], x) => Occurs(todo[n], x)
            /\ Fresh(n)' => Fresh(n)
<1> DEFINE Less == \A x \in Deciding : Occurs(todo'[n], x) => Occurs(todo[n], x)
           Goal == \/ Planned(n) \/ Executed(n) \/ Reviewed(n)
                   \/ results'[n] = results[n] /\ Receive(n)
                   \/ results'[n] = results[n] /\ Less /\ (Fresh(n)' => Fresh(n))
<1>1. HandlerInv(n) /\ "planner" \in Deciding
  BY DEF HandlersInv, Deciding
<1>2. /\ todo \in [Messages -> Seq(Steps)] /\ results \in [Messages -> SUBSET Tasks]
      /\ outcome \in [Messages -> {"none", "refused", "rejected", "answered", "lost", "crashed"}]
  BY DEF Typed, TypeOK
<1>3. {"beforeRun", "rememberUser", "model", "rememberAnswer", "afterRun", "rememberError", "lastHook",
       "planner", "execute", "review", "wait", "complete", "return", "approve", "decide"} \subseteq Steps
  BY DEF Steps
<1>4. ASSUME results'[n] = results[n], todo'[n] = todo[n], outcome'[n] = outcome[n] PROVE Goal
  BY <1>4 DEF Fresh
<1>5. ASSUME results'[n] = results[n], todo'[n] \in {<<>>, ErrorPath},
             outcome'[n] # "none" \/ todo'[n] = ErrorPath \/ (todo[n] = <<>> /\ outcome'[n] = outcome[n])
      PROVE  Goal
  <2>1. Settled(todo'[n]) /\ ErrorPath # <<>>
    BY <1>5, PathSteps DEF ErrorPath
  <2> QED
    BY <1>1, <1>5, <2>1 DEF Settled, Fresh
<1>6. ASSUME NEW m \in Messages, NEW x \in Steps, At(m, x), Advance(m), UNCHANGED results,
             \/ UNCHANGED outcome /\ x \notin {"return", "planner", "execute", "review"}
             \/ \E v \in {"answered", "lost"} : outcome' = [outcome EXCEPT ![m] = v]
      PROVE  Goal
  <2>1. CASE n = m
    <3>1. /\ todo[n] # <<>> /\ Head(todo[n]) = x /\ todo'[n] = Tail(todo[n])
          /\ Ordered(todo[n]) /\ todo[n] \in Seq(Steps)
      BY <1>1, <1>2, <1>6, <2>1 DEF At, Advance, HandlerInv
    <3>2. todo'[n] = <<>> => x \in {"return", "planner", "execute", "review"}
      BY <3>1, OrderedTail
    <3>3. \A y : Occurs(todo'[n], y) => Occurs(todo[n], y)
      BY <3>1, OccursTail
    <3>4. todo'[n] = <<>> => outcome'[n] # "none"
      BY <1>2, <1>6, <2>1, <3>2
    <3> QED
      BY <1>6, <3>3, <3>4 DEF Fresh
  <2>2. CASE n # m
    BY <1>2, <1>4, <1>6, <2>2 DEF Advance
  <2> QED
    BY <2>1, <2>2
<1>7. ASSUME NEW m \in Messages, Caught(m), UNCHANGED <<results, outcome>> PROVE Goal
  <2>1. todo' = [todo EXCEPT ![m] = ErrorPath]
    BY <1>7 DEF Caught, Go
  <2> QED
    BY <1>2, <1>4, <1>5, <1>7, <2>1
<1>8. ASSUME UNCHANGED <<results, todo, outcome>> PROVE Goal
  BY <1>4, <1>8
<1>9. ASSUME NEW m \in Messages, Receive(m) PROVE Goal
  <2>1. UNCHANGED <<results, outcome>> /\ todo' = [todo EXCEPT ![m] = Prologue \o Path(kind[m])]
    BY <1>9 DEF Receive
  <2> QED
    BY <1>2, <1>4, <1>9, <2>1
<1>10. ASSUME NEW m \in Messages, Refuse(m) \/ Reject(m) PROVE Goal
  <2>1. /\ UNCHANGED results
        /\ outcome' = [outcome EXCEPT ![m] = "refused"] \/ outcome' = [outcome EXCEPT ![m] = "rejected"]
        /\ (UNCHANGED todo /\ todo[m] = <<>>) \/ todo' = [todo EXCEPT ![m] = <<>>]
    BY <1>10 DEF Refuse, Reject, Go, rowVars
  <2>2. CASE n = m
    <3>1. results'[n] = results[n] /\ outcome'[n] # "none" /\ todo'[n] = <<>>
      BY <1>2, <2>1, <2>2
    <3> QED
      BY <1>5, <3>1
  <2>3. CASE n # m
    <3>1. results'[n] = results[n] /\ outcome'[n] = outcome[n] /\ todo'[n] = todo[n]
      BY <1>2, <2>1, <2>3
    <3> QED
      BY <1>4, <3>1
  <2> QED
    BY <2>2, <2>3
<1>11. ASSUME NEW m \in Messages, Await(m) \/ Approve(m) \/ Decided(m) \/ Complete(m) PROVE Goal
  <2>1. UNCHANGED <<results, outcome>> /\ Advance(m)
    BY <1>11 DEF Await, Approve, Decided, Complete, rowVars
  <2>2. PICK x \in {"beforeRun", "rememberUser", "model", "rememberAnswer", "afterRun", "rememberError",
                    "lastHook", "approve", "decide", "complete", "wait"} : At(m, x)
    BY <1>11 DEF Await, Approve, Decided, Complete
  <2>3. x \in Steps /\ x \notin {"return", "planner", "execute", "review"}
    BY <1>3, <2>2
  <2> QED
    BY <1>6, <2>1, <2>2, <2>3
<1>12. ASSUME NEW m \in Messages, Return(m) PROVE Goal
  <2>1. /\ At(m, "return") /\ Advance(m) /\ UNCHANGED results
        /\ \E v \in {"answered", "lost"} : outcome' = [outcome EXCEPT ![m] = v]
    BY <1>12 DEF Return, rowVars
  <2> QED
    BY <1>3, <1>6, <2>1
<1>13. ASSUME NEW m \in Messages, Planned(m) \/ Executed(m) \/ Reviewed(m) PROVE Goal
  <2>1. /\ \E tasks : Record(m, tasks)
        /\ \E s : Go(m, s)
        /\ UNCHANGED outcome
    BY <1>13 DEF Planned, Executed, Reviewed
  <2>2. CASE n = m
    BY <1>13, <2>2
  <2>3. CASE n # m
    BY <1>2, <1>4, <2>1, <2>3 DEF Record, Go
  <2> QED
    BY <2>2, <2>3
<1>14. ASSUME NEW m \in Messages, Throw(m) PROVE Goal
  BY <1>7, <1>14 DEF Throw
<1>15. ASSUME NEW m \in Messages, CreatePlanner(m) \/ BlockDependent(m) \/ CancelRunStarts(m) PROVE Goal
  BY <1>8, <1>15 DEF CreatePlanner, BlockDependent, CancelRunStarts, rowVars
<1>16. ASSUME NEW m \in Messages, NEW t \in Tasks, CancelTask(m, t) \/ Propose(m, t) \/ Finish(m, t)
       PROVE  Goal
  BY <1>8, <1>16 DEF CancelTask, Propose, Finish
<1>17. ASSUME NEW a \in Approvers, LoopNext(a) PROVE Goal
  BY <1>8, <1>17 DEF LoopNext, DecideNext, Remembered, rowVars
<1>18. ASSUME NEW a \in Approvers, NotRemembered(a) PROVE Goal
  <2>1. UNCHANGED <<results, outcome>> /\ ((a \in Messages /\ Caught(a)) \/ UNCHANGED todo)
    BY <1>18 DEF NotRemembered
  <2> QED
    BY <1>7, <1>8, <2>1
<1>19. ASSUME MaintenanceStarts \/ MaintenanceNext \/ EditSession \/ CancelNext \/ CancelRun PROVE Goal
  BY <1>8, <1>19 DEF MaintenanceStarts, MaintenanceNext, RecoverRuns, AllDecided, ArchiveSessions,
       EditSession, CancelNext, CancelRun, rowVars
<1>20. ASSUME Crash PROVE Goal
  <2>1. /\ todo'[n] = <<>> /\ UNCHANGED results
        /\ outcome'[n] = IF todo[n] # <<>> THEN "crashed" ELSE outcome[n]
    BY <1>20 DEF Crash, rowVars
  <2> QED
    BY <1>5, <2>1
<1>21. CASE UNCHANGED vars
  BY <1>8, <1>21 DEF vars
<1>22. ASSUME NEW m \in Messages, HandlerNext(m) PROVE Goal
  BY <1>9, <1>10, <1>11, <1>12, <1>13, <1>15, <1>22 DEF HandlerNext
<1>23. CASE Next
  BY <1>10, <1>14, <1>15, <1>16, <1>17, <1>18, <1>19, <1>20, <1>22, <1>23 DEF Next
<1> QED
  BY <1>21, <1>23

\* Every handler stays accounted for.
LEMMA AccountedNext ==
  ASSUME Typed, HandlersInv, [Next]_vars, PlainHasNoTasks, AccountedInv
  PROVE  AccountedInv'
<1> SUFFICES ASSUME NEW n \in Messages PROVE Accounted(n)'
  BY DEF AccountedInv
<1>1. Accounted(n) /\ HandlerInv(n) /\ kind' = kind
  BY KindStays DEF AccountedInv, HandlersInv
<1>2. /\ task \in [Messages -> [Tasks -> Open \union Terminal \union {"none"}]]
      /\ results \in [Messages -> SUBSET Tasks] /\ todo \in [Messages -> Seq(Steps)]
  BY DEF Typed, TypeOK
<1>3. Tasks = {"planner", "work1", "work2", "review"} /\ Work = {"work1", "work2"}
      /\ {"planner", "execute", "review", "complete"} \subseteq Deciding
      /\ Terminal = {"done", "failed", "blocked", "cancelled"} /\ Open = {"open", "draft"}
      /\ {"planner", "execute", "review", "complete"} \subseteq Steps
  BY DEF Tasks, Work, Deciding, Terminal, Open, Steps
<1>4. kind[n] \notin Planning => task[n]["planner"] = "none"
  BY <1>3 DEF PlainHasNoTasks
<1>5. ASSUME \A u \in Tasks : task'[n][u] = task[n][u] \/ (task[n][u] \in Open /\ task'[n][u] \in Terminal),
             results'[n] = results[n],
             \A x \in Deciding : Occurs(todo'[n], x) => Occurs(todo[n], x),
             Fresh(n)' => Fresh(n)
      PROVE  Accounted(n)'
  <2>1. \A t \in results'[n] : task'[n][t] \in Terminal
    BY <1>1, <1>2, <1>3, <1>5 DEF Accounted
  <2>2. Fresh(n)' => \A t \in Tasks \ {"planner"} : task'[n][t] = "none"
    BY <1>1, <1>3, <1>5 DEF Accounted
  <2>3. Occurs(todo'[n], "execute") => "planner" \in results'[n] /\ task'[n]["review"] = "none"
    BY <1>1, <1>3, <1>5 DEF Accounted
  <2>4. Missing(n)' = Missing(n)
    BY <1>3, <1>5 DEF Missing, TasksOf
  <2>5. Excused(n) \subseteq Excused(n)'
    BY <1>3, <1>5 DEF Excused
  <2>6. Occurs(todo'[n], "complete") /\ NeedsResults(n)' => NeedsResults(n)
    <3>1. CASE kind[n] \in Planning
      <4>1. Occurs(todo'[n], "complete") => task[n]["planner"] \in Terminal
        BY <1>1, <1>3, <1>5, <3>1 DEF HandlerInv
      <4>2. task[n]["planner"] \in Terminal => task'[n]["planner"] = task[n]["planner"]
        BY <1>3, <1>5
      <4> QED
        BY <1>1, <4>1, <4>2 DEF NeedsResults
    <3>2. CASE kind[n] \notin Planning
      <4>1. task'[n]["planner"] = "none" /\ kind'[n] # "task"
        BY <1>1, <1>3, <1>4, <1>5, <3>2 DEF Planning
      <4> QED
        BY <1>3, <4>1 DEF NeedsResults
    <3> QED
      BY <3>1, <3>2
  <2>7. Occurs(todo'[n], "review") => Missing(n)' \subseteq Excused(n)' \union {"review"}
    BY <1>1, <1>3, <1>5, <2>4, <2>5 DEF Accounted
  <2>8. Occurs(todo'[n], "complete") /\ NeedsResults(n)' => Missing(n)' \subseteq Excused(n)'
    BY <1>1, <1>3, <1>5, <2>4, <2>5, <2>6 DEF Accounted
  <2> QED
    BY <2>1, <2>2, <2>3, <2>7, <2>8 DEF Accounted
<1>6. CASE CreatePlanner(n)
  <2>1. At(n, "planner") /\ task' = [task EXCEPT ![n]["planner"] = "open"] /\ task[n]["planner"] = "none"
        /\ UNCHANGED <<todo, outcome, results>>
    BY <1>6 DEF CreatePlanner, SetTask
  <2>2. Occurs(todo[n], "planner")
    BY <1>1, <1>3, <2>1, AtStep
  <2>3. \A x \in {"execute", "review", "complete"} : ~Occurs(todo[n], x)
    <3>1. /\ todo[n] \in Seq(Steps) /\ todo[n] # <<>> /\ Head(todo[n]) = "planner" /\ DecidesOnce(todo[n])
      BY <1>1, <1>2, <2>1 DEF At, HandlerInv, Ordered
    <3>2. ASSUME NEW i \in 1..Len(todo[n]), todo[n][i] \in Deciding PROVE i = 1
      <4>1. 1 \in 1..Len(todo[n]) /\ todo[n][1] = "planner"
        BY <3>1
      <4>2. CASE 1 < i
        BY <1>3, <3>1, <3>2, <4>1, <4>2 DEF DecidesOnce
      <4> QED
        BY <4>2
    <3>3. todo[n][1] = "planner"
      BY <3>1
    <3> QED
      BY <1>3, <3>2, <3>3 DEF Occurs
  <2>4. \A u \in Tasks \ {"planner"} : task'[n][u] = task[n][u]
    BY <1>2, <1>3, <2>1
  <2>5. "planner" \notin results[n]
    BY <1>1, <1>3, <2>1 DEF Accounted
  <2>6. \A t \in results'[n] : task'[n][t] \in Terminal
    BY <1>1, <1>2, <2>1, <2>4, <2>5 DEF Accounted
  <2>7. \A t \in Tasks \ {"planner"} : task'[n][t] = "none"
    BY <1>1, <2>2, <2>4 DEF Accounted, Fresh
  <2> QED
    BY <2>1, <2>3, <2>6, <2>7 DEF Accounted
<1>7. CASE Planned(n)
  <2>1. /\ At(n, "planner") /\ task[n]["planner"] \in Terminal
        /\ results' = [results EXCEPT ![n] = @ \union {"planner"}]
    BY <1>7 DEF Planned, Record
  <2>2. \A t \in Tasks \ {"planner"} : task[n][t] = "none"
    BY <1>1, <1>3, <2>1, AtStep DEF Accounted, Fresh
  <2>3. results[n] \subseteq {"planner"}
    BY <1>1, <1>2, <1>3, <2>2 DEF Accounted
  <2>4. results'[n] = {"planner"}
    BY <1>2, <2>1, <2>3
  <2>5. todo' = [todo EXCEPT ![n] = todo'[n]]
    BY <1>7 DEF Planned, Go
  <2>6. CASE /\ UNCHANGED task
             /\ todo'[n] \in {Synthesis, Pause}
    <3>1. Missing(n)' = {}
      BY <1>3, <2>2, <2>4, <2>6 DEF Missing, TasksOf
    <3>2. ~Fresh(n)' /\ ~Occurs(todo'[n], "execute")
      <4>1. todo'[n] # <<>> /\ ~Occurs(todo'[n], "planner") /\ ~Occurs(todo'[n], "execute")
        <5>1. Synthesis # <<>> /\ Pause # <<>>
          BY DEF Synthesis, Pause, Ending
        <5> QED
          BY <2>6, <5>1, PathSteps
      <4> QED
        BY <4>1 DEF Fresh
    <3> QED
      BY <2>1, <2>4, <2>6, <3>1, <3>2 DEF Accounted
  <2>7. CASE /\ task' = [task EXCEPT ![n]["work1"] = "draft", ![n]["work2"] = "draft"]
             /\ todo'[n] = PlanOnly /\ kind[n] = "plan" /\ task[n]["planner"] = "done"
    <3>1. task'[n]["planner"] = "done"
      BY <1>2, <1>3, <2>7
    <3>2. ~Fresh(n)' /\ ~Occurs(todo'[n], "execute") /\ ~Occurs(todo'[n], "review")
      <4>1. todo'[n] # <<>> /\ \A x \in {"planner", "execute", "review"} : ~Occurs(todo'[n], x)
        BY <2>7, PathSteps DEF PlanOnly, Ending
      <4> QED
        BY <4>1 DEF Fresh
    <3>3. ~NeedsResults(n)'
      BY <1>1, <2>7, <3>1 DEF NeedsResults
    <3> QED
      BY <1>3, <2>4, <3>1, <3>2, <3>3 DEF Accounted
  <2>8. CASE /\ task' = [task EXCEPT ![n]["work1"] = "open", ![n]["work2"] = "open"]
             /\ todo'[n] = <<"execute">>
    <3>1. task'[n]["planner"] = task[n]["planner"] /\ task'[n]["review"] = "none"
      BY <1>2, <1>3, <2>2, <2>8
    <3>2. \A x \in {"planner", "review", "complete"} : ~Occurs(<<"execute">>, x)
      BY DEF Occurs
    <3>3. ~Fresh(n)'
      BY <2>8, <3>2 DEF Fresh
    <3> QED
      BY <2>1, <2>4, <2>8, <3>1, <3>2, <3>3 DEF Accounted
  <2>9. \/ UNCHANGED task /\ (Go(n, Synthesis) \/ Go(n, Pause))
        \/ /\ task' = [task EXCEPT ![n]["work1"] = "draft", ![n]["work2"] = "draft"]
           /\ Go(n, PlanOnly) /\ kind[n] = "plan" /\ task[n]["planner"] = "done"
        \/ /\ task' = [task EXCEPT ![n]["work1"] = "open", ![n]["work2"] = "open"]
           /\ Go(n, <<"execute">>)
    BY <1>7 DEF Planned
  <2>10. \A s : Go(n, s) => todo'[n] = s
    BY <1>2 DEF Go
  <2> QED
    BY <2>6, <2>7, <2>8, <2>9, <2>10
<1>8. CASE Executed(n)
  <2>1. PICK seen \in SUBSET {t \in Work : task[n][t] \in Terminal} :
          /\ Work \ seen \subseteq Overlooked(n)
          /\ results' = [results EXCEPT ![n] = @ \union seen]
          /\ \/ UNCHANGED task /\ (Go(n, Pause) \/ Go(n, Synthesis))
             \/ task' = [task EXCEPT ![n]["review"] = "open"] /\ Go(n, <<"review">>)
    BY <1>8 DEF Executed, Record
  <2>2. At(n, "execute")
    BY <1>8 DEF Executed
  <2>3. "planner" \in results[n] /\ task[n]["review"] = "none"
    BY <1>1, <1>3, <2>2, AtStep DEF Accounted
  <2>4. results'[n] = results[n] \union seen /\ (UNCHANGED task \/ "review" \notin results'[n])
    BY <1>1, <1>2, <1>3, <2>1, <2>3 DEF Accounted
  <2>5. \A t \in Tasks \ {"review"} : task'[n][t] = task[n][t]
    BY <1>2, <1>3, <2>1
  <2>6. \A t \in results'[n] : task'[n][t] \in Terminal
    <3>1. \A t \in results'[n] : task[n][t] \in Terminal /\ t \in Tasks
      BY <1>1, <1>2, <1>3, <2>1, <2>4 DEF Accounted
    <3> QED
      BY <2>4, <2>5, <3>1
  <2>7. Overlooked(n) \subseteq Excused(n)'
    BY <1>3, <2>5 DEF Overlooked, Excused
  <2>8. Missing(n)' \subseteq Excused(n)' \union {"review"}
    BY <1>3, <2>1, <2>3, <2>4, <2>7 DEF Missing, TasksOf
  <2>9. UNCHANGED task => "review" \notin Missing(n)'
    BY <2>3 DEF Missing, TasksOf
  <2>10. \A s : Go(n, s) => todo'[n] = s
    BY <1>2 DEF Go
  <2>11. CASE UNCHANGED task /\ todo'[n] \in {Pause, Synthesis}
    <3>1. ~Fresh(n)' /\ ~Occurs(todo'[n], "execute")
      <4>1. todo'[n] # <<>> /\ ~Occurs(todo'[n], "planner") /\ ~Occurs(todo'[n], "execute")
        <5>1. Synthesis # <<>> /\ Pause # <<>>
          BY DEF Synthesis, Pause, Ending
        <5> QED
          BY <2>11, <5>1, PathSteps
      <4> QED
        BY <4>1 DEF Fresh
    <3> QED
      BY <2>6, <2>8, <2>9, <2>11, <3>1 DEF Accounted
  <2>12. CASE todo'[n] = <<"review">>
    <3>1. \A x \in {"planner", "execute", "complete"} : ~Occurs(<<"review">>, x)
      BY DEF Occurs
    <3>2. ~Fresh(n)'
      BY <2>12, <3>1 DEF Fresh
    <3> QED
      BY <2>6, <2>8, <2>12, <3>1, <3>2 DEF Accounted
  <2> QED
    BY <2>1, <2>10, <2>11, <2>12
<1>9. CASE Reviewed(n)
  <2>1. /\ At(n, "review") /\ task[n]["review"] \in Terminal /\ UNCHANGED task
        /\ results' = [results EXCEPT ![n] = @ \union {"review"}]
        /\ todo' = [todo EXCEPT ![n] = Synthesis]
    BY <1>9 DEF Reviewed, Record, Go
  <2>2. Missing(n) \subseteq Excused(n) \union {"review"}
    BY <1>1, <1>3, <2>1, AtStep DEF Accounted
  <2>3. results'[n] = results[n] \union {"review"} /\ todo'[n] = Synthesis
    BY <1>2, <2>1
  <2>4. Missing(n)' \subseteq Excused(n)'
    BY <2>1, <2>2, <2>3 DEF Missing, Excused, TasksOf
  <2>5. \A t \in results'[n] : task'[n][t] \in Terminal
    BY <1>1, <2>1, <2>3 DEF Accounted
  <2>6. ~Fresh(n)' /\ ~Occurs(todo'[n], "execute")
    <3>1. todo'[n] # <<>> /\ ~Occurs(todo'[n], "planner") /\ ~Occurs(todo'[n], "execute")
      BY <2>3, PathSteps DEF Synthesis, Ending
    <3> QED
      BY <3>1 DEF Fresh
  <2> QED
    BY <2>4, <2>5, <2>6 DEF Accounted
<1>10. CASE Receive(n) /\ ~CreatePlanner(n) /\ ~Planned(n) /\ ~Executed(n)
  <2>1. /\ outcome[n] = "none" /\ todo[n] = <<>> /\ UNCHANGED <<results, task>>
        /\ todo' = [todo EXCEPT ![n] = Prologue \o Path(kind[n])] /\ kind[n] # "unsent"
    BY <1>10 DEF Receive
  <2>2. todo'[n] = Prologue \o Path(kind[n])
    BY <1>2, <2>1
  <2>3. \A t \in Tasks \ {"planner"} : task'[n][t] = "none"
    BY <1>1, <2>1 DEF Accounted, Fresh
  <2>4. \A x \in {"execute", "review"} : ~Occurs(todo'[n], x)
    <3>1. Prologue \in Seq(Steps) /\ Settled(Prologue)
      BY DEF Prologue, Steps, Settled, Deciding, Occurs
    <3>2. Path(kind[n]) \in Seq(Steps) /\ \A x \in {"execute", "review"} : ~Occurs(Path(kind[n]), x)
      <4>1. /\ Path("identity") = Identity /\ Path("chat") = Synthesis /\ Path("clarify") = Clarify
            /\ Path("plan") = <<"model", "planner">> /\ Path("task") = <<"model", "planner">>
        BY DEF Path
      <4>2. kind[n] \in {"identity", "chat", "clarify", "plan", "task"}
        BY <2>1 DEF Typed, TypeOK
      <4> QED
        BY <4>1, <4>2, PathSteps DEF Ordered
    <3> QED
      BY <1>3, <2>2, <3>1, <3>2, OccursConcat DEF Settled
  <2>5. Occurs(todo'[n], "complete") /\ NeedsResults(n)' => Missing(n)' \subseteq Excused(n)'
    <3>1. CASE kind[n] \in Planning
      <4>1. Prologue \in Seq(Steps) /\ Settled(Prologue)
        BY DEF Prologue, Steps, Settled, Deciding, Occurs
      <4>2. Path(kind[n]) = <<"model", "planner">>
        BY <3>1 DEF Planning, Path
      <4>3. Path(kind[n]) \in Seq(Steps) /\ ~Occurs(Path(kind[n]), "complete")
        BY <4>2, PathSteps DEF Ordered
      <4> QED
        BY <1>3, <2>2, <4>1, <4>3, OccursConcat DEF Settled
    <3>2. CASE kind[n] \notin Planning
      BY <1>1, <1>3, <1>4, <2>1, <3>2 DEF NeedsResults, Planning
    <3> QED
      BY <3>1, <3>2
  <2>6. \A t \in results'[n] : task'[n][t] \in Terminal
    BY <1>1, <2>1 DEF Accounted
  <2> QED
    BY <2>3, <2>4, <2>5, <2>6 DEF Accounted
<1>11. CASE /\ ~CreatePlanner(n) /\ ~Planned(n) /\ ~Executed(n) /\ ~Reviewed(n) /\ ~Receive(n)
  <2>1. \A u \in Tasks : task'[n][u] = task[n][u] \/ (task[n][u] \in Open /\ task'[n][u] \in Terminal)
    BY <1>11, TaskStep
  <2> QED
    BY <1>5, <1>11, <2>1, PathStep
<1> QED
  BY <1>6, <1>7, <1>8, <1>9, <1>10, <1>11

\* A run that is done keeps its tasks done: what its handler has the results of is over, and
\* nothing is created any more.
LEMMA DoneNext ==
  ASSUME Typed, HandlersInv, [Next]_vars, PlainHasNoTasks, AccountedInv, DoneMeansTasksDone
  PROVE  PlainHasNoTasks' /\ DoneMeansTasksDone'
<1>1. kind' = kind
  BY KindStays
<1>2. PlainHasNoTasks'
  <2> SUFFICES ASSUME NEW m \in Messages, kind[m] \notin Planning, NEW t \in Tasks PROVE task'[m][t] = "none"
    BY <1>1 DEF PlainHasNoTasks
  <2>1. task[m][t] = "none"
    BY DEF PlainHasNoTasks
  <2> QED
    BY <2>1, TaskStep DEF Open
<1>3. DoneMeansTasksDone'
  <2> DEFINE Fine(m, t) == \/ task[m][t] = "done"
                           \/ kind[m] = "plan" /\ t # "planner"
                           \/ t \in Work \ results[m] /\ task[m][t] = "cancelled"
                           \/ t \in {"work2"} \ results[m] /\ task[m]["work1"] = "done"
  <2> SUFFICES ASSUME NEW m \in Messages, verdict'[m] = "done", NEW t \in Tasks, task'[m][t] # "none"
               PROVE  Fine(m, t)'
    BY <1>1 DEF DoneMeansTasksDone, TasksOf
  <2>1. HandlerInv(m) /\ Accounted(m)
    BY DEF HandlersInv, AccountedInv
  <2>2. CASE verdict[m] = "done"
    <3>1. Settled(todo[m])
      BY <2>1, <2>2 DEF HandlerInv
    <3>2. \A u \in Tasks : task'[m][u] = task[m][u] \/ task[m][u] \in Open
      BY <3>1, TaskStep
    <3>3. task[m][t] # "none" /\ "work1" \in Tasks
      BY <3>2 DEF Open, Tasks
    <3>4. Fine(m, t)
      BY <2>2, <3>3 DEF DoneMeansTasksDone, TasksOf
    <3>5. results'[m] = results[m]
      <4>1. ~Planned(m) /\ ~Executed(m) /\ ~Reviewed(m)
        <5>1. {"planner", "execute", "review"} \subseteq Deciding \intersect Steps
          BY DEF Deciding, Steps
        <5>2. \A x \in {"planner", "execute", "review"} : ~At(m, x)
          BY <2>1, <3>1, <5>1, AtStep
        <5> QED
          BY <5>2 DEF Planned, Executed, Reviewed
      <4> QED
        BY <4>1, PathStep
    <3>6. \A u \in Tasks : task[m][u] \in {"done", "cancelled"} => task'[m][u] = task[m][u]
      BY <3>2 DEF Open
    <3> QED
      BY <1>1, <3>3, <3>4, <3>5, <3>6
  <2>3. CASE verdict[m] # "done"
    <3>1. /\ At(m, "complete") \/ At(m, "wait")
          /\ "done" \in Decisions(m) /\ task' = task
      BY <2>3, VerdictStep
    <3>2. At(m, "complete") /\ ~At(m, "wait")
      BY <3>1 DEF At, Decisions
    <3>3. results'[m] = results[m]
      <4>1. ~Planned(m) /\ ~Executed(m) /\ ~Reviewed(m)
        BY <3>2 DEF At, Planned, Executed, Reviewed
      <4> QED
        BY <4>1, PathStep
    <3>4. CASE NeedsResults(m)
      <4>1. PICK review \in Reviews(m) : "done" = runStatusFrom({task[m][u] : u \in results[m]}, review)
        BY <3>1, <3>2, <3>4 DEF Decisions, NeedsResults
      <4>2. {task[m][u] : u \in results[m]} \subseteq {"done"}
        BY <4>1 DEF runStatusFrom
      <4>3. Missing(m) \subseteq Excused(m)
        BY <2>1, <3>2, <3>4, AtStep DEF Accounted, Steps
      <4>4. t \in results[m] \/ t \in Excused(m)
        BY <3>1, <4>3 DEF Missing, TasksOf
      <4>5. CASE t \in results[m]
        BY <3>1, <4>2, <4>5
      <4>6. CASE t \in Excused(m) \ results[m]
        BY <3>1, <3>3, <4>6 DEF Excused
      <4> QED
        BY <4>4, <4>5, <4>6
    <3>5. CASE ~NeedsResults(m)
      <4>1. kind[m] \in Planning
        BY <3>1 DEF PlainHasNoTasks
      <4>2. task[m]["planner"] \in Terminal
        BY <2>1, <3>2, <4>1, AtStep DEF Steps
      <4> QED
        BY <1>1, <3>1, <3>5, <4>1, <4>2 DEF Planning, NeedsResults
    <3> QED
      BY <3>4, <3>5
  <2> QED
    BY <2>2, <2>3
<1> QED
  BY <1>2, <1>3

-----------------------------------------------------------------------------
(* The theorems.                                                             *)

\* The inductive invariant.
IInv ==
  /\ Typed
  /\ Remembering
  /\ HandlersInv
  /\ RunsInv /\ RunEndsAsDecided
  /\ PlainHasNoTasks /\ AccountedInv /\ DoneMeansTasksDone

\* The invariant holds in every reachable state.
THEOREM ConversationInvariant == ASSUME ConversationAssumption PROVE Spec => []IInv
<1>1. Init => IInv
  <2> SUFFICES ASSUME Init PROVE IInv
    OBVIOUS
  <2>1. Typed /\ Remembering /\ HandlersInv
    BY TypedInit, RememberingInit, HandlersInit
  <2>2. RunsInv /\ RunEndsAsDecided /\ PlainHasNoTasks /\ DoneMeansTasksDone
    BY DEF Init, RunsInv, RunEndsAsDecided, PlainHasNoTasks, DoneMeansTasksDone, TasksOf, ActiveRuns
  <2>3. AccountedInv
    <3>1. \A x : ~Occurs(<<>>, x)
      BY DEF Occurs
    <3> QED
      BY <3>1 DEF Init, AccountedInv, Accounted
  <2> QED
    BY <2>1, <2>2, <2>3 DEF IInv
<1>2. IInv /\ [Next]_vars => IInv'
  <2> SUFFICES ASSUME IInv, [Next]_vars PROVE IInv'
    OBVIOUS
  <2>1. Typed' /\ Remembering' /\ HandlersInv'
    BY TypedNext, RememberingNext, HandlersNext DEF IInv
  <2>2. RunsInv' /\ RunEndsAsDecided' /\ PlainHasNoTasks' /\ DoneMeansTasksDone'
    BY RunsNext, DoneNext DEF IInv
  <2>3. AccountedInv'
    BY AccountedNext DEF IInv
  <2> QED
    BY <2>1, <2>2, <2>3 DEF IInv
<1> QED
  BY <1>1, <1>2, PTL DEF Spec

\* Every variable of the runtime's process stays in its type.
THEOREM ConversationTypes == ASSUME ConversationAssumption PROVE Spec => []TypeOK
<1>1. IInv => TypeOK
  BY DEF IInv, Typed
<1> QED
  BY <1>1, ConversationInvariant, PTL

\* A candidate becomes at most one record of the memory, and none unless it was approved,
\* although handlers and maintenance decide the same rows (decidePendingMemoryCandidate).
THEOREM StoredOnce == ASSUME ConversationAssumption PROVE Spec => []CandidateStoredOnce
<1>1. IInv => CandidateStoredOnce
  BY DEF IInv, Remembering
<1> QED
  BY <1>1, ConversationInvariant, PTL

\* An approved candidate is in the memory or on its way there, as long as nothing failed
\* (approveRunMemoryCandidates, processPendingMemoryCandidates).
THEOREM NoneForgotten == ASSUME ConversationAssumption PROVE Spec => []ApprovedIsRemembered
<1>1. IInv => ApprovedIsRemembered
  BY DEF IInv, Remembering
<1> QED
  BY <1>1, ConversationInvariant, PTL

\* A run ends as its handler decided or is cancelled, whatever maintenance recovers
\* meanwhile (handleUserMessage, recoverStaleRuns).
THEOREM DecidedOnce == ASSUME ConversationAssumption PROVE Spec => []RunEndsAsDecided
<1>1. IInv => RunEndsAsDecided
  BY DEF IInv
<1> QED
  BY <1>1, ConversationInvariant, PTL

\* A handler answers that the work is done with results of tasks that are done only, and the
\* tasks it has no result of are drafts, or tasks the executor does not wait for: one that was
\* cancelled, or the dependent a worker took when the first task was done (runStatusFrom,
\* delegateTasks, TaskGraphExecutor.execute).
THEOREM DoneIsDone == ASSUME ConversationAssumption PROVE Spec => []DoneMeansTasksDone
<1>1. IInv => DoneMeansTasksDone
  BY DEF IInv
<1> QED
  BY <1>1, ConversationInvariant, PTL
=============================================================================
