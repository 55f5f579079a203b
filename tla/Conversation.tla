--------------------------- MODULE Conversation ---------------------------
(***************************************************************************)
(* One process of the runtime: handleUserMessage of runtime/createRuntime  *)
(* and agents/MainAgent for messages that are in flight together, with the *)
(* sessions, runs and memory candidates of tasks/TaskStore, maintenance,   *)
(* cancelRun, workers that finish tasks and propose candidates, hooks and  *)
(* memory that throw, and the death of the process. A step is what runs    *)
(* between two awaits, or less. What the executor does with a graph is     *)
(* TaskGraphExecutor's; here a graph is work1 and then work2.              *)
(***************************************************************************)
EXTENDS Naturals, Sequences, FiniteSets

CONSTANTS
  Messages,     \* the messages of the users of one session
  Requests,     \* message -> what is found in its words, {"unsent"} for one never sent
  MaxEvents,    \* how many edits of the session, cancellations, runs of maintenance,
                \* failures of a hook, the memory or a wait, and crashes there are
  MaxProposals  \* how many candidates the workers propose

ASSUME ConversationAssumption ==
  /\ Messages # {}
  /\ Requests \subseteq [Messages -> SUBSET {"greeting", "aboutYou", "work", "plan", "holdOff",
       "question", "short", "model", "whichOne", "search", "levelUnclear", "unsent"}]
  /\ {MaxEvents, MaxProposals} \subseteq Nat

VARIABLES
  session,      \* the status of the session
  kind,         \* message -> what it asks for
  todo,         \* message -> the steps its handler has still to take
  verdict,      \* message -> the status its handler has decided for the run
  outcome,      \* message -> how its handler ended
  run,          \* message -> the status of its run
  task,         \* message -> task -> status
  results,      \* message -> the tasks its handler has the results of
  cand,         \* <<message, task>> -> the status of the candidate of the task
  accepted,     \* the candidates the policy accepts
  stored,       \* candidate -> how many memory records it became
  queue,        \* approver -> the candidates its loop has still to decide
  committing,   \* approver -> the candidate it is remembering
  transcript,   \* the messages of the session
  sweep,        \* the steps maintenance has still to take
  cancel,       \* the run being cancelled and the tasks its loop has still to visit
  broken,       \* something failed or the process died
  left          \* what is left of the bounds

vars == <<session, kind, todo, verdict, outcome, run, task, results, cand, accepted, stored,
          queue, committing, transcript, sweep, cancel, broken, left>>

Tasks      == {"planner", "work1", "work2", "review"}
Candidates == Messages \X Tasks
None       == <<"none", "none">>
Maintenance == "maintenance"
Approvers  == Messages \union {Maintenance}
Open       == {"open", "draft"}
Terminal   == {"done", "failed", "blocked", "cancelled"}
ActiveRuns == {"running", "reviewing", "recovering"}
RunStatuses == ActiveRuns \union {"none", "done", "failed", "blocked", "partially_done",
                                  "waiting_user", "cancelled"}

-----------------------------------------------------------------------------
(* The handlers: the kind of answer, and what is left to do once it is known. *)

classifyUserMessageIntent(words) ==
  CASE words \intersect {"greeting", "aboutYou"} # {} -> "chat"
    [] words \intersect {"greeting", "aboutYou"} = {} /\ words \intersect {"work", "plan", "search"} # {} -> "task"
    [] OTHER -> IF words \intersect {"question", "short"} # {} THEN "chat" ELSE "task"

isPlanningOnlyRequest(words) == {"plan", "holdOff"} \subseteq words
isModelIdentityQuestion(words) == {"model", "whichOne"} \subseteq words /\ "search" \notin words

kindOf(words) ==
  CASE "unsent" \in words -> "unsent"
    [] "unsent" \notin words /\ classifyUserMessageIntent(words) = "chat" ->
         IF isModelIdentityQuestion(words) THEN "identity" ELSE "chat"
    [] OTHER -> IF isPlanningOnlyRequest(words) THEN "plan"
                ELSE IF "levelUnclear" \in words THEN "clarify" ELSE "task"

Prologue   == <<"beforeRun", "rememberUser">>
Ending     == <<"afterRun", "return">>
Identity   == <<"rememberAnswer", "complete">> \o Ending
Synthesis  == <<"model", "rememberAnswer", "approve", "decide", "complete">> \o Ending
Clarify    == <<"wait", "rememberAnswer">> \o Ending
Pause      == <<"approve", "decide", "wait", "rememberAnswer">> \o Ending
PlanOnly   == <<"rememberAnswer", "approve", "decide", "complete">> \o Ending
ErrorPath  == <<"rememberError", "lastHook", "return">>

\* handleUserMessage chooses its path by the words of the message.
Path(k) ==
  CASE k = "identity" -> Identity
    [] k = "chat"     -> Synthesis
    [] k = "clarify"  -> Clarify
    [] OTHER          -> <<"model", "planner">>

At(m, step) == todo[m] # <<>> /\ Head(todo[m]) = step
Spend == left.events > 0 /\ left' = [left EXCEPT !.events = @ - 1]
Event == Spend /\ UNCHANGED broken
Fault == Spend /\ broken' = TRUE

TasksOf(m) == {t \in Tasks : task[m][t] # "none"}

\* What the tasks of a run say of it, NULL if it may go on (TaskStore).
recoverableRunStatusFromTasks(m) ==
  LET has(s) == \E t \in TasksOf(m) : task[m][t] = s
      all(s) == \A t \in TasksOf(m) : task[m][t] = s
  IN  CASE TasksOf(m) = {} -> "failed"
        [] has("open") \/ has("draft") -> "none"
        [] TasksOf(m) # {} /\ all("done") -> "done"
        [] ~has("open") /\ ~has("draft") /\ has("cancelled") -> "cancelled"
        [] ~has("open") /\ ~has("draft") /\ ~has("cancelled") /\ has("blocked") -> "blocked"
        [] OTHER -> IF has("done") THEN "partially_done" ELSE "failed"

\* Mutant: the failures among the results are not looked at once there is a verdict.
MutRunStatusFrom(statuses, review) ==
  CASE review = "needs_user_input" -> "blocked" [] review = "fail" -> "failed"
    [] OTHER -> IF statuses = {"failed"} THEN "failed" ELSE "done"

\* The status of the run from the statuses of the results and the review of them (MainAgent).
runStatusFrom(statuses, review) ==
  CASE "cancelled" \in statuses -> "cancelled"
    [] statuses \ {"done"} # {} /\ "cancelled" \notin statuses -> "failed"
    [] statuses \subseteq {"done"} /\ review = "needs_user_input" -> "blocked"
    [] statuses \subseteq {"done"} /\ review = "fail" -> "failed"
    [] OTHER -> "done"

-----------------------------------------------------------------------------
(* Rows of the store.                                                      *)

SetTask(m, t, s) == task' = [task EXCEPT ![m][t] = s]
\* Mutant: the status is the name of what the run waits for.
MutCompleteRun(m, s) == run' = [run EXCEPT ![m] = IF s = "waiting_user" THEN "user_input" ELSE s]
completeRun(m, s) == run' = [run EXCEPT ![m] = s]

\* Mutant: runs that wait for the user count as active.
MutGetActiveRuns(ms) == {m \in ms : run[m] \in ActiveRuns \union {"waiting_user"}}
getActiveRuns(ms) == {m \in ms : run[m] \in ActiveRuns}

pendingCandidates(cs) == {c \in cs : cand[c] = "pending"}

\* Mutant: the candidate is decided whatever its status.
MutDecidable(c) == TRUE
\* decidePendingMemoryCandidate changes a row that is pending and no other.
Decidable(c) == cand[c] = "pending"

decide(c) == IF c \in accepted THEN "approved" ELSE "rejected"

-----------------------------------------------------------------------------
Init ==
  /\ session = "none"
  /\ kind \in {[m \in Messages |-> kindOf(words[m])] : words \in Requests}
  /\ todo = [m \in Messages |-> <<>>]
  /\ verdict = [m \in Messages |-> "none"]
  /\ outcome = [m \in Messages |-> "none"]
  /\ run = [m \in Messages |-> "none"]
  /\ task = [m \in Messages |-> [t \in Tasks |-> "none"]]
  /\ results = [m \in Messages |-> {}]
  /\ cand = [c \in Candidates |-> "none"]
  /\ accepted = {}
  /\ stored = [c \in Candidates |-> 0]
  /\ queue = [a \in Approvers |-> {}]
  /\ committing = [a \in Approvers |-> None]
  /\ transcript = <<>>
  /\ sweep = <<>>
  /\ cancel = [run |-> "none", tasks |-> {}]
  /\ broken = FALSE
  /\ left = [events |-> MaxEvents, proposals |-> MaxProposals]

rowVars      == <<run, task, results, cand, accepted>>
approverVars == <<stored, queue, committing>>
boundVars    == <<broken, left>>

\* addSessionMessage and createRun: the session is created or must be active.
Receive(m) ==
  /\ kind[m] # "unsent" /\ outcome[m] = "none" /\ todo[m] = <<>>
  /\ session \in {"none", "active"}
  /\ session' = "active"
  /\ transcript' = Append(transcript, <<"user", m>>)
  /\ run' = [run EXCEPT ![m] = "running"]
  /\ todo' = [todo EXCEPT ![m] = Prologue \o Path(kind[m])]
  /\ UNCHANGED <<kind, verdict, outcome, task, results, cand, accepted, approverVars, sweep, cancel,
                 boundVars>>

\* The message of a session that was left is refused before there is a run.
Refuse(m) ==
  /\ kind[m] # "unsent" /\ outcome[m] = "none" /\ todo[m] = <<>>
  /\ session \notin {"none", "active"}
  /\ outcome' = [outcome EXCEPT ![m] = "refused"]
  /\ UNCHANGED <<session, kind, todo, verdict, rowVars, approverVars, transcript, sweep, cancel, boundVars>>

Advance(m) == todo' = [todo EXCEPT ![m] = Tail(@)]
Go(m, steps) == todo' = [todo EXCEPT ![m] = steps]

\* Hooks, the memory, the context and the model, when they answer.
Await(m) ==
  /\ \E step \in {"beforeRun", "rememberUser", "model", "rememberAnswer", "afterRun",
                  "rememberError", "lastHook"} : At(m, step)
  /\ Advance(m)
  /\ UNCHANGED <<session, kind, verdict, outcome, rowVars, approverVars, transcript, sweep, cancel, boundVars>>

\* Mutant: the error of a run that is being reviewed leaves it where it is.
MutCaught(m) ==
  /\ verdict' = [verdict EXCEPT ![m] = "failed"]
  /\ run' = IF run[m] = "reviewing" THEN run ELSE [run EXCEPT ![m] = "failed"]
  /\ Go(m, ErrorPath)

\* The catch of handleUserMessage.
Caught(m) ==
  /\ verdict' = [verdict EXCEPT ![m] = "failed"]
  /\ completeRun(m, "failed")
  /\ Go(m, ErrorPath)

\* They throw inside the try; a wait for a task times out, which cancels the task; a worker
\* releases the dependent that the executor is about to block.
Throw(m) ==
  /\ Fault
  /\ \/ /\ \E step \in {"rememberUser", "model", "rememberAnswer", "afterRun"} : At(m, step)
        /\ UNCHANGED task
     \/ \E t \in {"planner", "review"} :
          /\ At(m, t) /\ task[m][t] # "none"
          /\ SetTask(m, t, IF task[m][t] = "open" THEN "cancelled" ELSE task[m][t])
     \/ /\ At(m, "execute") /\ task[m]["work1"] \in Terminal /\ task[m]["work2"] = "open"
        /\ UNCHANGED task
  /\ Caught(m)
  /\ UNCHANGED <<session, kind, outcome, results, cand, accepted, approverVars, transcript, sweep,
                 cancel>>

\* They throw outside it: before the run has begun, or after the error was remembered.
Reject(m) ==
  /\ At(m, "beforeRun") \/ At(m, "lastHook")
  /\ Fault
  /\ Go(m, <<>>)
  /\ outcome' = [outcome EXCEPT ![m] = "rejected"]
  /\ UNCHANGED <<session, kind, verdict, rowVars, approverVars, transcript, sweep, cancel>>

-----------------------------------------------------------------------------
(* delegateTasks.                                                          *)

CreatePlanner(m) ==
  /\ At(m, "planner") /\ task[m]["planner"] = "none"
  /\ SetTask(m, "planner", "open")
  /\ UNCHANGED <<session, kind, todo, verdict, outcome, run, results, cand, accepted, approverVars,
                 transcript, sweep, cancel, boundVars>>

\* formatTaskResult of tasks that are over.
Record(m, tasks) == results' = [results EXCEPT ![m] = @ \union tasks]

\* The planner is back: it failed, it asks the user, its plan becomes a graph of drafts
\* that nobody executes, or a graph.
Planned(m) ==
  /\ At(m, "planner") /\ task[m]["planner"] \in Terminal
  /\ Record(m, {"planner"})
  /\ IF task[m]["planner"] # "done"
     THEN Go(m, Synthesis) /\ UNCHANGED task
     ELSE \/ Go(m, Pause) /\ UNCHANGED task
          \/ /\ kind[m] = "plan"
             /\ task' = [task EXCEPT ![m]["work1"] = "draft", ![m]["work2"] = "draft"]
             /\ Go(m, PlanOnly)
          \/ /\ kind[m] = "task"
             /\ task' = [task EXCEPT ![m]["work1"] = "open", ![m]["work2"] = "open"]
             /\ Go(m, <<"execute">>)
  /\ UNCHANGED <<session, kind, verdict, outcome, run, cand, accepted, approverVars, transcript,
                 sweep, cancel, boundVars>>

\* The executor blocks the task that can no longer run, or waits for the user.
BlockDependent(m) ==
  /\ At(m, "execute")
  /\ task[m]["work1"] \in Terminal /\ task[m]["work2"] = "open"
  /\ SetTask(m, "work2", "blocked")
  /\ UNCHANGED <<session, kind, todo, verdict, outcome, run, results, cand, accepted, approverVars,
                 transcript, sweep, cancel, boundVars>>

Work == {"work1", "work2"}

\* What the executor does not wait for: a task somebody cancelled before it looked, and the
\* dependent that a worker took when it was released, which may still run.
Overlooked(m) ==
  {t \in Work :
     \/ task[m][t] = "cancelled"
     \/ t = "work2" /\ task[m]["work1"] = "done" /\ task[m]["work2"] # "blocked"}

\* The executor is back with the results of the tasks it has waited for or blocked: a planner
\* of its own asks the user, after a failure or to expand what was done; the work is reviewed
\* by a new task or by one of the plan; or nothing was done.
Executed(m) ==
  /\ At(m, "execute") /\ task[m]["work1"] \in Terminal
  /\ \E seen \in SUBSET {t \in Work : task[m][t] \in Terminal} :
       /\ Work \ seen \subseteq Overlooked(m)
       /\ Record(m, seen)
       /\ \/ /\ \E t \in seen : task[m][t] \in {"done", "failed"}
             /\ Go(m, Pause)
             /\ UNCHANGED <<run, task>>
          \/ /\ \E t \in seen : task[m][t] = "done"
             /\ run' = [run EXCEPT ![m] = "reviewing"]
             /\ \/ /\ task' = [task EXCEPT ![m]["review"] = "open"]
                   /\ Go(m, <<"review">>)
                \/ Go(m, Synthesis) /\ UNCHANGED task
          \/ /\ \A t \in seen : task[m][t] # "done"
             /\ Go(m, Synthesis)
             /\ UNCHANGED <<run, task>>
  /\ UNCHANGED <<session, kind, verdict, outcome, cand, accepted, approverVars, transcript, sweep,
                 cancel, boundVars>>

Reviewed(m) ==
  /\ At(m, "review") /\ task[m]["review"] \in Terminal
  /\ Record(m, {"review"})
  /\ Go(m, Synthesis)
  /\ UNCHANGED <<session, kind, verdict, outcome, run, task, cand, accepted, approverVars,
                 transcript, sweep, cancel, boundVars>>

\* What the review of the results says, of a task of its own or of one of the plan.
Reviews(m) ==
  IF \E t \in Work \intersect results[m] : task[m][t] = "done"
  THEN {"none", "pass", "fail", "needs_user_input"} ELSE {"none"}

\* The statuses the path the handler is on may complete the run with.
Decisions(m) ==
  CASE At(m, "wait") -> {"waiting_user"}
    [] At(m, "complete") /\ (kind[m] = "task" \/ task[m]["planner"] \in Terminal \ {"done"}) ->
         {runStatusFrom({task[m][t] : t \in results[m]}, review) : review \in Reviews(m)}
    [] OTHER -> {"done"}

Complete(m) ==
  /\ At(m, "complete") \/ At(m, "wait")
  /\ \E status \in Decisions(m) :
       /\ verdict' = [verdict EXCEPT ![m] = status]
       /\ completeRun(m, status)
  /\ Advance(m)
  /\ UNCHANGED <<session, kind, outcome, task, results, cand, accepted, approverVars, transcript,
                 sweep, cancel, boundVars>>

\* The runtime adds the answer to the session, if the session is still there.
Return(m) ==
  /\ At(m, "return")
  /\ Advance(m)
  /\ IF session = "active"
     THEN /\ transcript' = Append(transcript, <<"answer", m>>)
          /\ outcome' = [outcome EXCEPT ![m] = "answered"]
     ELSE /\ outcome' = [outcome EXCEPT ![m] = "lost"]
          /\ UNCHANGED transcript
  /\ UNCHANGED <<session, kind, verdict, rowVars, approverVars, sweep, cancel, boundVars>>

-----------------------------------------------------------------------------
(* The two loops that decide candidates, of a handler and of maintenance.  *)

\* approveRunMemoryCandidates looks once at the candidates of its run.
Approve(m) ==
  /\ At(m, "approve")
  /\ queue' = [queue EXCEPT ![m] = pendingCandidates({m} \X Tasks)]
  /\ Advance(m)
  /\ UNCHANGED <<session, kind, verdict, outcome, rowVars, stored, committing, transcript, sweep,
                 cancel, boundVars>>

\* Mutant: maintenance counts an approved candidate and does not remember it.
MutDecideNext(a) ==
  /\ committing[a] = None
  /\ \E c \in queue[a] :
       /\ queue' = [queue EXCEPT ![a] = @ \ {c}]
       /\ cand' = IF Decidable(c) THEN [cand EXCEPT ![c] = decide(c)] ELSE cand
       /\ committing' = IF Decidable(c) /\ c \in accepted /\ a # Maintenance
                        THEN [committing EXCEPT ![a] = c] ELSE committing
  /\ UNCHANGED <<session, kind, todo, verdict, outcome, run, task, results, accepted, stored,
                 transcript, sweep, cancel, boundVars>>

DecideNext(a) ==
  /\ committing[a] = None
  /\ \E c \in queue[a] :
       /\ queue' = [queue EXCEPT ![a] = @ \ {c}]
       /\ cand' = IF Decidable(c) THEN [cand EXCEPT ![c] = decide(c)] ELSE cand
       /\ committing' = IF Decidable(c) /\ c \in accepted THEN [committing EXCEPT ![a] = c]
                        ELSE committing
  /\ UNCHANGED <<session, kind, todo, verdict, outcome, run, task, results, accepted, stored,
                 transcript, sweep, cancel, boundVars>>

Remembered(a) ==
  /\ committing[a] # None
  /\ stored' = [stored EXCEPT ![committing[a]] = @ + 1]
  /\ committing' = [committing EXCEPT ![a] = None]
  /\ UNCHANGED <<session, kind, todo, verdict, outcome, rowVars, queue, transcript, sweep, cancel, boundVars>>

\* The memory throws, or the hook after it: the handler goes to its catch, maintenance ends.
NotRemembered(a) ==
  /\ committing[a] # None
  /\ Fault
  /\ stored' \in {stored, [stored EXCEPT ![committing[a]] = @ + 1]}
  /\ committing' = [committing EXCEPT ![a] = None]
  /\ queue' = [queue EXCEPT ![a] = {}]
  /\ \/ a \in Messages /\ Caught(a) /\ UNCHANGED sweep
     \/ a = Maintenance /\ sweep' = <<>> /\ UNCHANGED <<verdict, run, todo>>
  /\ UNCHANGED <<session, kind, outcome, task, results, cand, accepted, transcript, cancel>>

Decided(m) ==
  /\ At(m, "decide") /\ queue[m] = {} /\ committing[m] = None
  /\ Advance(m)
  /\ UNCHANGED <<session, kind, verdict, outcome, rowVars, approverVars, transcript, sweep, cancel, boundVars>>

-----------------------------------------------------------------------------
(* Maintenance.                                                            *)

MaintenanceStarts ==
  /\ sweep = <<>> /\ Event
  /\ sweep' = <<"runs", "decide", "sessions">>
  /\ UNCHANGED <<session, kind, todo, verdict, outcome, rowVars, approverVars, transcript, cancel>>

\* recoverStaleRuns, and diagnostics, which looks at runs of any age.
RecoverRuns ==
  /\ sweep # <<>> /\ Head(sweep) = "runs"
  /\ run' = [m \in Messages |->
       IF m \in getActiveRuns(Messages) /\ recoverableRunStatusFromTasks(m) # "none"
       THEN recoverableRunStatusFromTasks(m) ELSE run[m]]
  /\ queue' = [queue EXCEPT ![Maintenance] = pendingCandidates(Candidates)]
  /\ sweep' = Tail(sweep)
  /\ UNCHANGED <<session, kind, todo, verdict, outcome, task, results, cand, accepted, stored,
                 committing, transcript, cancel, boundVars>>

AllDecided ==
  /\ sweep # <<>> /\ Head(sweep) = "decide"
  /\ queue[Maintenance] = {} /\ committing[Maintenance] = None
  /\ sweep' = Tail(sweep)
  /\ UNCHANGED <<session, kind, todo, verdict, outcome, rowVars, approverVars, transcript, cancel, boundVars>>

\* archiveHiddenSessions and pruneTrashedSessions; the days of grace may be over or none.
ArchiveSessions ==
  /\ sweep # <<>> /\ Head(sweep) = "sessions"
  /\ session' \in IF session \in {"hidden", "trashed"} THEN {"trashed", "deleted"} ELSE {session}
  /\ sweep' = Tail(sweep)
  /\ UNCHANGED <<kind, todo, verdict, outcome, rowVars, approverVars, transcript, cancel, boundVars>>

-----------------------------------------------------------------------------
(* Users, workers, and the death of the process.                           *)

\* hideSession, restoreSession, trashSession.
EditSession ==
  /\ Event
  /\ \/ session = "active" /\ session' = "hidden"
     \/ session \in {"active", "hidden", "trashed"} /\ session' \in {"active", "trashed"}
  /\ UNCHANGED <<kind, todo, verdict, outcome, rowVars, approverVars, transcript, sweep, cancel>>

\* cancelRun of the manager goes over the tasks it has read before.
CancelRunStarts(m) ==
  /\ cancel.run = "none" /\ run[m] # "none" /\ Event
  /\ cancel' = [run |-> m, tasks |-> {t \in Tasks : task[m][t] \in Open}]
  /\ UNCHANGED <<session, kind, todo, verdict, outcome, rowVars, approverVars, transcript, sweep>>

CancelNext ==
  /\ \E t \in cancel.tasks :
       /\ cancel' = [cancel EXCEPT !.tasks = @ \ {t}]
       /\ task' = IF task[cancel.run][t] \in Open THEN [task EXCEPT ![cancel.run][t] = "cancelled"]
                  ELSE task
  /\ UNCHANGED <<session, kind, todo, verdict, outcome, run, results, cand, accepted, approverVars,
                 transcript, sweep, boundVars>>

\* cancelRun of the store cancels what is open by now, and the run, whatever its status.
CancelRun ==
  /\ cancel.run # "none" /\ cancel.tasks = {}
  /\ task' = [task EXCEPT ![cancel.run] =
               [t \in Tasks |-> IF @[t] \in Open THEN "cancelled" ELSE @[t]]]
  /\ completeRun(cancel.run, "cancelled")
  /\ cancel' = [run |-> "none", tasks |-> {}]
  /\ UNCHANGED <<session, kind, todo, verdict, outcome, results, cand, accepted, approverVars, transcript,
                 sweep, boundVars>>

CancelTask(m, t) ==
  /\ task[m][t] \in Open /\ Event
  /\ SetTask(m, t, "cancelled")
  /\ UNCHANGED <<session, kind, todo, verdict, outcome, run, results, cand, accepted, approverVars,
                 transcript, sweep, cancel>>

Runnable(m, t) == task[m][t] = "open" /\ (t = "work2" => task[m]["work1"] = "done")

\* A worker proposes what its task has learnt before it finishes the task.
Propose(m, t) ==
  /\ Runnable(m, t) /\ cand[<<m, t>>] = "none"
  /\ left.proposals > 0 /\ left' = [left EXCEPT !.proposals = @ - 1]
  /\ cand' = [cand EXCEPT ![<<m, t>>] = "pending"]
  /\ accepted' \in {accepted, accepted \union {<<m, t>>}}
  /\ UNCHANGED <<session, kind, todo, verdict, outcome, run, task, results, approverVars, transcript,
                 sweep, cancel, broken>>

Finish(m, t) ==
  /\ Runnable(m, t)
  /\ \E s \in {"done", "failed"} : SetTask(m, t, s)
  /\ UNCHANGED <<session, kind, todo, verdict, outcome, run, results, cand, accepted, approverVars,
                 transcript, sweep, cancel, boundVars>>

\* What was in flight is gone; what is in the store is there, and its tasks run on.
Crash ==
  /\ Fault
  /\ todo' = [m \in Messages |-> <<>>]
  /\ outcome' = [m \in Messages |-> IF todo[m] # <<>> THEN "crashed" ELSE outcome[m]]
  /\ queue' = [a \in Approvers |-> {}]
  /\ committing' = [a \in Approvers |-> None]
  /\ sweep' = <<>>
  /\ cancel' = [run |-> "none", tasks |-> {}]
  /\ UNCHANGED <<session, kind, verdict, rowVars, stored, transcript>>

-----------------------------------------------------------------------------
HandlerNext(m) ==
  \/ Receive(m) \/ Refuse(m) \/ Await(m) \/ CreatePlanner(m) \/ Planned(m) \/ BlockDependent(m)
  \/ Executed(m) \/ Reviewed(m) \/ Complete(m) \/ Return(m) \/ Approve(m) \/ Decided(m)
LoopNext(a) == DecideNext(a) \/ Remembered(a)
MaintenanceNext == RecoverRuns \/ AllDecided \/ ArchiveSessions

Next ==
  \/ \E m \in Messages :
       \/ HandlerNext(m) \/ Throw(m) \/ Reject(m) \/ CancelRunStarts(m)
       \/ \E t \in Tasks : CancelTask(m, t) \/ Propose(m, t) \/ Finish(m, t)
  \/ \E a \in Approvers : LoopNext(a) \/ NotRemembered(a)
  \/ MaintenanceStarts \/ MaintenanceNext \/ EditSession \/ CancelNext \/ CancelRun \/ Crash

Spec == Init /\ [][Next]_vars

\* The event loop runs what is ready, workers finish the tasks they are given and
\* a cancellation that has begun goes on; nobody has to start maintenance.
FairSpec ==
  /\ Spec
  /\ \A m \in Messages :
       /\ WF_vars(HandlerNext(m))
       /\ \A t \in Tasks : WF_vars(Finish(m, t))
  /\ \A a \in Approvers : WF_vars(LoopNext(a))
  /\ WF_vars(CancelNext \/ CancelRun)

-----------------------------------------------------------------------------
(* Properties.                                                             *)

TypeOK ==
  /\ session \in {"none", "active", "hidden", "trashed", "deleted"}
  /\ kind \in [Messages -> {"identity", "chat", "clarify", "plan", "task", "unsent"}]
  /\ verdict \in [Messages -> RunStatuses]
  /\ run \in [Messages -> RunStatuses]
  /\ task \in [Messages -> [Tasks -> Open \union Terminal \union {"none"}]]
  /\ results \in [Messages -> SUBSET Tasks]
  /\ cand \in [Candidates -> {"none", "pending", "approved", "rejected"}]
  /\ accepted \subseteq Candidates
  /\ stored \in [Candidates -> Nat]
  /\ queue \in [Approvers -> SUBSET Candidates]
  /\ committing \in [Approvers -> Candidates \union {None}]
  /\ left \in [{"events", "proposals"} -> Nat]

\* The handler of a run and maintenance decide the same candidates, each between its
\* look at the table and a memory that answers later: a candidate becomes one record
\* of the memory at most, and none unless it was approved.
CandidateStoredOnce ==
  \A c \in Candidates : stored[c] <= 1 /\ (stored[c] = 1 => cand[c] = "approved")

\* A candidate that was approved is in the memory or on its way there, unless the memory
\* threw or the process died.
ApprovedIsRemembered ==
  ~broken =>
    \A c \in Candidates : cand[c] = "approved" =>
      stored[c] = 1 \/ \E a \in Approvers : committing[a] = c

\* Once a handler has decided how its run ends, the run ends so, or was cancelled:
\* maintenance, which looks at every active run, does not decide again.
RunEndsAsDecided ==
  \A m \in Messages : verdict[m] # "none" => run[m] \in {verdict[m], "cancelled"}

\* A handler that answers that the work is done has no result of a task that failed, was
\* blocked or was cancelled (runStatusFrom). What it has no result of is not the planner, the
\* review or the first task, unless cancelled: it is a draft of a plan that was only asked for,
\* or the dependent that a worker took when the first task was done, which execute does not
\* wait for; that one may still run, or have failed.
DoneMeansTasksDone ==
  \A m \in Messages : verdict[m] = "done" =>
    \A t \in TasksOf(m) :
      \/ task[m][t] = "done"
      \/ kind[m] = "plan" /\ t # "planner"
      \/ t \in Work \ results[m] /\ task[m][t] = "cancelled"
      \/ t \in {"work2"} \ results[m] /\ task[m]["work1"] = "done"

\* Every message that is received has its handler end and its run leave the active
\* statuses, unless beforeRun threw or the process died.
RunsEnd ==
  \A m \in Messages :
    run[m] \in ActiveRuns ~>
      \/ outcome[m] # "none" /\ run[m] \notin ActiveRuns
      \/ outcome[m] \in {"rejected", "crashed"}
=============================================================================
