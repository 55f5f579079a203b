---------------------------- MODULE ToolExecutor ----------------------------
(***************************************************************************)
(* The executor of tools, tools/ToolExecutor.ts: a call is checked,        *)
(* recorded as started, raced against its timeout, and recorded as         *)
(* completed or failed. A call that times out is not stopped. Each call is *)
(* made in a process of its own (workers make theirs one after another);   *)
(* the task store is shared.                                               *)
(***************************************************************************)
EXTENDS ToolRules

CONSTANTS
  Calls,        \* the calls
  Requests,     \* call -> what it may ask for
  Hosts,        \* host -> [blocked, addresses, listed]
  Replies,      \* what a server may answer: [status, json]
  Keys,         \* keys of tasks
  MaxRedirects, \* 5 in the code
  MaxFaults,    \* how often the task store does not take a write
  MaxCrashes    \* how many calls end with their process

VARIABLES
  call,         \* call -> [step, request, todo, hops, error, timedOut, answer]
  events,       \* call -> the types of its recorded events
  performed,    \* call -> the kinds of operations it performed
  nodes,        \* key -> the calls that created a task with it
  left          \* what is left of the bounds

vars == <<call, events, performed, nodes, left>>

Terminal == {"completed", "failed"}
Idle == [step |-> "idle", request |-> "none", todo |-> <<>>, hops |-> 0,
         error |-> FALSE, timedOut |-> FALSE, answer |-> "none"]

Init ==
  /\ call = [c \in Calls |-> Idle]
  /\ events = [c \in Calls |-> <<>>]
  /\ performed = [c \in Calls |-> {}]
  /\ nodes = [k \in Keys |-> <<>>]
  /\ left = [faults |-> MaxFaults, crashes |-> MaxCrashes]

\* The end of `execute`: what it records and answers, and the writes that fail on the way. A
\* result that cannot be recorded becomes an error, and one that cannot be recorded is thrown.
Ends(ok) ==
  (IF ok THEN {[log |-> <<"completed">>, answer |-> "ok", faults |-> 0],
               [log |-> <<"failed">>, answer |-> "failed", faults |-> 1]}
   ELSE {[log |-> <<"failed">>, answer |-> "failed", faults |-> 0],
         [log |-> <<>>, answer |-> "rejected", faults |-> 1]})

Answer(c, k, log, ok) ==
  \E end \in Ends(ok) :
    /\ end.faults <= left.faults
    /\ call' = [call EXCEPT ![c] = [k EXCEPT !.answer = end.answer]]
    /\ events' = [events EXCEPT ![c] = log \o end.log]
    /\ left' = [left EXCEPT !.faults = @ - end.faults]
    /\ UNCHANGED <<performed, nodes>>

-----------------------------------------------------------------------------
\* The call is begun: allowed, classified, recorded, approved.
Refused(c, request) ==
  /\ ~assertAllowed(request) \/ ~Classified(resolve(request.tool), request.args)
  /\ Answer(c, [Idle EXCEPT !.step = "answered", !.request = request, !.error = TRUE], <<>>, FALSE)

Approved(request) ==
  assertApproved(approvalRequirementFor(resolve(request.tool), request.args), request.approval, 1)

\* That an approval is missing is recorded inside the `catch`: a store that does not take it
\* rejects the call.
NotApproved(c, request) ==
  LET k == [Idle EXCEPT !.step = "answered", !.request = request, !.error = TRUE]
  IN  /\ assertAllowed(request) /\ Classified(resolve(request.tool), request.args)
      /\ ~Approved(request)
      /\ \/ Answer(c, k, <<"started", "approval_required">>, FALSE)
         \/ /\ left.faults > 0
            /\ call' = [call EXCEPT ![c] = [k EXCEPT !.answer = "rejected"]]
            /\ events' = [events EXCEPT ![c] = <<"started">>]
            /\ left' = [left EXCEPT !.faults = @ - 1]
            /\ UNCHANGED <<performed, nodes>>

Started(c, request) ==
  /\ assertAllowed(request) /\ Classified(resolve(request.tool), request.args)
  /\ Approved(request)
  /\ call' = [call EXCEPT ![c] = [Idle EXCEPT !.step = "running", !.request = request,
                !.todo = executeAllowed(resolve(request.tool), request.args)]]
  /\ events' = [events EXCEPT ![c] = <<"started">>]
  /\ UNCHANGED <<performed, nodes, left>>

\* Without a record of its start the call does not run.
NotRecorded(c, request) ==
  /\ assertAllowed(request) /\ Classified(resolve(request.tool), request.args)
  /\ left.faults > 0
  /\ call' = [call EXCEPT ![c] = [Idle EXCEPT !.step = "answered", !.request = request,
                                              !.error = TRUE, !.answer = "failed"]]
  /\ events' = [events EXCEPT ![c] = <<"failed">>]
  /\ left' = [left EXCEPT !.faults = @ - 1]
  /\ UNCHANGED <<performed, nodes>>

Begin(c) ==
  /\ call[c].step = "idle"
  /\ \E request \in Requests[c] :
       Refused(c, request) \/ NotApproved(c, request) \/ Started(c, request) \/ NotRecorded(c, request)

-----------------------------------------------------------------------------
\* The operations, one after another, also when nobody waits for them any more.
Done(op) == [kind |-> op.kind, op |-> op.op]
Works(c) == call[c].step \in {"running", "late"} /\ call[c].todo # <<>>
Next1(k) == [k EXCEPT !.todo = Tail(@), !.hops = 0]
Fails(k) == [k EXCEPT !.todo = <<>>, !.error = TRUE]

Throws(c) ==
  /\ Works(c) /\ Head(call[c].todo).kind = "throw"
  /\ call' = [call EXCEPT ![c] = Fails(@)]
  /\ UNCHANGED <<events, performed, nodes, left>>

canAccessOutsideWorkspace(request) == parsePermissionMode(request.mode) = "danger_full_access"

WorkOnFile(c) ==
  LET op == Head(call[c].todo)
      anywhere == canAccessOutsideWorkspace(call[c].request) /\ op.op # "upload"
      ok == PathOk(op.op, op.target, anywhere)
  IN  /\ Works(c) /\ op.kind = "file"
      /\ call' = [call EXCEPT ![c] = IF ok THEN Next1(@) ELSE Fails(@)]
      /\ performed' = [performed EXCEPT ![c] = IF ok THEN @ \cup {Done(op)} ELSE @]
      /\ UNCHANGED <<events, nodes, left>>

\* The command of tests and gh: its exit code tells whether it failed, not what it did.
RunCommand(c) ==
  LET op == Head(call[c].todo)
  IN  /\ Works(c) /\ op.kind = "exec"
      /\ performed' = [performed EXCEPT ![c] = @ \cup {Done(op)}]
      /\ \E exit \in {0, 1} :
           call' = [call EXCEPT ![c] = IF exit = 0 THEN Next1(@) ELSE Fails(@)]
      /\ UNCHANGED <<events, nodes, left>>

inspectTask(c) ==
  LET op == Head(call[c].todo)
  IN  /\ Works(c) /\ op.kind = "store" /\ op.op = "inspect"
      /\ call' = [call EXCEPT ![c] = IF nodes[op.target] # <<>> THEN Next1(@) ELSE Fails(@)]
      /\ performed' = [performed EXCEPT ![c] = IF nodes[op.target] # <<>> THEN @ \cup {Done(op)} ELSE @]
      /\ UNCHANGED <<events, nodes, left>>

\* `configured`: the call comes from a task of a graph, which is the parent.
validateCreateTaskGraphNode(c) ==
  LET op == Head(call[c].todo)
      ok == call[c].request.args.configured /\ nodes[op.target] = <<>>
  IN  /\ Works(c) /\ op.kind = "store" /\ op.op = "validate"
      /\ call' = [call EXCEPT ![c] = IF ok THEN Next1(@) ELSE Fails(@)]
      /\ UNCHANGED <<events, performed, nodes, left>>

\* The row of a task, or of a dependency.
Stored(c, op) ==
  /\ performed' = [performed EXCEPT ![c] = @ \cup {Done(op)}]
  /\ nodes' = IF op.op = "create" /\ op.target # "none"
              THEN [nodes EXCEPT ![op.target] = Append(@, c)] ELSE nodes

CreateOrDepend(c) ==
  LET op == Head(call[c].todo)
  IN  /\ Works(c) /\ op.kind = "store" /\ op.op \in {"create", "depend"}
      /\ call' = [call EXCEPT ![c] = Next1(@)]
      /\ Stored(c, op)
      /\ UNCHANGED <<events, left>>

\* The store does not take the row, or takes the row and not the event that follows it; what
\* the call has stored before stays.
CreateOrDependFails(c) ==
  LET op == Head(call[c].todo)
  IN  /\ Works(c) /\ op.kind = "store" /\ op.op \in {"create", "depend"} /\ left.faults > 0
      /\ call' = [call EXCEPT ![c] = Fails(@)]
      /\ Stored(c, op) \/ UNCHANGED <<performed, nodes>>
      /\ left' = [left EXCEPT !.faults = @ - 1]
      /\ UNCHANGED events

\* What an answer of a server means to the operation.
Follow(k, op, reply) ==
  LET ok == reply.status \in 200..299
  IN  CASE op.accepts = "any" -> Next1(k)
        [] op.accepts = "ok" -> IF ok THEN Next1(k) ELSE Fails(k)
        [] op.accepts = "json" -> IF ok /\ reply.json THEN Next1(k) ELSE Fails(k)
        [] op.accepts = "next" /\ ok -> IF reply.json THEN [k EXCEPT !.todo = <<>>] ELSE Fails(k)
        [] OTHER -> IF reply.status = 404 /\ Len(k.todo) > 1 THEN Next1(k) ELSE Fails(k)

Sends(c) == Works(c) /\ Head(call[c].todo).kind = "http"
MaySend(op) == resolveHttpEgressTarget(Hosts[op.target], op.local)

Send(c) ==
  LET k == call[c]  op == Head(k.todo)
  IN  /\ Sends(c) /\ MaySend(op)
      /\ performed' = [performed EXCEPT ![c] = @ \cup {Done(op)}]
      /\ \E reply \in Replies :
           IF reply.status \in {301, 302, 303, 307, 308} /\ k.hops < MaxRedirects
           THEN \E host \in DOMAIN Hosts :
                  call' = [call EXCEPT ![c] = [k EXCEPT !.hops = @ + 1,
                             !.todo[1] = redirectInit(op, reply.status, host)]]
           ELSE call' = [call EXCEPT ![c] = Follow(k, op, reply)]
      /\ UNCHANGED <<events, nodes, left>>

\* The host is refused, or the network or the request's own timer ends the request before the
\* server has it, or after.
SendFails(c) ==
  LET op == Head(call[c].todo)
  IN  /\ Sends(c)
      /\ call' = [call EXCEPT ![c] = Fails(@)]
      /\ \/ UNCHANGED performed
         \/ MaySend(op) /\ performed' = [performed EXCEPT ![c] = @ \cup {Done(op)}]
      /\ UNCHANGED <<events, nodes, left>>

Work(c) ==
  Throws(c) \/ WorkOnFile(c) \/ RunCommand(c) \/ inspectTask(c)
  \/ validateCreateTaskGraphNode(c) \/ CreateOrDepend(c) \/ CreateOrDependFails(c)
  \/ Send(c) \/ SendFails(c)

-----------------------------------------------------------------------------
\* The race of the operation and the timer is over once, with the first of them.
\* Mutant: an operation that ends after the timeout is recorded too.
MutWaited(k) == k.step \in {"running", "late"}
Waited(k) == k.step = "running"

Finish(c) ==
  LET k == call[c]
  IN  /\ Waited(k) /\ k.todo = <<>>
      /\ Answer(c, [k EXCEPT !.step = "answered"], events[c], ~k.error)

\* The tools that only use the task store end before a timer can fire.
withToolCallTimeout(c) ==
  LET k == call[c]
  IN  /\ Waited(k) /\ ~k.timedOut
      /\ resolve(k.request.tool).name \notin {"create_task", "inspect_task"}
      /\ Answer(c, [k EXCEPT !.step = "late", !.timedOut = TRUE], events[c], FALSE)

Crash(c) ==
  /\ left.crashes > 0
  /\ call[c].step \in {"running", "late"}
  /\ call' = [call EXCEPT ![c].step = "lost"]
  /\ left' = [left EXCEPT !.crashes = @ - 1]
  /\ UNCHANGED <<events, performed, nodes>>

Next == \E c \in Calls : Begin(c) \/ Work(c) \/ Finish(c) \/ withToolCallTimeout(c) \/ Crash(c)

-----------------------------------------------------------------------------
\* The events of a call tell what it did (ToolExecutor.execute): whatever its operation does
\* after a timeout, it has one ending; it is recorded as completed exactly when its caller was
\* answered ok, and then every operation was performed without an error; an operation that was
\* performed has a recorded start, and a call that failed although all was performed either
\* timed out or met a store that did not take an event. An operation was performed only under
\* the approval its arguments ask for, and what leaves the machine, and a deletion, under one.
EventsTellEffects ==
  \A c \in Calls :
    LET k == call[c]
        endings == {i \in DOMAIN events[c] : events[c][i] \in Terminal}
    IN  /\ Cardinality(endings) <= 1
        /\ "completed" \in Range(events[c]) <=> k.answer = "ok"
        /\ k.answer = "ok" => k.todo = <<>> /\ ~k.error
        /\ performed[c] # {} => events[c] # <<>> /\ Head(events[c]) = "started"
        /\ k.answer = "failed" /\ k.todo = <<>> /\ ~k.error => k.timedOut \/ left.faults < MaxFaults
        /\ k.answer = "rejected" => left.faults < MaxFaults
        /\ performed[c] # {} => Approved(k.request)
        /\ \A op \in performed[c] :
             op.kind = "http" \/ op.op \in {"gh", "delete"} => k.request.approval.approved
=============================================================================
