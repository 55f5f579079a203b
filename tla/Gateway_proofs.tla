--------------------------- MODULE Gateway_proofs ----------------------------
(***************************************************************************)
(* Proofs about a connection to the gateway and the requests to the web    *)
(* server: each message has one answer or a handler that will give it, and *)
(* no request does what the permission of its caller does not cover.       *)
(***************************************************************************)
EXTENDS Gateway, Integers, TLAPS

-----------------------------------------------------------------------------
(* Messages and answers.                                                   *)

Scopes == {"none", "read", "write", "danger"}

Connection ==
  [state : {"closed", "open", "ended", "down"}, scope : Scopes, owed : Int, pending : Int,
   inFlight : Int, windowStartedAt : Int, messagesInWindow : Int, idleAt : Int]

Typed == conn \in Connection /\ now \in Int

Live == {"open", "ended"}

\* What is owed is what handlers work on, which is what the code counts.
Balanced ==
  /\ conn.owed = conn.pending /\ conn.inFlight = conn.pending
  /\ conn.pending \in 0..MaxInFlight
  /\ last.answer = "busy" => conn.pending = MaxInFlight

\* A client with a connection has presented a token.
Authenticated == conn.state \in Live => conn.scope # "none"

\* The counters of a connection: messages without an answer, handlers, and the code's count.
Counts(c, owed, pending, inFlight) ==
  c \in Connection /\ c.owed = owed /\ c.pending = pending /\ c.inFlight = inFlight

\* It is whose it was, and was not closed if it is not.
Follows(d, c) == d.scope = c.scope /\ (d.state \in Live => c.state \in Live)

LEMMA WrittenCounts ==
  ASSUME NEW c \in Connection
  PROVE  /\ Counts(Written(c), c.owed, c.pending, c.inFlight)
         /\ Follows(Written(c), c)
BY DEF Written, Counts, Follows, Live, Connection

LEMMA SentCounts ==
  ASSUME NEW c \in Connection
  PROVE  /\ Counts(Sent(c), c.owed - 1, c.pending, c.inFlight)
         /\ Follows(Sent(c), c)
BY WrittenCounts DEF Sent, Counts, Follows, Connection

LEMMA EndedCounts ==
  ASSUME NEW c \in Connection
  PROVE  Counts(Ended(c), c.owed, c.pending, c.inFlight) /\ Follows(Ended(c), c)
BY DEF Ended, Counts, Follows, Live, Connection

LEMMA FinishedCounts ==
  ASSUME NEW c \in Connection, NEW recorded
  PROVE  /\ Counts(Finished(c, recorded), c.owed, c.pending - 1, c.inFlight - 1)
         /\ Follows(Finished(c, recorded), c)
<1> DEFINE k == [c EXCEPT !.pending = @ - 1]
<1>1. Counts(k, c.owed, c.pending - 1, c.inFlight) /\ Follows(k, c)
  BY DEF Counts, Follows, Connection
<1>2. Finished(c, recorded) = [k EXCEPT !.inFlight = c.inFlight - 1]
  BY DEF Finished
<1> HIDE DEF k
<1> QED BY <1>1, <1>2 DEF Counts, Follows, Connection

LEMMA AcceptedCounts ==
  ASSUME NEW c \in Connection
  PROVE  /\ Counts(Accepted(c), c.owed, c.pending + 1, c.inFlight + 1)
         /\ Follows(Accepted(c), c)
<1> DEFINE k == [c EXCEPT !.inFlight = @ + 1]
<1>1. Counts(k, c.owed, c.pending, c.inFlight + 1) /\ Follows(k, c)
  BY DEF Counts, Follows, Connection
<1>2. Accepted(c) = [k EXCEPT !.pending = c.pending + 1]
  BY DEF Accepted
<1> HIDE DEF k
<1> QED BY <1>1, <1>2 DEF Counts, Follows, Connection

LEMMA ReceivedCounts ==
  ASSUME Typed, IdleTimeout \in Nat
  PROVE  /\ Counts(Received(conn), conn.owed + 1, conn.pending, conn.inFlight)
         /\ Follows(Received(conn), conn)
<1> DEFINE k == [conn EXCEPT !.owed = @ + 1]
<1>1. Counts(k, conn.owed + 1, conn.pending, conn.inFlight) /\ Follows(k, conn)
  BY DEF Counts, Follows, Connection, Typed
<1>2. Received(conn) = [k EXCEPT !.idleAt = now + IdleTimeout]
  BY DEF Received
<1> HIDE DEF k
<1> QED BY <1>1, <1>2 DEF Counts, Follows, Connection, Typed

LEMMA CountedCounts ==
  ASSUME Typed, IdleTimeout \in Nat
  PROVE  /\ Counts(Counted, conn.owed + 1, conn.pending, conn.inFlight)
         /\ Follows(Counted, conn)
<1> DEFINE r == Received(conn)
           k == [r EXCEPT !.windowStartedAt = now]
<1>1. /\ Counts(r, conn.owed + 1, conn.pending, conn.inFlight) /\ Follows(r, conn)
      /\ r \in Connection /\ now \in Int
  BY ReceivedCounts DEF Counts, Follows, Typed
<1>2. Counted = IF now - r.windowStartedAt >= RateWindow THEN [k EXCEPT !.messagesInWindow = 1]
                ELSE [r EXCEPT !.messagesInWindow = @ + 1]
  BY DEF Counted, consume
<1> HIDE DEF r
<1>3. Counts(k, r.owed, r.pending, r.inFlight) /\ Follows(k, r) /\ k \in Connection
  BY <1>1 DEF Counts, Follows, Connection
<1> HIDE DEF k
<1> DEFINE x == [k EXCEPT !.messagesInWindow = 1]
           y == [r EXCEPT !.messagesInWindow = @ + 1]
<1>4. Counts(x, k.owed, k.pending, k.inFlight) /\ Follows(x, k)
  BY <1>3 DEF Counts, Follows, Connection
<1>5. Counts(y, r.owed, r.pending, r.inFlight) /\ Follows(y, r)
  BY <1>1 DEF Counts, Follows, Connection
<1>6. Counted = x \/ Counted = y
  BY <1>2
<1> HIDE DEF x, y
<1> QED BY <1>1, <1>3, <1>4, <1>5, <1>6 DEF Counts, Follows

LEMMA ScopesAre ==
  ASSUME NEW c
  PROVE  Scope(c) \in Scopes
BY DEF Scope, authenticate, Scopes

-----------------------------------------------------------------------------
(* What the tables of commands and of targets say.                         *)

\* The names and aliases of the commands that work in the mode the request names.
WorkCommands ==
  { "graph.add", "graph-add", "node-add", "graph.add_before", "graph-add-before",
    "node-add-before", "graph.add_after", "graph-add-after", "node-add-after", "graph.update",
    "graph-update", "node-update", "cron.create", "cron-add", "cron.create_chat", "cron.update",
    "cron-edit", "tool.execute", "execute-tool" }

\* A command that changes something always needs the permission to write, and one that
\* works in a mode has a rule that looks at it.
Guarded(c) ==
  /\ c.calls \in Changes =>
       c.rule \in {"cron", "graph", "role", "tool"} \/ (c.rule = "fixed" /\ c.permission = "write")
  /\ c.calls \in Works =>
       c.rule \in {"cron", "graph", "tool"} /\ c.name \in WorkCommands
         /\ c.aliases \subseteq WorkCommands
  /\ c.calls = "executeTool" => c.rule = "tool"

LEMMA ReadGuarded ==
  \A c \in doctorCommand \cup listCommands \cup queryCommands : Guarded(c)
<1>1. \A c \in doctorCommand : Guarded(c)
  BY DEF doctorCommand, Command, Guarded, Changes, Works
<1>2. \A c \in listCommands : Guarded(c)
  BY DEF listCommands, Read, Command, Guarded, Changes, Works
<1>3. \A c \in queryCommands : Guarded(c)
  BY DEF queryCommands, Read, ReadOf, Command, Guarded, Changes, Works
<1> QED BY <1>1, <1>2, <1>3

LEMMA SessionGuarded ==
  \A c \in sessionReadCommands \cup sessionWriteCommands \cup graphViewCommands : Guarded(c)
<1>1. \A c \in sessionReadCommands : Guarded(c)
  BY DEF sessionReadCommands, Read, ReadOf, Command, Guarded, Changes, Works
<1>2. \A c \in sessionWriteCommands : Guarded(c)
  BY DEF sessionWriteCommands, Write, WriteOf, Command, Guarded, Changes, Works
<1>3. \A c \in graphViewCommands : Guarded(c)
  BY DEF graphViewCommands, Read, ReadOf, Command, Guarded, Changes, Works
<1> QED BY <1>1, <1>2, <1>3

LEMMA ProviderGuarded ==
  \A c \in providerCommands \cup roleCommands \cup skillCandidateCommands : Guarded(c)
<1>1. \A c \in providerCommands : Guarded(c)
  BY DEF providerCommands, simpleProviderCommand, WriteOf, Command, Guarded, Changes, Works
<1>2. \A c \in roleCommands : Guarded(c)
  BY DEF roleCommands, Write, WriteOf, Command, Guarded, Changes, Works
<1>3. \A c \in skillCandidateCommands : Guarded(c)
  BY DEF skillCandidateCommands, Write, WriteOf, Command, Guarded, Changes, Works
<1> QED BY <1>1, <1>2, <1>3

LEMMA GraphGuarded ==
  \A c \in graphInsertCommands \cup graphEditCommands : Guarded(c)
<1>1. \A c \in graphInsertCommands : Guarded(c)
  BY DEF graphInsertCommands, Sibling, Command, Guarded, Changes, Works, WorkCommands
<1>2. \A c \in graphEditCommands : Guarded(c)
  BY DEF graphEditCommands, WriteOf, Command, Guarded, Changes, Works, WorkCommands
<1> QED BY <1>1, <1>2

LEMMA ControlGuarded ==
  \A c \in cronCommands \cup runtimeControlCommands : Guarded(c)
<1>1. \A c \in cronCommands : Guarded(c)
  BY DEF cronCommands, simpleCronCommand, Read, WriteOf, Command, Guarded, Changes, Works,
         WorkCommands
<1>2. \A c \in runtimeControlCommands : Guarded(c)
  BY DEF runtimeControlCommands, Write, WriteOf, Command, Guarded, Changes, Works, WorkCommands
<1> QED BY <1>1, <1>2

LEMMA CommandsGuarded == \A c \in Commands : Guarded(c)
BY ReadGuarded, SessionGuarded, ProviderGuarded, GraphGuarded, ControlGuarded DEF Commands

\* What is passed on in part only runs no such command.
Partial(t) == ~t.whole => t.command \notin WorkCommands

LEMMA MethodsPartial == \A t \in methodTargets : Partial(t)
<1>1. \A t \in sessionMethods \cup providerMethods \cup roleMethods : Partial(t)
  BY DEF sessionMethods, providerMethods, roleMethods, Via, Pass, Target, Partial, WorkCommands
<1>2. \A t \in knowledgeMethods \cup graphMethods : Partial(t)
  BY DEF knowledgeMethods, graphMethods, Via, Pass, Target, Partial, WorkCommands
<1>3. \A t \in reportMethods \cup cronMethods : Partial(t)
  BY DEF reportMethods, cronMethods, Via, Pass, Target, Partial, WorkCommands
<1> QED BY <1>1, <1>2, <1>3 DEF methodTargets

LEMMA RoutesPartial == \A t \in routeTargets : Partial(t)
<1>1. \A t \in providerRoutes \cup cronRoutes \cup roleRoutes : Partial(t)
  BY DEF providerRoutes, cronRoutes, roleRoutes, Get, Post, Whole, Via, Pass, Target, Partial,
         WorkCommands
<1>2. \A t \in sessionRoutes : Partial(t)
  BY DEF sessionRoutes, Get, Post, Via, Target, Partial, WorkCommands
<1>3. \A t \in graphRoutes \cup controlRoutes : Partial(t)
  BY DEF graphRoutes, controlRoutes, Get, Post, Whole, Via, Pass, Target, Partial, WorkCommands
<1> QED BY <1>1, <1>2, <1>3 DEF routeTargets

-----------------------------------------------------------------------------
(* What a request may come to.                                             *)

\* The fields of an invocation.
InvocationFields ==
  { "name", "given", "args", "typed", "deep", "repair", "mode", "metaMode", "tool", "tools",
    "approval" }

LEMMA Ranks ==
  ASSUME NEW limit
  PROVE  /\ permissionRank("danger") = 2 /\ permissionRank("write") = 1
         /\ permissionRank("read") = 0 /\ permissionRank("none") = 0
         /\ permissionRank(limit) \in {0, 1, 2}
         /\ permissionRank(limit) >= 1 => limit \in {"write", "danger"}
         /\ permissionRank(limit) >= 2 => limit = "danger"
BY DEF permissionRank

\* What an operation of the runtime needs of the permission of who asks for it.
Covered(op, params, limit) ==
  /\ op \in Changes => limit \in {"write", "danger"}
  /\ op \in Works /\ params.mode = "danger_full_access" => limit = "danger"
  /\ op = "executeTool" /\ resolve(params.tool).requiresApproval => limit = "danger"
  /\ op = "executeTool" /\ params.approval => limit = "danger"

\* CommandRegistry.run: the permission is that of the command's rule.
LEMMA RunCovered ==
  ASSUME NEW name, NEW params, NEW limit, NEW op \in run(name, params, limit)
  PROVE  /\ Covered(op, params, limit)
         /\ op \in Works => name \in WorkCommands
<1>1. PICK c \in resolveCommand(name) :
        c.calls = op /\ assertCommandPermission(c, params, limit)
  BY DEF run
<1>2. c \in Commands /\ (c.name = name \/ name \in c.aliases)
  BY DEF resolveCommand, Named
<1>3. Guarded(c)
  BY <1>2, CommandsGuarded
<1>4. permissionRank(permissionForInput(c, params)) <= permissionRank(limit)
  BY <1>1 DEF assertCommandPermission
<1> DEFINE needed == permissionForInput(c, params)
<1>5. ASSUME c.rule \in {"cron", "graph", "role", "tool"}
             \/ (c.rule = "fixed" /\ c.permission = "write")
      PROVE  needed \in {"write", "danger"}
  BY <1>5 DEF permissionForInput, DangerIf, toolExecutionPermission
<1>6. ASSUME c.rule \in {"cron", "graph", "tool"}, params.mode = "danger_full_access"
      PROVE  needed = "danger"
  BY <1>6 DEF permissionForInput, DangerIf, toolExecutionPermission
<1>7. ASSUME c.rule = "tool", params.approval \/ resolve(params.tool).requiresApproval
      PROVE  needed = "danger"
  BY <1>7 DEF permissionForInput, toolExecutionPermission, toolNeedsDanger
<1> HIDE DEF needed
<1>8. /\ needed \in {"write", "danger"} => limit \in {"write", "danger"}
      /\ needed = "danger" => limit = "danger"
  <2>1. permissionRank(needed) <= permissionRank(limit)
    BY <1>4 DEF needed
  <2> QED BY <2>1, Ranks
<1>9. op \in Works => op \in Changes
  BY DEF Works, Changes
<1> QED BY <1>1, <1>2, <1>3, <1>5, <1>6, <1>7, <1>8, <1>9 DEF Guarded, Covered

\* A command somebody names is run with read permission only.
LEMMA NamedCovered ==
  ASSUME NEW name, NEW params, NEW limit,
         NEW op \in scopeRuntime(name, params, "read", limit)
  PROVE  Covered(op, params, limit)
<1>1. minCommandPermission("read", limit) = "read"
  BY Ranks DEF minCommandPermission
<1>2. op \in run(name, params, "read")
  BY <1>1 DEF scopeRuntime
<1>3. op \notin Changes
  BY <1>2, RunCovered DEF Covered
<1>4. "executeTool" \in Changes /\ Works \subseteq Changes
  BY DEF Works, Changes
<1> QED BY <1>3, <1>4 DEF Covered

\* A target passes on all that permissions depend on, or runs a command that does no work.
LEMMA DirectedCovered ==
  ASSUME NEW targets, \A t \in targets : Partial(t), NEW via, NEW params, NEW limit,
         DOMAIN params = InvocationFields, NEW op \in Directed(targets, via, params, limit)
  PROVE  Covered(op, params, limit)
<1>1. PICK t \in targets : op \in scopeRuntime(t.command, Passed(t, params), "none", limit)
  BY DEF Directed
<1>2. minCommandPermission("none", limit) = limit
  BY DEF minCommandPermission
<1> DEFINE passed == Passed(t, params)
<1>3. Covered(op, passed, limit) /\ (op \in Works => t.command \in WorkCommands)
  BY <1>1, <1>2, RunCovered DEF scopeRuntime
<1>4. CASE t.whole
  <2> DEFINE k == [params EXCEPT !.args = 0]
  <2>1. passed = [k EXCEPT !.given = @ \cup t.fills]
    BY <1>4 DEF Passed
  <2>2. /\ k.mode = params.mode /\ k.tool = params.tool /\ k.approval = params.approval
        /\ DOMAIN k = InvocationFields
    BY DEF InvocationFields
  <2> HIDE DEF k, passed
  <2>3. passed.mode = params.mode /\ passed.tool = params.tool /\ passed.approval = params.approval
    BY <2>1, <2>2 DEF InvocationFields
  <2> QED BY <1>3, <2>3 DEF Covered
<1>5. CASE ~t.whole
  <2>1. op \notin Works /\ "executeTool" \in Works
    BY <1>3, <1>5 DEF Partial, Works
  <2> QED BY <1>3, <2>1 DEF Covered
<1> QED BY <1>4, <1>5

LEMMA ChatCovered ==
  ASSUME NEW params, NEW limit, NEW op \in chat(params, limit)
  PROVE  /\ op = "handleUserMessage"
         /\ params.mode = "danger_full_access" => limit = "danger"
<1> DEFINE most == maxPermissionModeForCommandPermission(limit)
<1>1. /\ op = "handleUserMessage"
      /\ clampPermissionMode(parsePermissionMode(params.mode), most)
           = parsePermissionMode(params.mode)
  BY DEF chat, assertPermissionModeWithinCommandPermission
<1>2. most \in {"read_only", "workspace_write", "danger_full_access"}
      /\ (most = "danger_full_access" => limit = "danger")
  BY DEF maxPermissionModeForCommandPermission
<1> HIDE DEF most
<1>3. ASSUME params.mode = "danger_full_access" PROVE most = "danger_full_access"
  <2>1. parsePermissionMode(params.mode) = "danger_full_access"
    BY <1>3 DEF parsePermissionMode
  <2>2. /\ Rank("read_only") = 0 /\ Rank("workspace_write") = 1
        /\ Rank("danger_full_access") = 2
    BY DEF Rank
  <2> QED BY <1>1, <1>2, <2>1, <2>2 DEF clampPermissionMode, parsePermissionMode
<1> QED BY <1>1, <1>2, <1>3

\* GatewayProtocol.ts: what a method of the gateway comes to.
LEMMA DispatchCovered ==
  ASSUME NEW method, NEW params, NEW limit, DOMAIN params = InvocationFields,
         NEW op \in dispatchGatewayRequest(method, params, limit)
  PROVE  Covered(op, params, limit)
<1>1. /\ op \in dispatch(method, params, limit)
      /\ permissionRank(gatewayMethodPermission(method, params)) <= permissionRank(limit)
  BY DEF dispatchGatewayRequest, assertGatewayMethodPermission
<1>2. CASE method = "chat.send"
  <2>1. op \in chat(params, limit)
    BY <1>1, <1>2 DEF dispatch
  <2>2. gatewayMethodPermission(method, params) = "write"
    BY <1>2 DEF gatewayMethodPermission, READ_GATEWAY_METHODS
  <2>3. limit \in {"write", "danger"}
    BY <1>1, <2>2, Ranks
  <2> QED BY <2>1, <2>3, ChatCovered DEF Covered
<1>3. CASE method = "commands.list"
  <2>1. op = "listCommands"
    BY <1>1, <1>3 DEF dispatch
  <2> QED BY <2>1 DEF Covered, Changes, Works
<1>4. CASE method = "commands.run"
  BY <1>1, <1>4, NamedCovered DEF dispatch
<1>5. CASE method \notin {"chat.send", "commands.list", "commands.run"}
  <2>1. \/ op \in Directed(methodTargets, "diagnostics.repair", params, limit)
        \/ op \in Directed(methodTargets, method, params, limit)
    BY <1>1, <1>5 DEF dispatch
  <2> QED BY <2>1, MethodsPartial, DirectedCovered
<1> QED BY <1>2, <1>3, <1>4, <1>5

\* web.ts: what a route comes to.
LEMMA HandleCovered ==
  ASSUME NEW route, NEW params, NEW limit, NEW sameOrigin, DOMAIN params = InvocationFields,
         NEW op \in handle(route, params, limit, sameOrigin)
  PROVE  Covered(op, params, limit) /\ limit # "none"
<1>1. op \in serve(route, params, limit) /\ Gate(limit, route[1], sameOrigin)
  BY DEF handle
<1>2. CASE route = <<"POST", "/chat">>
  <2>1. op \in chat(params, limit) /\ route[1] = "POST"
    BY <1>1, <1>2 DEF serve
  <2>2. limit \in {"write", "danger"}
    BY <1>1, <2>1, Ranks DEF Gate, isUnsafeMethod, canUsePermission
  <2> QED BY <2>1, <2>2, ChatCovered DEF Covered
<1>3. CASE route = <<"GET", "/commands">>
  <2>1. op = "listCommands"
    BY <1>1, <1>3 DEF serve
  <2> QED BY <1>1, <2>1 DEF Covered, Changes, Works, Gate
<1>4. CASE route = <<"POST", "/commands/run">>
  <2>1. op \in scopeRuntime(params.name, params, "read", limit)
    BY <1>1, <1>4 DEF serve
  <2> QED BY <1>1, <2>1, NamedCovered DEF Gate
<1>5. CASE route \notin {<<"POST", "/chat">>, <<"GET", "/commands">>, <<"POST", "/commands/run">>}
  <2>1. op \in Directed(routeTargets, route, params, limit)
    BY <1>1, <1>5 DEF serve
  <2> QED BY <1>1, <2>1, RoutesPartial, DirectedCovered DEF Gate
<1> QED BY <1>2, <1>3, <1>4, <1>5

-----------------------------------------------------------------------------
(* All steps.                                                              *)

Given ==
  /\ MaxInFlight \in Nat /\ IdleTimeout \in Nat
  /\ \A m \in Frames : DOMAIN m.params = InvocationFields
  /\ \A r \in Requests : DOMAIN r.params = InvocationFields

IInv == Typed /\ Balanced /\ Authenticated /\ ScopesHold

\* The connection goes on as d, and nothing is done for it.
LEMMA QuietKeeps ==
  ASSUME IInv, NEW d, NEW answer, conn' = d, now' \in Int,
         (last' = Nothing /\ answer = "none") \/ last' = Answered(answer),
         Counts(d, d.pending, d.pending, d.pending), d.pending \in 0..MaxInFlight,
         answer = "busy" => d.pending = MaxInFlight,
         d.state \in Live => d.scope # "none"
  PROVE  IInv'
<1>1. last'.calls = {} /\ last'.answer = answer
  BY DEF Nothing, Answered
<1>2. ScopesHold'
  BY <1>1 DEF ScopesHold
<1> QED BY <1>1, <1>2 DEF IInv, Typed, Balanced, Authenticated, Counts

LEMMA HttpKeeps ==
  ASSUME IInv, Given, NEW r \in Requests, NEW c, HttpRequest(r, c)
  PROVE  IInv'
<1>1. /\ UNCHANGED <<conn, now>>
      /\ last' = [scope |-> Scope(c), calls |-> handle(r.route, r.params, Scope(c), r.sameOrigin),
                  params |-> {r.params}, answer |-> "none"]
  BY DEF HttpRequest
<1>2. \A op \in last'.calls : Covered(op, r.params, Scope(c)) /\ Scope(c) # "none"
  BY <1>1, HandleCovered DEF Given
<1>3. last'.scope = Scope(c) /\ last'.params = {r.params} /\ last'.answer = "none"
  BY <1>1
<1>4. ScopesHold'
  BY <1>2, <1>3 DEF ScopesHold, Covered
<1> QED BY <1>1, <1>3, <1>4 DEF IInv, Typed, Balanced, Authenticated

LEMMA UpgradeKeeps ==
  ASSUME IInv, Given, NEW c, NEW sameOrigin, Upgrade(c, sameOrigin)
  PROVE  IInv'
<1> DEFINE d == [state |-> "open", scope |-> Scope(c), owed |-> 0, pending |-> 0, inFlight |-> 0,
                 windowStartedAt |-> now, messagesInWindow |-> 0, idleAt |-> now + IdleTimeout]
           e == [Closed EXCEPT !.state = "down"]
<1>1. conn' = d \/ conn' = e
  BY DEF Upgrade, Closed
<1>2. now' = now /\ last' = Nothing /\ Scope(c) # "none" /\ Scope(c) \in Scopes
  BY ScopesAre DEF Upgrade
<1>3. Counts(d, 0, 0, 0) /\ Counts(e, 0, 0, 0) /\ d.scope # "none" /\ e.state \notin Live
  BY <1>2 DEF Counts, Connection, Closed, IInv, Typed, Given, Scopes, Live
<1>4. d.pending = 0 /\ e.pending = 0 /\ 0 \in 0..MaxInFlight
  BY <1>3 DEF Counts, Given
<1> HIDE DEF d, e
<1> QED BY <1>1, <1>2, <1>3, <1>4, QuietKeeps DEF IInv, Typed

\* A connection that follows is still that of who presented a token.
LEMMA Followed ==
  ASSUME Authenticated, NEW d, Follows(d, conn)
  PROVE  d.state \in Live => d.scope # "none"
BY DEF Authenticated, Follows

LEMMA MessageKeeps ==
  ASSUME IInv, Given, NEW m \in Frames, conn.state \in Live, OnMessage(m), now' = now
  PROVE  IInv'
<1>1. /\ conn \in Connection /\ conn.pending \in Int /\ conn.owed = conn.pending
      /\ conn.inFlight = conn.pending /\ conn.pending \in 0..MaxInFlight /\ MaxInFlight \in Nat
      /\ IdleTimeout \in Nat /\ Typed /\ Authenticated /\ now' \in Int
  BY DEF IInv, Typed, Balanced, Connection, Given
<1>2. /\ Counts(Received(conn), conn.pending + 1, conn.pending, conn.pending)
      /\ Follows(Received(conn), conn)
      /\ Counts(Counted, conn.pending + 1, conn.pending, conn.pending)
      /\ Follows(Counted, conn)
  BY <1>1, ReceivedCounts, CountedCounts
<1>3. /\ Received(conn) \in Connection /\ Counted \in Connection
      /\ Received(conn).owed = conn.pending + 1 /\ Counted.owed = conn.pending + 1
      /\ Received(conn).pending = conn.pending /\ Counted.pending = conn.pending
      /\ Received(conn).inFlight = conn.pending /\ Counted.inFlight = conn.pending
  BY <1>2 DEF Counts
<1>4. /\ Counts(Sent(Received(conn)), conn.pending, conn.pending, conn.pending)
      /\ Counts(Sent(Counted), conn.pending, conn.pending, conn.pending)
      /\ Follows(Sent(Received(conn)), Received(conn)) /\ Follows(Sent(Counted), Counted)
  BY <1>1, <1>3, SentCounts
<1>5. Follows(Sent(Received(conn)), conn) /\ Follows(Sent(Counted), conn)
  BY <1>2, <1>4 DEF Follows
<1>6. Sent(Received(conn)).pending = conn.pending /\ Sent(Counted).pending = conn.pending
  BY <1>4 DEF Counts
<1>7. ASSUME Turned(Received(conn), "invalid") PROVE IInv'
  BY <1>1, <1>4, <1>5, <1>6, <1>7, Followed, QuietKeeps DEF Turned
<1>8. ASSUME NEW answer, Turned(Counted, answer), answer = "busy" => Busy PROVE IInv'
  <2>1. answer = "busy" => conn.pending = MaxInFlight
    BY <1>1, <1>3, <1>8 DEF Busy
  <2> QED BY <1>1, <1>4, <1>5, <1>6, <1>8, <2>1, Followed, QuietKeeps DEF Turned
<1>9. ASSUME Taken(Counted, m), Free PROVE IInv'
  <2>1. /\ Counts(Accepted(Counted), conn.pending + 1, conn.pending + 1, conn.pending + 1)
        /\ Follows(Accepted(Counted), Counted)
    BY <1>3, AcceptedCounts
  <2>2. conn.pending + 1 \in 0..MaxInFlight
    BY <1>1, <1>3, <1>9 DEF Free, Busy
  <2>3. /\ conn' = Accepted(Counted)
        /\ last' = [scope |-> Counted.scope,
                    calls |-> dispatchGatewayRequest(m.method, m.params, Counted.scope),
                    params |-> {m.params}, answer |-> "none"]
    BY <1>9 DEF Taken
  <2>4. Counted.scope # "none"
    BY <1>1, <1>2 DEF Follows, Authenticated
  <2>5. \A op \in last'.calls : Covered(op, m.params, Counted.scope)
    BY <2>3, DispatchCovered DEF Given
  <2>6. ScopesHold'
    <3>1. last'.scope = Counted.scope /\ last'.params = {m.params}
      BY <2>3
    <3> QED BY <2>4, <2>5, <3>1 DEF ScopesHold, Covered
  <2>7. Authenticated'
    BY <1>1, <1>2, <2>1, <2>3 DEF Follows, Authenticated
  <2>8. last'.answer = "none"
    BY <2>3
  <2> QED BY <1>1, <2>1, <2>2, <2>3, <2>6, <2>7, <2>8 DEF IInv, Typed, Balanced, Counts
<1> QED BY <1>7, <1>8, <1>9 DEF OnMessage

LEMMA PushKeeps ==
  ASSUME IInv, Given, NEW m \in Frames, Push(m)
  PROVE  IInv'
<1>1. conn.state \in Live /\ now' = now
  BY DEF Push, Live
<1>2. CASE OnMessage(m)
  BY <1>1, <1>2, MessageKeeps
<1>3. CASE conn' \in {Ended(Written(conn)), Ended(conn), Written(conn), conn} /\ last' = Nothing
  <2>1. conn \in Connection /\ conn.owed = conn.pending /\ conn.inFlight = conn.pending
        /\ conn.pending \in 0..MaxInFlight /\ Authenticated /\ now' \in Int
    BY <1>1 DEF IInv, Typed, Balanced
  <2> DEFINE Good(d) == Counts(d, conn.pending, conn.pending, conn.pending) /\ Follows(d, conn)
  <2>2. Good(conn) /\ Good(Written(conn)) /\ Good(Ended(conn))
    BY <2>1, WrittenCounts, EndedCounts DEF Counts, Follows
  <2>3. Good(Ended(Written(conn)))
    BY <2>2, EndedCounts DEF Counts, Follows
  <2>4. Good(conn')
    BY <1>3, <2>2, <2>3
  <2>5. /\ conn'.pending = conn.pending
        /\ Counts(conn', conn'.pending, conn'.pending, conn'.pending)
        /\ conn'.state \in Live => conn'.scope # "none"
    BY <2>1, <2>4, Followed DEF Counts
  <2> HIDE DEF Good
  <2> DEFINE d == conn'
  <2>6. d = conn' /\ d.pending = conn.pending
    BY <2>5
  <2> QED BY <1>3, <2>1, <2>5, QuietKeeps
<1> QED BY <1>2, <1>3 DEF Push

LEMMA HandlerKeeps ==
  ASSUME IInv, Given, HandlerEnds
  PROVE  IInv'
<1>1. PICK recorded \in BOOLEAN : conn' = Finished(Sent(conn), recorded)
  BY DEF HandlerEnds
<1>2. PICK answer \in {"response", "handler_error"} : last' = Answered(answer)
  BY DEF HandlerEnds
<1>3. conn \in Connection /\ conn.owed = conn.pending /\ conn.inFlight = conn.pending
      /\ conn.pending \in 0..MaxInFlight /\ Authenticated /\ now' \in Int
      /\ conn.pending > 0 /\ conn.pending \in Int
  BY DEF IInv, Typed, Balanced, HandlerEnds, Connection
<1> DEFINE d == Finished(Sent(conn), recorded)
<1>4. /\ Counts(Sent(conn), conn.pending - 1, conn.pending, conn.pending)
      /\ Follows(Sent(conn), conn)
  BY <1>3, SentCounts
<1>5. /\ Counts(d, conn.pending - 1, conn.pending - 1, conn.pending - 1)
      /\ Follows(d, Sent(conn))
  BY <1>4, FinishedCounts DEF Counts
<1>6. Follows(d, conn) /\ d.pending = conn.pending - 1
  BY <1>4, <1>5 DEF Follows, Counts
<1> HIDE DEF d
<1>7. conn.pending - 1 \in 0..MaxInFlight
  BY <1>3 DEF Given
<1>8. conn' = d
  BY <1>1 DEF d
<1> QED BY <1>2, <1>3, <1>5, <1>6, <1>7, <1>8, Followed, QuietKeeps

LEMMA InitHolds == Given /\ Init => IInv
BY DEF Given, Init, IInv, Typed, Balanced, Authenticated, ScopesHold, Closed, Nothing,
       Connection, Scopes, Live

LEMMA NextKeeps == Given /\ IInv /\ [Next]_vars => IInv'
<1> SUFFICES ASSUME Given, IInv, [Next]_vars PROVE IInv'
  OBVIOUS
<1>1. CASE UNCHANGED vars
  BY <1>1 DEF vars, IInv, Typed, Balanced, Authenticated, ScopesHold
<1>2. CASE RuntimeEvent \/ IdleTimeoutFires \/ PeerCloses \/ Tick
  <2>1. conn \in Connection /\ conn.owed = conn.pending /\ conn.inFlight = conn.pending
        /\ conn.pending \in 0..MaxInFlight /\ Authenticated /\ now' \in Int
    BY <1>2 DEF IInv, Typed, Balanced, RuntimeEvent, IdleTimeoutFires, PeerCloses, Tick
  <2> DEFINE closed == [conn EXCEPT !.state = "closed", !.scope = "none"]
  <2>2. conn' \in {Written(conn), Ended(conn), conn, closed} /\ last' = Nothing
    BY <1>2 DEF RuntimeEvent, IdleTimeoutFires, PeerCloses, Tick
  <2> DEFINE Good(d) == /\ Counts(d, conn.pending, conn.pending, conn.pending)
                        /\ d.state \in Live => d.scope # "none"
  <2>3. Good(conn) /\ Good(Written(conn)) /\ Good(Ended(conn))
    BY <2>1, WrittenCounts, EndedCounts, Followed DEF Counts, Follows
  <2>4. Good(closed)
    <3> DEFINE k == [conn EXCEPT !.state = "closed"]
    <3>1. Counts(k, conn.pending, conn.pending, conn.pending) /\ k.state = "closed"
      BY <2>1 DEF Counts, Connection
    <3>2. closed = [k EXCEPT !.scope = "none"]
      OBVIOUS
    <3> HIDE DEF k, closed
    <3> QED BY <3>1, <3>2 DEF Counts, Connection, Scopes, Live
  <2>5. Good(conn')
    BY <2>2, <2>3, <2>4
  <2>6. /\ conn'.pending = conn.pending
        /\ Counts(conn', conn'.pending, conn'.pending, conn'.pending)
    BY <2>5 DEF Counts
  <2> QED BY <2>1, <2>2, <2>5, <2>6, QuietKeeps
<1> QED
  BY <1>1, <1>2, HttpKeeps, UpgradeKeeps, PushKeeps, HandlerKeeps DEF Next

LEMMA Answers == IInv => EveryMessageIsAnswered
BY DEF IInv, Balanced, EveryMessageIsAnswered
=============================================================================
