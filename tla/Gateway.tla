------------------------------- MODULE Gateway -------------------------------
(***************************************************************************)
(* The web server's requests and a gateway connection over WebSocket       *)
(* (adapters/web.ts, gateway/GatewayProtocol.ts).  Connections share       *)
(* nothing but the runtime, so one is enough.                              *)
(*                                                                         *)
(* A frame of the connection is a record [kind, body, method, params] with *)
(* kind text, ping, other, close or broken, and a text's body garbage (not *)
(* JSON), malformed (no request) or request.  A command starts when its    *)
(* request is accepted; its answer comes when its handler ends, in any     *)
(* order.  The event store may refuse an event (`left.faults`).  A write   *)
(* to a socket that was ended is an error nobody listens to: it stops the  *)
(* process (conn.state "down"); connections reset by the peer are left     *)
(* out.  `last` is the outcome of the last step: who asked for what, what  *)
(* the runtime was called for, and how the request was answered.           *)
(***************************************************************************)
EXTENDS GatewayRules

CONSTANTS
  Frames,         \* what clients send over a connection
  Requests,       \* what clients send over HTTP: [route, params, sameOrigin]
  Tokens,         \* the tokens that are configured: a subset of {"read", "write"}
  Credentials,    \* how clients present themselves: [token, query, loopback]
  MaxInFlight,    \* GATEWAY_MAX_IN_FLIGHT
  MaxMessages,    \* GATEWAY_MAX_MESSAGES_PER_WINDOW
  RateWindow,     \* GATEWAY_RATE_WINDOW_MS
  IdleTimeout,    \* GATEWAY_IDLE_TIMEOUT_MS
  MaxNow, MaxInputs, MaxFaults    \* bounds of a run

VARIABLES conn, now, last, left
vars == <<conn, now, last, left>>

\* `owed`, the messages without an answer, and `pending`, the handlers that run, are
\* what the code does not count; `inFlight` is what it does.
Closed ==
  [state |-> "closed", scope |-> "none", owed |-> 0, pending |-> 0, inFlight |-> 0,
   windowStartedAt |-> 0, messagesInWindow |-> 0, idleAt |-> 0]

Nothing == [scope |-> "none", calls |-> {}, params |-> {}, answer |-> "none"]
Answered(answer) == [Nothing EXCEPT !.answer = answer]
Scope(credentials) ==
  authenticate(credentials.token, credentials.query, credentials.loopback, Tokens)

Init ==
  /\ conn = Closed
  /\ now = 0
  /\ last = Nothing
  /\ left = [inputs |-> MaxInputs, faults |-> MaxFaults]

Input == left.inputs > 0 /\ left' = [left EXCEPT !.inputs = @ - 1]
Fault == left.faults > 0 /\ left' = [left EXCEPT !.faults = @ - 1]
InputFault ==
  /\ left.inputs > 0 /\ left.faults > 0
  /\ left' = [left EXCEPT !.inputs = @ - 1, !.faults = @ - 1]

\* A request over HTTP.
HttpRequest(r, credentials) ==
  /\ Input
  /\ conn.state # "down"
  /\ LET scope == Scope(credentials)
     IN  last' = [scope |-> scope, calls |-> handle(r.route, r.params, scope, r.sameOrigin),
                  params |-> {r.params}, answer |-> "none"]
  /\ UNCHANGED <<conn, now>>

\* An upgrade is refused without a token or from another origin.  It records the connection:
\* an event that cannot be stored is an error nobody catches.
Upgrade(credentials, sameOrigin) ==
  /\ conn.state = "closed"
  /\ Scope(credentials) # "none" /\ sameOrigin
  /\ \/ /\ conn' = [Closed EXCEPT !.state = "open", !.scope = Scope(credentials),
                                  !.windowStartedAt = now, !.idleAt = now + IdleTimeout]
        /\ UNCHANGED left
     \/ Fault /\ conn' = [Closed EXCEPT !.state = "down"]
  /\ last' = Nothing
  /\ UNCHANGED now

\* Writing: to an ended socket it is an uncaught error, to a closed one it is lost.
Written(c) == IF c.state = "ended" THEN [c EXCEPT !.state = "down"] ELSE c
Sent(c) == [Written(c) EXCEPT !.owed = @ - 1]

\* The socket is ended by the server.
Ended(c) == IF c.state = "open" THEN [c EXCEPT !.state = "ended"] ELSE c

consume(c) ==
  IF now - c.windowStartedAt >= RateWindow
  THEN [c EXCEPT !.windowStartedAt = now, !.messagesInWindow = 1]
  ELSE [c EXCEPT !.messagesInWindow = @ + 1]

Accepted(c) == [c EXCEPT !.inFlight = @ + 1, !.pending = @ + 1]

MutFinished(c, recorded) ==
  [c EXCEPT !.pending = @ - 1, !.inFlight = IF recorded THEN @ - 1 ELSE @]

\* A handler that ended: `finally` counts it down, whether its answer was `recorded` or not.
Finished(c, recorded) == [c EXCEPT !.pending = @ - 1, !.inFlight = @ - 1]

Received(c) == [c EXCEPT !.owed = @ + 1, !.idleAt = now + IdleTimeout]

\* A message that is answered at once, and one that a handler takes.
Turned(c, answer) == conn' = Sent(c) /\ last' = Answered(answer)
Taken(c, m) ==
  /\ conn' = Accepted(c)
  /\ last' = [scope |-> c.scope, calls |-> dispatchGatewayRequest(m.method, m.params, c.scope),
              params |-> {m.params}, answer |-> "none"]

Counted == consume(Received(conn))
OverLimit == Counted.messagesInWindow > MaxMessages
Busy == ~OverLimit /\ Counted.inFlight >= MaxInFlight
Free == ~OverLimit /\ ~Busy

\* The first check that fails answers: JSON, the rate, the requests in flight, the request's
\* form, its event.  Garbage is not counted.
OnMessage(m) ==
  \/ m.body = "garbage" /\ Input /\ Turned(Received(conn), "invalid")
  \/ m.body # "garbage" /\ OverLimit /\ Input /\ Turned(Counted, "rate_limited")
  \/ m.body # "garbage" /\ Busy /\ Input /\ Turned(Counted, "busy")
  \/ m.body = "malformed" /\ Free /\ Input /\ Turned(Counted, "invalid")
  \/ m.body = "request" /\ Free /\ Input /\ Taken(Counted, m)
  \/ m.body = "request" /\ Free /\ InputFault /\ Turned(Counted, "invalid")

\* WebSocketConnection.push, one frame; frames other than text, close and ping are skipped.
Push(m) ==
  /\ conn.state \in {"open", "ended"}
  /\ UNCHANGED now
  /\ \/ m.kind = "text" /\ OnMessage(m)
     \/ m.kind = "broken" /\ Input /\ conn' = Ended(Written(conn)) /\ last' = Nothing
     \/ m.kind = "close" /\ Input /\ conn' = Ended(conn) /\ last' = Nothing
     \/ m.kind = "ping" /\ Input /\ conn' = Written(conn) /\ last' = Nothing
     \/ m.kind = "other" /\ Input /\ UNCHANGED conn /\ last' = Nothing

\* A handler ends: its answer is stored as an event and sent, or, when it cannot be
\* stored, an error is.
HandlerEnds ==
  /\ conn.pending > 0
  /\ conn.state # "down"
  /\ \/ UNCHANGED left /\ conn' = Finished(Sent(conn), TRUE) /\ last' = Answered("response")
     \/ Fault /\ conn' = Finished(Sent(conn), FALSE) /\ last' = Answered("handler_error")
  /\ UNCHANGED now

\* An event of the role agents is sent until the socket is closed.
RuntimeEvent ==
  /\ conn.state = "ended"
  /\ conn' = Written(conn)
  /\ last' = Nothing
  /\ UNCHANGED <<now, left>>

IdleTimeoutFires ==
  /\ conn.state = "open" /\ now >= conn.idleAt
  /\ conn' = Ended(conn)
  /\ last' = Nothing
  /\ UNCHANGED <<now, left>>

\* The client closes its side, or goes away.
PeerCloses ==
  /\ conn.state = "ended"
  /\ conn' = [conn EXCEPT !.state = "closed", !.scope = "none"]
  /\ last' = Nothing
  /\ UNCHANGED <<now, left>>

Tick == now < MaxNow /\ now' = now + 1 /\ last' = Nothing /\ UNCHANGED <<conn, left>>

Next ==
  \/ \E r \in Requests, c \in Credentials : HttpRequest(r, c)
  \/ \E c \in Credentials, sameOrigin \in BOOLEAN : Upgrade(c, sameOrigin)
  \/ \E m \in Frames : Push(m)
  \/ HandlerEnds
  \/ RuntimeEvent
  \/ IdleTimeoutFires
  \/ PeerCloses
  \/ Tick

-----------------------------------------------------------------------------
(* Properties.                                                             *)

\* The operations of the runtime that change what it keeps.
Changes ==
  { "handleUserMessage", "createSession", "clearSession", "restoreSession", "trashSession",
    "cancelTask", "cancelRun", "addProvider", "enableProvider", "disableProvider",
    "removeProvider", "updateSettings", "addRole", "updateRoleProvider",
    "initializeDefaultRoles", "executeTool", "buildSkillCandidates", "approveSkillCandidate",
    "rejectSkillCandidate", "buildDailyExperiences", "addExperienceFeedback",
    "addTaskMindMapNode", "addTaskMindMapNodeBefore", "addTaskMindMapNodeAfter",
    "updateTaskMindMapNode", "deleteTaskMindMapNode", "repair", "maintenance",
    "createCronJob", "updateCronJob", "pauseCronJob", "resumeCronJob", "deleteCronJob",
    "runCronJob" }

\* Those that plan or do work in a mode that the request may name.
Works ==
  { "handleUserMessage", "executeTool", "createCronJob", "updateCronJob", "addTaskMindMapNode",
    "addTaskMindMapNodeBefore", "addTaskMindMapNodeAfter", "updateTaskMindMapNode" }

\* Each way checks a request on its own - a method of the gateway, a route, a command by any of
\* its names - and all come to the same: nothing is called that changes the runtime for a caller
\* with read permission; full access named in the request's inputs, an approval given there and
\* a tool that needs one take danger permission. It is about what the request itself names. A
\* mode that is found elsewhere is not checked again: that of the task an executeTool names
\* (createRuntime.ts 307), that of the run a graph is edited in, those in the action of a cron
\* job, by which its command runs (createRuntime.ts 428-440); nor does a doctor with repair ask
\* for more because it is deep (CommandRegistry.ts 94-97).
ScopesHold ==
  \A op \in last.calls :
    /\ last.scope # "none"
    /\ op \in Changes => last.scope # "read"
    /\ \A p \in last.params :
         /\ op \in Works /\ p.mode = "danger_full_access" => last.scope = "danger"
         /\ op = "executeTool" /\ resolve(p.tool).requiresApproval => last.scope = "danger"
         /\ op = "executeTool" /\ p.approval => last.scope = "danger"

\* While a connection is open each of its messages has had its one answer or has a handler
\* that will give it, the count of requests in flight is that of the handlers, so that no
\* request is turned away as busy unless the connection really has all the requests it may,
\* and it never has more.
EveryMessageIsAnswered ==
  conn.state = "open" =>
    /\ conn.owed = conn.pending
    /\ conn.inFlight = conn.pending
    /\ conn.inFlight \in 0..MaxInFlight
    /\ last.answer = "busy" => conn.pending = MaxInFlight
=============================================================================
