---------------------------- MODULE GatewayRules ----------------------------
(***************************************************************************)
(* What a request to the running program may come to, and for whom: the    *)
(* methods of the gateway (gateway/GatewayProtocol.ts) and the routes of   *)
(* the web server (adapters/web.ts), each of which runs a command with     *)
(* part of the request as its input.                                       *)
(*                                                                         *)
(* A request's parameters are an invocation of CommandRules with the       *)
(* `name` of a command.  A result is the set of operations of the runtime  *)
(* that it calls: none when it is refused, or one.  Keys that only shape   *)
(* the answer (limits, formats, filters) and routes without a command      *)
(* (pages, health, event streams) are left out.                            *)
(***************************************************************************)
EXTENDS CommandRules

\* A request `via` that runs `command`: with the whole of its parameters, or with the
\* listed ones only; `fills` are inputs that get a value when they are missing.
Target(via, command, whole, keys, fills) ==
  [via |-> via, command |-> command, whole |-> whole, keys |-> keys, fills |-> fills]

Via(via, command, keys) == Target(via, command, FALSE, keys, {})
Pass(via, command) == Target(via, command, TRUE, {}, {})

Passed(target, params) ==
  IF target.whole
  THEN [params EXCEPT !.args = 0, !.given = @ \cup target.fills]
  ELSE [params EXCEPT !.args = 0, !.given = @ \cap target.keys, !.typed = TRUE,
                      !.deep = @ /\ "deep" \in target.keys,
                      !.repair = @ /\ "repair" \in target.keys,
                      !.mode = "none", !.metaMode = "none", !.tool = "none",
                      !.tools = {}, !.approval = FALSE]

-----------------------------------------------------------------------------
(* The gateway.                                                            *)

sessionMethods ==
  { Via("sessions.list", "session.list", {}), Via("sessions.create", "session.create", {}),
    Via("sessions.clear", "session.clear", {"sessionId"}),
    Via("sessions.restore", "session.restore", {"sessionId"}),
    Via("sessions.trash", "session.trash", {"sessionId"}),
    Via("tasks.cancel", "task.cancel", {"taskId"}), Via("runs.cancel", "run.cancel", {"runId"}) }

providerMethods ==
  { Via("providers.list", "providers", {}), Pass("providers.add", "provider.add"),
    Via("providers.enable", "provider.enable", {"providerId"}),
    Via("providers.disable", "provider.disable", {"providerId"}),
    Via("providers.remove", "provider.remove", {"providerId"}),
    Via("providers.health", "provider.health", {"deep"}),
    Via("providers.usage", "provider.usage", {}) }

roleMethods ==
  { Via("roles.list", "roles", {}), Pass("roles.add", "role.add"),
    Via("roles.update_provider", "role.update_provider", {"name"}),
    Via("roles.defaults", "role.initialize_defaults", {}),
    Via("tools.list", "tools", {}), Pass("tools.execute", "tool.execute") }

knowledgeMethods ==
  { Via("skills.list", "skills", {}), Via("skills.candidates.list", "skills.candidates.list", {}),
    Pass("skills.candidates.build", "skills.candidates.build"),
    Via("skills.candidates.approve", "skills.candidates.approve", {"candidateId"}),
    Via("skills.candidates.reject", "skills.candidates.reject", {"candidateId"}),
    Via("experiences.recall", "experiences.recall", {}),
    Pass("experiences.build_daily", "experiences.build_daily"),
    Via("experiences.feedback", "experiences.feedback", {"experienceId", "rating"}) }

graphMethods ==
  { Via("timeline.get", "timeline.get", {"runId"}), Via("dag.list", "dag.list", {}),
    Via("graph.view", "graph.view", {"runId"}),
    Via("graph.node", "graph.node", {"runId", "selector"}),
    Pass("graph.add", "graph.add"), Pass("graph.add_before", "graph.add_before"),
    Pass("graph.add_after", "graph.add_after"), Pass("graph.update", "graph.update"),
    Pass("graph.delete", "graph.delete") }

reportMethods ==
  { Via("diagnostics.run", "diagnostics.run", {}),
    Via("diagnostics.repair", "diagnostics.repair", {}),
    Via("doctor.run", "doctor", {"deep", "repair"}), Pass("maintenance.run", "maintenance.run"),
    Via("security.audit", "security.audit", {}),
    Via("sessions.resume_latest", "session.resume_latest", {}),
    Via("sessions.export", "session.export", {"sessionId"}),
    Via("sessions.compact_preview", "session.compact_preview", {"sessionId"}),
    Via("sessions.usage", "session.usage", {"sessionId"}) }

cronMethods ==
  { Via("cron.list", "cron.list", {}), Pass("cron.create", "cron.create"),
    Pass("cron.update", "cron.update"), Via("cron.pause", "cron.pause", {"id"}),
    Via("cron.resume", "cron.resume", {"id"}), Via("cron.delete", "cron.delete", {"id"}),
    Via("cron.run", "cron.run", {"id"}), Via("context.build", "context.build", {}),
    Via("router.route", "router.route", {}) }

methodTargets ==
  sessionMethods \cup providerMethods \cup roleMethods \cup knowledgeMethods \cup graphMethods
  \cup reportMethods \cup cronMethods

GATEWAY_METHODS ==
  {t.via : t \in methodTargets} \cup {"chat.send", "commands.list", "commands.run"}

READ_GATEWAY_METHODS ==
  { "sessions.list", "providers.list", "providers.health", "providers.usage", "roles.list",
    "tools.list", "skills.list", "skills.candidates.list", "experiences.recall", "timeline.get",
    "dag.list", "graph.view", "graph.node", "diagnostics.run", "doctor.run", "security.audit",
    "sessions.resume_latest", "sessions.export", "sessions.compact_preview", "sessions.usage",
    "commands.list", "commands.run", "cron.list", "context.build", "router.route" }

gatewayMethodPermission(method, params) ==
  IF method \in {"doctor.run", "diagnostics.run"} /\ params.repair THEN "write"
  ELSE IF method \in READ_GATEWAY_METHODS THEN "read" ELSE "write"

assertGatewayMethodPermission(method, params, limit) ==
  permissionRank(gatewayMethodPermission(method, params)) <= permissionRank(limit)

chat(params, limit) ==
  {op \in {"handleUserMessage"} : assertPermissionModeWithinCommandPermission(params.mode, limit)}

\* The runtime a request sees is limited to its own permission, whatever it asks for.
scopeRuntime(command, params, asked, limit) ==
  run(command, params, minCommandPermission(asked, limit))

Directed(targets, via, params, limit) ==
  UNION {scopeRuntime(t.command, Passed(t, params), "none", limit) :
           t \in {t \in targets : t.via = via}}

dispatch(method, params, limit) ==
  CASE method = "chat.send" -> chat(params, limit)
    [] method = "commands.list" -> {"listCommands"}
    [] method = "commands.run" -> scopeRuntime(params.name, params, "read", limit)
    [] method = "diagnostics.run" /\ params.repair ->
         Directed(methodTargets, "diagnostics.repair", params, limit)
    [] OTHER -> Directed(methodTargets, method, params, limit)

dispatchGatewayRequest(method, params, limit) ==
  IF assertGatewayMethodPermission(method, params, limit)
  THEN dispatch(method, params, limit) ELSE {}

-----------------------------------------------------------------------------
(* The routes of the web server: a method and a path.                      *)

Get(path, command, keys) == Via(<<"GET", path>>, command, keys)
Post(path, command, keys) == Via(<<"POST", path>>, command, keys)
Whole(path, command) == Pass(<<"POST", path>>, command)

providerRoutes ==
  { Get("/doctor", "doctor", {"deep", "repair"}), Get("/providers", "providers", {}),
    Get("/providers/health", "provider.health", {"deep"}),
    Get("/providers/usage", "provider.usage", {}),
    Get("/settings", "settings.get", {}), Whole("/settings", "settings.update"),
    Whole("/providers", "provider.add"),
    Post("/providers/enable", "provider.enable", {"providerId"}),
    Post("/providers/disable", "provider.disable", {"providerId"}),
    Via(<<"DELETE", "/providers">>, "provider.remove", {"providerId"}),
    Get("/tools", "tools", {}), Get("/subagents", "subagents.list", {}),
    Whole("/tools/execute", "tool.execute"), Get("/skills", "skills", {}) }

cronRoutes ==
  { Get("/cron", "cron.list", {}), Whole("/cron", "cron.create"),
    Whole("/cron/update", "cron.update"), Post("/cron/pause", "cron.pause", {"id"}),
    Post("/cron/resume", "cron.resume", {"id"}), Post("/cron/run", "cron.run", {"id"}),
    Via(<<"DELETE", "/cron">>, "cron.delete", {"id"}) }

roleRoutes ==
  { Get("/skill-candidates", "skills.candidates.list", {}),
    Whole("/skill-candidates/build", "skills.candidates.build"),
    Post("/skill-candidates/approve", "skills.candidates.approve", {"candidateId"}),
    Post("/skill-candidates/reject", "skills.candidates.reject", {"candidateId"}),
    Get("/roles", "roles", {}),
    Target(<<"POST", "/roles">>, "role.add", TRUE, {}, {"role", "instructions"}),
    Post("/roles/defaults", "role.initialize_defaults", {}),
    Post("/roles/provider", "role.update_provider", {"name"}) }

sessionRoutes ==
  { Get("/sessions", "session.list", {}),
    Get("/sessions/messages", "session.messages", {"sessionId"}),
    Get("/sessions/resume-latest", "session.resume_latest", {}),
    Get("/sessions/export", "session.export", {"sessionId"}),
    Get("/sessions/compact-preview", "session.compact_preview", {"sessionId"}),
    Get("/sessions/usage", "session.usage", {"sessionId"}),
    Post("/sessions/new", "session.create", {}),
    Post("/sessions/clear", "session.clear", {"sessionId"}),
    Post("/sessions/restore", "session.restore", {"sessionId"}),
    Post("/sessions/trash", "session.trash", {"sessionId"}) }

graphRoutes ==
  { Get("/experiences", "experiences.recall", {}), Get("/timeline", "timeline.get", {"runId"}),
    Get("/dag", "dag.list", {}), Get("/graph", "graph.view", {"runId"}),
    Get("/graph-node", "graph.node", {"runId", "selector"}), Whole("/graph/add", "graph.add"),
    Whole("/graph/add-before", "graph.add_before"), Whole("/graph/add-after", "graph.add_after"),
    Whole("/graph/update", "graph.update"), Whole("/graph/delete", "graph.delete"),
    Get("/task-trace", "task.trace", {"taskId"}) }

controlRoutes ==
  { Get("/diagnostics", "diagnostics.run", {}), Get("/security/audit", "security.audit", {}),
    Get("/context", "context.build", {}), Get("/route", "router.route", {}),
    Post("/diagnostics/repair", "diagnostics.repair", {}),
    Whole("/experiences/build-daily", "experiences.build_daily"),
    Whole("/maintenance", "maintenance.run"),
    Post("/experiences/feedback", "experiences.feedback", {"experienceId", "rating"}),
    Post("/cancel-task", "task.cancel", {"taskId"}), Post("/cancel-run", "run.cancel", {"runId"}) }

routeTargets ==
  providerRoutes \cup cronRoutes \cup roleRoutes \cup sessionRoutes \cup graphRoutes
  \cup controlRoutes

Routes ==
  {t.via : t \in routeTargets}
  \cup {<<"GET", "/commands">>, <<"POST", "/commands/run">>, <<"POST", "/chat">>}

isUnsafeMethod(verb) == verb # "GET"
canUsePermission(actual, required) == permissionRank(actual) >= permissionRank(required)

\* The permission of who presents a token: a query token counts from loopback only.
\* `tokens` are the tokens that are configured; the main one always is.
authenticate(token, query, loopback, tokens) ==
  IF query /\ ~loopback THEN "none"
  ELSE CASE token = "main" -> "danger"
         [] token = "write" /\ "write" \in tokens -> "write"
         [] token = "read" /\ "read" \in tokens -> "read"
         [] OTHER -> "none"

\* A handler runs for whoever is authenticated, with what the gate lets pass.
Gate(scope, verb, sameOrigin) ==
  /\ scope # "none"
  /\ isUnsafeMethod(verb) => sameOrigin /\ canUsePermission(scope, "write")

serve(route, params, scope) ==
  CASE route = <<"POST", "/chat">> -> chat(params, scope)
    [] route = <<"GET", "/commands">> -> {"listCommands"}
    [] route = <<"POST", "/commands/run">> -> scopeRuntime(params.name, params, "read", scope)
    [] route = <<"GET", "/doctor">> /\ params.repair /\ ~canUsePermission(scope, "write") -> {}
    [] OTHER -> Directed(routeTargets, route, params, scope)

handle(route, params, scope, sameOrigin) ==
  IF Gate(scope, route[1], sameOrigin) THEN serve(route, params, scope) ELSE {}
=============================================================================
