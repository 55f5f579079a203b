---------------------------- MODULE CommandRules ----------------------------
(***************************************************************************)
(* The commands of commands/CommandRegistry.ts: names, aliases, what they  *)
(* need and require, and the operation of the runtime each one calls.      *)
(*                                                                         *)
(* An invocation is a record: `given` the inputs that are there, `args`    *)
(* the number of positional arguments, `typed` whether the inputs have the *)
(* types of the schema, and what permissions depend on: `deep`, `repair`,  *)
(* the permission modes `mode` and `metaMode`, `tool`, `tools`, `approval`.*)
(***************************************************************************)
EXTENDS ToolRules

Command(name, aliases, permission, rule, positional, required, calls) ==
  [name |-> name, aliases |-> aliases, permission |-> permission, rule |-> rule,
   positional |-> positional, required |-> required, calls |-> calls]

Read(name, aliases, calls) == Command(name, aliases, "read", "fixed", <<>>, {}, calls)
ReadOf(name, aliases, keys, calls) ==
  Command(name, aliases, "read", "fixed", keys, Range(keys), calls)
Write(name, aliases, calls) == Command(name, aliases, "write", "fixed", <<>>, {}, calls)
WriteOf(name, aliases, keys, calls) ==
  Command(name, aliases, "write", "fixed", keys, Range(keys), calls)

doctorCommand == {Command("doctor", {"healthcheck"}, "read", "doctor", <<>>, {}, "doctor")}

listCommands ==
  { Read("health", {"runtime.health"}, "health"),
    Read("tools", {"tool.list"}, "listTools"),
    Read("skills", {"skill.list"}, "listSkills"),
    Read("skills.candidates.list", {"candidate.list", "skill-candidates"}, "listSkillCandidates"),
    Read("providers", {"provider.list"}, "listProviders"),
    Command("provider.health", {"providers.health"}, "read", "deep", <<>>, {}, "checkProviders"),
    Read("provider.usage", {"providers.usage"}, "providerUsage"),
    Read("settings.get", {"settings", "config.get"}, "getSettings"),
    Read("roles", {"role.list"}, "listRoles") }

queryCommands ==
  { Read("experiences.recall", {"experience.list", "experience.recall"}, "recallExperiences"),
    ReadOf("timeline.get", {"timeline"}, <<"runId">>, "getTimeline"),
    Read("subagents.list", {"sub", "subagents", "agents.active"}, "listSubagents"),
    ReadOf("task.trace", {"trace", "task-trace"}, <<"taskId">>, "getTaskTrace"),
    Read("diagnostics.run", {"diagnostics"}, "diagnostics"),
    Read("security.audit", {"audit"}, "securityAudit"),
    Read("context.build", {"context"}, "buildContext"),
    Read("router.route", {"route"}, "routeMessage") }

graphViewCommands ==
  { Read("dag.list", {"dag.roots", "graph.roots"}, "listTaskMindMapRoots"),
    ReadOf("graph.view", {"graph", "mindmap", "task-graph", "dag.view"}, <<"runId">>,
           "getTaskMindMap"),
    ReadOf("graph.node", {"node", "task-node"}, <<"runId", "selector">>, "getTaskMindMapNode") }

\* The key of a new node is positional and optional.
Sibling(name, aliases, calls) ==
  Command(name, aliases, "write", "graph", <<"runId", "selector", "key", "role", "title">>,
          {"runId", "selector", "role", "title"}, calls)

graphInsertCommands ==
  { Command("graph.add", {"graph-add", "node-add"}, "write", "graph",
            <<"runId", "parent", "key", "role", "title">>, {"runId", "parent", "role", "title"},
            "addTaskMindMapNode"),
    Sibling("graph.add_before", {"graph-add-before", "node-add-before"},
            "addTaskMindMapNodeBefore"),
    Sibling("graph.add_after", {"graph-add-after", "node-add-after"}, "addTaskMindMapNodeAfter") }

graphEditCommands ==
  { Command("graph.update", {"graph-update", "node-update"}, "write", "graph",
            <<"runId", "selector">>, {"runId", "selector"}, "updateTaskMindMapNode"),
    WriteOf("graph.delete", {"graph-del", "node-delete", "node-del"}, <<"runId", "selector">>,
            "deleteTaskMindMapNode") }

sessionReadCommands ==
  { Read("session.list", {"sessions.list"}, "listSessions"),
    ReadOf("session.messages", {"messages"}, <<"sessionId">>, "listSessionMessages"),
    Read("session.resume_latest", {"resume"}, "resumeLatestSession"),
    ReadOf("session.export", {"export-session"}, <<"sessionId">>, "exportSession"),
    ReadOf("session.compact_preview", {"compact-preview"}, <<"sessionId">>,
           "previewSessionCompaction"),
    ReadOf("session.usage", {"session-usage"}, <<"sessionId">>, "sessionUsage") }

sessionWriteCommands ==
  { Write("session.create", {"new-session"}, "createSession"),
    WriteOf("session.clear", {"clear-session"}, <<"sessionId">>, "clearSession"),
    WriteOf("session.restore", {"restore-session"}, <<"sessionId">>, "restoreSession"),
    WriteOf("session.trash", {"trash-session"}, <<"sessionId">>, "trashSession") }

simpleProviderCommand(name, alias, calls) == WriteOf(name, {alias}, <<"providerId">>, calls)

providerCommands ==
  { Command("provider.add", {"add-provider"}, "write", "fixed", <<>>, {"id", "type"}, "addProvider"),
    simpleProviderCommand("provider.enable", "enable-provider", "enableProvider"),
    simpleProviderCommand("provider.disable", "disable-provider", "disableProvider"),
    simpleProviderCommand("provider.remove", "remove-provider", "removeProvider") }

roleCommands ==
  { Command("role.add", {"add-role"}, "write", "role", <<>>, {"name", "role", "instructions"},
            "addRole"),
    WriteOf("role.update_provider", {"role-provider"}, <<"name">>, "updateRoleProvider"),
    Write("role.initialize_defaults", {"roles.defaults"}, "initializeDefaultRoles") }

skillCandidateCommands ==
  { Write("skills.candidates.build", {"build-skills"}, "buildSkillCandidates"),
    WriteOf("skills.candidates.approve", {"approve-skill"}, <<"candidateId">>,
            "approveSkillCandidate"),
    WriteOf("skills.candidates.reject", {"reject-skill"}, <<"candidateId">>,
            "rejectSkillCandidate") }

runtimeControlCommands ==
  { Write("settings.update", {"config.update"}, "updateSettings"),
    Write("diagnostics.repair", {"repair-diagnostics"}, "repair"),
    Write("maintenance.run", {"maintenance"}, "maintenance"),
    Write("experiences.build_daily", {"build-daily-experiences"}, "buildDailyExperiences"),
    WriteOf("experiences.feedback", {"experience-feedback"}, <<"experienceId", "rating">>,
            "addExperienceFeedback"),
    WriteOf("task.cancel", {"cancel-task"}, <<"taskId">>, "cancelTask"),
    WriteOf("run.cancel", {"cancel-run"}, <<"runId">>, "cancelRun"),
    Command("tool.execute", {"execute-tool"}, "write", "tool", <<"tool">>, {"tool"}, "executeTool") }

simpleCronCommand(name, aliases, calls) == WriteOf(name, aliases, <<"id">>, calls)

cronCommands ==
  { Read("cron.list", {"cron", "crons"}, "listCronJobs"),
    Command("cron.create", {"cron-add", "cron.create_chat"}, "write", "cron",
            <<"name", "schedule">>, {"name", "schedule"}, "createCronJob"),
    Command("cron.update", {"cron-edit"}, "write", "cron", <<"id">>, {"id"}, "updateCronJob"),
    simpleCronCommand("cron.pause", {"cron-pause"}, "pauseCronJob"),
    simpleCronCommand("cron.resume", {"cron-resume"}, "resumeCronJob"),
    simpleCronCommand("cron.delete", {"cron-delete", "cron.remove"}, "deleteCronJob"),
    simpleCronCommand("cron.run", {"cron-run"}, "runCronJob") }

Commands ==
  doctorCommand \cup listCommands \cup queryCommands \cup sessionReadCommands
  \cup sessionWriteCommands \cup providerCommands \cup roleCommands \cup graphViewCommands
  \cup graphInsertCommands \cup graphEditCommands \cup skillCandidateCommands
  \cup cronCommands \cup runtimeControlCommands

\* A name comes before an alias.
Named(name) == {c \in Commands : c.name = name}
resolveCommand(name) ==
  IF Named(name) # {} THEN Named(name) ELSE {c \in Commands : name \in c.aliases}

-----------------------------------------------------------------------------
(* What an invocation needs.                                               *)

permissionRank(permission) ==
  CASE permission = "danger" -> 2 [] permission = "write" -> 1 [] OTHER -> 0

MutMinCommandPermission(asked, limit) == IF asked = "none" THEN "danger" ELSE asked

minCommandPermission(asked, limit) ==
  IF asked = "none" \/ permissionRank(asked) > permissionRank(limit) THEN limit ELSE asked

toolNeedsDanger(tool) == resolve(tool).requiresApproval \/ resolve(tool).sideEffects = "destructive"

toolExecutionPermission(invocation) ==
  IF invocation.mode = "danger_full_access" \/ invocation.approval \/ toolNeedsDanger(invocation.tool)
  THEN "danger" ELSE "write"

DangerIf(condition, otherwise) == IF condition THEN "danger" ELSE otherwise

permissionForInput(command, invocation) ==
  CASE command.rule = "doctor" ->
         IF invocation.repair THEN "write" ELSE DangerIf(invocation.deep, "read")
    [] command.rule = "deep" -> DangerIf(invocation.deep, "read")
    [] command.rule = "cron" -> DangerIf(invocation.mode = "danger_full_access", "write")
    [] command.rule = "graph" ->
         DangerIf("danger_full_access" \in {invocation.mode, invocation.metaMode}, "write")
    [] command.rule = "role" -> DangerIf(\E t \in invocation.tools : toolNeedsDanger(t), "write")
    [] command.rule = "tool" -> toolExecutionPermission(invocation)
    [] OTHER -> command.permission

assertCommandPermission(command, invocation, limit) ==
  permissionRank(permissionForInput(command, invocation)) <= permissionRank(limit)

validateInput(command, invocation) ==
  /\ invocation.typed
  /\ \A key \in command.required :
       \/ key \in invocation.given
       \/ \E i \in DOMAIN command.positional :
            command.positional[i] = key /\ i <= invocation.args

\* The operations a run of a command may come to: none, or the one it calls.
run(name, invocation, limit) ==
  {c.calls : c \in {c \in resolveCommand(name) :
                      assertCommandPermission(c, invocation, limit) /\ validateInput(c, invocation)}}

maxPermissionModeForCommandPermission(permission) ==
  CASE permission = "danger" -> "danger_full_access"
    [] permission = "write" -> "workspace_write"
    [] OTHER -> "read_only"

\* A mode that would be clamped is refused.
assertPermissionModeWithinCommandPermission(mode, permission) ==
  LET requested == parsePermissionMode(mode)
  IN  clampPermissionMode(requested, maxPermissionModeForCommandPermission(permission)) = requested
=============================================================================
