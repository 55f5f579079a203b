----------------------------- MODULE ToolRules -----------------------------
(***************************************************************************)
(* What a tool call is allowed to do and what it will do: the registry of  *)
(* tools (tools/ToolRegistry.ts), the permission modes and the gateway of  *)
(* a role (PermissionMode.ts, ToolGateway.ts), and the approvals, paths,   *)
(* hosts and operations of tools/ToolExecutor.ts.                          *)
(*                                                                         *)
(* A call is a record [tool, mode, allowed, forbidden, approval, args].    *)
(* Its args are [action, target, configured, steps]: `action` is what its  *)
(* tool takes one from (method, action, provider, a provider and its       *)
(* method, command), `target` a kind of path, a host or the key of a task. *)
(***************************************************************************)
EXTENDS Naturals, FiniteSets, Sequences, SequencesExt

-----------------------------------------------------------------------------
(* The registry.                                                           *)

Tool(name, sideEffects, approval, aliases) ==
  [name |-> name, sideEffects |-> sideEffects, requiresApproval |-> approval, aliases |-> aliases]

DEFAULT_TOOL_DEFINITIONS ==
  << Tool("read_file", "read", FALSE, {"read", "cat", "open_file"}),
     Tool("write_file", "write", FALSE, {"edit_file", "patch_file"}),
     Tool("run_tests", "execute", FALSE, {"test", "tests", "check"}),
     Tool("shell", "execute", TRUE, {"terminal", "exec"}),
     Tool("network", "network", TRUE, {"web", "http", "fetch"}),
     Tool("http_fetch", "network", TRUE, {"fetch", "http_get", "http_request"}),
     Tool("web_search", "network", TRUE, {"websearch", "search_web", "search"}),
     Tool("browser", "network", TRUE, {"open_url", "browser_open", "browser_snapshot"}),
     Tool("github", "network", TRUE, {"gh", "github_cli"}),
     Tool("llm_wiki", "network", TRUE, {"wiki", "llm-wiki", "knowledge_wiki"}),
     Tool("create_task", "write", FALSE, {"delegate", "spawn_task"}),
     Tool("inspect_task", "read", FALSE, {"task_trace", "task_status"}),
     Tool("git_reset", "destructive", TRUE, {"reset_hard", "checkout_discard"}),
     Tool("delete_file", "destructive", TRUE, {"remove_file", "rm"}) >>

Tools == Range(DEFAULT_TOOL_DEFINITIONS)
ToolNames == {t.name : t \in Tools}
Unknown == Tool("unknown", "none", FALSE, {})

\* An alias hides a name, and of two tools that claim an alias the later one has it.
resolve(name) ==
  LET claims == {i \in DOMAIN DEFAULT_TOOL_DEFINITIONS :
                   name \in DEFAULT_TOOL_DEFINITIONS[i].aliases}
      named  == {t \in Tools : t.name = name}
  IN  CASE claims # {} -> DEFAULT_TOOL_DEFINITIONS[CHOOSE i \in claims : \A j \in claims : j <= i]
        [] claims = {} /\ named # {} -> CHOOSE t \in named : TRUE
        [] OTHER -> Unknown

-----------------------------------------------------------------------------
(* Permission modes and the gateway of a role.                             *)

WORKSPACE_WRITE_TOOLS == {"read_file", "write_file", "run_tests", "create_task", "inspect_task",
                          "http_fetch", "web_search", "browser"}

permissionModeAllows(mode) ==
  CASE mode = "danger_full_access" -> ToolNames
    [] mode = "workspace_write" -> WORKSPACE_WRITE_TOOLS
    [] OTHER -> {"read_file", "inspect_task"}

parsePermissionMode(value) ==
  IF value \in {"read_only", "workspace_write", "danger_full_access"} THEN value
  ELSE "workspace_write"

Rank(mode) == CASE mode = "read_only" -> 0 [] mode = "workspace_write" -> 1 [] OTHER -> 2

\* A request cannot ask for more than it inherits.
clampPermissionMode(requested, inherited) ==
  LET own == parsePermissionMode(inherited)
      asked == IF requested = "none" THEN own ELSE parsePermissionMode(requested)
  IN  IF Rank(asked) <= Rank(own) THEN asked ELSE own

\* The tools a role may use in a mode.
Usable(call) ==
  (call.allowed \cap permissionModeAllows(parsePermissionMode(call.mode))) \ call.forbidden

assertAllowed(call) == resolve(call.tool).name \in Usable(call)

\* The hints of a task, told apart for its worker.
resolveHints(call, hints) ==
  LET known == {h \in hints : resolve(h) # Unknown}
      names == {resolve(h).name : h \in known}
  IN  [allowed |-> names \cap Usable(call), denied |-> names \ Usable(call),
       unknown |-> hints \ known]

-----------------------------------------------------------------------------
(* Approvals.                                                              *)

HttpMethods == {"GET", "HEAD", "POST"}
WikiReads   == {"health", "query", "status", "concepts"}
WikiWrites  == {"import_url", "analyze_page", "upload"}
GithubReads == {"pr.get", "pr.list", "issue.get", "issue.list", "command_read"}
GithubWrites == {"pr.comment", "issue.comment", "command_write"}

llmWikiActionCategory(args) == IF args.action \in WikiWrites THEN "write" ELSE "read"
\* The structured actions, and the commands of gh by their words.
githubActionCategory(args) == IF args.action \in GithubWrites THEN "write" ELSE "read"

\* The actions whose arguments the requirement can be told from; the others are errors.
Classified(tool, args) ==
  CASE tool.name = "http_fetch" -> args.action \in HttpMethods
    [] tool.name = "llm_wiki" -> args.action \in WikiReads \cup WikiWrites
    [] tool.name = "github" -> args.action \in GithubReads \cup GithubWrites
    [] OTHER -> TRUE

approvalRequirementFor(tool, args) ==
  CASE tool.name = "http_fetch" ->
         IF args.action \in {"GET", "HEAD"} THEN "network_read" ELSE "network_write"
    [] tool.name = "web_search" -> "network_read"
    [] tool.name = "browser" -> "browser_interaction"
    [] tool.name = "github" ->
         IF githubActionCategory(args) = "write" THEN "github_write" ELSE "github_read"
    [] tool.name = "llm_wiki" ->
         IF llmWikiActionCategory(args) = "write" THEN "network_write" ELSE "network_read"
    [] OTHER -> IF tool.sideEffects = "destructive" \/ tool.requiresApproval
                THEN "destructive_workspace" ELSE "none"

\* An approval is [approved, template, expiresAt], where 0 stands for no expiry.
assertApproved(template, approval, now) ==
  \/ template = "none"
  \/ /\ approval.approved
     /\ approval.template = template
     /\ approval.expiresAt = 0 \/ approval.expiresAt > now

-----------------------------------------------------------------------------
(* Paths: `inside` a file of the workspace, `new` a missing one, `link` and *)
(* `escape` links to inside and outside, `outside` a file elsewhere.       *)

Within(path, anywhere) == anywhere \/ path # "outside"

Readable(path, anywhere) ==
  Within(path, anywhere) /\ path # "new" /\ (path = "escape" => anywhere)
Writable(path, anywhere) == Within(path, anywhere) /\ path \notin {"link", "escape"}
Deletable(path, anywhere) == Within(path, anywhere) /\ path # "new"

PathOk(op, path, anywhere) ==
  CASE op = "write" -> Writable(path, anywhere)
    [] op = "delete" -> Deletable(path, anywhere)
    [] OTHER -> Readable(path, anywhere)

(* Hosts are [blocked, addresses, listed]: a local name, the kinds of its  *)
(* addresses, whether the policy of the environment lists it.              *)

resolveHttpEgressTarget(host, allowPrivate) ==
  IF allowPrivate \/ host.listed THEN host.addresses # {}
  ELSE ~host.blocked /\ "public" \in host.addresses

\* A redirected request may lose its body; it loses the leave to call a local host.
redirectInit(op, status, host) ==
  [op EXCEPT !.target = host, !.local = FALSE,
             !.op = IF status \notin {307, 308} /\ @ = "POST" THEN "GET" ELSE @]

-----------------------------------------------------------------------------
(* The operations of a call, in their order. `accepts` tells which answers *)
(* of a server are none: every one is, it must be 2xx, and JSON, and with  *)
(* "next" a 404 leads to the following operation, and an answer skips it.  *)

Op(kind, op, target, local, accepts) ==
  [kind |-> kind, op |-> op, target |-> target, local |-> local, accepts |-> accepts]
File(op, path)         == Op("file", op, path, FALSE, "any")
Exec(op)               == Op("exec", op, "workspace", FALSE, "any")
Store(op, key)         == Op("store", op, key, FALSE, "any")
Throw                  == Op("throw", "error", "none", FALSE, "any")
Http(m, host, accepts) == Op("http", m, host, FALSE, accepts)
Fetch(host)            == Http("GET", host, "any")

\* One step of a browser sequence: a reading step fetches the page once, `snapshot` again.
browserStep(acc, step) ==
  LET url    == IF acc.url = "none" THEN step.url ELSE acc.url
      go     == IF step.url = "none" THEN acc.start ELSE step.url
      reads  == step.action # "goto"
      opened == IF acc.open THEN acc.ops ELSE Append(acc.ops, Fetch(url))
      fail   == [acc EXCEPT !.ops = Append(@, Throw), !.ended = TRUE]
  IN  IF acc.ended THEN acc
      ELSE IF step.action = "sequence" \/ (reads /\ url = "none") THEN fail
      ELSE CASE step.action = "snapshot" ->
                  [acc EXCEPT !.url = url, !.open = TRUE, !.ops = Append(opened, Fetch(url))]
             [] step.action = "follow_link" /\ step.found ->
                  [acc EXCEPT !.url = "linked", !.open = TRUE,
                              !.ops = Append(opened, Fetch("linked"))]
             [] step.action = "follow_link" /\ ~step.found ->
                  [acc EXCEPT !.ops = Append(opened, Throw), !.ended = TRUE]
             [] step.action = "goto" /\ go = "none" -> fail
             [] step.action = "goto" /\ go # "none" ->
                  [acc EXCEPT !.url = go, !.open = TRUE, !.ops = Append(@, Fetch(go))]
             [] OTHER -> [acc EXCEPT !.url = url, !.open = TRUE, !.ops = opened]

browserSequence(args) ==
  IF args.steps = <<>> \/ Len(args.steps) > 10 THEN <<Throw>>
  ELSE FoldLeft(browserStep, [url |-> args.target, start |-> args.target, open |-> FALSE, ops |-> <<>>,
                              ended |-> FALSE], args.steps).ops

browser(args) ==
  CASE args.action = "sequence" -> browserSequence(args)
    [] args.action = "follow_link" -> <<Fetch(args.target), Fetch("linked")>>
    [] args.action = "drag" -> <<Throw>>
    [] OTHER -> <<Fetch(args.target)>>

\* The servers an Ollama search is tried at.
buildOllamaWebSearchAttempts(base, apiKey) ==
  LET local == [Http("POST", base, "next") EXCEPT !.local = base = "localhost"]
  IN  IF base = "cloud" THEN <<Http("POST", "cloud", "next")>>
      ELSE <<local, local>> \o (IF apiKey THEN <<Http("POST", "cloud", "next")>> ELSE <<>>)

\* The endpoint is asked by GET or by POST; an approval to read the network does for both.
endpointWebSearch(args) ==
  CASE ~args.configured -> <<>>
    [] args.configured /\ args.action = "endpoint" -> <<Http("GET", args.target, "json")>>
    [] args.configured /\ args.action = "endpoint POST" -> <<Http("POST", args.target, "json")>>
    [] OTHER -> <<Throw>>
duckDuckGoWebSearch == <<Http("GET", "site", "ok")>>

webSearch(args) ==
  CASE args.action \in {"endpoint", "endpoint POST", "endpoint PUT"} -> endpointWebSearch(args)
    [] args.action = "ollama" -> buildOllamaWebSearchAttempts(args.target, args.configured)
    [] args.action = "duckduckgo" -> duckDuckGoWebSearch
    [] OTHER -> <<Throw>>

llmWikiRequest(method, host) == Http(method, host, "json")
llmWikiUpload(host) == <<File("upload", "inside"), Http("POST", host, "json")>>

llmWiki(args) ==
  CASE args.action \in {"health", "status", "concepts"} -> <<llmWikiRequest("GET", args.target)>>
    [] args.action = "upload" -> llmWikiUpload(args.target)
    [] OTHER -> <<llmWikiRequest("POST", args.target)>>

parseSafeTestCommand(args) == args.action \in {"npm test", "npm run check", "node test"}

\* A task of a graph is checked against the graph, created and only then made dependent.
createTask(args) ==
  IF args.target = "none" THEN <<Store("create", "none")>>
  ELSE <<Store("validate", args.target), Store("create", args.target), Store("depend", args.target)>>

executeAllowed(tool, args) ==
  CASE tool.name = "read_file" -> <<File("read", args.target)>>
    [] tool.name = "write_file" -> <<File("write", args.target)>>
    [] tool.name = "delete_file" -> <<File("delete", args.target)>>
    [] tool.name = "run_tests" -> IF parseSafeTestCommand(args) THEN <<Exec("test")>> ELSE <<Throw>>
    [] tool.name = "inspect_task" -> <<Store("inspect", args.target)>>
    [] tool.name = "create_task" -> createTask(args)
    [] tool.name = "http_fetch" -> <<Http(args.action, args.target, "any")>>
    [] tool.name = "web_search" -> webSearch(args)
    [] tool.name = "browser" -> browser(args)
    [] tool.name = "github" -> <<Exec("gh")>>
    [] tool.name = "llm_wiki" -> llmWiki(args)
    [] OTHER -> <<Throw>>
=============================================================================
