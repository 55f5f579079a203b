----------------------------- MODULE MCServices -----------------------------
(* Small instances of the services; the sets of Services.cfg are defined here. *)
EXTENDS Services, MCPlans

-----------------------------------------------------------------------------
(* Two processes with a scheduler each; two jobs that are due every other  *)
(* minute of an hour of two.                                               *)

MCSchedule == [j \in {"j", "k"} |-> {[from |-> 0, to |-> 1, step |-> 1]}]

\* One operation at a time with an event store that fails and a process that dies; two of one
\* process; one of each process; and three savers of which one dies.
OneSlot == {<<"web", 1>>}
InOne == {<<"web", 1>>, <<"web", 2>>}
InTwo == {<<"web", 1>>, <<"tui", 1>>}
MCCronBounds ==
  { [slots |-> OneSlot, minutes |-> 1, edits |-> 2, faults |-> 1, crashes |-> 1],
    [slots |-> InOne, minutes |-> 1, edits |-> 2, faults |-> 0, crashes |-> 0],
    [slots |-> InTwo, minutes |-> 1, edits |-> 2, faults |-> 0, crashes |-> 0],
    [slots |-> InTwo, minutes |-> 1, edits |-> 1, faults |-> 0, crashes |-> 1],
    [slots |-> InTwo, minutes |-> 0, edits |-> 3, faults |-> 0, crashes |-> 1] }

-----------------------------------------------------------------------------
(* Two processes with a registry each, a provider p beside the echo one.   *)

MCInputs ==
  LET ok == [type |-> "openai", enabled |-> TRUE, apiKeyEnv |-> TRUE, baseUrl |-> "none",
             config |-> [timeoutMs |-> 5000]]
  IN  {ok, [ok EXCEPT !.apiKeyEnv = FALSE], [ok EXCEPT !.baseUrl = "file"],
       [ok EXCEPT !.config = [timeoutMs |-> 5000, maxRetries |-> 9]]}

MCRegBounds ==
  { [slots |-> InTwo, edits |-> 1, crashes |-> 1],
    [slots |-> InTwo, edits |-> 2, crashes |-> 0],
    [slots |-> InOne, edits |-> 3, crashes |-> 0] }

MCRoleInputs ==
  {[provider |-> "p", described |-> TRUE, allowedTools |-> {"shell"}, forbiddenTools |-> f] :
     f \in {{}, {"shell"}}}

-----------------------------------------------------------------------------
(* Two tasks that call models: a circuit that opens after two failures.    *)

MCModelReplies ==
  LET ok == [credentials |-> TRUE, exception |-> "none", status |-> 200, body |-> "json",
             truncated |-> FALSE]
  IN  {ok, [ok EXCEPT !.credentials = FALSE], [ok EXCEPT !.exception = "abort"],
       [ok EXCEPT !.status = 400]}

-----------------------------------------------------------------------------
(* Two tool calls at once: one of each kind of tool, approved or not, on   *)
(* hosts and paths that are allowed or not, and one of fewer kinds.        *)

MCHosts ==
  [site |-> [blocked |-> FALSE, addresses |-> {"public", "private"}, listed |-> FALSE],
   linked |-> [blocked |-> FALSE, addresses |-> {"public"}, listed |-> FALSE],
   cloud |-> [blocked |-> FALSE, addresses |-> {"public"}, listed |-> FALSE],
   localhost |-> [blocked |-> TRUE, addresses |-> {"private"}, listed |-> FALSE]]

MCToolReplies ==
  {[status |-> 200, json |-> TRUE], [status |-> 200, json |-> FALSE],
   [status |-> 302, json |-> FALSE], [status |-> 404, json |-> FALSE]}

Rules == INSTANCE GatewayRules

Arguments(action, target) ==
  [action |-> action, target |-> target, configured |-> TRUE, steps |-> <<>>]
BrowserStep(action) == [action |-> action, url |-> "none", found |-> TRUE]

Ask(tool, template, args) ==
  [tool |-> tool, mode |-> "danger_full_access", allowed |-> Rules!ToolNames, forbidden |-> {},
   approval |-> [approved |-> template # "none", template |-> template, expiresAt |-> 0],
   args |-> args]

FewToolRequests ==
  { Ask("cat", "none", Arguments("none", "inside")),
    Ask("http_fetch", "network_write", Arguments("POST", "site")),
    Ask("delete_file", "destructive_workspace", Arguments("none", "link")),
    Ask("create_task", "none", Arguments("none", "k")),
    Ask("inspect_task", "none", Arguments("none", "k")) }

AllToolRequests == FewToolRequests \cup
  { Ask("cat", "none", Arguments("none", "escape")),
    Ask("fetch", "network_read", Arguments("GET", "site")),
    Ask("http_fetch", "network_read", Arguments("POST", "site")),
    Ask("http_fetch", "network_read", Arguments("PUT", "site")),
    [Ask("http_fetch", "network_read", Arguments("GET", "site")) EXCEPT !.mode = "read_only"],
    [Ask("write_file", "none", Arguments("none", "outside")) EXCEPT !.mode = "none"],
    [Ask("delete_file", "destructive_workspace", Arguments("none", "link"))
       EXCEPT !.approval.expiresAt = 1],
    Ask("run_tests", "none", Arguments("npm test", "inside")),
    Ask("shell", "destructive_workspace", Arguments("none", "inside")),
    Ask("web_search", "network_read", Arguments("ollama", "localhost")),
    Ask("web_search", "network_read", Arguments("endpoint POST", "site")),
    Ask("web_search", "network_read", Arguments("endpoint PUT", "site")),
    Ask("github", "github_write", Arguments("pr.comment", "none")),
    Ask("wiki", "network_write", Arguments("upload", "site")),
    Ask("browser", "browser_interaction",
        [Arguments("sequence", "site")
           EXCEPT !.steps = <<BrowserStep("text"), BrowserStep("follow_link"),
                              BrowserStep("snapshot")>>]) }

MCToolRequests == [a |-> AllToolRequests, b |-> FewToolRequests]

-----------------------------------------------------------------------------
(* Requests to the web server: every route, every method and every command *)
(* by its name, harmless or not; and a connection with a few messages, of  *)
(* which two may be in flight and three may come in one window.            *)

Given == UNION {c.required : c \in Rules!Commands}
Plain == [name |-> "none", given |-> Given, args |-> 0, typed |-> TRUE, deep |-> FALSE,
          repair |-> FALSE, mode |-> "none", metaMode |-> "none", tool |-> "cat",
          tools |-> {"cat"}, approval |-> FALSE]
Full == [Plain EXCEPT !.repair = TRUE, !.mode = "danger_full_access", !.tool = "shell",
                      !.tools = {"shell"}]
Params == {Plain, Full, [Plain EXCEPT !.typed = FALSE, !.given = {}],
           [Plain EXCEPT !.approval = TRUE, !.tool = "write_file", !.deep = TRUE]}

Names == {c.name : c \in Rules!Commands} \cup {"config.update", "resume", "execute-tool", "nobody"}
ByName == {[p EXCEPT !.name = n] : n \in Names, p \in {Plain, Full}}

Text(body, method, params) ==
  [kind |-> "text", body |-> body, method |-> method, params |-> params]
Others ==
  {Text(b, "none", Plain) : b \in {"garbage", "malformed"}}
  \cup {[Text("none", "none", Plain) EXCEPT !.kind = k] :
          k \in {"ping", "other", "close", "broken"}}

AllFrames ==
  {Text("request", m, p) : m \in Rules!GATEWAY_METHODS, p \in Params}
  \cup {Text("request", "commands.run", p) : p \in ByName}
FewFrames ==
  Others \cup {Text("request", "chat.send", Plain), Text("request", "providers.add", Full)}

Asking(path, params, sameOrigin) ==
  [route |-> path, params |-> params, sameOrigin |-> sameOrigin]
AllRequests ==
  {Asking(r, p, TRUE) : r \in Rules!Routes, p \in Params}
  \cup {Asking(<<"POST", "/commands/run">>, p, o) : p \in ByName, o \in BOOLEAN}
FewRequests == {Asking(<<"POST", "/chat">>, Plain, TRUE)}

Presents(token, query, loopback) == [token |-> token, query |-> query, loopback |-> loopback]
AllCredentials ==
  {Presents(t, FALSE, FALSE) : t \in {"main", "write", "read"}}
  \cup {Presents("main", TRUE, l) : l \in BOOLEAN}
FewCredentials == {Presents(t, FALSE, FALSE) : t \in {"main", "read"}}
=============================================================================
