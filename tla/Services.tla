------------------------------- MODULE Services -------------------------------
(***************************************************************************)
(* The services around the task core: the planning pipeline, the cron      *)
(* schedulers and provider registries of several processes, calls of       *)
(* providers and of tools, requests to the web server, a gateway           *)
(* connection, and decisions about skill candidates.  They share no state  *)
(* that is modelled, so that a behaviour is one of the service in `focus`, *)
(* and the variables of the others are 0.                                  *)
(***************************************************************************)
EXTENDS Naturals, FiniteSets, Sequences

\* The constants of each service, which has them without their prefix.
CONSTANTS
  PlanRequests, PlanRawPlans,
  CronProcesses, CronSlots, CronJobs, CronSchedule, CronMinutesPerHour, CronMaxNow,
  CronBounds,
  RegProcesses, RegSlots, RegIds, RegInputs, RegRoles, RegRoleInputs, RegRequested, RegBounds,
  LlmCallers, LlmDefault, LlmOther, LlmReplies, LlmMaxRetries, LlmThreshold, LlmCooldown,
  LlmMaxCallsPerMinute, LlmMinute, LlmMaxNow, LlmMaxCalls, LlmMaxToggles, LlmMaxFaults,
  ToolCalls, ToolRequests, ToolHosts, ToolReplies, ToolKeys,
  ToolMaxRedirects, ToolMaxFaults, ToolMaxCrashes,
  \* The web server, and a connection to the gateway.
  HttpFrames, HttpRequests, HttpCredentials, WsFrames, WsRequests, WsCredentials,
  WebTokens, WebMaxInFlight, WebMaxMessages, WebRateWindow, WebIdleTimeout,
  HttpMaxNow, HttpMaxInputs, HttpMaxFaults, WsMaxNow, WsMaxInputs, WsMaxFaults,
  SkProcesses, SkWorkflows, SkNames, SkMaxProposals, SkMaxFaults

VARIABLES
  focus,
  planRequest, planPlan, planOrigin, planAsks, planStep, planGraph,
  cronNow, cronDisk, cronLock, cronJobs, cronDirty, cronGone, cronRunning, cronTimer, cronOp,
  cronFile, cronSaved, cronRemoved, cronShared, cronLost, cronFired, cronStuck, cronBound,
  cronSpent,
  regDisk, regLock, regMemory, regBase, regOp, regRoles, regSaved, regRemoved, regShared,
  regLost, regOutdated, regBound, regSpent,
  llmNow, llmEnabled, llmFallback, llmCircuit, llmUsage, llmCall, llmBegun, llmStreak, llmLeft,
  toolCall, toolEvents, toolPerformed, toolNodes, toolLeft,
  httpConn, httpNow, httpLast, httpLeft,
  wsConn, wsNow, wsLast, wsLeft,
  skCandidates, skFiles, skSkills, skProposing, skApproving, skDecided, skRebuilt, skCut, skLeft

planVars == <<planRequest, planPlan, planOrigin, planAsks, planStep, planGraph>>
cronVars == <<cronNow, cronDisk, cronLock, cronJobs, cronDirty, cronGone, cronRunning,
              cronTimer, cronOp, cronFile, cronSaved, cronRemoved, cronShared, cronLost,
              cronFired, cronStuck, cronBound, cronSpent>>
regVars == <<regDisk, regLock, regMemory, regBase, regOp, regRoles, regSaved, regRemoved,
             regShared, regLost, regOutdated, regBound, regSpent>>
llmVars == <<llmNow, llmEnabled, llmFallback, llmCircuit, llmUsage, llmCall, llmBegun, llmStreak,
             llmLeft>>
toolVars == <<toolCall, toolEvents, toolPerformed, toolNodes, toolLeft>>
httpVars == <<httpConn, httpNow, httpLast, httpLeft>>
wsVars == <<wsConn, wsNow, wsLast, wsLeft>>
skVars == <<skCandidates, skFiles, skSkills, skProposing, skApproving, skDecided, skRebuilt,
            skCut, skLeft>>

-----------------------------------------------------------------------------
(* The services.                                                           *)

Plan == INSTANCE PlanPipeline WITH
  Requests <- PlanRequests, RawPlans <- PlanRawPlans,
  request <- planRequest, plan <- planPlan, origin <- planOrigin, asks <- planAsks,
  step <- planStep, graph <- planGraph

Cron == INSTANCE CronScheduler WITH
  Processes <- CronProcesses, Slots <- CronSlots, Jobs <- CronJobs, Schedule <- CronSchedule,
  MinutesPerHour <- CronMinutesPerHour, MaxNow <- CronMaxNow, Bounds <- CronBounds,
  now <- cronNow, disk <- cronDisk, lock <- cronLock, jobs <- cronJobs, dirty <- cronDirty,
  gone <- cronGone, running <- cronRunning, timer <- cronTimer, op <- cronOp,
  file <- cronFile, saved <- cronSaved, removed <- cronRemoved, shared <- cronShared,
  lost <- cronLost, fired <- cronFired, stuck <- cronStuck, bound <- cronBound,
  spent <- cronSpent

Registry == INSTANCE ProviderRegistry WITH
  Processes <- RegProcesses, Slots <- RegSlots, Ids <- RegIds, Inputs <- RegInputs,
  Roles <- RegRoles, RoleInputs <- RegRoleInputs, Requested <- RegRequested,
  Bounds <- RegBounds,
  disk <- regDisk, lock <- regLock, memory <- regMemory, base <- regBase, op <- regOp,
  roles <- regRoles, saved <- regSaved, removed <- regRemoved, shared <- regShared,
  lost <- regLost, outdated <- regOutdated, bound <- regBound, spent <- regSpent

Models == INSTANCE ProviderRuntime WITH
  Callers <- LlmCallers, Default <- LlmDefault, Other <- LlmOther, Replies <- LlmReplies,
  MaxRetries <- LlmMaxRetries, Threshold <- LlmThreshold, Cooldown <- LlmCooldown,
  MaxCallsPerMinute <- LlmMaxCallsPerMinute, Minute <- LlmMinute, MaxNow <- LlmMaxNow,
  MaxCalls <- LlmMaxCalls, MaxToggles <- LlmMaxToggles, MaxFaults <- LlmMaxFaults,
  now <- llmNow, enabled <- llmEnabled, fallbackMode <- llmFallback, circuit <- llmCircuit,
  usage <- llmUsage, call <- llmCall, begun <- llmBegun, streak <- llmStreak, left <- llmLeft

Tools == INSTANCE ToolExecutor WITH
  Calls <- ToolCalls, Requests <- ToolRequests, Hosts <- ToolHosts, Replies <- ToolReplies,
  Keys <- ToolKeys, MaxRedirects <- ToolMaxRedirects, MaxFaults <- ToolMaxFaults,
  MaxCrashes <- ToolMaxCrashes,
  call <- toolCall, events <- toolEvents, performed <- toolPerformed, nodes <- toolNodes,
  left <- toolLeft

Http == INSTANCE Gateway WITH
  Frames <- HttpFrames, Requests <- HttpRequests, Credentials <- HttpCredentials,
  Tokens <- WebTokens, MaxInFlight <- WebMaxInFlight, MaxMessages <- WebMaxMessages,
  RateWindow <- WebRateWindow, IdleTimeout <- WebIdleTimeout,
  MaxNow <- HttpMaxNow, MaxInputs <- HttpMaxInputs, MaxFaults <- HttpMaxFaults,
  conn <- httpConn, now <- httpNow, last <- httpLast, left <- httpLeft

Socket == INSTANCE Gateway WITH
  Frames <- WsFrames, Requests <- WsRequests, Credentials <- WsCredentials,
  Tokens <- WebTokens, MaxInFlight <- WebMaxInFlight, MaxMessages <- WebMaxMessages,
  RateWindow <- WebRateWindow, IdleTimeout <- WebIdleTimeout,
  MaxNow <- WsMaxNow, MaxInputs <- WsMaxInputs, MaxFaults <- WsMaxFaults,
  conn <- wsConn, now <- wsNow, last <- wsLast, left <- wsLeft

Skills == INSTANCE SkillCandidates WITH
  Processes <- SkProcesses, Workflows <- SkWorkflows, Names <- SkNames,
  MaxProposals <- SkMaxProposals, MaxFaults <- SkMaxFaults,
  candidates <- skCandidates, files <- skFiles, skills <- skSkills, proposing <- skProposing,
  approving <- skApproving, decided <- skDecided, rebuilt <- skRebuilt, cut <- skCut,
  left <- skLeft

\* The fields of an invocation of a command (see CommandRules).
InvocationFields ==
  { "name", "given", "args", "typed", "deep", "repair", "mode", "metaMode", "tool", "tools",
    "approval" }

\* What the code is given: names that stand for nothing are not names, there is an echo
\* provider, and what users describe as a provider has the fields of one.
ASSUME ServicesAssumption ==
  /\ \A r \in PlanRequests : r.mode \in {"read_only", "workspace_write", "danger_full_access"}
  /\ (CronProcesses \union RegProcesses) \cap {"none", "dead"} = {}
  /\ "echo" \in RegIds /\ "none" \notin RegIds
  /\ RegRequested \subseteq RegIds \union {"none"}
  /\ \A c \in RegInputs : DOMAIN c = DOMAIN Registry!Absent
  /\ IsFiniteSet(LlmCallers) /\ LlmCallers # {}
  /\ LlmThreshold \in Nat /\ LlmCooldown \in Nat
  /\ LlmMaxCallsPerMinute \in Nat /\ LlmMinute \in Nat /\ LlmMaxFaults \in Nat
  /\ ToolMaxFaults \in Nat
  /\ WebMaxInFlight \in Nat /\ WebIdleTimeout \in Nat
  /\ \A m \in HttpFrames \union WsFrames : DOMAIN m.params = InvocationFields
  /\ \A r \in HttpRequests \union WsRequests : DOMAIN r.params = InvocationFields
  /\ "none" \notin SkNames

\* A request asks for a number of tasks, a planner's plan is a list, and text with a number at
\* its end tells which number it is: next to a plan that long, or to the two or four tasks of
\* the fallback, no key is made up twice.
ASSUME PlanningAssumption ==
  /\ \A r \in PlanRequests : r.minimum \in Nat
  /\ \A raw \in PlanRawPlans : raw.tasks \in Seq({raw.tasks[i] : i \in DOMAIN raw.tasks})
  /\ \A n \in {2, 4} \union {Len(raw.tasks) : raw \in PlanRawPlans} : Plan!MadeUpKeysApart(n)

-----------------------------------------------------------------------------
(* One of them at a time.                                                  *)

Focus == {"plan", "cron", "registry", "models", "tools", "http", "socket", "skills"}

PlanOff ==
  /\ planRequest = 0 /\ planPlan = 0 /\ planOrigin = 0 /\ planAsks = 0 /\ planStep = 0
  /\ planGraph = 0
CronOff ==
  /\ cronNow = 0 /\ cronDisk = 0 /\ cronLock = 0 /\ cronJobs = 0 /\ cronDirty = 0
  /\ cronGone = 0 /\ cronRunning = 0 /\ cronTimer = 0 /\ cronOp = 0 /\ cronFile = 0
  /\ cronSaved = 0 /\ cronRemoved = 0 /\ cronShared = 0 /\ cronLost = 0 /\ cronFired = 0
  /\ cronStuck = 0 /\ cronBound = 0 /\ cronSpent = 0
RegistryOff ==
  /\ regDisk = 0 /\ regLock = 0 /\ regMemory = 0 /\ regBase = 0 /\ regOp = 0
  /\ regRoles = 0 /\ regSaved = 0 /\ regRemoved = 0 /\ regShared = 0 /\ regLost = 0
  /\ regOutdated = 0 /\ regBound = 0 /\ regSpent = 0
ModelsOff ==
  /\ llmNow = 0 /\ llmEnabled = 0 /\ llmFallback = 0 /\ llmCircuit = 0 /\ llmUsage = 0
  /\ llmCall = 0 /\ llmBegun = 0 /\ llmStreak = 0 /\ llmLeft = 0
ToolsOff ==
  /\ toolCall = 0 /\ toolEvents = 0 /\ toolPerformed = 0 /\ toolNodes = 0 /\ toolLeft = 0
HttpOff ==
  /\ httpConn = 0 /\ httpNow = 0 /\ httpLast = 0 /\ httpLeft = 0
SocketOff ==
  /\ wsConn = 0 /\ wsNow = 0 /\ wsLast = 0 /\ wsLeft = 0
SkillsOff ==
  /\ skCandidates = 0 /\ skFiles = 0 /\ skSkills = 0 /\ skProposing = 0 /\ skApproving = 0
  /\ skDecided = 0 /\ skRebuilt = 0 /\ skCut = 0 /\ skLeft = 0

ServicesInit ==
  /\ focus \in Focus
  /\ IF focus = "plan" THEN Plan!Init ELSE PlanOff
  /\ IF focus = "cron" THEN Cron!Init ELSE CronOff
  /\ IF focus = "registry" THEN Registry!Init ELSE RegistryOff
  /\ IF focus = "models" THEN Models!Init ELSE ModelsOff
  /\ IF focus = "tools" THEN Tools!Init ELSE ToolsOff
  /\ IF focus = "http" THEN Http!Init ELSE HttpOff
  /\ IF focus = "socket" THEN Socket!Init ELSE SocketOff
  /\ IF focus = "skills" THEN Skills!Init ELSE SkillsOff

NotPlan == <<focus, cronVars, regVars, llmVars, toolVars, httpVars, wsVars, skVars>>
NotCron == <<focus, planVars, regVars, llmVars, toolVars, httpVars, wsVars, skVars>>
NotRegistry == <<focus, planVars, cronVars, llmVars, toolVars, httpVars, wsVars, skVars>>
NotModels == <<focus, planVars, cronVars, regVars, toolVars, httpVars, wsVars, skVars>>
NotTools == <<focus, planVars, cronVars, regVars, llmVars, httpVars, wsVars, skVars>>
NotHttp == <<focus, planVars, cronVars, regVars, llmVars, toolVars, wsVars, skVars>>
NotSocket == <<focus, planVars, cronVars, regVars, llmVars, toolVars, httpVars, skVars>>
NotSkills == <<focus, planVars, cronVars, regVars, llmVars, toolVars, httpVars, wsVars>>

InPlan == focus = "plan" /\ Plan!Next /\ UNCHANGED NotPlan
InCron == focus = "cron" /\ Cron!Next /\ UNCHANGED NotCron
InRegistry == focus = "registry" /\ Registry!Next /\ UNCHANGED NotRegistry
InModels == focus = "models" /\ Models!Next /\ UNCHANGED NotModels
InTools == focus = "tools" /\ Tools!Next /\ UNCHANGED NotTools
InHttp == focus = "http" /\ Http!Next /\ UNCHANGED NotHttp
InSocket == focus = "socket" /\ Socket!Next /\ UNCHANGED NotSocket
InSkills == focus = "skills" /\ Skills!Next /\ UNCHANGED NotSkills

ServicesNext ==
  InPlan \/ InCron \/ InRegistry \/ InModels \/ InTools \/ InHttp \/ InSocket \/ InSkills
allVars == <<focus, planVars, cronVars, regVars, llmVars, toolVars, httpVars, wsVars, skVars>>

\* The fairness of CronScheduler; the other services are only asked for what never happens.
CronFairness ==
  \A p \in CronProcesses :
    /\ WF_cronVars(focus = "cron" /\ Cron!TimerNext(p) /\ UNCHANGED NotCron)
    /\ \A s \in CronSlots :
         WF_cronVars(focus = "cron" /\ Cron!SlotNext(p, s) /\ UNCHANGED NotCron)

ServicesSpec == ServicesInit /\ [][ServicesNext]_allVars /\ CronFairness

-----------------------------------------------------------------------------
(* Properties, each stated in the module of its service.                   *)

\* PlanPipeline: every plan that is reported, paused on or rewritten passes validatePlanSpec.
PlansAreValid == focus = "plan" => Plan!PlansAreValid

\* PlanPipeline: createTaskGraph can create every graph it is given.
GraphsCanBeCreated == focus = "plan" => Plan!GraphsCanBeCreated

\* PlanPipeline: an executed graph is a DAG, as README.md:414 says, except exactly when files
\* are to be written and work waits for a review or for the task that writes them.
CycleExactlyFromReviewedWork == focus = "plan" => Plan!CycleExactlyFromReviewedWork

\* PlanPipeline: no task may do more than the run it belongs to.
TasksWithinRunMode == focus = "plan" => Plan!TasksWithinRunMode

\* CronScheduler: a saved job stays in the file until somebody deletes it, unless saves run at
\* the same time after a process that saved has died.
SavedJobsAreKept == focus = "cron" => Cron!SavedJobsAreKept

\* CronScheduler: every job that is due in a process whose timer is set, or is at work, is
\* executed or no longer due, unless the event of its start failed.
CronDue(p, j) == focus = "cron" /\ j \in Cron!Due(p)
CronWatched(p) == focus = "cron" /\ Cron!Watched(p)
CronServed(p, j) == focus = "cron" /\ (Cron!Executing(p, j) \/ j \in cronStuck[p])
DueJobsRun ==
  \A p \in CronProcesses, j \in CronJobs :
    (CronDue(p, j) /\ CronWatched(p)) ~> (~CronDue(p, j) \/ CronServed(p, j))

\* ProviderRegistry: a saved provider stays in the file until somebody removes it, but for
\* writes of an outdated copy, and writes at the same time after a process that wrote has died.
SavedProvidersAreKept == focus = "registry" => Registry!SavedProvidersAreKept

\* ProviderRegistry: the default provider of the file and of each registry is configured there.
DefaultIsConfigured == focus = "registry" => Registry!DefaultIsConfigured

\* ProviderRuntime: concurrent calls exceed a provider's limit by less than their number.
CallsStayNearLimit == focus = "models" => Models!CallsStayNearLimit

\* ProviderRuntime: a circuit is open only after enough failures without an answer.
OpenMeansFailing == focus = "models" => Models!OpenMeansFailing

\* ToolExecutor: the recorded events of a call tell what it did.
EventsTellEffects == focus = "tools" => Tools!EventsTellEffects

\* Gateway: no request calls the runtime for what its caller's permission does not cover, as
\* far as the request's own inputs tell.
ScopesHold ==
  /\ focus = "http" => Http!ScopesHold
  /\ focus = "socket" => Socket!ScopesHold

\* Gateway: each message has one answer, or a handler that will give it.
EveryMessageIsAnswered == focus = "socket" => Socket!EveryMessageIsAnswered

\* SkillCandidates: decisions about candidates stand, and approved ones have their skill written,
\* but while it is written once more, or after that has failed.
DecisionsStand == focus = "skills" => Skills!DecisionsStand
=============================================================================
