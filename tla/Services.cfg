SPECIFICATION ServicesSpec
CONSTANTS
  PlanRequests <- MCRequests
  PlanRawPlans <- MCRawPlans
  CronProcesses = {"tui", "web"}
  CronSlots = {1, 2}
  CronJobs = {"j", "k"}
  CronSchedule <- MCSchedule
  CronMinutesPerHour = 2
  CronMaxNow = 1
  CronBounds <- MCCronBounds
  RegProcesses = {"tui", "web"}
  RegSlots = {1, 2}
  RegIds = {"echo", "p"}
  RegInputs <- MCInputs
  RegRoles = {"r"}
  RegRoleInputs <- MCRoleInputs
  RegRequested = {"none", "p"}
  RegBounds <- MCRegBounds
  LlmCallers = {"a", "b"}
  LlmDefault = "echo"
  LlmOther = "p"
  LlmReplies <- MCModelReplies
  LlmMaxRetries = 1
  LlmThreshold = 2
  LlmCooldown = 1
  LlmMaxCallsPerMinute = 1
  LlmMinute = 1
  LlmMaxNow = 3
  LlmMaxCalls = 3
  LlmMaxToggles = 1
  LlmMaxFaults = 2
  ToolCalls = {"a", "b"}
  ToolRequests <- MCToolRequests
  ToolHosts <- MCHosts
  ToolReplies <- MCToolReplies
  ToolKeys = {"k"}
  ToolMaxRedirects = 1
  ToolMaxFaults = 1
  ToolMaxCrashes = 1
  HttpFrames <- AllFrames
  HttpRequests <- AllRequests
  HttpCredentials <- AllCredentials
  WsFrames <- FewFrames
  WsRequests <- FewRequests
  WsCredentials <- FewCredentials
  WebTokens = {"read", "write"}
  WebMaxInFlight = 2
  WebMaxMessages = 3
  WebRateWindow = 1
  WebIdleTimeout = 1
  HttpMaxNow = 0
  HttpMaxInputs = 1
  HttpMaxFaults = 0
  WsMaxNow = 1
  WsMaxInputs = 5
  WsMaxFaults = 1
  SkProcesses = {"tui", "web"}
  SkWorkflows = {"w"}
  SkNames = {"a", "b"}
  SkMaxProposals = 2
  SkMaxFaults = 1
INVARIANTS
  PlansAreValid
  GraphsCanBeCreated
  TasksWithinRunMode
  SavedJobsAreKept
  SavedProvidersAreKept
  DefaultIsConfigured
  CallsStayNearLimit
  OpenMeansFailing
  EventsTellEffects
  ScopesHold
  EveryMessageIsAnswered
  DecisionsStand
PROPERTIES
  DueJobsRun
CHECK_DEADLOCK FALSE
