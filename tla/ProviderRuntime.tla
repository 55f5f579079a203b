-------------------------- MODULE ProviderRuntime ---------------------------
(***************************************************************************)
(* Calls of model providers: ProviderRegistry.createProvider chooses a     *)
(* configuration, llm/ProviderRuntime.ts retries and breaks the circuit,   *)
(* llm/ProviderUsageStore.ts limits and records, the clients talk HTTP.    *)
(* Callers of one process are interleaved at their awaits.                 *)
(***************************************************************************)
EXTENDS Naturals, FiniteSets, Sequences

CONSTANTS
  Callers,      \* tasks that call a model
  Default, Other,  \* the ids of two providers, the first one the default
  Replies,      \* what may come back: [credentials, exception, status, body, truncated]
  MaxRetries, Threshold, Cooldown,
  MaxCallsPerMinute,
  Minute,       \* a minute, in the units of time
  MaxNow,       \* the last moment
  MaxCalls,     \* how many calls are begun
  MaxToggles,   \* how often the other provider is enabled or disabled
  MaxFaults     \* how often a record of usage cannot be written

VARIABLES
  now,          \* units of time
  enabled,      \* the providers that are enabled
  fallbackMode,
  circuit,      \* provider -> [failures, openedUntil], of this process
  usage,        \* provider -> its records [at, status]
  call,         \* caller -> [step, provider, attempt]
  begun,        \* provider -> the moments at which calls went past the checks
  streak,       \* provider -> the failed calls since the last answer
  left          \* what is left of the bounds

vars == <<now, enabled, fallbackMode, circuit, usage, call, begun, streak, left>>

Providers == {Default, Other}
Statuses  == {"success", "failed", "blocked"}
Closed    == [failures |-> 0, openedUntil |-> 0]
NoCall    == [step |-> "idle", provider |-> Default, attempt |-> 0]

-----------------------------------------------------------------------------
(* What a client makes of a reply.                                         *)

classifyHttpStatus(status) ==
  CASE status \in {401, 403} -> "auth_error"
    [] status = 408 -> "timeout"
    [] status = 429 -> "rate_limited"
    [] status >= 500 -> "server_error"
    [] status \in 400..499 \ {401, 403, 408, 429} -> "bad_request"
    [] OTHER -> "unknown_error"

Retryable(code) == code \in {"timeout", "rate_limited", "server_error", "network_error"}

\* The exceptions of a request: its timeout aborts it, the network fails, or anything else.
normalizeProviderError(exception) ==
  CASE exception = "abort" -> "timeout"
    [] exception = "type" -> "network_error"
    [] OTHER -> "unknown_error"

\* The body of an answer is cut at a length, and has to be JSON.
readJsonResponse(reply) == IF reply.body = "invalid" \/ reply.truncated THEN "other" ELSE "none"

\* What a request of a client comes to. Without an API key there is none. An answer without
\* text is found out by the caller.
Outcome(reply) ==
  IF ~reply.credentials THEN "auth_error"
  ELSE IF reply.exception # "none" THEN normalizeProviderError(reply.exception)
  ELSE IF reply.status \notin 200..299 THEN classifyHttpStatus(reply.status)
  ELSE IF readJsonResponse(reply) # "none" THEN normalizeProviderError(readJsonResponse(reply))
  ELSE IF reply.body = "blank" THEN "empty_response"
  ELSE "answer"

-----------------------------------------------------------------------------
Init ==
  /\ now = 1
  /\ enabled = Providers
  /\ fallbackMode \in {"strict", "fallback"}
  /\ circuit = [p \in Providers |-> Closed]
  /\ usage = [p \in Providers |-> <<>>]
  /\ call = [c \in Callers |-> NoCall]
  /\ begun = [p \in Providers |-> <<>>]
  /\ streak = [p \in Providers |-> 0]
  /\ left = [calls |-> MaxCalls, toggles |-> MaxToggles, faults |-> MaxFaults]

Tick ==
  /\ now < MaxNow
  /\ now' = now + 1
  /\ UNCHANGED <<enabled, fallbackMode, circuit, usage, call, begun, streak, left>>

\* A user enables or disables the provider that is not the default.
Toggle ==
  /\ left.toggles > 0 /\ left' = [left EXCEPT !.toggles = @ - 1]
  /\ enabled' = IF Other \in enabled THEN {Default} ELSE Providers
  /\ UNCHANGED <<now, fallbackMode, circuit, usage, call, begun, streak>>

\* The providers a caller that asks for one may get.
resolveConfig(id) ==
  IF id \in enabled THEN {id}
  ELSE IF fallbackMode = "fallback" /\ id # Default THEN {Default} \cap enabled
  ELSE {}

\* The configuration is kept: a provider that is disabled from now on is still called.
createProvider(c, id) ==
  /\ call[c].step = "idle" /\ left.calls > 0
  /\ \E p \in resolveConfig(id) :
       call' = [call EXCEPT ![c] = [NoCall EXCEPT !.step = "made", !.provider = p]]
  /\ left' = [left EXCEPT !.calls = @ - 1]
  /\ UNCHANGED <<now, enabled, fallbackMode, circuit, usage, begun, streak>>

-----------------------------------------------------------------------------
(* The usage store.                                                        *)

\* Mutant: only calls that were answered count.
MutCounted(status) == status = "success"

\* Calls that failed count, and calls that were not let through.
Counted(status) == status \in Statuses

\* The records of the last minute.
countCalls(p) ==
  Cardinality({i \in DOMAIN usage[p] :
                 Counted(usage[p][i].status) /\ usage[p][i].at + Minute >= now})

assertWithinLimits(p) == countCalls(p) < MaxCallsPerMinute

insertRecord(p, status) ==
  usage' = [usage EXCEPT ![p] = Append(@, [at |-> now, status |-> status])]

Faults(n) == left.faults >= n /\ left' = [left EXCEPT !.faults = @ - n]

\* A record is written, or the database does not take it.
Record(p, status) ==
  \/ insertRecord(p, status) /\ UNCHANGED left
  \/ Faults(1) /\ UNCHANGED usage

-----------------------------------------------------------------------------
(* The circuit.                                                            *)

\* Mutant: an answer closes the circuit and leaves the failures.
MutAfterSuccess(state) == [state EXCEPT !.openedUntil = 0]

AfterSuccess(state) == Closed

AfterFailure(state) ==
  [failures |-> state.failures + 1,
   openedUntil |-> IF state.failures + 1 >= Threshold THEN now + Cooldown ELSE state.openedUntil]

isProviderCircuitOpen(p) == circuit[p].openedUntil > now

-----------------------------------------------------------------------------
(* complete.                                                               *)

At(c, step) == call[c].step = step
To(c, next) == call' = [call EXCEPT ![c] = next]

\* Until the first request. A circuit whose time is over is tried again with what failures
\* it has, so that one more opens it.
complete(c) ==
  /\ At(c, "made")
  /\ LET p == call[c].provider
     IN  CASE ~assertWithinLimits(p) ->
                /\ Record(p, "blocked") /\ To(c, NoCall)
                /\ UNCHANGED <<circuit, begun>>
           [] assertWithinLimits(p) /\ isProviderCircuitOpen(p) ->
                /\ Record(p, "failed") /\ To(c, NoCall)
                /\ UNCHANGED <<circuit, begun>>
           [] OTHER ->
                /\ circuit' = [circuit EXCEPT ![p].openedUntil = 0]
                /\ begun' = [begun EXCEPT ![p] = Append(@, now)]
                /\ To(c, [call[c] EXCEPT !.step = "waiting"])
                /\ UNCHANGED <<usage, left>>
  /\ UNCHANGED <<now, enabled, fallbackMode, streak>>

Failed(c, state, fails) ==
  LET p == call[c].provider
  IN  /\ circuit' = [circuit EXCEPT ![p] = AfterFailure(state)]
      /\ streak' = [streak EXCEPT ![p] = fails + 1]
      /\ To(c, NoCall)

\* An answer whose record is not written is a failure that is not retried; that record may
\* not be written either.
Answered(c) ==
  /\ At(c, "waiting")
  /\ \E reply \in Replies : Outcome(reply) = "answer"
  /\ LET p == call[c].provider
     IN  \/ /\ circuit' = [circuit EXCEPT ![p] = AfterSuccess(circuit[p])]
            /\ streak' = [streak EXCEPT ![p] = 0]
            /\ insertRecord(p, "success")
            /\ To(c, NoCall)
            /\ UNCHANGED left
         \/ /\ (Faults(1) /\ insertRecord(p, "failed")) \/ (Faults(2) /\ UNCHANGED usage)
            /\ Failed(c, AfterSuccess(circuit[p]), 0)
  /\ UNCHANGED <<now, enabled, fallbackMode, begun>>

\* The last attempt, or an error that does not go away.
NotAnswered(c) ==
  /\ At(c, "waiting")
  /\ \E reply \in Replies :
       /\ Outcome(reply) # "answer"
       /\ Retryable(Outcome(reply)) => call[c].attempt >= MaxRetries
  /\ Failed(c, circuit[call[c].provider], streak[call[c].provider])
  /\ Record(call[c].provider, "failed")
  /\ UNCHANGED <<now, enabled, fallbackMode, begun>>

WaitToRetry(c) ==
  /\ At(c, "waiting") /\ call[c].attempt < MaxRetries
  /\ \E reply \in Replies : Retryable(Outcome(reply))
  /\ To(c, [call[c] EXCEPT !.step = "sleeping"])
  /\ UNCHANGED <<now, enabled, fallbackMode, circuit, usage, begun, streak, left>>

\* Neither the limits nor the circuit are looked at again.
Retry(c) ==
  /\ At(c, "sleeping")
  /\ To(c, [call[c] EXCEPT !.step = "waiting", !.attempt = @ + 1])
  /\ UNCHANGED <<now, enabled, fallbackMode, circuit, usage, begun, streak, left>>

-----------------------------------------------------------------------------
Next ==
  \/ Tick \/ Toggle
  \/ \E c \in Callers :
       \/ \E id \in Providers : createProvider(c, id)
       \/ complete(c) \/ Answered(c) \/ NotAnswered(c) \/ WaitToRetry(c) \/ Retry(c)

-----------------------------------------------------------------------------
(* Properties.                                                             *)

\* The limit of calls in a minute is checked before a call and recorded after it. The calls
\* let through in any minute exceed it by no more than the other callers, and by what the
\* database has not recorded.
CallsStayNearLimit ==
  \A p \in Providers :
    Cardinality({i \in DOMAIN begun[p] : begun[p][i] + Minute >= now})
      <= MaxCallsPerMinute + Cardinality(Callers) - 1 + (MaxFaults - left.faults)

\* A circuit is open only after as many failed calls in a row as the threshold says, in
\* whatever order the calls of several callers end.
OpenMeansFailing == \A p \in Providers : isProviderCircuitOpen(p) => streak[p] >= Threshold
=============================================================================
