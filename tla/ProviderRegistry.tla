-------------------------- MODULE ProviderRegistry --------------------------
(***************************************************************************)
(* llm/ProviderRegistry.ts and roles/RoleManager.ts: processes that share  *)
(* one config.json keep its settings in memory, change them and write them *)
(* with a three-way merge under a file lock; roles name the providers.     *)
(***************************************************************************)
EXTENDS Naturals, FiniteSets

CONSTANTS
  Processes,
  Slots,        \* edits in flight in one process, numbered
  Ids,          \* the ids of providers, "echo" among them
  Inputs,       \* the configurations users ask for: [type, enabled, apiKeyEnv, baseUrl, config]
  Roles,
  RoleInputs,   \* the roles users describe: [provider, described, allowedTools, forbiddenTools]
  Requested,    \* the main providers a process may be started with, or "none"
  Bounds        \* what is bounded together: the slots in use, edits, and processes that die

VARIABLES
  disk,         \* config.json: [defaultProviderId, settings, providers], or NoFile
  lock,         \* whose lock file there is
  memory,       \* process -> what its registry holds, or NoFile when it is not running
  base,         \* process -> persistedSnapshot
  op,           \* process -> slot -> the edit or start that is to be written
  roles,        \* role -> the provider in its markdown file, or "none", or "absent"
  saved,        \* the providers some write has put in the file
  removed,      \* the providers somebody has removed
  shared,       \* the writes under way while another one has, or had, a lock file as well
  lost,         \* the providers such writes have taken out of the file
  outdated,     \* those taken out by a write older than what its process has loaded since
  bound,        \* one of Bounds
  spent         \* what of it has been used

vars == <<disk, lock, memory, base, op, roles, saved, removed, shared, lost, outdated, bound, spent>>
\* What only writes change.
fileVars == <<disk, saved, lost, outdated, bound>>

Absent == [type |-> "none", enabled |-> FALSE, apiKeyEnv |-> FALSE, baseUrl |-> "none", config |-> <<>>]
Echo   == [Absent EXCEPT !.type = "echo", !.enabled = TRUE]
NoFile == [defaultProviderId |-> "none", settings |-> "none", providers |-> [i \in Ids |-> Absent]]
NoOp   == [step |-> "idle", desired |-> NoFile, fresh |-> TRUE, main |-> "none", starting |-> FALSE]
Nobody == <<"none", 0>>

Present(file) == {i \in Ids : file.providers[i] # Absent}

\* The file of a data directory that has none. "settings" stands for the scalars that are
\* merged alike: the fallback mode, the timeouts and the limits of the agents.
defaultProviderFile(id) ==
  [defaultProviderId |-> id, settings |-> "strict",
   providers |-> [NoFile.providers EXCEPT ![id] = Echo]]

\* The keys a config may have and their ranges; durations are in milliseconds.
ConfigRanges ==
  [temperature |-> 0..2, timeoutSeconds |-> 1000..86400000, maxRetries |-> 0..5,
   retryBaseSeconds |-> 1..60000, retryMaxSeconds |-> 1..120000,
   circuitBreakerFailureThreshold |-> 1..100, circuitBreakerCooldownSeconds |-> 1000..3600000,
   strictJson |-> 0..1, costPer1KInputTokens |-> 0..1000, costPer1KOutputTokens |-> 0..1000,
   maxCallsPerMinute |-> 1..100000, maxCallsPerDay |-> 1..10000000,
   maxTokensPerDay |-> 1..1000000000, maxCostUsdPerDay |-> 0..1000000]

LegacyKeys ==
  [timeoutMs |-> "timeoutSeconds", retryBaseMs |-> "retryBaseSeconds",
   retryMaxMs |-> "retryMaxSeconds", circuitBreakerCooldownMs |-> "circuitBreakerCooldownSeconds"]

\* A key of an earlier version is taken for the new one, unless that is there too.
normalizeProviderConfig(c) ==
  LET old == DOMAIN c.config \cap DOMAIN LegacyKeys
      keys == (DOMAIN c.config \ old) \union {LegacyKeys[k] : k \in old}
      value(k) == IF k \in DOMAIN c.config THEN c.config[k]
                  ELSE c.config[CHOOSE o \in old : LegacyKeys[o] = k]
  IN  [c EXCEPT !.config = [k \in keys |-> value(k)]]

validateProviderConfigObject(c) ==
  \A k \in DOMAIN c.config : k \in DOMAIN ConfigRanges /\ c.config[k] \in ConfigRanges[k]

validateProviderConfig(c) ==
  /\ c.type \in {"echo", "openai", "ollama", "codex"}
  /\ c.type = "openai" => c.apiKeyEnv
  /\ c.baseUrl \in {"none", "http", "https"}
  /\ validateProviderConfigObject(c)

ensureDefault(file) ==
  IF file.defaultProviderId \in Present(file) THEN file
  ELSE [file EXCEPT !.providers[file.defaultProviderId] = Echo]

readProviderConfig(id) == IF disk = NoFile THEN defaultProviderFile(id) ELSE disk

-----------------------------------------------------------------------------
(* mergeProviderFiles: what differs from the snapshot is what this process *)
(* has changed; everything else is what the file says.                     *)

\* Mutant: a process writes the providers it knows.
MutMergedProviders(snapshot, desired, current) == desired.providers

MergedProviders(snapshot, desired, current) ==
  [i \in Ids |->
    CASE desired.providers[i] \notin {Absent, snapshot.providers[i]} -> desired.providers[i]
      [] desired.providers[i] = Absent /\ snapshot.providers[i] # Absent -> Absent
      [] OTHER -> current.providers[i]]

\* Mutant: the default is taken over whether it is configured or not.
MutRepaired(file, desired) == file

\* The default of the merged file may have been removed by this process.
Repaired(file, desired) ==
  IF file.defaultProviderId \in Present(file) THEN file
  ELSE IF desired.defaultProviderId \in Present(desired)
  THEN [file EXCEPT !.defaultProviderId = desired.defaultProviderId,
                    !.providers[desired.defaultProviderId] = desired.providers[desired.defaultProviderId]]
  ELSE IF Present(file) # {} THEN [file EXCEPT !.defaultProviderId = CHOOSE i \in Present(file) : TRUE]
  ELSE [file EXCEPT !.defaultProviderId = "echo", !.providers["echo"] = Echo]

mergeProviderFiles(snapshot, desired, current) ==
  LET mine(field) == IF desired[field] # snapshot[field] THEN desired[field] ELSE current[field]
  IN  Repaired([defaultProviderId |-> mine("defaultProviderId"), settings |-> mine("settings"),
                providers |-> MergedProviders(snapshot, desired, current)], desired)

-----------------------------------------------------------------------------
Init ==
  /\ disk = NoFile /\ lock = Nobody
  /\ memory = [p \in Processes |-> NoFile] /\ base = memory
  /\ op = [p \in Processes |-> [s \in Slots |-> NoOp]]
  /\ roles = [r \in Roles |-> "absent"]
  /\ saved = {} /\ removed = {} /\ shared = {} /\ lost = {} /\ outdated = {}
  /\ bound \in Bounds /\ spent = [edits |-> 0, crashes |-> 0]

At(p, s, step) == memory[p] # NoFile /\ op[p][s].step = step
Becomes(p, s, o) == op' = [op EXCEPT ![p][s] = o]

Free(p, s) ==
  <<p, s>> \in bound.slots /\ op[p][s] = NoOp /\ \A t \in Slots : t < s => op[p][t] # NoOp
Spend(what) == spent[what] < bound[what] /\ spent' = [spent EXCEPT ![what] = @ + 1]

\* Nothing is changed before the start of the process is over.
Running(p) == memory[p] # NoFile /\ \A s \in Slots : ~op[p][s].starting

\* The change in memory, and write until it has made the directory.
Changes(p, s, file) ==
  /\ memory' = [memory EXCEPT ![p] = file]
  /\ Becomes(p, s, [op[p][s] EXCEPT !.step = "prepare"])

Edits(p, s, file) ==
  /\ Running(p) /\ Free(p, s) /\ Spend("edits")
  /\ Changes(p, s, file)
  /\ UNCHANGED <<fileVars, lock, base, roles, shared>>

\* create: the settings are read without the lock and written at once. createRuntime
\* then asks for a main provider.
Start(p, s, main) ==
  /\ memory[p] = NoFile /\ Free(p, s)
  /\ LET read == readProviderConfig(IF main = "none" THEN "echo" ELSE main)
     IN  base' = [base EXCEPT ![p] = read] /\ memory' = [memory EXCEPT ![p] = ensureDefault(read)]
  /\ Becomes(p, s, [NoOp EXCEPT !.step = "prepare", !.main = main, !.starting = TRUE])
  /\ UNCHANGED <<fileVars, lock, roles, removed, shared, spent>>

Stops(p) ==
  /\ memory' = [memory EXCEPT ![p] = NoFile] /\ base' = [base EXCEPT ![p] = NoFile]
  /\ op' = [op EXCEPT ![p] = [s \in Slots |-> NoOp]]

\* A main provider that is disabled ends the start.
RequestMain(p, s) ==
  /\ At(p, s, "main")
  /\ LET main == op[p][s].main
         file == ensureDefault([memory[p] EXCEPT !.defaultProviderId = main])
     IN  \/ file.providers[main].enabled /\ Changes(p, s, file) /\ UNCHANGED base
         \/ ~file.providers[main].enabled /\ Stops(p)
  /\ UNCHANGED <<fileVars, lock, roles, removed, shared, spent>>

-----------------------------------------------------------------------------
(* Changes.                                                                *)

add(p, s, i, config) ==
  /\ validateProviderConfig(normalizeProviderConfig(config))
  /\ Edits(p, s, [memory[p] EXCEPT !.providers[i] = normalizeProviderConfig(config)])
  /\ UNCHANGED removed

enable(p, s, i) ==
  /\ i \in Present(memory[p])
  /\ Edits(p, s, [memory[p] EXCEPT !.providers[i].enabled = TRUE])
  /\ UNCHANGED removed

\* Neither the default nor one that a role names. The roles are read from their files.
assertProviderCanBeRemovedOrDisabled(p, i) ==
  /\ i \in Present(memory[p])
  /\ i # memory[p].defaultProviderId
  /\ \A r \in Roles : roles[r] # i

disable(p, s, i) ==
  /\ assertProviderCanBeRemovedOrDisabled(p, i)
  /\ Edits(p, s, [memory[p] EXCEPT !.providers[i].enabled = FALSE])
  /\ UNCHANGED removed

remove(p, s, i) ==
  /\ assertProviderCanBeRemovedOrDisabled(p, i)
  /\ Edits(p, s, [memory[p] EXCEPT !.providers[i] = Absent])
  /\ removed' = removed \union {i}

\* The default has to be one of the providers, enabled or not.
updateSettings(p, s, id, settings) ==
  /\ id \in Present(memory[p])
  /\ Edits(p, s, [memory[p] EXCEPT !.defaultProviderId = id, !.settings = settings])
  /\ UNCHANGED removed

(* The markdown of roles is shared, and is written without a lock.         *)

EditsRole(p) ==
  /\ Running(p) /\ Spend("edits")
  /\ UNCHANGED <<fileVars, lock, memory, base, op, removed, shared>>

\* A role is bound to a provider that the registry of the process has and that is enabled.
validateProviderBinding(p, i) == i = "none" \/ (i \in Present(memory[p]) /\ memory[p].providers[i].enabled)

validateRoleInput(p, input) ==
  /\ input.described
  /\ validateProviderBinding(p, input.provider)
  /\ input.allowedTools \cap input.forbiddenTools = {}

addRole(p, r, input) ==
  /\ EditsRole(p) /\ validateRoleInput(p, input)
  /\ roles' = [roles EXCEPT ![r] = input.provider]

\* A role without a file has the definition of a generic one.
updateRoleProvider(p, r, i) ==
  /\ EditsRole(p) /\ validateProviderBinding(p, i)
  /\ roles' = [roles EXCEPT ![r] = i]

\* The presets name no provider.
initializeDefaultRoles(p, overwrite) ==
  /\ EditsRole(p)
  /\ roles' = [r \in Roles |-> IF overwrite \/ roles[r] = "absent" THEN "none" ELSE roles[r]]

-----------------------------------------------------------------------------
(* write under withProviderConfigLock.                                     *)

\* What is to be written is taken before the wait for the lock: a copy of all settings.
toProviderFile(p, s) ==
  /\ At(p, s, "prepare")
  /\ Becomes(p, s, [op[p][s] EXCEPT !.step = "lock", !.desired = memory[p], !.fresh = TRUE])
  /\ UNCHANGED <<fileVars, lock, memory, base, roles, removed, shared, spent>>

\* The writes under way.
Writing == {q \in Processes \X Slots : op[q[1]][q[2]].step \in {"merge", "write"}}

\* The lock file is created, which only one process can do.
Lock(p, s) ==
  /\ At(p, s, "lock") /\ lock = Nobody
  /\ lock' = <<p, s>>
  /\ shared' = IF Writing = {} THEN shared ELSE Writing \union {<<p, s>>}
  /\ Becomes(p, s, [op[p][s] EXCEPT !.step = "merge"])
  /\ UNCHANGED <<fileVars, memory, base, roles, removed, spent>>

\* The lock file is looked at: it is older than a write takes, since its process died.
SeeStale(p, s) ==
  /\ At(p, s, "lock") /\ lock[1] = "dead"
  /\ Becomes(p, s, [op[p][s] EXCEPT !.step = "stale"])
  /\ UNCHANGED <<fileVars, lock, memory, base, roles, removed, shared, spent>>

\* The lock file there is now is deleted: another waiter may have replaced the old one by its own.
RemoveStale(p, s) ==
  /\ At(p, s, "stale")
  /\ lock' = Nobody
  /\ Becomes(p, s, [op[p][s] EXCEPT !.step = "lock"])
  /\ UNCHANGED <<fileVars, memory, base, roles, removed, shared, spent>>

\* Five seconds without the lock: the change stays in memory, and is written with the next.
\* A process that starts ends.
LockTimesOut(p, s) ==
  /\ At(p, s, "lock") /\ lock # Nobody
  /\ \/ op[p][s].starting /\ Stops(p)
     \/ ~op[p][s].starting /\ Becomes(p, s, NoOp) /\ UNCHANGED <<memory, base>>
  /\ UNCHANGED <<fileVars, lock, roles, removed, shared, spent>>

\* The file is read and merged: with what the process has loaded by now, not when the copy
\* was taken. `desired` is what will be written from here on.
Merge(p, s) ==
  /\ At(p, s, "merge")
  /\ LET current == readProviderConfig(op[p][s].desired.defaultProviderId)
     IN  Becomes(p, s, [op[p][s] EXCEPT !.step = "write",
                                        !.desired = mergeProviderFiles(base[p], @, current)])
  /\ UNCHANGED <<fileVars, lock, memory, base, roles, removed, shared, spent>>

Dropped(p, s) == Present(disk) \ Present(op[p][s].desired)

\* It is renamed into place, and becomes the memory and the snapshot of the process; a copy
\* that another write of the process has taken is out of date.
Write(p, s) ==
  /\ At(p, s, "write")
  /\ LET merged == op[p][s].desired
     IN  /\ disk' = merged
         /\ memory' = [memory EXCEPT ![p] = merged]
         /\ base' = [base EXCEPT ![p] = merged]
         /\ saved' = saved \union Present(merged)
  /\ lost' = IF <<p, s>> \in shared THEN lost \union Dropped(p, s) ELSE lost
  /\ outdated' = IF op[p][s].fresh THEN outdated ELSE outdated \union Dropped(p, s)
  /\ shared' = shared \ {<<p, s>>}
  /\ op' = [op EXCEPT ![p] = [t \in Slots |->
       IF t = s THEN [op[p][s] EXCEPT !.step = "unlock", !.desired = NoFile, !.fresh = TRUE]
       ELSE [op[p][t] EXCEPT !.fresh = @ /\ op[p][t].desired = NoFile]]]
  /\ UNCHANGED <<lock, roles, removed, bound, spent>>

\* Whatever lock file there is is deleted.
Unlock(p, s) ==
  /\ At(p, s, "unlock")
  /\ lock' = Nobody
  /\ Becomes(p, s, IF op[p][s].main \in Ids \ {memory[p].defaultProviderId}
                   THEN [op[p][s] EXCEPT !.step = "main"] ELSE NoOp)
  /\ UNCHANGED <<fileVars, memory, base, roles, removed, shared, spent>>

Crash(p) ==
  /\ memory[p] # NoFile /\ Spend("crashes")
  /\ Stops(p)
  /\ lock' = IF lock[1] = p THEN <<"dead", 0>> ELSE lock
  /\ shared' = {q \in shared : q[1] # p}
  /\ UNCHANGED <<fileVars, roles, removed>>

-----------------------------------------------------------------------------
Next ==
  \E p \in Processes :
    \/ \E s \in Slots :
         \/ \E main \in Requested : Start(p, s, main)
         \/ \E i \in Ids : \/ enable(p, s, i) \/ disable(p, s, i) \/ remove(p, s, i)
                          \/ \E c \in Inputs : add(p, s, i, c)
         \/ \E i \in Ids, settings \in {"strict", "fallback"} : updateSettings(p, s, i, settings)
         \/ RequestMain(p, s) \/ toProviderFile(p, s) \/ Lock(p, s) \/ SeeStale(p, s)
         \/ RemoveStale(p, s) \/ LockTimesOut(p, s) \/ Merge(p, s) \/ Write(p, s) \/ Unlock(p, s)
    \/ \E r \in Roles, i \in Ids \union {"none"} : updateRoleProvider(p, r, i)
    \/ \E r \in Roles, input \in RoleInputs : addRole(p, r, input)
    \/ \E overwrite \in BOOLEAN : initializeDefaultRoles(p, overwrite)
    \/ Crash(p)

-----------------------------------------------------------------------------
(* Properties.                                                             *)

\* A provider that a write has put in config.json stays there until somebody removes it,
\* whatever other processes write that have never heard of it. What can take one out is a
\* write that waited for the lock with a copy of the settings older than what another write of
\* its process has loaded since (no two edits of a process exclude each other), and writes at
\* the same time, which need a process that died while writing: the lock file it left is
\* deleted by whoever has seen that it is old, when it may be a new one.
SavedProvidersAreKept ==
  /\ saved \ UNION {removed, lost, outdated} \subseteq Present(disk)
  /\ lost # {} => spent.crashes > 0

\* The default provider of the file and of every process is configured, also when one
\* process makes a provider the default while another one removes it.
DefaultIsConfigured ==
  \A file \in {disk} \union {memory[p] : p \in Processes} :
    file # NoFile => file.defaultProviderId \in Present(file)
=============================================================================
