---------------------------- MODULE Services_proofs ----------------------------
(***************************************************************************)
(* The safety properties of the services, for all values of the constants  *)
(* that ServicesAssumption and PlanningAssumption allow.  A behaviour of   *)
(* Services is one of the service in `focus`, so that the invariant of a   *)
(* service only has to hold while it is in focus.                          *)
(***************************************************************************)
EXTENDS Services, PlanTransforms_proofs, FiniteSetTheorems, Integers, Sequences, TLAPS

\* A step is one of the service in focus, which stays in focus.
LEMMA OneService ==
  ASSUME [ServicesNext]_allVars
  PROVE  /\ focus' = focus
         /\ focus = "plan" => Plan!Next \/ UNCHANGED planVars
         /\ focus = "cron" => Cron!Next \/ UNCHANGED cronVars
         /\ focus = "registry" => Registry!Next \/ UNCHANGED regVars
         /\ focus = "models" => Models!Next \/ UNCHANGED llmVars
         /\ focus = "tools" => Tools!Next \/ UNCHANGED toolVars
         /\ focus = "http" => Http!Next \/ UNCHANGED httpVars
         /\ focus = "socket" => Socket!Next \/ UNCHANGED wsVars
         /\ focus = "skills" => Skills!Next \/ UNCHANGED skVars
BY DEF ServicesNext, allVars, InPlan, InCron, InRegistry, InModels, InTools, InHttp, InSocket,
       InSkills, NotPlan, NotCron, NotRegistry, NotModels, NotTools, NotHttp, NotSocket, NotSkills

-----------------------------------------------------------------------------
(* The cron schedulers.                                                      *)

OpFields == DOMAIN Cron!Idle

\* What is needed of the types: the domains of the functions, and a counter.
CronShaped ==
  /\ DOMAIN cronOp = CronProcesses
  /\ DOMAIN cronDirty = CronProcesses /\ DOMAIN cronGone = CronProcesses
  /\ DOMAIN cronFile = CronProcesses
  /\ \A p \in CronProcesses : DOMAIN cronOp[p] = CronSlots /\ DOMAIN cronFile[p] = CronSlots
  /\ \A p \in CronProcesses, s \in CronSlots : DOMAIN cronOp[p][s] = OpFields
  /\ cronSpent \in [edits : Nat, faults : Nat, crashes : Nat]

\* A save between its lock and its write; and until it deletes the lock file.
CronSaves(p, s) == cronOp[p][s].step \in {"merge", "write"}
CronLocks(p, s) == cronOp[p][s].step \in {"merge", "write", "unlock"}

\* Of two saves at the same time each is known to be.
SharedAreKnown ==
  \A p, q \in CronProcesses, s, t \in CronSlots :
    CronSaves(p, s) /\ CronSaves(q, t) /\ <<p, s>> # <<q, t>> => <<p, s>> \in cronShared

\* What a process marks as deleted was deleted by somebody.
MarksTell == \A p \in CronProcesses : cronGone[p] \subseteq cronRemoved

\* What a save that is alone is about to write has every saved job that nobody deleted.
FileKeeps ==
  \A p \in CronProcesses, s \in CronSlots :
    cronOp[p][s].step = "write" /\ <<p, s>> \notin cronShared
      => cronSaved \ (cronRemoved \union cronLost) \subseteq Cron!Present(cronFile[p][s])

\* Without a process that died the lock excludes all but one.
LockExcludes ==
  cronSpent.crashes = 0 =>
    /\ cronLock[1] # "dead" /\ cronShared = {} /\ cronLost = {}
    /\ \A p \in CronProcesses, s \in CronSlots :
         cronOp[p][s].step # "stale" /\ (CronLocks(p, s) => cronLock = <<p, s>>)

JobsKept == cronSaved \ (cronRemoved \union cronLost) \subseteq Cron!Present(cronDisk)

CronInv == CronShaped /\ SharedAreKnown /\ MarksTell /\ FileKeeps /\ LockExcludes /\ JobsKept

LEMMA CronBegins ==
  ASSUME Cron!Init, CronProcesses \cap {"none", "dead"} = {}
  PROVE  CronInv
<1>1. CronShaped
  BY DEF Cron!Init, CronShaped, OpFields
<1>2. \A p \in CronProcesses, s \in CronSlots : cronOp[p][s].step = "idle"
  BY DEF Cron!Init, Cron!Idle
<1>3. SharedAreKnown /\ MarksTell /\ FileKeeps /\ JobsKept
  BY <1>2 DEF Cron!Init, SharedAreKnown, CronSaves, MarksTell, FileKeeps, JobsKept
<1>4. LockExcludes
  BY <1>2 DEF Cron!Init, LockExcludes, CronLocks, Cron!Nobody
<1> QED BY <1>1, <1>3, <1>4 DEF CronInv

\* One operation of one process becomes e.
CronTurns(p, s, e) == cronOp' = [cronOp EXCEPT ![p] = [cronOp[p] EXCEPT ![s] = e]]

LEMMA CronTurned ==
  ASSUME CronShaped, NEW p \in CronProcesses, NEW s \in CronSlots, NEW e, CronTurns(p, s, e),
         DOMAIN e = OpFields
  PROVE  /\ DOMAIN cronOp' = CronProcesses
         /\ \A q \in CronProcesses : DOMAIN cronOp'[q] = CronSlots
         /\ \A q \in CronProcesses, t \in CronSlots :
              /\ cronOp'[q][t] = (IF q = p /\ t = s THEN e ELSE cronOp[q][t])
              /\ DOMAIN cronOp'[q][t] = OpFields
BY DEF CronShaped, CronTurns

\* A record of an operation with another step, and the other fields of ones that end.
LEMMA CronRecords ==
  ASSUME CronShaped, NEW p \in CronProcesses, NEW s \in CronSlots
  PROVE  /\ DOMAIN Cron!Idle = OpFields /\ Cron!Idle.step = "idle"
         /\ \A x : /\ DOMAIN [cronOp[p][s] EXCEPT !.step = x] = OpFields
                   /\ [cronOp[p][s] EXCEPT !.step = x].step = x
<1>1. DOMAIN cronOp[p][s] = OpFields /\ "step" \in OpFields
  BY DEF CronShaped, OpFields, Cron!Idle
<1>2. DOMAIN Cron!Idle = OpFields /\ Cron!Idle.step = "idle"
  BY DEF OpFields, Cron!Idle
<1> QED BY <1>1, <1>2

\* A step that leaves the file, the lock and what is saved alone, makes no mark of a deletion
\* that nobody made, and lets no save past its wait for the lock.
LEMMA OutsideSave ==
  ASSUME CronInv, CronShaped',
         UNCHANGED <<cronDisk, cronFile, cronLock, cronSaved, cronShared, cronLost>>,
         cronSpent'.crashes = cronSpent.crashes, cronRemoved \subseteq cronRemoved',
         \A p \in CronProcesses : cronGone'[p] \subseteq cronRemoved',
         \A p \in CronProcesses, s \in CronSlots :
           cronOp'[p][s].step \in {"merge", "write", "unlock", "stale"}
             => cronOp'[p][s].step = cronOp[p][s].step
  PROVE  CronInv'
<1>1. SharedAreKnown'
  BY DEF CronInv, SharedAreKnown, CronSaves
<1>2. MarksTell'
  BY DEF CronInv, MarksTell
<1>3. FileKeeps'
  BY DEF CronInv, FileKeeps, Cron!Present
<1>4. LockExcludes'
  BY DEF CronInv, LockExcludes, CronLocks
<1>5. JobsKept'
  BY DEF CronInv, JobsKept, Cron!Present
<1> QED BY <1>1, <1>2, <1>3, <1>4, <1>5 DEF CronInv

\* The counter of the processes that died, when another one is used.
LEMMA CronCounts ==
  ASSUME CronShaped, UNCHANGED cronSpent \/ Cron!Spend("edits") \/ Cron!Spend("faults")
  PROVE  /\ cronSpent' \in [edits : Nat, faults : Nat, crashes : Nat]
         /\ cronSpent'.crashes = cronSpent.crashes
BY DEF CronShaped, Cron!Spend

LEMMA CronMarks ==
  ASSUME CronShaped, NEW p \in CronProcesses, NEW j, Cron!markDirty(p, j)
  PROVE  /\ DOMAIN cronDirty' = CronProcesses /\ DOMAIN cronGone' = CronProcesses
         /\ \A q \in CronProcesses : cronGone'[q] \subseteq cronGone[q]
BY DEF CronShaped, Cron!markDirty

LEMMA EditKeeps ==
  ASSUME CronInv, NEW p \in CronProcesses, NEW s \in CronSlots, NEW j \in CronJobs,
         Cron!createJob(p, s, j) \/ Cron!updateJob(p, s, j) \/ Cron!deleteJob(p, s, j)
  PROVE  CronInv'
<1> DEFINE e == [Cron!Idle EXCEPT !.step = "lock", !.job = j]
<1>1. /\ UNCHANGED <<cronDisk, cronFile, cronLock, cronSaved, cronShared, cronLost>>
      /\ cronRemoved \subseteq cronRemoved' /\ Cron!Spend("edits")
      /\ CronTurns(p, s, e)
  BY DEF Cron!createJob, Cron!updateJob, Cron!deleteJob, Cron!Save, Cron!Becomes, Cron!saveVars,
         CronTurns
<1>2. DOMAIN e = OpFields /\ e.step = "lock"
  BY DEF Cron!Idle, OpFields
<1>3. /\ DOMAIN cronDirty' = CronProcesses /\ DOMAIN cronGone' = CronProcesses
      /\ \A q \in CronProcesses : cronGone'[q] \subseteq cronRemoved'
  <2>1. CASE Cron!markDirty(p, j)
    BY <1>1, <2>1, CronMarks DEF CronInv, MarksTell
  <2>2. CASE Cron!deleteJob(p, s, j)
    BY <2>2 DEF Cron!deleteJob, CronInv, CronShaped, MarksTell
  <2> QED BY <2>1, <2>2 DEF Cron!createJob, Cron!updateJob
<1> HIDE DEF e
<1>4. CronShaped'
  BY <1>1, <1>2, <1>3, CronTurned, CronCounts DEF CronInv, CronShaped
<1>5. \A q \in CronProcesses, t \in CronSlots :
        cronOp'[q][t].step \in {"merge", "write", "unlock", "stale"}
          => cronOp'[q][t].step = cronOp[q][t].step
  BY <1>1, <1>2, CronTurned DEF CronInv
<1> QED BY <1>1, <1>3, <1>4, <1>5, CronCounts, OutsideSave DEF CronInv

\* What is done after a save leaves no operation in one.
LEMMA SaveEnded ==
  ASSUME CronShaped, NEW p \in CronProcesses, NEW s \in CronSlots, NEW thrown,
         Cron!SaveEnds(p, s, thrown)
  PROVE  /\ \E e : CronTurns(p, s, e) /\ DOMAIN e = OpFields /\ e.step \in {"idle", "lock", "next"}
         /\ DOMAIN cronDirty' = CronProcesses /\ DOMAIN cronGone' = CronProcesses
         /\ \A q \in CronProcesses : cronGone'[q] \subseteq cronGone[q]
<1>1. CASE Cron!EditEnds(p, s, thrown)
  <2>1. CronTurns(p, s, Cron!Idle) /\ UNCHANGED <<cronDirty, cronGone>>
    BY <1>1 DEF Cron!EditEnds, Cron!Becomes, CronTurns
  <2> QED BY <2>1, CronRecords DEF CronShaped
<1>2. CASE Cron!ErrorCaught(p, s, thrown)
  <2> DEFINE e == [cronOp[p][s] EXCEPT !.step = "lock", !.caught = TRUE]
  <2>1. CronTurns(p, s, e) /\ Cron!markDirty(p, cronOp[p][s].job)
    BY <1>2 DEF Cron!ErrorCaught, Cron!Becomes, CronTurns
  <2>2. DOMAIN e = OpFields /\ e.step = "lock"
    BY DEF CronShaped, OpFields, Cron!Idle
  <2> HIDE DEF e
  <2> QED BY <2>1, <2>2, CronMarks
<1>3. CASE Cron!ExecutionEnds(p, s, thrown)
  <2> DEFINE e == [cronOp[p][s] EXCEPT !.step = "next", !.executes = FALSE, !.caught = FALSE,
                                       !.due = IF thrown THEN <<>> ELSE @]
  <2>1. CronTurns(p, s, e) /\ UNCHANGED <<cronDirty, cronGone>>
    BY <1>3 DEF Cron!ExecutionEnds, Cron!Becomes, CronTurns
  <2>2. DOMAIN e = OpFields /\ e.step = "next"
    BY DEF CronShaped, OpFields, Cron!Idle
  <2> HIDE DEF e
  <2> QED BY <2>1, <2>2 DEF CronShaped
<1> QED BY <1>1, <1>2, <1>3 DEF Cron!SaveEnds

LEMMA ExecutionKeeps ==
  ASSUME CronInv, NEW p \in CronProcesses, NEW s \in CronSlots,
         \/ Cron!runDue(p, s) \/ \E j \in CronJobs : Cron!runJob(p, s, j)
         \/ Cron!ExecuteNext(p, s) \/ Cron!StartFails(p, s) \/ Cron!Executed(p, s)
         \/ Cron!Ended(p, s) \/ Cron!LockTimesOut(p, s)
  PROVE  CronInv'
<1>1. /\ UNCHANGED <<cronDisk, cronFile, cronLock, cronSaved, cronShared, cronLost, cronRemoved>>
      /\ UNCHANGED cronSpent \/ Cron!Spend("edits") \/ Cron!Spend("faults")
  BY DEF Cron!runDue, Cron!runJob, Cron!ExecuteNext, Cron!StartFails, Cron!Executed, Cron!Ended,
         Cron!LockTimesOut, Cron!saveVars
<1>2. /\ DOMAIN cronDirty' = CronProcesses /\ DOMAIN cronGone' = CronProcesses
      /\ \A q \in CronProcesses : cronGone'[q] \subseteq cronGone[q]
  <2>1. CASE Cron!LockTimesOut(p, s)
    BY <2>1, SaveEnded DEF Cron!LockTimesOut, CronInv
  <2>2. CASE ~Cron!LockTimesOut(p, s)
    <3>1. UNCHANGED <<cronDirty, cronGone>> \/ \E j : Cron!markDirty(p, j)
      BY <2>2 DEF Cron!runDue, Cron!runJob, Cron!ExecuteNext, Cron!StartFails, Cron!Executed,
                  Cron!Ended
    <3> QED BY <3>1, CronMarks DEF CronInv, CronShaped
  <2> QED BY <2>1, <2>2
<1>3. PICK e :
        /\ CronTurns(p, s, e) /\ DOMAIN e = OpFields
        /\ e.step \in {"idle", "lock", "next", "executing"}
  <2>1. CASE Cron!runDue(p, s) \/ \E j \in CronJobs : Cron!runJob(p, s, j)
    <3>1. PICK list, timed : Cron!Start(p, s, list, timed)
      BY <2>1 DEF Cron!runDue, Cron!runJob
    <3> DEFINE begun == [Cron!Idle EXCEPT !.step = "next", !.attached = TRUE, !.timed = timed,
                                          !.due = list]
    <3>2. CronTurns(p, s, begun)
      BY <3>1 DEF Cron!Start, Cron!Becomes, CronTurns
    <3>3. DOMAIN begun = OpFields /\ begun.step = "next"
      BY DEF Cron!Idle, OpFields
    <3> HIDE DEF begun
    <3> QED BY <3>2, <3>3
  <2>2. CASE Cron!Executed(p, s)
    <3>1. PICK thrown \in BOOLEAN :
            CronTurns(p, s, [cronOp[p][s] EXCEPT !.step = "lock", !.caught = thrown])
      BY <2>2 DEF Cron!Executed, Cron!Becomes, CronTurns
    <3> DEFINE saves == [cronOp[p][s] EXCEPT !.step = "lock", !.caught = thrown]
    <3>2. DOMAIN saves = OpFields /\ saves.step = "lock"
      BY DEF CronInv, CronShaped, OpFields, Cron!Idle
    <3>3. CronTurns(p, s, saves)
      BY <3>1
    <3> HIDE DEF saves
    <3> QED BY <3>2, <3>3
  <2>3. CASE Cron!Ended(p, s) \/ Cron!StartFails(p, s)
    <3>1. CronTurns(p, s, Cron!Idle)
      BY <2>3 DEF Cron!Ended, Cron!StartFails, Cron!Becomes, CronTurns
    <3> QED BY <3>1, CronRecords DEF CronInv
  <2>4. CASE Cron!LockTimesOut(p, s)
    BY <2>4, SaveEnded DEF Cron!LockTimesOut, CronInv
  <2>5. CASE Cron!ExecuteNext(p, s)
    <3> DEFINE skip == [cronOp[p][s] EXCEPT !.due = Tail(@)]
               run == [skip EXCEPT !.step = "executing", !.job = Cron!NextJob(p, s),
                                   !.executes = TRUE]
    <3>1. cronOp[p][s].step = "next"
      BY <2>5 DEF Cron!ExecuteNext, Cron!At
    <3>2. CronTurns(p, s, skip) \/ CronTurns(p, s, run)
      BY <2>5 DEF Cron!ExecuteNext, Cron!Becomes, CronTurns
    <3>3. DOMAIN skip = OpFields /\ skip.step = cronOp[p][s].step
      BY DEF CronInv, CronShaped, OpFields, Cron!Idle
    <3>4. DOMAIN run = OpFields /\ run.step = "executing"
      BY DEF CronInv, CronShaped, OpFields, Cron!Idle
    <3> HIDE DEF skip, run
    <3> QED BY <3>1, <3>2, <3>3, <3>4
  <2> QED BY <2>1, <2>2, <2>3, <2>4, <2>5
<1>4. CronShaped'
  BY <1>1, <1>2, <1>3, CronTurned, CronCounts DEF CronInv, CronShaped
<1>5. \A q \in CronProcesses, t \in CronSlots :
        cronOp'[q][t].step \in {"merge", "write", "unlock", "stale"}
          => cronOp'[q][t].step = cronOp[q][t].step
  BY <1>3, CronTurned DEF CronInv
<1>6. \A q \in CronProcesses : cronGone'[q] \subseteq cronRemoved'
  BY <1>1, <1>2 DEF CronInv, MarksTell
<1> QED BY <1>1, <1>4, <1>5, <1>6, CronCounts, OutsideSave DEF CronInv

\* One operation turns to another step of the same save, with nothing else of the invariant but
\* the lock and the shared saves changed.
LEMMA StepShaped ==
  ASSUME CronInv, NEW p \in CronProcesses, NEW s \in CronSlots, NEW x,
         CronTurns(p, s, [cronOp[p][s] EXCEPT !.step = x]),
         UNCHANGED <<cronDirty, cronGone, cronFile, cronSpent>>
  PROVE  /\ CronShaped'
         /\ \A q \in CronProcesses, t \in CronSlots :
              cronOp'[q][t].step = (IF q = p /\ t = s THEN x ELSE cronOp[q][t].step)
<1> DEFINE e == [cronOp[p][s] EXCEPT !.step = x]
<1>1. DOMAIN e = OpFields /\ e.step = x
  BY CronRecords DEF CronInv
<1>2. CronTurns(p, s, e)
  OBVIOUS
<1> HIDE DEF e
<1>3. /\ DOMAIN cronOp' = CronProcesses
      /\ \A q \in CronProcesses : DOMAIN cronOp'[q] = CronSlots
      /\ \A q \in CronProcesses, t \in CronSlots :
           /\ cronOp'[q][t] = (IF q = p /\ t = s THEN e ELSE cronOp[q][t])
           /\ DOMAIN cronOp'[q][t] = OpFields
  BY <1>1, <1>2, CronTurned DEF CronInv
<1> QED BY <1>1, <1>3 DEF CronInv, CronShaped

LEMMA LockKeeps ==
  ASSUME CronInv, CronProcesses \cap {"none", "dead"} = {},
         NEW p \in CronProcesses, NEW s \in CronSlots, Cron!Lock(p, s)
  PROVE  CronInv'
<1>1. /\ UNCHANGED <<cronDisk, cronFile, cronSaved, cronRemoved, cronDirty, cronGone, cronLost,
                     cronSpent>>
      /\ cronLock' = <<p, s>> /\ cronLock = <<"none", 0>>
      /\ cronShared' = (IF Cron!Saving = {} THEN cronShared ELSE Cron!Saving \union {<<p, s>>})
      /\ CronTurns(p, s, [cronOp[p][s] EXCEPT !.step = "merge"])
  BY DEF Cron!Lock, Cron!Nobody, Cron!otherVars, Cron!Becomes, CronTurns
<1>2. /\ CronShaped'
      /\ \A q \in CronProcesses, t \in CronSlots :
           cronOp'[q][t].step = (IF q = p /\ t = s THEN "merge" ELSE cronOp[q][t].step)
  <2>1. PICK x : x = "merge" /\ CronTurns(p, s, [cronOp[p][s] EXCEPT !.step = x])
    BY <1>1
  <2> QED BY <1>1, <2>1, StepShaped
<1>3. \A q \in CronProcesses, t \in CronSlots : CronSaves(q, t) <=> <<q, t>> \in Cron!Saving
  <2> TAKE q \in CronProcesses, t \in CronSlots
  <2>1. <<q, t>>[1] = q /\ <<q, t>>[2] = t /\ <<q, t>> \in CronProcesses \X CronSlots
    OBVIOUS
  <2> QED BY <2>1 DEF Cron!Saving, CronSaves
<1>4. SharedAreKnown'
  <2> SUFFICES ASSUME NEW q \in CronProcesses, NEW r \in CronProcesses, NEW t \in CronSlots,
                      NEW u \in CronSlots, CronSaves(q, t)', CronSaves(r, u)', <<q, t>> # <<r, u>>
               PROVE  <<q, t>> \in cronShared'
    BY DEF SharedAreKnown
  <2>1. CronSaves(q, t) \/ <<q, t>> = <<p, s>>
    BY <1>2 DEF CronSaves
  <2>2. CronSaves(r, u) \/ <<r, u>> = <<p, s>>
    BY <1>2 DEF CronSaves
  <2>3. Cron!Saving # {}
    BY <1>3, <2>1, <2>2
  <2> QED BY <1>1, <1>3, <2>1, <2>3
<1>5. FileKeeps'
  <2> SUFFICES ASSUME NEW q \in CronProcesses, NEW t \in CronSlots, cronOp'[q][t].step = "write",
                      <<q, t>> \notin cronShared'
               PROVE  FALSE
    BY DEF FileKeeps
  <2>1. CronSaves(q, t)
    BY <1>2 DEF CronSaves
  <2> QED BY <1>1, <1>3, <2>1
<1>6. LockExcludes'
  <2> SUFFICES ASSUME cronSpent.crashes = 0  PROVE LockExcludes'
    BY <1>1 DEF LockExcludes
  <2>1. \A q \in CronProcesses, t \in CronSlots : ~CronLocks(q, t)
    <3> SUFFICES ASSUME NEW q \in CronProcesses, NEW t \in CronSlots, CronLocks(q, t)
                 PROVE  FALSE
      OBVIOUS
    <3>1. cronLock = <<q, t>>
      BY DEF CronInv, LockExcludes
    <3>2. cronLock[1] = q /\ cronLock[1] = "none"
      BY <1>1, <3>1
    <3> QED BY <3>2
  <2>2. Cron!Saving = {}
    <3>1. \A x \in CronProcesses \X CronSlots : x = <<x[1], x[2]>>
      OBVIOUS
    <3> QED BY <2>1, <3>1 DEF Cron!Saving, CronLocks
  <2>3. cronLock'[1] = p
    BY <1>1
  <2> QED BY <1>1, <1>2, <2>1, <2>2, <2>3 DEF CronInv, LockExcludes, CronLocks
<1> QED BY <1>1, <1>2, <1>4, <1>5, <1>6 DEF CronInv, MarksTell, JobsKept, Cron!Present

\* Looking at an old lock file, and deleting the one that is there.
LEMMA StaleKeeps ==
  ASSUME CronInv, NEW p \in CronProcesses, NEW s \in CronSlots,
         Cron!SeeStale(p, s) \/ Cron!RemoveStale(p, s)
  PROVE  CronInv'
<1>1. PICK x \in {"stale", "lock"} : CronTurns(p, s, [cronOp[p][s] EXCEPT !.step = x])
  BY DEF Cron!SeeStale, Cron!RemoveStale, Cron!Becomes, CronTurns
<1>2. UNCHANGED <<cronDisk, cronFile, cronSaved, cronRemoved, cronDirty, cronGone, cronLost,
                  cronShared, cronSpent>>
  BY DEF Cron!SeeStale, Cron!RemoveStale, Cron!saveVars, Cron!otherVars
<1>3. /\ CronShaped'
      /\ \A q \in CronProcesses, t \in CronSlots :
           cronOp'[q][t].step = (IF q = p /\ t = s THEN x ELSE cronOp[q][t].step)
  BY <1>1, <1>2, StepShaped
<1>4. SharedAreKnown' /\ FileKeeps'
  BY <1>2, <1>3 DEF CronInv, SharedAreKnown, CronSaves, FileKeeps, Cron!Present
<1>5. cronSpent.crashes # 0
  BY DEF Cron!SeeStale, Cron!RemoveStale, Cron!At, CronInv, LockExcludes
<1>6. LockExcludes'
  BY <1>2, <1>5 DEF LockExcludes
<1> QED BY <1>2, <1>3, <1>4, <1>6 DEF CronInv, MarksTell, JobsKept, Cron!Present

\* The merged jobs have every saved one: only those marked as deleted are taken out.
LEMMA MergedHas ==
  ASSUME CronInv, NEW p \in CronProcesses
  PROVE  cronSaved \ (cronRemoved \union cronLost) \subseteq Cron!Present(Cron!Merged(p))
<1> SUFFICES ASSUME NEW j \in cronSaved \ (cronRemoved \union cronLost)
             PROVE  j \in Cron!Present(Cron!Merged(p))
  OBVIOUS
<1>1. j \in CronJobs /\ cronDisk[j] # Cron!Absent /\ j \notin cronGone[p]
  BY DEF CronInv, JobsKept, MarksTell, Cron!Present
<1>2. Cron!Merged(p)[j] = (IF j \in cronDirty[p] /\ cronJobs[p][j] # Cron!Absent
                           THEN cronJobs[p][j] ELSE cronDisk[j])
  BY <1>1 DEF Cron!Merged
<1> QED BY <1>1, <1>2 DEF Cron!Present

LEMMA MergeKeeps ==
  ASSUME CronInv, NEW p \in CronProcesses, NEW s \in CronSlots, Cron!Merge(p, s)
  PROVE  CronInv'
<1>1. /\ UNCHANGED <<cronDisk, cronLock, cronDirty, cronGone, cronSaved, cronRemoved, cronShared,
                     cronLost, cronSpent>>
      /\ cronOp[p][s].step = "merge"
      /\ cronFile' = [cronFile EXCEPT ![p] = [cronFile[p] EXCEPT ![s] = Cron!Merged(p)]]
  BY DEF Cron!Merge, Cron!At, Cron!otherVars
<1> DEFINE Next1(r, t) == [r EXCEPT !.attached = FALSE, !.step = IF t = s THEN "write" ELSE @]
<1>2. cronOp' = [cronOp EXCEPT ![p] = [t \in CronSlots |-> Next1(cronOp[p][t], t)]]
  BY DEF Cron!Merge
<1>3. \A q \in CronProcesses, t \in CronSlots :
        cronOp'[q][t] = (IF q = p THEN Next1(cronOp[p][t], t) ELSE cronOp[q][t])
  BY <1>2 DEF CronInv, CronShaped
<1>4. \A q \in CronProcesses, t \in CronSlots :
        /\ DOMAIN cronOp'[q][t] = OpFields
        /\ cronOp'[q][t].step = (IF q = p /\ t = s THEN "write" ELSE cronOp[q][t].step)
  <2>1. ASSUME NEW t \in CronSlots
        PROVE  /\ DOMAIN Next1(cronOp[p][t], t) = OpFields
               /\ Next1(cronOp[p][t], t).step = (IF t = s THEN "write" ELSE cronOp[p][t].step)
    BY <2>1 DEF CronInv, CronShaped, OpFields, Cron!Idle
  <2> HIDE DEF Next1
  <2> QED BY <1>3, <2>1 DEF CronInv, CronShaped
<1>5. CronShaped'
  <2>1. DOMAIN cronOp' = CronProcesses /\ \A q \in CronProcesses : DOMAIN cronOp'[q] = CronSlots
    BY <1>2 DEF CronInv, CronShaped
  <2> QED BY <1>1, <1>4, <2>1 DEF CronInv, CronShaped
<1>6. SharedAreKnown'
  BY <1>1, <1>4 DEF CronInv, SharedAreKnown, CronSaves
<1>7. FileKeeps'
  <2> SUFFICES ASSUME NEW q \in CronProcesses, NEW t \in CronSlots, cronOp'[q][t].step = "write",
                      <<q, t>> \notin cronShared
               PROVE  cronSaved \ (cronRemoved \union cronLost) \subseteq
                        Cron!Present(cronFile'[q][t])
    BY <1>1 DEF FileKeeps, Cron!Present
  <2>1. CASE q = p /\ t = s
    <3>1. cronFile'[q][t] = Cron!Merged(p)
      BY <1>1, <2>1 DEF CronInv, CronShaped
    <3> QED BY <3>1, MergedHas
  <2>2. CASE ~(q = p /\ t = s)
    <3>1. cronFile'[q][t] = cronFile[q][t] /\ cronOp[q][t].step = "write"
      BY <1>1, <1>4, <2>2 DEF CronInv, CronShaped
    <3> QED BY <3>1 DEF CronInv, FileKeeps
  <2> QED BY <2>1, <2>2
<1>8. LockExcludes'
  BY <1>1, <1>4 DEF CronInv, LockExcludes, CronLocks
<1> QED BY <1>1, <1>5, <1>6, <1>7, <1>8 DEF CronInv, MarksTell, JobsKept, Cron!Present

LEMMA WriteKeeps ==
  ASSUME CronInv, NEW p \in CronProcesses, NEW s \in CronSlots, Cron!Write(p, s)
  PROVE  CronInv'
<1> DEFINE new == cronFile[p][s]
           e == [cronOp[p][s] EXCEPT !.step = "unlock"]
<1>1. /\ cronOp[p][s].step = "write"
      /\ cronDisk' = new /\ cronSaved' = cronSaved \union Cron!Present(new)
      /\ cronLost' = (IF <<p, s>> \in cronShared
                      THEN cronLost \union (Cron!Present(cronDisk) \ Cron!Present(new))
                      ELSE cronLost)
      /\ cronShared' = cronShared \ {<<p, s>>}
      /\ cronDirty' = [cronDirty EXCEPT ![p] = {}] /\ cronGone' = [cronGone EXCEPT ![p] = {}]
      /\ cronFile' = [cronFile EXCEPT ![p] = [cronFile[p] EXCEPT ![s] = Cron!NoJobs]]
      /\ UNCHANGED <<cronLock, cronRemoved, cronSpent>> /\ CronTurns(p, s, e)
  BY DEF Cron!Write, Cron!At, Cron!otherVars, Cron!Becomes, CronTurns
<1>2. DOMAIN e = OpFields /\ e.step = "unlock"
  BY CronRecords DEF CronInv
<1> HIDE DEF e
<1>3. /\ DOMAIN cronOp' = CronProcesses
      /\ \A q \in CronProcesses : DOMAIN cronOp'[q] = CronSlots
      /\ \A q \in CronProcesses, t \in CronSlots :
           /\ cronOp'[q][t] = (IF q = p /\ t = s THEN e ELSE cronOp[q][t])
           /\ DOMAIN cronOp'[q][t] = OpFields
  BY <1>1, <1>2, CronTurned DEF CronInv
<1>4. CronShaped'
  BY <1>1, <1>3 DEF CronInv, CronShaped
<1>5. SharedAreKnown'
  <2> SUFFICES ASSUME NEW q \in CronProcesses, NEW r \in CronProcesses, NEW t \in CronSlots,
                      NEW u \in CronSlots, CronSaves(q, t)', CronSaves(r, u)', <<q, t>> # <<r, u>>
               PROVE  <<q, t>> \in cronShared'
    BY DEF SharedAreKnown
  <2>1. CronSaves(q, t) /\ CronSaves(r, u) /\ <<q, t>> # <<p, s>>
    BY <1>2, <1>3 DEF CronSaves
  <2> QED BY <1>1, <2>1 DEF CronInv, SharedAreKnown
<1>6. FileKeeps'
  <2> SUFFICES ASSUME NEW q \in CronProcesses, NEW t \in CronSlots, cronOp'[q][t].step = "write",
                      <<q, t>> \notin cronShared'
               PROVE  FALSE
    BY DEF FileKeeps
  <2>1. CronSaves(q, t) /\ <<q, t>> # <<p, s>> /\ CronSaves(p, s)
    BY <1>1, <1>2, <1>3 DEF CronSaves
  <2> QED BY <1>1, <2>1 DEF CronInv, SharedAreKnown
<1>7. MarksTell'
  BY <1>1 DEF CronInv, CronShaped, MarksTell
<1>8. JobsKept'
  <2> SUFFICES ASSUME NEW j \in cronSaved' \ (cronRemoved \union cronLost')
               PROVE  j \in Cron!Present(new)
    BY <1>1 DEF JobsKept, Cron!Present
  <2>1. CASE <<p, s>> \in cronShared
    BY <1>1, <2>1 DEF CronInv, JobsKept
  <2>2. CASE <<p, s>> \notin cronShared
    BY <1>1, <2>2 DEF CronInv, FileKeeps
  <2> QED BY <2>1, <2>2
<1>9. LockExcludes'
  BY <1>1, <1>2, <1>3 DEF CronInv, LockExcludes, CronLocks
<1> QED BY <1>4, <1>5, <1>6, <1>7, <1>8, <1>9 DEF CronInv

LEMMA UnlockKeeps ==
  ASSUME CronInv, CronProcesses \cap {"none", "dead"} = {},
         NEW p \in CronProcesses, NEW s \in CronSlots, Cron!Unlock(p, s)
  PROVE  CronInv'
<1>1. /\ cronOp[p][s].step = "unlock" /\ cronLock' = <<"none", 0>>
      /\ UNCHANGED <<cronRemoved, cronDisk, cronFile, cronSaved, cronShared, cronLost>>
      /\ UNCHANGED cronSpent \/ Cron!Spend("faults")
  BY DEF Cron!Unlock, Cron!At, Cron!Nobody, Cron!otherVars
<1>2. /\ \E e : CronTurns(p, s, e) /\ DOMAIN e = OpFields /\ e.step \in {"idle", "lock", "next"}
      /\ DOMAIN cronDirty' = CronProcesses /\ DOMAIN cronGone' = CronProcesses
      /\ \A q \in CronProcesses : cronGone'[q] \subseteq cronGone[q]
  <2>1. PICK thrown \in BOOLEAN : Cron!SaveEnds(p, s, thrown)
    BY DEF Cron!Unlock
  <2> QED BY <2>1, SaveEnded DEF CronInv
<1>3. PICK e : CronTurns(p, s, e) /\ DOMAIN e = OpFields /\ e.step \in {"idle", "lock", "next"}
  BY <1>2
<1>4. /\ DOMAIN cronOp' = CronProcesses
      /\ \A q \in CronProcesses : DOMAIN cronOp'[q] = CronSlots
      /\ \A q \in CronProcesses, t \in CronSlots :
           /\ cronOp'[q][t] = (IF q = p /\ t = s THEN e ELSE cronOp[q][t])
           /\ DOMAIN cronOp'[q][t] = OpFields
  BY <1>3, CronTurned DEF CronInv
<1>5. CronShaped'
  BY <1>1, <1>2, <1>4, CronCounts DEF CronInv, CronShaped
<1>6. \A q \in CronProcesses, t \in CronSlots :
        cronOp'[q][t].step \in {"merge", "write", "unlock", "stale"}
          => cronOp'[q][t] = cronOp[q][t] /\ <<q, t>> # <<p, s>>
  BY <1>3, <1>4
<1>7. SharedAreKnown' /\ FileKeeps'
  BY <1>1, <1>6 DEF CronInv, SharedAreKnown, CronSaves, FileKeeps, Cron!Present
<1>8. LockExcludes'
  <2> SUFFICES ASSUME cronSpent.crashes = 0  PROVE LockExcludes'
    BY <1>1, CronCounts DEF LockExcludes, CronInv
  <2>1. cronLock'[1] # "dead"
    BY <1>1
  <2>2. ASSUME NEW q \in CronProcesses, NEW t \in CronSlots, CronLocks(q, t)'  PROVE FALSE
    <3>1. CronLocks(q, t) /\ <<q, t>> # <<p, s>> /\ CronLocks(p, s)
      BY <1>1, <1>6, <2>2 DEF CronLocks
    <3> QED BY <3>1 DEF CronInv, LockExcludes
  <2> QED BY <1>1, <1>6, <2>1, <2>2 DEF CronInv, LockExcludes
<1>9. MarksTell' /\ JobsKept'
  BY <1>1, <1>2 DEF CronInv, MarksTell, JobsKept, Cron!Present
<1> QED BY <1>5, <1>7, <1>8, <1>9 DEF CronInv

LEMMA CronCrashKeeps ==
  ASSUME CronInv, NEW p \in CronProcesses, Cron!Crash(p)
  PROVE  CronInv'
<1>1. /\ UNCHANGED <<cronDisk, cronSaved, cronRemoved, cronLost>> /\ Cron!Spend("crashes")
      /\ cronShared' = {q \in cronShared : q[1] # p}
      /\ cronDirty' = [cronDirty EXCEPT ![p] = {}] /\ cronGone' = [cronGone EXCEPT ![p] = {}]
      /\ cronOp' = [cronOp EXCEPT ![p] = [s \in CronSlots |-> Cron!Idle]]
      /\ cronFile' = [cronFile EXCEPT ![p] = [s \in CronSlots |-> Cron!NoJobs]]
  BY DEF Cron!Crash
<1>2. \A q \in CronProcesses, t \in CronSlots :
        /\ cronOp'[q][t] = (IF q = p THEN Cron!Idle ELSE cronOp[q][t])
        /\ q # p => cronFile'[q][t] = cronFile[q][t]
  BY <1>1 DEF CronInv, CronShaped
<1>3. cronSpent' \in [edits : Nat, faults : Nat, crashes : Nat] /\ cronSpent'.crashes # 0
  BY <1>1 DEF CronInv, CronShaped, Cron!Spend
<1>4. CronShaped'
  BY <1>1, <1>2, <1>3 DEF CronInv, CronShaped, OpFields
<1>5. ASSUME NEW q \in CronProcesses, NEW t \in CronSlots, CronSaves(q, t)'
      PROVE  /\ q # p /\ cronOp'[q][t] = cronOp[q][t]
             /\ <<q, t>> \in cronShared => <<q, t>> \in cronShared'
  <2>1. q # p /\ cronOp'[q][t] = cronOp[q][t]
    BY <1>2, <1>5 DEF Cron!Idle, CronSaves
  <2>2. <<q, t>>[1] = q
    OBVIOUS
  <2> QED BY <1>1, <2>1, <2>2
<1>6. SharedAreKnown'
  BY <1>5 DEF CronInv, SharedAreKnown, CronSaves
<1>7. FileKeeps'
  <2> SUFFICES ASSUME NEW q \in CronProcesses, NEW t \in CronSlots, cronOp'[q][t].step = "write",
                      <<q, t>> \notin cronShared'
               PROVE  cronSaved \ (cronRemoved \union cronLost) \subseteq
                        Cron!Present(cronFile'[q][t])
    BY <1>1 DEF FileKeeps, Cron!Present
  <2>1. /\ q # p /\ cronOp'[q][t] = cronOp[q][t]
        /\ (<<q, t>> \in cronShared => <<q, t>> \in cronShared')
    BY <1>5 DEF CronSaves
  <2> QED BY <1>2, <2>1 DEF CronInv, FileKeeps
<1>8. LockExcludes'
  BY <1>3 DEF LockExcludes
<1>9. MarksTell' /\ JobsKept'
  BY <1>1 DEF CronInv, CronShaped, MarksTell, JobsKept, Cron!Present
<1> QED BY <1>4, <1>6, <1>7, <1>8, <1>9 DEF CronInv

LEMMA CronKeeps ==
  ASSUME CronProcesses \cap {"none", "dead"} = {}, CronInv, [Cron!Next]_cronVars
  PROVE  CronInv'
<1>1. CASE UNCHANGED cronVars \/ Cron!Tick
  <2>1. UNCHANGED <<cronDisk, cronFile, cronLock, cronSaved, cronShared, cronLost, cronSpent,
                    cronRemoved, cronGone, cronDirty, cronOp>>
    BY <1>1 DEF cronVars, Cron!Tick, Cron!saveVars
  <2> QED BY <2>1 DEF CronInv, CronShaped, SharedAreKnown, CronSaves, MarksTell, FileKeeps,
                      LockExcludes, CronLocks, JobsKept, Cron!Present
<1>2. CASE Cron!EditNext
  BY <1>2, EditKeeps, ExecutionKeeps DEF Cron!EditNext
<1>3. ASSUME NEW p \in CronProcesses, Cron!Crash(p) \/ Cron!TimerNext(p)
      PROVE  CronInv'
  BY <1>3, CronCrashKeeps, ExecutionKeeps DEF Cron!TimerNext
<1>4. ASSUME NEW p \in CronProcesses, NEW s \in CronSlots,
             Cron!SlotNext(p, s) \/ Cron!StartFails(p, s) \/ Cron!LockTimesOut(p, s)
      PROVE  CronInv'
  <2>1. CASE Cron!Lock(p, s) \/ Cron!SeeStale(p, s) \/ Cron!RemoveStale(p, s)
    BY <2>1, LockKeeps, StaleKeeps
  <2>2. CASE Cron!Merge(p, s) \/ Cron!Write(p, s) \/ Cron!Unlock(p, s)
    BY <2>2, MergeKeeps, WriteKeeps, UnlockKeeps
  <2> QED BY <1>4, <2>1, <2>2, ExecutionKeeps DEF Cron!SlotNext
<1> QED BY <1>1, <1>2, <1>3, <1>4 DEF Cron!Next

\* CronScheduler.save: a job that is in the file stays there until somebody deletes it,
\* whichever processes save, crash or time out, with any number of operations in flight. What
\* saves at the same time take out is not claimed, but that there are none until a process has
\* died: the deletion of an old lock file is steps of their own.
THEOREM SavedJobs == ServicesSpec => []SavedJobsAreKept
<1> USE ServicesAssumption DEF ServicesAssumption
<1> DEFINE Inv == focus = "cron" => CronInv
<1>1. ServicesInit => Inv
  BY CronBegins DEF ServicesInit
<1>2. Inv /\ [ServicesNext]_allVars => Inv'
  <2> SUFFICES ASSUME Inv, [ServicesNext]_allVars, focus = "cron" PROVE CronInv'
    BY OneService
  <2>1. [Cron!Next]_cronVars
    BY OneService
  <2> QED BY <2>1, CronKeeps
<1>3. Inv => SavedJobsAreKept
  <2> SUFFICES ASSUME CronInv  PROVE Cron!SavedJobsAreKept
    BY DEF SavedJobsAreKept
  <2> QED BY DEF Cron!SavedJobsAreKept, CronInv, CronShaped, LockExcludes, JobsKept
<1> QED BY <1>1, <1>2, <1>3, PTL DEF ServicesSpec

-----------------------------------------------------------------------------
(* The skill candidates: what SkillCandidates_proofs proves.                 *)

SkillProofs == INSTANCE SkillCandidates_proofs WITH
  Processes <- SkProcesses, Workflows <- SkWorkflows, Names <- SkNames,
  MaxProposals <- SkMaxProposals, MaxFaults <- SkMaxFaults,
  candidates <- skCandidates, files <- skFiles, skills <- skSkills, proposing <- skProposing,
  approving <- skApproving, decided <- skDecided, rebuilt <- skRebuilt, cut <- skCut,
  left <- skLeft

\* The two names of each definition mean the same.
LEMMA SkillsSame ==
  /\ Skills!Init = SkillProofs!Init
  /\ Skills!Next = SkillProofs!Next
  /\ SkillProofs!vars = skVars
  /\ Skills!DecisionsStand = SkillProofs!DecisionsStand
BY DEF skVars,
         Skills!vars, Skills!Nobody, Skills!Present, Skills!Open, Skills!Init, Skills!Free,
         Skills!SkillName, Skills!getOpenCandidateByWorkflowKey, Skills!proposeCandidate,
         Skills!approveCandidate, Skills!writeSkill, Skills!Abandoned, Skills!WriteFails,
         Skills!StatusAfter, Skills!Rewriting,
         Skills!Decides, Skills!Approved, Skills!rejectCandidate, Skills!Restart, Skills!Next,
         Skills!DecisionsStand,
         SkillProofs!vars, SkillProofs!Nobody, SkillProofs!Present, SkillProofs!Open,
         SkillProofs!Init, SkillProofs!Free, SkillProofs!SkillName,
         SkillProofs!getOpenCandidateByWorkflowKey, SkillProofs!proposeCandidate,
         SkillProofs!approveCandidate, SkillProofs!writeSkill, SkillProofs!Abandoned,
         SkillProofs!WriteFails, SkillProofs!StatusAfter, SkillProofs!Rewriting, SkillProofs!Decides, SkillProofs!Approved,
         SkillProofs!rejectCandidate, SkillProofs!Restart, SkillProofs!Next,
         SkillProofs!DecisionsStand

\* SkillCandidateStore: the first decision about a candidate stands, an approved one has its
\* skill in its file, but for a second approval that has emptied it, and no process knows a
\* skill without a file.
THEOREM Decisions == ServicesSpec => []DecisionsStand
<1> USE ServicesAssumption DEF ServicesAssumption
<1> DEFINE Inv == focus = "skills" => SkillProofs!IInv
<1>1. ServicesInit => Inv
  BY SkillsSame, SkillProofs!InitHolds DEF ServicesInit
<1>2. Inv /\ [ServicesNext]_allVars => Inv'
  <2> SUFFICES ASSUME Inv, [ServicesNext]_allVars, focus = "skills" PROVE SkillProofs!IInv'
    BY OneService
  <2>1. [SkillProofs!Next]_(SkillProofs!vars)
    BY OneService, SkillsSame DEF skVars, SkillProofs!vars
  <2> QED BY <2>1, SkillProofs!NextKeeps
<1>3. Inv => DecisionsStand
  BY SkillsSame, SkillProofs!Stands DEF DecisionsStand
<1> QED BY <1>1, <1>2, <1>3, PTL DEF ServicesSpec

-----------------------------------------------------------------------------
(* The provider registries.                                                *)

NoFile == Registry!NoFile
Present(f) == Registry!Present(f)

\* A configuration is there exactly when it has a type.
Shaped(f) ==
  /\ f = [defaultProviderId |-> f.defaultProviderId, settings |-> f.settings,
          providers |-> f.providers]
  /\ f.providers = [i \in RegIds |-> f.providers[i]]
  /\ \A i \in RegIds : /\ DOMAIN f.providers[i] = DOMAIN Registry!Absent
                       /\ i \in Present(f) => f.providers[i].type # "none"

Configured(f) == Shaped(f) /\ f.defaultProviderId \in Present(f)

RegFields == DOMAIN Registry!NoOp

RegTyped ==
  /\ DOMAIN regMemory = RegProcesses /\ DOMAIN regBase = RegProcesses /\ DOMAIN regOp = RegProcesses
  /\ \A p \in RegProcesses : DOMAIN regOp[p] = RegSlots
  /\ \A p \in RegProcesses, s \in RegSlots :
       /\ DOMAIN regOp[p][s] = RegFields
       /\ regOp[p][s].main \in RegRequested \union {"none"}
       /\ regOp[p][s].step = "main" => regOp[p][s].main \in RegIds
  /\ regSpent \in [edits : Nat, crashes : Nat]

\* The file is what some process has written, and what a process holds has a default. One that
\* holds nothing is not running.
FilesConfigured ==
  /\ regDisk # NoFile => Configured(regDisk)
  /\ \A p \in RegProcesses : regMemory[p] # NoFile => Configured(regMemory[p])
  /\ \A p \in RegProcesses, s \in RegSlots : regMemory[p] = NoFile => regOp[p][s].step = "idle"
  /\ regDisk = NoFile => regSaved = {}

\* What a process has read and no longer holds was removed by somebody.
OnlyRemovedMissing ==
  \A p \in RegProcesses :
    regMemory[p] # NoFile => Present(regBase[p]) \ Present(regMemory[p]) \subseteq regRemoved

\* The same of the copies that wait for the lock, while nothing else has been loaded.
CopiesConfigured ==
  \A p \in RegProcesses, s \in RegSlots :
    regOp[p][s].step \in {"lock", "stale", "merge"} =>
      /\ Configured(regOp[p][s].desired)
      /\ regOp[p][s].fresh => Present(regBase[p]) \ Present(regOp[p][s].desired) \subseteq regRemoved

\* A write between its lock and its rename; and until it deletes the lock file.
RegWrites(p, s) == regOp[p][s].step \in {"merge", "write"}
RegLocks(p, s) == regOp[p][s].step \in {"merge", "write", "unlock"}

\* Of two writes at the same time each is known to be.
SharedWritesKnown ==
  \A p, q \in RegProcesses, s, t \in RegSlots :
    RegWrites(p, s) /\ RegWrites(q, t) /\ <<p, s>> # <<q, t>> => <<p, s>> \in regShared

\* What was saved and is accounted for by nothing that takes it out.
RegKept == regSaved \ UNION {regRemoved, regLost, regOutdated}

\* What a write that is alone and up to date is about to write has all of it.
MergedKeep ==
  \A p \in RegProcesses, s \in RegSlots :
    regOp[p][s].step = "write" =>
      /\ Configured(regOp[p][s].desired)
      /\ <<p, s>> \notin regShared /\ regOp[p][s].fresh => RegKept \subseteq Present(regOp[p][s].desired)

\* Without a process that died the lock excludes all but one.
RegLockExcludes ==
  regSpent.crashes = 0 =>
    /\ regLock[1] # "dead" /\ regShared = {} /\ regLost = {}
    /\ \A p \in RegProcesses, s \in RegSlots :
         regOp[p][s].step # "stale" /\ (RegLocks(p, s) => regLock = <<p, s>>)

ProvidersKept == RegKept \subseteq Present(regDisk)

\* What concerns what processes hold, and what their writes.
RegHolds == RegTyped /\ FilesConfigured /\ OnlyRemovedMissing /\ CopiesConfigured
RegWriting == SharedWritesKnown /\ MergedKeep /\ RegLockExcludes /\ ProvidersKept
RegInv == RegHolds /\ RegWriting

LEMMA RegistryBegins ==
  ASSUME Registry!Init, RegProcesses \cap {"none", "dead"} = {}
  PROVE  RegInv
<1>1. \A p \in RegProcesses, s \in RegSlots :
        /\ DOMAIN regOp[p][s] = RegFields /\ regOp[p][s].step = "idle" /\ regOp[p][s].main = "none"
        /\ DOMAIN regOp[p] = RegSlots
  BY DEF Registry!Init, Registry!NoOp, RegFields
<1>2. RegHolds
  BY <1>1 DEF Registry!Init, RegHolds, RegTyped, FilesConfigured, OnlyRemovedMissing,
              CopiesConfigured, NoFile
<1>3. SharedWritesKnown /\ MergedKeep /\ ProvidersKept
  BY <1>1 DEF Registry!Init, SharedWritesKnown, RegWrites, MergedKeep, ProvidersKept, RegKept
<1>4. RegLockExcludes
  BY <1>1 DEF Registry!Init, RegLockExcludes, RegLocks, Registry!Nobody
<1> QED BY <1>2, <1>3, <1>4 DEF RegInv, RegWriting

\* One operation of one process becomes e.
RegTurns(p, s, e) == regOp' = [regOp EXCEPT ![p] = [regOp[p] EXCEPT ![s] = e]]

LEMMA RegTurned ==
  ASSUME RegTyped, NEW p \in RegProcesses, NEW s \in RegSlots, NEW e, RegTurns(p, s, e)
  PROVE  /\ DOMAIN regOp' = RegProcesses
         /\ \A q \in RegProcesses : DOMAIN regOp'[q] = RegSlots
         /\ \A q \in RegProcesses, t \in RegSlots :
              regOp'[q][t] = (IF q = p /\ t = s THEN e ELSE regOp[q][t])
BY DEF RegTyped, RegTurns

\* A step that leaves the file, the lock and what is saved alone, and lets no write go on.
LEMMA OutsideWrite ==
  ASSUME RegInv, RegTyped',
         UNCHANGED <<regDisk, regLock, regSaved, regShared, regLost, regOutdated>>,
         regSpent'.crashes = regSpent.crashes, regRemoved \subseteq regRemoved',
         \A p \in RegProcesses, s \in RegSlots :
           regOp'[p][s].step \in {"merge", "write", "unlock", "stale"}
             => regOp'[p][s] = regOp[p][s]
  PROVE  RegWriting'
<1>1. SharedWritesKnown'
  BY DEF RegInv, RegWriting, SharedWritesKnown, RegWrites
<1>2. RegKept' \subseteq RegKept
  BY DEF RegKept
<1>3. MergedKeep'
  BY <1>2 DEF RegInv, RegWriting, MergedKeep, Configured, Shaped, Present, Registry!Present
<1>4. RegLockExcludes'
  BY DEF RegInv, RegWriting, RegLockExcludes, RegLocks
<1>5. ProvidersKept'
  BY <1>2 DEF RegInv, RegWriting, ProvidersKept, Present, Registry!Present
<1> QED BY <1>1, <1>3, <1>4, <1>5 DEF RegWriting

LEMMA RegCounts ==
  ASSUME RegTyped, UNCHANGED regSpent \/ Registry!Spend("edits")
  PROVE  /\ regSpent' \in [edits : Nat, crashes : Nat]
         /\ regSpent'.crashes = regSpent.crashes
BY DEF RegTyped, Registry!Spend

LEMMA DefaultConfigured == \A id \in RegIds : Configured(Registry!defaultProviderFile(id))
BY ServicesAssumption
   DEF ServicesAssumption, Configured, Shaped, Present, Registry!Present,
       Registry!defaultProviderFile, Registry!NoFile, Registry!Absent, Registry!Echo

LEMMA NoFileUnconfigured == \A f : Configured(f) => f # NoFile
BY ServicesAssumption
   DEF ServicesAssumption, Configured, NoFile, Registry!NoFile, Present, Registry!Present

LEMMA EnsuredConfigured ==
  ASSUME NEW f, Shaped(f), f.defaultProviderId \in RegIds
  PROVE  /\ Configured(Registry!ensureDefault(f))
         /\ Present(f) \subseteq Present(Registry!ensureDefault(f))
<1> DEFINE g == [f EXCEPT !.providers[f.defaultProviderId] = Registry!Echo]
<1>1. CASE f.defaultProviderId \in Present(f)
  BY <1>1 DEF Registry!ensureDefault, Configured, Present
<1>2. CASE f.defaultProviderId \notin Present(f)
  <2>1. Registry!ensureDefault(f) = g
    BY <1>2 DEF Registry!ensureDefault, Present
  <2>2. /\ g.defaultProviderId = f.defaultProviderId /\ g.settings = f.settings
        /\ g.providers = [f.providers EXCEPT ![f.defaultProviderId] = Registry!Echo]
        /\ g = [defaultProviderId |-> g.defaultProviderId, settings |-> g.settings,
                providers |-> g.providers]
    BY DEF Shaped
  <2>3. \A i \in RegIds :
          g.providers[i] = (IF i = f.defaultProviderId THEN Registry!Echo ELSE f.providers[i])
    BY <2>2 DEF Shaped
  <2>4. g.providers = [i \in RegIds |-> g.providers[i]]
    BY <2>2 DEF Shaped
  <2>5. /\ DOMAIN Registry!Echo = DOMAIN Registry!Absent
        /\ Registry!Echo # Registry!Absent /\ Registry!Echo.type # "none"
    BY DEF Registry!Echo, Registry!Absent
  <2>6. Present(f) \subseteq Present(g) /\ f.defaultProviderId \in Present(g)
    BY <2>3, <2>5 DEF Present, Registry!Present
  <2>7. Shaped(g)
    BY <2>2, <2>3, <2>4, <2>5 DEF Shaped, Present, Registry!Present
  <2> QED BY <2>1, <2>2, <2>6, <2>7 DEF Configured
<1> QED BY <1>1, <1>2

\* A merge keeps what the file has, but for what this process has dropped since it last read.
LEMMA MergeConfigured ==
  ASSUME NEW s, NEW d, NEW c, Configured(d), Configured(c)
  PROVE  LET m == Registry!mergeProviderFiles(s, d, c)
         IN  Configured(m) /\ Present(c) \ Present(m) \subseteq Present(s) \ Present(d)
<1> DEFINE merged == Registry!MergedProviders(s, d, c)
           id == IF d["defaultProviderId"] # s["defaultProviderId"] THEN d["defaultProviderId"]
                 ELSE c["defaultProviderId"]
           settings == IF d["settings"] # s["settings"] THEN d["settings"] ELSE c["settings"]
           f == [defaultProviderId |-> id, settings |-> settings, providers |-> merged]
           m == Registry!mergeProviderFiles(s, d, c)
<1>1. m = Registry!Repaired(f, d)
  BY DEF Registry!mergeProviderFiles
<1>2. \A i \in RegIds :
        merged[i] = (IF d.providers[i] \notin {Registry!Absent, s.providers[i]} THEN d.providers[i]
                     ELSE IF d.providers[i] = Registry!Absent /\ s.providers[i] # Registry!Absent
                     THEN Registry!Absent ELSE c.providers[i])
  BY DEF Registry!MergedProviders
<1>3. merged = [i \in RegIds |-> merged[i]]
  BY DEF Registry!MergedProviders
<1>4. Shaped(f)
  <2>1. \A i \in RegIds : DOMAIN merged[i] = DOMAIN Registry!Absent
    BY <1>2 DEF Configured, Shaped
  <2>2. \A i \in RegIds : merged[i] # Registry!Absent => merged[i].type # "none"
    BY <1>2 DEF Configured, Shaped, Present, Registry!Present
  <2> HIDE DEF merged, id, settings
  <2> QED BY <1>3, <2>1, <2>2 DEF Shaped, Present, Registry!Present
<1>5. \A i \in RegIds : i \in Present(c) /\ i \notin Present(f) => i \in Present(s) \ Present(d)
  BY <1>2 DEF Present, Registry!Present
<1> HIDE DEF merged, id, settings
<1>6. d.defaultProviderId \in Present(d) /\ Present(d) \subseteq RegIds /\ Shaped(d)
  BY DEF Configured, Present, Registry!Present
<1>7. \A g, e, x :
        Shaped(g) /\ e \in RegIds /\ DOMAIN x = DOMAIN Registry!Absent /\ x # Registry!Absent
          /\ x.type # "none"
        => LET h == [g EXCEPT !.defaultProviderId = e, !.providers[e] = x]
           IN  Configured(h) /\ Present(g) \subseteq Present(h)
  <2> SUFFICES ASSUME NEW g, NEW e \in RegIds, NEW x, Shaped(g),
                      DOMAIN x = DOMAIN Registry!Absent, x # Registry!Absent, x.type # "none"
               PROVE  LET h == [g EXCEPT !.defaultProviderId = e, !.providers[e] = x]
                      IN  Configured(h) /\ Present(g) \subseteq Present(h)
    OBVIOUS
  <2> DEFINE h == [g EXCEPT !.defaultProviderId = e, !.providers[e] = x]
  <2> DEFINE k == [g EXCEPT !.defaultProviderId = e]
  <2>1. /\ k.defaultProviderId = e /\ k.settings = g.settings /\ k.providers = g.providers
        /\ k = [defaultProviderId |-> e, settings |-> g.settings, providers |-> g.providers]
    BY DEF Shaped
  <2>2. h = [k EXCEPT !.providers[e] = x]
    OBVIOUS
  <2> HIDE DEF h, k
  <2>3. /\ h.defaultProviderId = e /\ h.settings = g.settings
        /\ h.providers = [g.providers EXCEPT ![e] = x]
        /\ h = [defaultProviderId |-> h.defaultProviderId, settings |-> h.settings,
                providers |-> h.providers]
    BY <2>1, <2>2
  <2>4. /\ h.providers = [i \in RegIds |-> h.providers[i]]
        /\ \A i \in RegIds : h.providers[i] = (IF i = e THEN x ELSE g.providers[i])
    BY <2>3 DEF Shaped
  <2>5. Present(g) \subseteq Present(h) /\ e \in Present(h)
    BY <2>4 DEF Present, Registry!Present
  <2>6. Shaped(h)
    BY <2>3, <2>4 DEF Shaped, Present, Registry!Present
  <2>7. Configured(h)
    BY <2>3, <2>5, <2>6 DEF Configured
  <2> QED BY <2>5, <2>7 DEF h
<1>8. Configured(m) /\ Present(f) \subseteq Present(m)
  <2>1. CASE f.defaultProviderId \in Present(f)
    BY <1>1, <1>4, <2>1 DEF Registry!Repaired, Configured, Present
  <2>2. CASE f.defaultProviderId \notin Present(f)
    <3>1. m = [f EXCEPT !.defaultProviderId = d.defaultProviderId,
                        !.providers[d.defaultProviderId] = d.providers[d.defaultProviderId]]
      BY <1>1, <1>6, <2>2 DEF Registry!Repaired, Present
    <3>2. LET x == d.providers[d.defaultProviderId]
          IN  DOMAIN x = DOMAIN Registry!Absent /\ x # Registry!Absent /\ x.type # "none"
      BY <1>6 DEF Shaped, Present, Registry!Present
    <3> HIDE DEF f, m
    <3> QED BY <1>4, <1>6, <1>7, <3>1, <3>2
  <2> QED BY <2>1, <2>2
<1> HIDE DEF f, m
<1>9. Present(c) \subseteq RegIds
  BY DEF Present, Registry!Present
<1> QED BY <1>5, <1>8, <1>9 DEF m

\* The settings of a process change in memory.
LEMMA ChangeKeeps ==
  ASSUME RegInv, NEW p \in RegProcesses, NEW s \in RegSlots, NEW f, regMemory[p] # NoFile,
         Registry!Changes(p, s, f), Configured(f),
         Present(regMemory[p]) \ Present(f) \subseteq regRemoved', regRemoved \subseteq regRemoved',
         UNCHANGED regSpent \/ Registry!Spend("edits"),
         UNCHANGED <<regDisk, regLock, regBase, regSaved, regShared, regLost, regOutdated>>
  PROVE  RegInv'
<1> DEFINE e == [regOp[p][s] EXCEPT !.step = "prepare"]
<1>1. regMemory' = [regMemory EXCEPT ![p] = f] /\ RegTurns(p, s, e)
  BY DEF Registry!Changes, Registry!Becomes, RegTurns
<1>2. DOMAIN e = RegFields /\ e.step = "prepare" /\ e.main = regOp[p][s].main
  BY DEF RegInv, RegHolds, RegTyped, RegFields, Registry!NoOp
<1> HIDE DEF e
<1>3. /\ DOMAIN regOp' = RegProcesses
      /\ \A q \in RegProcesses : DOMAIN regOp'[q] = RegSlots
      /\ \A q \in RegProcesses, t \in RegSlots :
           regOp'[q][t] = (IF q = p /\ t = s THEN e ELSE regOp[q][t])
      /\ \A q \in RegProcesses : regMemory'[q] = (IF q = p THEN f ELSE regMemory[q])
  BY <1>1, RegTurned DEF RegInv, RegHolds, RegTyped
<1>4. RegTyped'
  BY <1>1, <1>2, <1>3, RegCounts DEF RegInv, RegHolds, RegTyped
<1>5. f # NoFile
  BY NoFileUnconfigured
<1>6. FilesConfigured'
  BY <1>2, <1>3, <1>5 DEF RegInv, RegHolds, FilesConfigured, NoFile
<1>7. OnlyRemovedMissing'
  BY <1>3 DEF RegInv, RegHolds, OnlyRemovedMissing, NoFile
<1>8. CopiesConfigured'
  BY <1>2, <1>3 DEF RegInv, RegHolds, CopiesConfigured, Configured, Shaped, Present,
                    Registry!Present
<1>9. RegWriting'
  <2>1. \A q \in RegProcesses, t \in RegSlots :
          regOp'[q][t].step \in {"merge", "write", "unlock", "stale"}
            => regOp'[q][t] = regOp[q][t]
    BY <1>2, <1>3
  <2> QED BY <1>4, <2>1, RegCounts, OutsideWrite DEF RegInv, RegHolds
<1> QED BY <1>4, <1>6, <1>7, <1>8, <1>9 DEF RegInv, RegHolds

LEMMA StartKeeps ==
  ASSUME RegInv, NEW p \in RegProcesses, NEW s \in RegSlots, NEW main \in RegRequested,
         Registry!Start(p, s, main)
  PROVE  RegInv'
<1> DEFINE id == IF main = "none" THEN "echo" ELSE main
           read == Registry!readProviderConfig(id)
           file == Registry!ensureDefault(read)
           e == [Registry!NoOp EXCEPT !.step = "prepare", !.main = main, !.starting = TRUE]
<1>1. Configured(read)
  BY DefaultConfigured, ServicesAssumption
     DEF ServicesAssumption, Registry!readProviderConfig, RegInv, RegHolds, FilesConfigured, NoFile
<1>2. Configured(file) /\ Present(read) \subseteq Present(file)
  BY <1>1, EnsuredConfigured DEF Configured, Present, Registry!Present
<1> HIDE DEF file, read
<1>3. /\ regMemory[p] = NoFile
      /\ regBase' = [regBase EXCEPT ![p] = read]
      /\ regMemory' = [regMemory EXCEPT ![p] = file]
      /\ RegTurns(p, s, e)
      /\ UNCHANGED <<regDisk, regLock, regSaved, regRemoved, regShared, regLost, regOutdated,
                     regSpent>>
  BY DEF Registry!Start, file, read, Registry!Becomes, RegTurns, Registry!fileVars, NoFile
<1>4. DOMAIN e = RegFields /\ e.step = "prepare" /\ e.main = main
  BY DEF RegFields, Registry!NoOp
<1> HIDE DEF e
<1>5. /\ DOMAIN regOp' = RegProcesses
      /\ \A q \in RegProcesses : DOMAIN regOp'[q] = RegSlots
      /\ \A q \in RegProcesses, t \in RegSlots :
           regOp'[q][t] = (IF q = p /\ t = s THEN e ELSE regOp[q][t])
      /\ \A q \in RegProcesses :
           /\ regMemory'[q] = (IF q = p THEN file ELSE regMemory[q])
           /\ regBase'[q] = (IF q = p THEN read ELSE regBase[q])
  BY <1>3, RegTurned DEF RegInv, RegHolds, RegTyped
<1>6. RegTyped'
  BY <1>3, <1>4, <1>5 DEF RegInv, RegHolds, RegTyped
<1>7. file # NoFile
  BY <1>2, NoFileUnconfigured
<1>8. FilesConfigured'
  BY <1>2, <1>3, <1>4, <1>5, <1>7 DEF RegInv, RegHolds, FilesConfigured, NoFile
<1>9. OnlyRemovedMissing'
  BY <1>2, <1>3, <1>5 DEF RegInv, RegHolds, OnlyRemovedMissing, NoFile
<1>10. \A t \in RegSlots : regOp[p][t].step = "idle"
  BY <1>3 DEF RegInv, RegHolds, FilesConfigured
<1>11. CopiesConfigured'
  BY <1>3, <1>4, <1>5, <1>10 DEF RegInv, RegHolds, CopiesConfigured, Configured, Shaped, Present,
                                 Registry!Present
<1>12. RegWriting'
  <2>1. \A q \in RegProcesses, t \in RegSlots :
          regOp'[q][t].step \in {"merge", "write", "unlock", "stale"}
            => regOp'[q][t] = regOp[q][t]
    BY <1>4, <1>5
  <2> QED BY <1>3, <1>6, <2>1, OutsideWrite
<1> QED BY <1>6, <1>8, <1>9, <1>11, <1>12 DEF RegInv, RegHolds

\* A process that ends: nothing it holds is left.
LEMMA StopHolds ==
  ASSUME RegInv, NEW p \in RegProcesses, Registry!Stops(p),
         regSpent' \in [edits : Nat, crashes : Nat], UNCHANGED <<regDisk, regSaved, regRemoved>>
  PROVE  /\ RegHolds'
         /\ \A q \in RegProcesses, t \in RegSlots :
              regOp'[q][t] = (IF q = p THEN Registry!NoOp ELSE regOp[q][t])
<1>1. /\ regMemory' = [regMemory EXCEPT ![p] = NoFile] /\ regBase' = [regBase EXCEPT ![p] = NoFile]
      /\ regOp' = [regOp EXCEPT ![p] = [t \in RegSlots |-> Registry!NoOp]]
  BY DEF Registry!Stops, NoFile
<1>2. /\ DOMAIN regOp' = RegProcesses
      /\ \A q \in RegProcesses : DOMAIN regOp'[q] = RegSlots
      /\ \A q \in RegProcesses, t \in RegSlots :
           regOp'[q][t] = (IF q = p THEN Registry!NoOp ELSE regOp[q][t])
      /\ \A q \in RegProcesses : /\ regMemory'[q] = (IF q = p THEN NoFile ELSE regMemory[q])
                                 /\ regBase'[q] = (IF q = p THEN NoFile ELSE regBase[q])
  BY <1>1 DEF RegInv, RegHolds, RegTyped
<1>3. /\ Registry!NoOp.step = "idle" /\ Registry!NoOp.main = "none"
      /\ DOMAIN Registry!NoOp = RegFields
  BY DEF Registry!NoOp, RegFields
<1>4. RegTyped'
  BY <1>1, <1>2, <1>3 DEF RegInv, RegHolds, RegTyped
<1>5. FilesConfigured'
  BY <1>2, <1>3 DEF RegInv, RegHolds, FilesConfigured, NoFile
<1>6. OnlyRemovedMissing'
  BY <1>2 DEF RegInv, RegHolds, OnlyRemovedMissing, NoFile
<1>7. CopiesConfigured'
  BY <1>2, <1>3 DEF RegInv, RegHolds, CopiesConfigured, Configured, Shaped, Present,
                    Registry!Present
<1> QED BY <1>2, <1>4, <1>5, <1>6, <1>7 DEF RegHolds

LEMMA StopKeeps ==
  ASSUME RegInv, NEW p \in RegProcesses, Registry!Stops(p),
         UNCHANGED <<regDisk, regLock, regSaved, regRemoved, regShared, regLost, regOutdated,
                     regSpent>>
  PROVE  RegInv'
<1>1. regSpent' \in [edits : Nat, crashes : Nat]
  BY DEF RegInv, RegHolds, RegTyped
<1>2. /\ RegHolds'
      /\ \A q \in RegProcesses, t \in RegSlots :
           regOp'[q][t] = (IF q = p THEN Registry!NoOp ELSE regOp[q][t])
  BY <1>1, StopHolds
<1>3. Registry!NoOp.step = "idle"
  BY DEF Registry!NoOp
<1>4. \A q \in RegProcesses, t \in RegSlots :
        regOp'[q][t].step \in {"merge", "write", "unlock", "stale"} => regOp'[q][t] = regOp[q][t]
  BY <1>2, <1>3
<1> QED BY <1>2, <1>4, OutsideWrite DEF RegInv, RegHolds

LEMMA RegCrashKeeps ==
  ASSUME RegInv, NEW p \in RegProcesses, Registry!Crash(p)
  PROVE  RegInv'
<1>1. /\ UNCHANGED <<regDisk, regSaved, regRemoved, regLost, regOutdated>>
      /\ Registry!Spend("crashes") /\ Registry!Stops(p)
      /\ regShared' = {q \in regShared : q[1] # p}
  BY DEF Registry!Crash, Registry!fileVars
<1>2. regSpent' \in [edits : Nat, crashes : Nat] /\ regSpent'.crashes # 0
  BY <1>1 DEF RegInv, RegHolds, RegTyped, Registry!Spend
<1>3. /\ RegHolds'
      /\ \A q \in RegProcesses, t \in RegSlots :
           regOp'[q][t] = (IF q = p THEN Registry!NoOp ELSE regOp[q][t])
  BY <1>1, <1>2, StopHolds
<1>4. Registry!NoOp.step = "idle"
  BY DEF Registry!NoOp
<1>5. ASSUME NEW q \in RegProcesses, NEW t \in RegSlots, RegWrites(q, t)'
      PROVE  /\ q # p /\ regOp'[q][t] = regOp[q][t]
             /\ <<q, t>> \in regShared => <<q, t>> \in regShared'
  <2>1. q # p /\ regOp'[q][t] = regOp[q][t]
    BY <1>3, <1>4, <1>5 DEF RegWrites
  <2>2. <<q, t>>[1] = q
    OBVIOUS
  <2> QED BY <1>1, <2>1, <2>2
<1>6. SharedWritesKnown'
  BY <1>5 DEF RegInv, RegWriting, SharedWritesKnown, RegWrites
<1>7. RegKept' = RegKept
  BY <1>1 DEF RegKept
<1>8. MergedKeep'
  <2> SUFFICES ASSUME NEW q \in RegProcesses, NEW t \in RegSlots, regOp'[q][t].step = "write"
               PROVE  /\ Configured(regOp'[q][t].desired)
                      /\ <<q, t>> \notin regShared' /\ regOp'[q][t].fresh
                           => RegKept \subseteq Present(regOp'[q][t].desired)
    BY <1>7 DEF MergedKeep, Configured, Shaped, Present, Registry!Present
  <2>1. regOp'[q][t] = regOp[q][t] /\ (<<q, t>> \in regShared => <<q, t>> \in regShared')
    BY <1>5 DEF RegWrites
  <2> QED BY <2>1 DEF RegInv, RegWriting, MergedKeep
<1>9. RegLockExcludes'
  BY <1>2 DEF RegLockExcludes
<1>10. ProvidersKept'
  BY <1>1, <1>7 DEF RegInv, RegWriting, ProvidersKept, Present, Registry!Present
<1> QED BY <1>3, <1>6, <1>8, <1>9, <1>10 DEF RegInv, RegWriting

LEMMA RequestMainKeeps ==
  ASSUME RegInv, NEW p \in RegProcesses, NEW s \in RegSlots, Registry!RequestMain(p, s)
  PROVE  RegInv'
<1> DEFINE own == [regMemory[p] EXCEPT !.defaultProviderId = regOp[p][s].main]
           file == Registry!ensureDefault(own)
<1>1. regMemory[p] # NoFile /\ regOp[p][s].main \in RegIds /\ Shaped(regMemory[p])
  BY DEF Registry!RequestMain, Registry!At, RegInv, RegHolds, RegTyped, FilesConfigured,
         Configured, NoFile
<1>2. own = [defaultProviderId |-> regOp[p][s].main, settings |-> regMemory[p].settings,
             providers |-> regMemory[p].providers]
  BY <1>1 DEF Shaped
<1>3. Shaped(own) /\ own.defaultProviderId \in RegIds /\ Present(own) = Present(regMemory[p])
  BY <1>1, <1>2 DEF Shaped, Present, Registry!Present
<1>4. /\ UNCHANGED <<regDisk, regLock, regSaved, regRemoved, regShared, regLost, regOutdated,
                     regSpent>>
      /\ \/ Registry!Changes(p, s, file) /\ UNCHANGED regBase
         \/ Registry!Stops(p)
  BY DEF Registry!RequestMain, Registry!fileVars
<1> HIDE DEF own
<1>5. Configured(file) /\ Present(own) \subseteq Present(file)
  BY <1>3, EnsuredConfigured
<1> HIDE DEF file
<1>6. CASE Registry!Changes(p, s, file) /\ UNCHANGED regBase
  BY <1>1, <1>3, <1>4, <1>5, <1>6, ChangeKeeps
<1> QED BY <1>4, <1>6, StopKeeps

\* What an edit leaves alone.
Untouched ==
  /\ UNCHANGED <<regDisk, regLock, regBase, regSaved, regShared, regLost, regOutdated>>
  /\ Registry!Spend("edits")

\* What an edit leaves of a process's settings is configured, when it neither takes away nor
\* disables more than an edit may.
LEMMA ProviderReplaced ==
  ASSUME NEW f, Configured(f), NEW i \in RegIds, NEW x, DOMAIN x = DOMAIN Registry!Absent,
         x # Registry!Absent => x.type # "none",
         x = Registry!Absent => i # f.defaultProviderId
  PROVE  LET g == [f EXCEPT !.providers[i] = x]
         IN  /\ Configured(g)
             /\ Present(f) \ Present(g) \subseteq (IF x = Registry!Absent THEN {i} ELSE {})
<1> DEFINE g == [f EXCEPT !.providers[i] = x]
<1>1. /\ g.defaultProviderId = f.defaultProviderId /\ g.settings = f.settings
      /\ g.providers = [f.providers EXCEPT ![i] = x]
      /\ g = [defaultProviderId |-> g.defaultProviderId, settings |-> g.settings,
              providers |-> g.providers]
  BY DEF Configured, Shaped
<1>2. /\ g.providers = [j \in RegIds |-> g.providers[j]]
      /\ \A j \in RegIds : g.providers[j] = (IF j = i THEN x ELSE f.providers[j])
  BY <1>1 DEF Configured, Shaped
<1> HIDE DEF g
<1>3. Present(f) \ Present(g) \subseteq (IF x = Registry!Absent THEN {i} ELSE {})
  BY <1>2 DEF Present, Registry!Present
<1>4. Shaped(g)
  BY <1>1, <1>2 DEF Configured, Shaped, Present, Registry!Present
<1>5. g.defaultProviderId \in Present(g)
  BY <1>1, <1>2 DEF Configured, Present, Registry!Present
<1> QED BY <1>3, <1>4, <1>5 DEF Configured, g

LEMMA AddKeeps ==
  ASSUME RegInv, NEW p \in RegProcesses, NEW s \in RegSlots, NEW i \in RegIds, NEW c \in RegInputs,
         Registry!add(p, s, i, c)
  PROVE  RegInv'
<1> DEFINE x == Registry!normalizeProviderConfig(c)
           f == [regMemory[p] EXCEPT !.providers[i] = x]
<1>1. /\ regMemory[p] # NoFile /\ Registry!Changes(p, s, f)
      /\ UNCHANGED regRemoved /\ Untouched
      /\ x.type \in {"echo", "openai", "ollama", "codex"}
  BY DEF Registry!add, Registry!Edits, Registry!Running, Untouched,
         Registry!fileVars, Registry!validateProviderConfig, NoFile
<1>2. DOMAIN x = DOMAIN Registry!Absent
  BY ServicesAssumption DEF ServicesAssumption, Registry!normalizeProviderConfig
<1>3. x # Registry!Absent /\ x.type # "none"
  BY <1>1 DEF Registry!Absent
<1> HIDE DEF x
<1>4. Configured(regMemory[p])
  BY <1>1 DEF RegInv, RegHolds, FilesConfigured, NoFile
<1>5. Configured(f) /\ Present(regMemory[p]) \ Present(f) = {}
  BY <1>2, <1>3, <1>4, ProviderReplaced
<1> HIDE DEF f
<1> QED BY <1>1, <1>5, ChangeKeeps DEF Untouched

LEMMA SwitchKeeps ==
  ASSUME RegInv, NEW p \in RegProcesses, NEW s \in RegSlots, NEW i \in RegIds,
         Registry!enable(p, s, i) \/ Registry!disable(p, s, i)
  PROVE  RegInv'
<1>1. PICK on \in BOOLEAN :
        Registry!Changes(p, s, [regMemory[p] EXCEPT !.providers[i].enabled = on])
  BY DEF Registry!enable, Registry!disable, Registry!Edits
<1> DEFINE x == [regMemory[p].providers[i] EXCEPT !.enabled = on]
           f == [regMemory[p] EXCEPT !.providers[i] = x]
<1>2. /\ regMemory[p] # NoFile /\ i \in Present(regMemory[p])
      /\ UNCHANGED regRemoved /\ Untouched
  BY DEF Registry!enable, Registry!disable, Registry!Edits, Registry!Running, Untouched,
         Registry!fileVars, NoFile, Present,
         Registry!assertProviderCanBeRemovedOrDisabled
<1>3. Configured(regMemory[p])
  BY <1>2 DEF RegInv, RegHolds, FilesConfigured, NoFile
<1>4. [regMemory[p] EXCEPT !.providers[i].enabled = on] = f
  OBVIOUS
<1>5. DOMAIN x = DOMAIN Registry!Absent /\ x.type = regMemory[p].providers[i].type
  BY <1>3 DEF Configured, Shaped, Registry!Absent
<1>6. x # Registry!Absent /\ x.type # "none"
  BY <1>2, <1>3, <1>5 DEF Configured, Shaped, Registry!Absent
<1> HIDE DEF x
<1>7. Configured(f) /\ Present(regMemory[p]) \ Present(f) = {}
  BY <1>3, <1>5, <1>6, ProviderReplaced
<1> HIDE DEF f
<1> QED BY <1>1, <1>2, <1>4, <1>7, ChangeKeeps DEF Untouched

LEMMA RemoveKeeps ==
  ASSUME RegInv, NEW p \in RegProcesses, NEW s \in RegSlots, NEW i \in RegIds, Registry!remove(p, s, i)
  PROVE  RegInv'
<1> DEFINE f == [regMemory[p] EXCEPT !.providers[i] = Registry!Absent]
<1>1. /\ regMemory[p] # NoFile /\ i # regMemory[p].defaultProviderId
      /\ Registry!Changes(p, s, f) /\ regRemoved' = regRemoved \union {i}
      /\ Untouched
  BY DEF Registry!remove, Registry!Edits, Registry!Running, Untouched,
         Registry!fileVars, NoFile,
         Registry!assertProviderCanBeRemovedOrDisabled
<1>2. Configured(regMemory[p])
  BY <1>1 DEF RegInv, RegHolds, FilesConfigured, NoFile
<1>3. Configured(f) /\ Present(regMemory[p]) \ Present(f) \subseteq {i}
  BY <1>1, <1>2, ProviderReplaced
<1> HIDE DEF f
<1> QED BY <1>1, <1>3, ChangeKeeps DEF Untouched

LEMMA SettingsKeep ==
  ASSUME RegInv, NEW p \in RegProcesses, NEW s \in RegSlots, NEW i \in RegIds, NEW x,
         Registry!updateSettings(p, s, i, x)
  PROVE  RegInv'
<1> DEFINE f == [regMemory[p] EXCEPT !.defaultProviderId = i, !.settings = x]
<1>1. /\ regMemory[p] # NoFile /\ i \in Present(regMemory[p]) /\ Registry!Changes(p, s, f)
      /\ UNCHANGED regRemoved /\ Untouched
  BY DEF Registry!updateSettings, Registry!Edits, Registry!Running, Untouched,
         Registry!fileVars, NoFile, Present
<1>2. Configured(regMemory[p])
  BY <1>1 DEF RegInv, RegHolds, FilesConfigured, NoFile
<1> DEFINE k == [regMemory[p] EXCEPT !.defaultProviderId = i]
<1>3. f = [defaultProviderId |-> i, settings |-> x, providers |-> regMemory[p].providers]
  <2>1. k = [defaultProviderId |-> i, settings |-> regMemory[p].settings,
             providers |-> regMemory[p].providers]
    BY <1>2 DEF Configured, Shaped
  <2>2. f = [k EXCEPT !.settings = x]
    OBVIOUS
  <2> HIDE DEF f, k
  <2> QED BY <2>1, <2>2
<1> HIDE DEF f, k
<1>4. Configured(f) /\ Present(f) = Present(regMemory[p])
  BY <1>1, <1>2, <1>3 DEF Configured, Shaped, Present, Registry!Present
<1> QED BY <1>1, <1>4, ChangeKeeps DEF Untouched

\* Roles matter to nothing here.
LEMMA ElsewhereKeeps ==
  ASSUME RegInv, UNCHANGED regSpent \/ Registry!Spend("edits"),
         UNCHANGED <<regDisk, regLock, regMemory, regBase, regOp, regSaved, regRemoved, regShared,
                     regLost, regOutdated>>
  PROVE  RegInv'
<1>1. RegHolds'
  <2>1. RegTyped'
    BY RegCounts DEF RegInv, RegHolds, RegTyped
  <2>2. FilesConfigured'
    BY DEF RegInv, RegHolds, FilesConfigured, Configured, Shaped, Present, Registry!Present
  <2>3. OnlyRemovedMissing'
    BY DEF RegInv, RegHolds, OnlyRemovedMissing, Present, Registry!Present
  <2>4. CopiesConfigured'
    BY DEF RegInv, RegHolds, CopiesConfigured, Configured, Shaped, Present, Registry!Present
  <2> QED BY <2>1, <2>2, <2>3, <2>4 DEF RegHolds
<1>2. RegWriting'
  BY <1>1, RegCounts, OutsideWrite DEF RegInv, RegHolds
<1> QED BY <1>1, <1>2 DEF RegInv

\* One operation goes on with its write, or gives it up; what processes hold stays.
LEMMA WriteGoesOn ==
  ASSUME RegInv, NEW p \in RegProcesses, NEW s \in RegSlots, NEW e, RegTurns(p, s, e),
         DOMAIN e = RegFields, e.main \in RegRequested \union {"none"},
         e.step = "main" => e.main \in RegIds, regMemory[p] # NoFile,
         e.step \in {"lock", "stale", "merge"} =>
           /\ Configured(e.desired)
           /\ e.fresh => Present(regBase[p]) \ Present(e.desired) \subseteq regRemoved,
         UNCHANGED <<regDisk, regMemory, regBase, regSaved, regRemoved, regSpent>>
  PROVE  /\ RegHolds'
         /\ \A q \in RegProcesses, t \in RegSlots :
              regOp'[q][t] = (IF q = p /\ t = s THEN e ELSE regOp[q][t])
<1>1. /\ DOMAIN regOp' = RegProcesses
      /\ \A q \in RegProcesses : DOMAIN regOp'[q] = RegSlots
      /\ \A q \in RegProcesses, t \in RegSlots :
           regOp'[q][t] = (IF q = p /\ t = s THEN e ELSE regOp[q][t])
  BY RegTurned DEF RegInv, RegHolds
<1>2. RegTyped'
  BY <1>1 DEF RegInv, RegHolds, RegTyped
<1>3. FilesConfigured'
  BY <1>1 DEF RegInv, RegHolds, FilesConfigured, Configured, Shaped, Present, Registry!Present
<1>4. OnlyRemovedMissing'
  BY DEF RegInv, RegHolds, OnlyRemovedMissing, Present, Registry!Present
<1>5. CopiesConfigured'
  BY <1>1 DEF RegInv, RegHolds, CopiesConfigured, Configured, Shaped, Present, Registry!Present
<1> QED BY <1>1, <1>2, <1>3, <1>4, <1>5 DEF RegHolds

\* What is to be written is taken, and then waits for the lock or gives up.
LEMMA WaitKeeps ==
  ASSUME RegInv, NEW p \in RegProcesses, NEW s \in RegSlots,
         Registry!toProviderFile(p, s) \/ Registry!LockTimesOut(p, s)
  PROVE  RegInv'
<1>1. /\ UNCHANGED <<regDisk, regLock, regSaved, regRemoved, regShared, regLost, regOutdated,
                     regSpent>>
      /\ regMemory[p] # NoFile
  BY DEF Registry!toProviderFile, Registry!LockTimesOut, Registry!At, Registry!fileVars, NoFile
<1>2. CASE Registry!Stops(p)
  BY <1>1, <1>2, StopKeeps
<1>3. CASE ~Registry!Stops(p)
  <2>1. PICK e :
          /\ RegTurns(p, s, e) /\ DOMAIN e = RegFields /\ e.step \in {"lock", "idle"}
          /\ e.main \in RegRequested \union {"none"}
          /\ e.step = "lock" => e.desired = regMemory[p]
    <3>1. CASE Registry!toProviderFile(p, s)
      <4> DEFINE e == [regOp[p][s] EXCEPT !.step = "lock", !.desired = regMemory[p],
                                          !.fresh = TRUE]
      <4>1. RegTurns(p, s, e)
        BY <3>1 DEF Registry!toProviderFile, Registry!Becomes, RegTurns
      <4>2. /\ DOMAIN e = RegFields /\ e.step = "lock" /\ e.desired = regMemory[p]
            /\ e.main = regOp[p][s].main
        BY DEF RegInv, RegHolds, RegTyped, RegFields, Registry!NoOp
      <4> HIDE DEF e
      <4> QED BY <4>1, <4>2 DEF RegInv, RegHolds, RegTyped
    <3>2. CASE Registry!LockTimesOut(p, s)
      <4>1. RegTurns(p, s, Registry!NoOp)
        BY <1>3, <3>2 DEF Registry!LockTimesOut, Registry!Becomes, RegTurns
      <4>2. /\ DOMAIN Registry!NoOp = RegFields /\ Registry!NoOp.step = "idle"
            /\ Registry!NoOp.main = "none"
        BY DEF Registry!NoOp, RegFields
      <4> QED BY <4>1, <4>2
    <3> QED BY <3>1, <3>2
  <2>2. UNCHANGED <<regMemory, regBase>>
    BY <1>3 DEF Registry!toProviderFile, Registry!LockTimesOut
  <2>3. Configured(regMemory[p]) /\ Present(regBase[p]) \ Present(regMemory[p]) \subseteq regRemoved
    BY <1>1 DEF RegInv, RegHolds, FilesConfigured, OnlyRemovedMissing
  <2>4. /\ RegHolds'
        /\ \A q \in RegProcesses, t \in RegSlots :
             regOp'[q][t] = (IF q = p /\ t = s THEN e ELSE regOp[q][t])
    BY <1>1, <2>1, <2>2, <2>3, WriteGoesOn
  <2>5. \A q \in RegProcesses, t \in RegSlots :
          regOp'[q][t].step \in {"merge", "write", "unlock", "stale"}
            => regOp'[q][t] = regOp[q][t]
    BY <2>1, <2>4
  <2> QED BY <1>1, <2>4, <2>5, OutsideWrite DEF RegInv, RegHolds
<1> QED BY <1>2, <1>3

\* The fields of an operation that only goes on.
LEMMA RegRecords ==
  ASSUME RegTyped, NEW p \in RegProcesses, NEW s \in RegSlots, NEW x
  PROVE  LET e == [regOp[p][s] EXCEPT !.step = x]
         IN  /\ DOMAIN e = RegFields /\ e.step = x /\ e.main = regOp[p][s].main
             /\ e.desired = regOp[p][s].desired /\ e.fresh = regOp[p][s].fresh
BY DEF RegTyped, RegFields, Registry!NoOp

LEMMA RegLockKeeps ==
  ASSUME RegInv, RegProcesses \cap {"none", "dead"} = {},
         NEW p \in RegProcesses, NEW s \in RegSlots, Registry!Lock(p, s)
  PROVE  RegInv'
<1> DEFINE e == [regOp[p][s] EXCEPT !.step = "merge"]
<1>1. /\ UNCHANGED <<regDisk, regMemory, regBase, regSaved, regRemoved, regLost, regOutdated,
                     regSpent>>
      /\ regOp[p][s].step = "lock" /\ regMemory[p] # NoFile
      /\ regLock' = <<p, s>> /\ regLock = <<"none", 0>> /\ RegTurns(p, s, e)
      /\ regShared' = (IF Registry!Writing = {} THEN regShared
                       ELSE Registry!Writing \union {<<p, s>>})
  BY DEF Registry!Lock, Registry!At, Registry!Nobody, Registry!fileVars, Registry!Becomes,
         RegTurns, NoFile
<1>2. /\ DOMAIN e = RegFields /\ e.step = "merge" /\ e.main = regOp[p][s].main
      /\ e.desired = regOp[p][s].desired /\ e.fresh = regOp[p][s].fresh
  BY RegRecords DEF RegInv, RegHolds
<1> HIDE DEF e
<1>3. /\ RegHolds'
      /\ \A q \in RegProcesses, t \in RegSlots :
           regOp'[q][t] = (IF q = p /\ t = s THEN e ELSE regOp[q][t])
  BY <1>1, <1>2, WriteGoesOn DEF RegInv, RegHolds, RegTyped, CopiesConfigured
<1>4. \A q \in RegProcesses, t \in RegSlots : RegWrites(q, t) <=> <<q, t>> \in Registry!Writing
  <2> TAKE q \in RegProcesses, t \in RegSlots
  <2>1. <<q, t>>[1] = q /\ <<q, t>>[2] = t /\ <<q, t>> \in RegProcesses \X RegSlots
    OBVIOUS
  <2> QED BY <2>1 DEF Registry!Writing, RegWrites
<1>5. SharedWritesKnown'
  <2> SUFFICES ASSUME NEW q \in RegProcesses, NEW r \in RegProcesses, NEW t \in RegSlots,
                      NEW u \in RegSlots, RegWrites(q, t)', RegWrites(r, u)', <<q, t>> # <<r, u>>
               PROVE  <<q, t>> \in regShared'
    BY DEF SharedWritesKnown
  <2>1. RegWrites(q, t) \/ <<q, t>> = <<p, s>>
    BY <1>3 DEF RegWrites
  <2>2. RegWrites(r, u) \/ <<r, u>> = <<p, s>>
    BY <1>3 DEF RegWrites
  <2>3. Registry!Writing # {}
    BY <1>4, <2>1, <2>2
  <2> QED BY <1>1, <1>4, <2>1, <2>3
<1>6. MergedKeep'
  <2> SUFFICES ASSUME NEW q \in RegProcesses, NEW t \in RegSlots, regOp'[q][t].step = "write"
               PROVE  Configured(regOp'[q][t].desired) /\ <<q, t>> \in regShared'
    BY DEF MergedKeep, Configured, Shaped, Present, Registry!Present
  <2>1. regOp'[q][t] = regOp[q][t] /\ RegWrites(q, t)
    BY <1>2, <1>3 DEF RegWrites
  <2> QED BY <1>1, <1>4, <2>1 DEF RegInv, RegWriting, MergedKeep
<1>7. RegLockExcludes'
  <2> SUFFICES ASSUME regSpent.crashes = 0  PROVE RegLockExcludes'
    BY <1>1 DEF RegLockExcludes
  <2>1. \A q \in RegProcesses, t \in RegSlots : ~RegLocks(q, t)
    <3> SUFFICES ASSUME NEW q \in RegProcesses, NEW t \in RegSlots, RegLocks(q, t)
                 PROVE  FALSE
      OBVIOUS
    <3>1. regLock = <<q, t>>
      BY DEF RegInv, RegWriting, RegLockExcludes
    <3>2. regLock[1] = q /\ regLock[1] = "none"
      BY <1>1, <3>1
    <3> QED BY <3>2
  <2>2. Registry!Writing = {}
    <3>1. \A x \in RegProcesses \X RegSlots : x = <<x[1], x[2]>>
      OBVIOUS
    <3> QED BY <2>1, <3>1 DEF Registry!Writing, RegLocks
  <2>3. regLock'[1] = p
    BY <1>1
  <2> QED BY <1>1, <1>2, <1>3, <2>1, <2>2, <2>3 DEF RegInv, RegWriting, RegLockExcludes, RegLocks
<1>8. ProvidersKept'
  BY <1>1 DEF RegInv, RegWriting, ProvidersKept, RegKept, Present, Registry!Present
<1> QED BY <1>3, <1>5, <1>6, <1>7, <1>8 DEF RegInv, RegWriting

\* Looking at an old lock file, and deleting the one that is there.
LEMMA RegStaleKeeps ==
  ASSUME RegInv, NEW p \in RegProcesses, NEW s \in RegSlots,
         Registry!SeeStale(p, s) \/ Registry!RemoveStale(p, s)
  PROVE  RegInv'
<1>1. PICK x \in {"stale", "lock"} : RegTurns(p, s, [regOp[p][s] EXCEPT !.step = x])
  BY DEF Registry!SeeStale, Registry!RemoveStale, Registry!Becomes, RegTurns
<1>2. /\ UNCHANGED <<regDisk, regMemory, regBase, regSaved, regRemoved, regLost, regOutdated,
                     regShared, regSpent>>
      /\ regMemory[p] # NoFile /\ regOp[p][s].step \in {"lock", "stale"}
  BY DEF Registry!SeeStale, Registry!RemoveStale, Registry!At, Registry!fileVars, NoFile
<1> DEFINE e == [regOp[p][s] EXCEPT !.step = x]
<1>3. /\ DOMAIN e = RegFields /\ e.step = x /\ e.main = regOp[p][s].main
      /\ e.desired = regOp[p][s].desired /\ e.fresh = regOp[p][s].fresh
  BY RegRecords DEF RegInv, RegHolds
<1>4. RegTurns(p, s, e)
  BY <1>1
<1> HIDE DEF e
<1>5. /\ RegHolds'
      /\ \A q \in RegProcesses, t \in RegSlots :
           regOp'[q][t] = (IF q = p /\ t = s THEN e ELSE regOp[q][t])
  BY <1>2, <1>3, <1>4, WriteGoesOn DEF RegInv, RegHolds, RegTyped, CopiesConfigured
<1>6. SharedWritesKnown'
  BY <1>2, <1>3, <1>5 DEF RegInv, RegWriting, SharedWritesKnown, RegWrites
<1>7. MergedKeep'
  BY <1>2, <1>3, <1>5 DEF RegInv, RegWriting, MergedKeep, RegKept, Configured, Shaped, Present,
                          Registry!Present
<1>8. regSpent.crashes # 0
  BY DEF Registry!SeeStale, Registry!RemoveStale, Registry!At, RegInv, RegWriting, RegLockExcludes
<1>9. RegLockExcludes' /\ ProvidersKept'
  BY <1>2, <1>8 DEF RegLockExcludes, RegInv, RegWriting, ProvidersKept, RegKept, Present,
                    Registry!Present
<1> QED BY <1>5, <1>6, <1>7, <1>9 DEF RegInv, RegWriting

LEMMA RegMergeKeeps ==
  ASSUME RegInv, NEW p \in RegProcesses, NEW s \in RegSlots, Registry!Merge(p, s)
  PROVE  RegInv'
<1> DEFINE current == Registry!readProviderConfig(regOp[p][s].desired.defaultProviderId)
           m == Registry!mergeProviderFiles(regBase[p], regOp[p][s].desired, current)
           e == [regOp[p][s] EXCEPT !.step = "write", !.desired = m]
<1>1. /\ regMemory[p] # NoFile /\ regOp[p][s].step = "merge" /\ RegTurns(p, s, e)
      /\ UNCHANGED <<regDisk, regLock, regMemory, regBase, regSaved, regRemoved, regShared,
                     regLost, regOutdated, regSpent>>
  BY DEF Registry!Merge, Registry!At, Registry!Becomes, RegTurns, Registry!fileVars, NoFile
<1>2. /\ Configured(regOp[p][s].desired)
      /\ regOp[p][s].fresh => Present(regBase[p]) \ Present(regOp[p][s].desired) \subseteq regRemoved
  BY <1>1 DEF RegInv, RegHolds, CopiesConfigured
<1>3. Configured(current)
  BY <1>2, DefaultConfigured
     DEF Registry!readProviderConfig, RegInv, RegHolds, FilesConfigured, NoFile, Configured, Present,
         Registry!Present
<1>4. RegKept \subseteq Present(current)
  BY DEF RegInv, RegHolds, RegWriting, FilesConfigured, ProvidersKept, RegKept,
         Registry!readProviderConfig, NoFile
<1> HIDE DEF current
<1>5. /\ Configured(m)
      /\ Present(current) \ Present(m) \subseteq Present(regBase[p]) \ Present(regOp[p][s].desired)
  BY <1>2, <1>3, MergeConfigured
<1>6. regOp[p][s].fresh => RegKept \subseteq Present(m)
  BY <1>2, <1>4, <1>5 DEF RegKept
<1> HIDE DEF m
<1>7. /\ DOMAIN e = RegFields /\ e.step = "write" /\ e.desired = m
      /\ e.main = regOp[p][s].main /\ e.fresh = regOp[p][s].fresh
  BY DEF RegInv, RegHolds, RegTyped, RegFields, Registry!NoOp
<1> HIDE DEF e
<1>8. /\ RegHolds'
      /\ \A q \in RegProcesses, t \in RegSlots :
           regOp'[q][t] = (IF q = p /\ t = s THEN e ELSE regOp[q][t])
  BY <1>1, <1>7, WriteGoesOn DEF RegInv, RegHolds, RegTyped
<1>9. SharedWritesKnown' /\ RegLockExcludes'
  BY <1>1, <1>7, <1>8 DEF RegInv, RegWriting, SharedWritesKnown, RegWrites, RegLockExcludes,
                          RegLocks
<1>10. MergedKeep'
  <2> SUFFICES ASSUME NEW q \in RegProcesses, NEW t \in RegSlots, regOp'[q][t].step = "write"
               PROVE  /\ Configured(regOp'[q][t].desired)
                      /\ <<q, t>> \notin regShared /\ regOp'[q][t].fresh
                           => RegKept \subseteq Present(regOp'[q][t].desired)
    BY <1>1 DEF MergedKeep, RegKept, Configured, Shaped, Present, Registry!Present
  <2>1. CASE q = p /\ t = s
    BY <1>5, <1>6, <1>7, <1>8, <2>1
  <2>2. CASE ~(q = p /\ t = s)
    BY <1>8, <2>2 DEF RegInv, RegWriting, MergedKeep
  <2> QED BY <2>1, <2>2
<1>11. ProvidersKept'
  BY <1>1 DEF RegInv, RegWriting, ProvidersKept, RegKept, Present, Registry!Present
<1> QED BY <1>8, <1>9, <1>10, <1>11 DEF RegInv, RegWriting

LEMMA RegWriteKeeps ==
  ASSUME RegInv, NEW p \in RegProcesses, NEW s \in RegSlots, Registry!Write(p, s)
  PROVE  RegInv'
<1> DEFINE m == regOp[p][s].desired
           dropped == Present(regDisk) \ Present(m)
           done == [regOp[p][s] EXCEPT !.step = "unlock", !.desired = Registry!NoFile,
                                       !.fresh = TRUE]
           other(t) == [regOp[p][t] EXCEPT !.fresh = @ /\ regOp[p][t].desired = Registry!NoFile]
<1>1. /\ regOp[p][s].step = "write"
      /\ regDisk' = m /\ regMemory' = [regMemory EXCEPT ![p] = m]
      /\ regBase' = [regBase EXCEPT ![p] = m] /\ regSaved' = regSaved \union Present(m)
      /\ regLost' = (IF <<p, s>> \in regShared THEN regLost \union dropped ELSE regLost)
      /\ regOutdated' = (IF regOp[p][s].fresh THEN regOutdated ELSE regOutdated \union dropped)
      /\ regShared' = regShared \ {<<p, s>>}
      /\ UNCHANGED <<regLock, regRemoved, regSpent>>
  BY DEF Registry!Write, Registry!At, Registry!Dropped, Present
<1>2. regOp' = [regOp EXCEPT ![p] = [t \in RegSlots |-> IF t = s THEN done ELSE other(t)]]
  BY DEF Registry!Write
<1>3. /\ DOMAIN done = RegFields /\ done.step = "unlock" /\ done.main = regOp[p][s].main
      /\ \A t \in RegSlots :
           /\ DOMAIN other(t) = RegFields /\ other(t).step = regOp[p][t].step
           /\ other(t).main = regOp[p][t].main /\ other(t).desired = regOp[p][t].desired
           /\ other(t).fresh = (regOp[p][t].fresh /\ regOp[p][t].desired = NoFile)
  BY DEF RegInv, RegHolds, RegTyped, RegFields, Registry!NoOp, NoFile
<1> HIDE DEF done, other
<1>4. /\ DOMAIN regOp' = RegProcesses
      /\ \A q \in RegProcesses : DOMAIN regOp'[q] = RegSlots
      /\ \A q \in RegProcesses, t \in RegSlots :
           regOp'[q][t] = (IF q # p THEN regOp[q][t] ELSE IF t = s THEN done ELSE other(t))
      /\ \A q \in RegProcesses : /\ regMemory'[q] = (IF q = p THEN m ELSE regMemory[q])
                                 /\ regBase'[q] = (IF q = p THEN m ELSE regBase[q])
  BY <1>1, <1>2 DEF RegInv, RegHolds, RegTyped
<1>5. Configured(m) /\ m # NoFile
  BY <1>1, NoFileUnconfigured DEF RegInv, RegWriting, MergedKeep
<1> HIDE DEF m
<1>6. RegTyped'
  BY <1>1, <1>3, <1>4 DEF RegInv, RegHolds, RegTyped
<1>7. FilesConfigured'
  BY <1>1, <1>3, <1>4, <1>5 DEF RegInv, RegHolds, FilesConfigured, NoFile
<1>8. OnlyRemovedMissing'
  BY <1>1, <1>4 DEF RegInv, RegHolds, OnlyRemovedMissing, NoFile
<1>9. CopiesConfigured'
  <2> SUFFICES ASSUME NEW q \in RegProcesses, NEW t \in RegSlots,
                      regOp'[q][t].step \in {"lock", "stale", "merge"}
               PROVE  /\ Configured(regOp'[q][t].desired)
                      /\ regOp'[q][t].fresh =>
                           Present(regBase'[q]) \ Present(regOp'[q][t].desired) \subseteq regRemoved
    BY <1>1 DEF CopiesConfigured, Configured, Shaped, Present, Registry!Present
  <2>1. CASE q # p
    BY <1>4, <2>1 DEF RegInv, RegHolds, CopiesConfigured
  <2>2. CASE q = p
    <3>1. t # s /\ regOp'[q][t] = other(t)
      BY <1>3, <1>4, <2>2
    <3>2. regOp[p][t].step \in {"lock", "stale", "merge"}
      BY <1>3, <3>1
    <3>3. Configured(regOp[p][t].desired)
      BY <3>2 DEF RegInv, RegHolds, CopiesConfigured
    <3>4. regOp[p][t].desired # NoFile
      BY <3>3, NoFileUnconfigured
    <3> QED BY <1>3, <3>1, <3>3, <3>4
  <2> QED BY <2>1, <2>2
<1>10. \A q \in RegProcesses, t \in RegSlots :
         regOp'[q][t].step = (IF q = p /\ t = s THEN "unlock" ELSE regOp[q][t].step)
  BY <1>3, <1>4
<1>11. SharedWritesKnown'
  <2> SUFFICES ASSUME NEW q \in RegProcesses, NEW r \in RegProcesses, NEW t \in RegSlots,
                      NEW u \in RegSlots, RegWrites(q, t)', RegWrites(r, u)', <<q, t>> # <<r, u>>
               PROVE  <<q, t>> \in regShared'
    BY DEF SharedWritesKnown
  <2>1. RegWrites(q, t) /\ RegWrites(r, u) /\ <<q, t>> # <<p, s>>
    BY <1>10 DEF RegWrites
  <2> QED BY <1>1, <2>1 DEF RegInv, RegWriting, SharedWritesKnown
<1>12. MergedKeep'
  <2> SUFFICES ASSUME NEW q \in RegProcesses, NEW t \in RegSlots, regOp'[q][t].step = "write"
               PROVE  Configured(regOp'[q][t].desired) /\ <<q, t>> \in regShared'
    BY DEF MergedKeep, Configured, Shaped, Present, Registry!Present
  <2>1. regOp[q][t].step = "write" /\ <<q, t>> # <<p, s>>
    BY <1>10
  <2>2. regOp'[q][t].desired = regOp[q][t].desired
    BY <1>3, <1>4, <2>1
  <2>3. RegWrites(q, t) /\ RegWrites(p, s)
    BY <1>1, <2>1 DEF RegWrites
  <2> QED BY <1>1, <2>1, <2>2, <2>3 DEF RegInv, RegWriting, SharedWritesKnown, MergedKeep
<1>13. RegLockExcludes'
  BY <1>1, <1>10 DEF RegInv, RegWriting, RegLockExcludes, RegLocks
<1>14. ProvidersKept'
  <2> SUFFICES ASSUME NEW i \in RegKept'  PROVE i \in Present(m)
    BY <1>1 DEF ProvidersKept, Present, Registry!Present
  <2>1. i \in Present(m) \/ i \in RegKept
    BY <1>1 DEF RegKept
  <2>2. CASE <<p, s>> \in regShared \/ ~regOp[p][s].fresh
    <3>1. i \notin dropped
      BY <1>1, <2>2 DEF RegKept
    <3> QED BY <2>1, <3>1 DEF RegInv, RegWriting, ProvidersKept
  <2>3. CASE <<p, s>> \notin regShared /\ regOp[p][s].fresh
    BY <1>1, <2>1, <2>3 DEF RegInv, RegWriting, MergedKeep, m
  <2> QED BY <2>2, <2>3
<1> QED BY <1>6, <1>7, <1>8, <1>9, <1>11, <1>12, <1>13, <1>14 DEF RegInv, RegHolds, RegWriting

LEMMA RegUnlockKeeps ==
  ASSUME RegInv, RegProcesses \cap {"none", "dead"} = {},
         NEW p \in RegProcesses, NEW s \in RegSlots, Registry!Unlock(p, s)
  PROVE  RegInv'
<1>1. /\ regMemory[p] # NoFile /\ regOp[p][s].step = "unlock" /\ regLock' = <<"none", 0>>
      /\ UNCHANGED <<regDisk, regMemory, regBase, regSaved, regRemoved, regShared, regLost,
                     regOutdated, regSpent>>
  BY DEF Registry!Unlock, Registry!At, Registry!Nobody, Registry!fileVars, NoFile
<1>2. PICK e :
        /\ RegTurns(p, s, e) /\ DOMAIN e = RegFields /\ e.step \in {"main", "idle"}
        /\ e.main \in RegRequested \union {"none"} /\ (e.step = "main" => e.main \in RegIds)
  <2>1. CASE regOp[p][s].main \in RegIds \ {regMemory[p].defaultProviderId}
    <3> DEFINE e == [regOp[p][s] EXCEPT !.step = "main"]
    <3>1. RegTurns(p, s, e)
      BY <2>1 DEF Registry!Unlock, Registry!Becomes, RegTurns
    <3>2. DOMAIN e = RegFields /\ e.step = "main" /\ e.main = regOp[p][s].main
      BY RegRecords DEF RegInv, RegHolds
    <3> HIDE DEF e
    <3> QED BY <2>1, <3>1, <3>2 DEF RegInv, RegHolds, RegTyped
  <2>2. CASE regOp[p][s].main \notin RegIds \ {regMemory[p].defaultProviderId}
    <3>1. RegTurns(p, s, Registry!NoOp)
      BY <2>2 DEF Registry!Unlock, Registry!Becomes, RegTurns
    <3>2. /\ DOMAIN Registry!NoOp = RegFields /\ Registry!NoOp.step = "idle"
          /\ Registry!NoOp.main = "none"
      BY DEF Registry!NoOp, RegFields
    <3> QED BY <3>1, <3>2
  <2> QED BY <2>1, <2>2
<1>3. /\ RegHolds'
      /\ \A q \in RegProcesses, t \in RegSlots :
           regOp'[q][t] = (IF q = p /\ t = s THEN e ELSE regOp[q][t])
  BY <1>1, <1>2, WriteGoesOn
<1>4. \A q \in RegProcesses, t \in RegSlots :
        regOp'[q][t].step \in {"merge", "write", "unlock", "stale"}
          => regOp'[q][t] = regOp[q][t] /\ <<q, t>> # <<p, s>>
  BY <1>2, <1>3
<1>5. SharedWritesKnown' /\ ProvidersKept' /\ RegKept' = RegKept
  BY <1>1, <1>4 DEF RegInv, RegWriting, SharedWritesKnown, RegWrites, ProvidersKept, RegKept,
                    Present, Registry!Present
<1>6. MergedKeep'
  BY <1>1, <1>4, <1>5 DEF RegInv, RegWriting, MergedKeep, Configured, Shaped, Present,
                          Registry!Present
<1>7. RegLockExcludes'
  <2> SUFFICES ASSUME regSpent.crashes = 0  PROVE RegLockExcludes'
    BY <1>1 DEF RegLockExcludes
  <2>1. regLock'[1] # "dead"
    BY <1>1
  <2>2. ASSUME NEW q \in RegProcesses, NEW t \in RegSlots, RegLocks(q, t)'  PROVE FALSE
    <3>1. RegLocks(q, t) /\ <<q, t>> # <<p, s>> /\ RegLocks(p, s)
      BY <1>1, <1>4, <2>2 DEF RegLocks
    <3> QED BY <3>1 DEF RegInv, RegWriting, RegLockExcludes
  <2> QED BY <1>1, <1>4, <2>1, <2>2 DEF RegInv, RegWriting, RegLockExcludes
<1> QED BY <1>3, <1>5, <1>6, <1>7 DEF RegInv, RegWriting

LEMMA RegistryKeeps ==
  ASSUME RegInv, RegProcesses \cap {"none", "dead"} = {}, Registry!Next \/ UNCHANGED regVars
  PROVE  RegInv'
<1>1. CASE UNCHANGED regVars
  BY <1>1, ElsewhereKeeps DEF regVars
<1>2. ASSUME NEW p \in RegProcesses, NEW s \in RegSlots, NEW main \in RegRequested,
             Registry!Start(p, s, main)
      PROVE  RegInv'
  BY <1>2, StartKeeps
<1>3. ASSUME NEW p \in RegProcesses, NEW s \in RegSlots, NEW i \in RegIds,
             \/ Registry!enable(p, s, i) \/ Registry!disable(p, s, i) \/ Registry!remove(p, s, i)
             \/ \E c \in RegInputs : Registry!add(p, s, i, c)
      PROVE  RegInv'
  BY <1>3, SwitchKeeps, RemoveKeeps, AddKeeps
<1>4. ASSUME NEW p \in RegProcesses, NEW s \in RegSlots, NEW i \in RegIds, NEW x,
             Registry!updateSettings(p, s, i, x)
      PROVE  RegInv'
  BY <1>4, SettingsKeep
<1>5. ASSUME NEW p \in RegProcesses,
             \/ \E r \in RegRoles, i \in RegIds \union {"none"} :
                  Registry!updateRoleProvider(p, r, i)
             \/ \E r \in RegRoles, input \in RegRoleInputs : Registry!addRole(p, r, input)
             \/ \E overwrite \in BOOLEAN : Registry!initializeDefaultRoles(p, overwrite)
      PROVE  RegInv'
  <2>1. /\ UNCHANGED <<regDisk, regLock, regMemory, regBase, regOp, regSaved, regRemoved,
                       regShared, regLost, regOutdated>>
        /\ Registry!Spend("edits")
    BY <1>5 DEF Registry!updateRoleProvider, Registry!addRole, Registry!initializeDefaultRoles,
                Registry!EditsRole, Registry!fileVars
  <2> QED BY <2>1, ElsewhereKeeps
<1>6. ASSUME NEW p \in RegProcesses, NEW s \in RegSlots,
             \/ Registry!RequestMain(p, s) \/ Registry!toProviderFile(p, s)
             \/ Registry!Lock(p, s) \/ Registry!SeeStale(p, s) \/ Registry!RemoveStale(p, s)
             \/ Registry!LockTimesOut(p, s)
      PROVE  RegInv'
  BY <1>6, RequestMainKeeps, WaitKeeps, RegLockKeeps, RegStaleKeeps
<1>7. ASSUME NEW p \in RegProcesses, NEW s \in RegSlots,
             Registry!Merge(p, s) \/ Registry!Write(p, s) \/ Registry!Unlock(p, s)
      PROVE  RegInv'
  BY <1>7, RegMergeKeeps, RegWriteKeeps, RegUnlockKeeps
<1>8. ASSUME NEW p \in RegProcesses, Registry!Crash(p)  PROVE RegInv'
  BY <1>8, RegCrashKeeps
<1> QED BY <1>1, <1>2, <1>3, <1>4, <1>5, <1>6, <1>7, <1>8 DEF Registry!Next

\* ProviderRegistry.write: a provider that is in config.json stays there until somebody removes
\* it, whatever processes that have never heard of it write, with any number of edits in flight,
\* and whenever processes die or give up waiting for the lock. Exempt is what a write of an
\* outdated copy takes out, and what writes at the same time do, of which there are none until
\* a process has died.
THEOREM SavedProviders == ServicesSpec => []SavedProvidersAreKept
<1> USE ServicesAssumption DEF ServicesAssumption
<1> DEFINE Inv == focus = "registry" => RegInv
<1>1. ServicesInit => Inv
  BY RegistryBegins DEF ServicesInit
<1>2. Inv /\ [ServicesNext]_allVars => Inv'
  BY OneService, RegistryKeeps
<1>3. Inv => SavedProvidersAreKept
  <2> SUFFICES ASSUME RegInv  PROVE Registry!SavedProvidersAreKept
    BY DEF SavedProvidersAreKept
  <2> QED BY DEF Registry!SavedProvidersAreKept, RegInv, RegHolds, RegWriting, RegTyped,
                 RegLockExcludes, ProvidersKept, RegKept, Present
<1> QED BY <1>1, <1>2, <1>3, PTL DEF ServicesSpec

\* ProviderRegistry.ensureDefault and mergeProviderFiles: the default provider of the file and
\* of every process is configured, also when one process makes a provider the default while
\* another one removes it.
THEOREM Defaults == ServicesSpec => []DefaultIsConfigured
<1> USE ServicesAssumption DEF ServicesAssumption
<1> DEFINE Inv == focus = "registry" => RegInv
<1>1. ServicesInit => Inv
  BY RegistryBegins DEF ServicesInit
<1>2. Inv /\ [ServicesNext]_allVars => Inv'
  BY OneService, RegistryKeeps
<1>3. Inv => DefaultIsConfigured
  BY DEF DefaultIsConfigured, Registry!DefaultIsConfigured, RegInv, RegHolds, FilesConfigured,
         Configured, Present, NoFile
<1> QED BY <1>1, <1>2, <1>3, PTL DEF ServicesSpec

-----------------------------------------------------------------------------
(* The calls of model providers.                                           *)

\* A state of a circuit that fits so many failures in a row.
FitsStreak(state, fails) ==
  /\ state = [failures |-> state.failures, openedUntil |-> state.openedUntil]
  /\ fails \in Nat /\ state.failures = fails /\ state.openedUntil \in Nat
  /\ state.openedUntil > 0 => fails >= LlmThreshold

\* The failures a circuit counts are those of the streak, and a circuit that was opened has
\* enough of them.
CircuitCounts ==
  /\ llmNow \in Nat
  /\ llmCircuit = [p \in Models!Providers |-> llmCircuit[p]]
  /\ llmStreak = [p \in Models!Providers |-> llmStreak[p]]
  /\ \A c \in LlmCallers : llmCall[c].provider \in Models!Providers
  /\ llmCall = [c \in LlmCallers |-> llmCall[c]]
  /\ \A p \in Models!Providers : FitsStreak(llmCircuit[p], llmStreak[p])

\* The call of c goes on as k, and provider p gets a state and a streak.
CircuitStep(c, k, p, state, fails) ==
  /\ llmCall' = [llmCall EXCEPT ![c] = k]
  /\ llmCircuit' = [llmCircuit EXCEPT ![p] = state]
  /\ llmStreak' = [llmStreak EXCEPT ![p] = fails]
  /\ llmNow' = llmNow

LEMMA FailureCounted ==
  ASSUME NEW state, NEW fails, llmNow \in Nat, FitsStreak(state, fails)
  PROVE  FitsStreak(Models!AfterFailure(state), fails + 1)
BY ServicesAssumption DEF ServicesAssumption, Models!AfterFailure, FitsStreak

LEMMA CircuitChanged ==
  ASSUME CircuitCounts, NEW c \in LlmCallers, NEW k, k.provider \in Models!Providers,
         NEW p \in Models!Providers, NEW state, NEW fails, FitsStreak(state, fails),
         CircuitStep(c, k, p, state, fails)
  PROVE  CircuitCounts'
<1>1. \A q \in Models!Providers :
        /\ llmCircuit'[q] = (IF q = p THEN state ELSE llmCircuit[q])
        /\ llmStreak'[q] = (IF q = p THEN fails ELSE llmStreak[q])
  BY DEF CircuitCounts, CircuitStep
<1>2. /\ llmCircuit' = [q \in Models!Providers |-> llmCircuit'[q]]
      /\ llmStreak' = [q \in Models!Providers |-> llmStreak'[q]]
      /\ llmCall' = [d \in LlmCallers |-> llmCall'[d]]
  BY DEF CircuitCounts, CircuitStep
<1>3. \A d \in LlmCallers : llmCall'[d].provider \in Models!Providers
  BY DEF CircuitCounts, CircuitStep
<1>4. \A q \in Models!Providers : FitsStreak(llmCircuit'[q], llmStreak'[q])
  BY <1>1 DEF CircuitCounts
<1>5. llmNow' \in Nat /\ Models!Providers' = Models!Providers
  BY DEF CircuitCounts, CircuitStep, Models!Providers
<1>6. \A q \in Models!Providers' : FitsStreak(llmCircuit[q], llmStreak[q])'
  BY <1>4, <1>5 DEF FitsStreak
<1> QED BY <1>2, <1>3, <1>5, <1>6 DEF CircuitCounts

LEMMA CallChanged ==
  ASSUME CircuitCounts, NEW c \in LlmCallers, NEW k, k.provider \in Models!Providers,
         llmCall' = [llmCall EXCEPT ![c] = k], UNCHANGED <<llmNow, llmCircuit, llmStreak>>
  PROVE  CircuitCounts'
BY DEF CircuitCounts, Models!Providers, FitsStreak

LEMMA CompleteKeeps ==
  ASSUME CircuitCounts, NEW c \in LlmCallers, Models!complete(c)
  PROVE  CircuitCounts'
<1> DEFINE p == llmCall[c].provider
           s == [llmCircuit[p] EXCEPT !.openedUntil = 0]
           k == [llmCall[c] EXCEPT !.step = "waiting"]
<1>1. /\ p \in Models!Providers /\ Models!NoCall.provider \in Models!Providers
      /\ k.provider \in Models!Providers
  BY DEF CircuitCounts, Models!NoCall, Models!Providers
<1>2. FitsStreak(llmCircuit[p], llmStreak[p])
  BY <1>1 DEF CircuitCounts
<1>3. FitsStreak(s, llmStreak[p])
  BY <1>2 DEF FitsStreak
<1>4. \/ /\ llmCall' = [llmCall EXCEPT ![c] = Models!NoCall]
         /\ UNCHANGED <<llmNow, llmCircuit, llmStreak>>
      \/ CircuitStep(c, k, p, s, llmStreak[p])
  <2>1. llmStreak = [llmStreak EXCEPT ![p] = llmStreak[p]]
    BY DEF CircuitCounts
  <2> QED BY <2>1 DEF Models!complete, Models!To, CircuitStep
<1> HIDE DEF p, s, k
<1> QED BY <1>1, <1>3, <1>4, CircuitChanged, CallChanged

LEMMA AnsweredKeeps ==
  ASSUME CircuitCounts, NEW c \in LlmCallers, Models!Answered(c)
  PROVE  CircuitCounts'
<1> DEFINE p == llmCall[c].provider
<1>1. p \in Models!Providers /\ Models!NoCall.provider \in Models!Providers
  BY DEF CircuitCounts, Models!NoCall, Models!Providers
<1>2. FitsStreak(Models!Closed, 0)
  BY DEF Models!Closed, FitsStreak
<1>3. FitsStreak(Models!AfterFailure(Models!Closed), 0 + 1)
  BY <1>2, FailureCounted DEF CircuitCounts
<1>4. \/ CircuitStep(c, Models!NoCall, p, Models!Closed, 0)
      \/ CircuitStep(c, Models!NoCall, p, Models!AfterFailure(Models!Closed), 0 + 1)
  BY DEF Models!Answered, Models!AfterSuccess, Models!Failed, Models!To, CircuitStep
<1> HIDE DEF p
<1> QED BY <1>1, <1>2, <1>3, <1>4, CircuitChanged

LEMMA NotAnsweredKeeps ==
  ASSUME CircuitCounts, NEW c \in LlmCallers, Models!NotAnswered(c)
  PROVE  CircuitCounts'
<1> DEFINE p == llmCall[c].provider
<1>1. p \in Models!Providers /\ Models!NoCall.provider \in Models!Providers
  BY DEF CircuitCounts, Models!NoCall, Models!Providers
<1>2. FitsStreak(Models!AfterFailure(llmCircuit[p]), llmStreak[p] + 1)
  BY <1>1, FailureCounted DEF CircuitCounts
<1>3. CircuitStep(c, Models!NoCall, p, Models!AfterFailure(llmCircuit[p]), llmStreak[p] + 1)
  BY DEF Models!NotAnswered, Models!Failed, Models!To, CircuitStep
<1> HIDE DEF p
<1> QED BY <1>1, <1>2, <1>3, CircuitChanged

LEMMA ModelsKeep == CircuitCounts /\ (Models!Next \/ UNCHANGED llmVars) => CircuitCounts'
<1> SUFFICES ASSUME CircuitCounts, Models!Next \/ UNCHANGED llmVars PROVE CircuitCounts'
  OBVIOUS
<1>1. CASE UNCHANGED llmVars
  BY <1>1 DEF llmVars, CircuitCounts, Models!Providers, FitsStreak
<1>2. CASE Models!Tick \/ Models!Toggle
  BY <1>2 DEF Models!Tick, Models!Toggle, CircuitCounts, Models!Providers, FitsStreak
<1>3. ASSUME NEW c \in LlmCallers, NEW id \in Models!Providers, Models!createProvider(c, id)
      PROVE  CircuitCounts'
  <2>1. PICK p \in Models!resolveConfig(id) :
          llmCall' = [llmCall EXCEPT ![c] =
                        [Models!NoCall EXCEPT !.step = "made", !.provider = p]]
    BY <1>3 DEF Models!createProvider
  <2>2. p \in Models!Providers
    BY DEF Models!resolveConfig, Models!Providers
  <2>3. [Models!NoCall EXCEPT !.step = "made", !.provider = p].provider = p
    BY DEF Models!NoCall
  <2>4. UNCHANGED <<llmNow, llmCircuit, llmStreak>>
    BY <1>3 DEF Models!createProvider
  <2> QED BY <2>1, <2>2, <2>3, <2>4, CallChanged
<1>4. ASSUME NEW c \in LlmCallers, Models!WaitToRetry(c) \/ Models!Retry(c)
      PROVE  CircuitCounts'
  <2> DEFINE k1 == [llmCall[c] EXCEPT !.step = "sleeping"]
             k2 == [llmCall[c] EXCEPT !.step = "waiting", !.attempt = @ + 1]
  <2>1. /\ llmCall' = [llmCall EXCEPT ![c] = k1] \/ llmCall' = [llmCall EXCEPT ![c] = k2]
        /\ UNCHANGED <<llmNow, llmCircuit, llmStreak>>
    BY <1>4 DEF Models!WaitToRetry, Models!Retry, Models!To
  <2>2. k1.provider \in Models!Providers /\ k2.provider \in Models!Providers
    BY DEF CircuitCounts
  <2> HIDE DEF k1, k2
  <2> QED BY <2>1, <2>2, CallChanged
<1>5. QED
  BY <1>1, <1>2, <1>3, <1>4, CompleteKeeps, AnsweredKeeps, NotAnsweredKeeps DEF Models!Next

\* ProviderRuntime: a circuit is open only after as many failed calls in a row as the
\* threshold says, whatever callers it has and in whatever order their calls end.
THEOREM OpenCircuits == ServicesSpec => []OpenMeansFailing
<1> USE ServicesAssumption DEF ServicesAssumption
<1> DEFINE Inv == focus = "models" => CircuitCounts
<1>1. ServicesInit => Inv
  BY DEF ServicesInit, Models!Init, CircuitCounts, Models!Closed, Models!NoCall,
         Models!Providers, FitsStreak
<1>2. Inv /\ [ServicesNext]_allVars => Inv'
  BY OneService, ModelsKeep
<1>3. Inv => OpenMeansFailing
  BY DEF OpenMeansFailing, Models!OpenMeansFailing, Models!isProviderCircuitOpen, CircuitCounts,
         FitsStreak
<1> QED BY <1>1, <1>2, <1>3, PTL DEF ServicesSpec

-----------------------------------------------------------------------------
(* The limit of calls: each call that was let through has its record, is   *)
(* not over yet, or lost its record.                                       *)

\* Since moment u: the calls that were let through, and the records that count; and the calls
\* of a provider that were let through and have not ended.
Recent(b, u) == {i \in DOMAIN b : b[i] >= u}
Rows(r, u) == {i \in DOMAIN r : Models!Counted(r[i].status) /\ r[i].at >= u}
Flying(calls, p) ==
  {c \in LlmCallers : calls[c].step \in {"waiting", "sleeping"} /\ calls[c].provider = p}

\* Of the calls let through since any moment, each has its record, is not over or lost its record.
Matches(b, r, calls, p, faults, t) ==
  /\ b \in Seq(Nat) /\ r \in Seq([at : Nat, status : Models!Statuses])
  /\ \A i \in DOMAIN b : b[i] <= t
  /\ \A u \in Int : Cardinality(Recent(b, u)) <=
       Cardinality(Rows(r, u)) + Cardinality(Flying(calls, p)) + (LlmMaxFaults - faults)
  /\ Cardinality(Recent(b, t - LlmMinute)) <=
       LlmMaxCallsPerMinute + Cardinality(LlmCallers) - 1 + (LlmMaxFaults - faults)

LEMMA OneMore ==
  ASSUME NEW S, IsFiniteSet(S), NEW x
  PROVE  /\ IsFiniteSet(S \cup {x})
         /\ Cardinality(S) \in Nat /\ Cardinality(S \cup {x}) \in Nat
         /\ Cardinality(S) <= Cardinality(S \cup {x})
         /\ Cardinality(S \cup {x}) <= Cardinality(S) + 1
         /\ x \notin S => Cardinality(S \cup {x}) = Cardinality(S) + 1
<1>1. Cardinality(S) \in Nat
  BY FS_CardinalityType
<1>2. /\ IsFiniteSet(S \cup {x})
      /\ Cardinality(S \cup {x}) = IF x \in S THEN Cardinality(S) ELSE Cardinality(S) + 1
  BY FS_AddElement
<1>3. CASE x \in S
  BY <1>1, <1>2, <1>3
<1>4. CASE x \notin S
  BY <1>1, <1>2, <1>4
<1> QED BY <1>3, <1>4

LEMMA RecentCounts ==
  ASSUME NEW b \in Seq(Nat), NEW u \in Int
  PROVE  /\ IsFiniteSet(Recent(b, u)) /\ Cardinality(Recent(b, u)) \in Nat
         /\ \A v \in Int : u <= v => Cardinality(Recent(b, v)) <= Cardinality(Recent(b, u))
         /\ (\A i \in DOMAIN b : b[i] < u) => Cardinality(Recent(b, u)) = 0
<1>1. IsFiniteSet(1..Len(b)) /\ DOMAIN b = 1..Len(b) /\ Len(b) \in Nat
  BY FS_Interval
<1>2. Recent(b, u) \in SUBSET (1..Len(b))
  BY <1>1 DEF Recent
<1>3. IsFiniteSet(Recent(b, u))
  BY <1>1, <1>2, FS_Subset
<1>4. ASSUME NEW v \in Int, u <= v PROVE Recent(b, v) \in SUBSET Recent(b, u)
  <2>1. \A i \in DOMAIN b : b[i] \in Int
    OBVIOUS
  <2> QED BY <1>4, <2>1 DEF Recent
<1>5. ASSUME \A i \in DOMAIN b : b[i] < u PROVE Recent(b, u) = {}
  <2>1. \A i \in DOMAIN b : b[i] \in Int
    OBVIOUS
  <2> QED BY <1>5, <2>1 DEF Recent
<1> QED BY <1>3, <1>4, <1>5, FS_CardinalityType, FS_Subset, FS_EmptySet

LEMMA RecentAppended ==
  ASSUME NEW b \in Seq(Nat), NEW t \in Nat, NEW u \in Int
  PROVE  Cardinality(Recent(Append(b, t), u)) <= Cardinality(Recent(b, u)) + 1
<1> DEFINE a == Append(b, t)
<1>1. /\ a \in Seq(Nat) /\ DOMAIN a = DOMAIN b \cup {Len(b) + 1}
      /\ \A i \in DOMAIN b : a[i] = b[i]
  OBVIOUS
<1> HIDE DEF a
<1>2. Recent(a, u) \in SUBSET (Recent(b, u) \cup {Len(b) + 1})
  BY <1>1 DEF Recent
<1>3. IsFiniteSet(Recent(b, u)) /\ Cardinality(Recent(b, u)) \in Nat
  BY RecentCounts
<1>4. /\ IsFiniteSet(Recent(b, u) \cup {Len(b) + 1})
      /\ Cardinality(Recent(b, u) \cup {Len(b) + 1}) <= Cardinality(Recent(b, u)) + 1
  BY <1>3, OneMore
<1>5. Cardinality(Recent(a, u)) <= Cardinality(Recent(b, u) \cup {Len(b) + 1})
  BY <1>2, <1>4, FS_Subset
<1>6. Cardinality(Recent(a, u)) \in Nat /\ Cardinality(Recent(b, u) \cup {Len(b) + 1}) \in Nat
  BY <1>1, <1>4, RecentCounts, FS_CardinalityType
<1> QED BY <1>3, <1>4, <1>5, <1>6 DEF a

LEMMA RowsCounted ==
  ASSUME NEW r \in Seq([at : Nat, status : Models!Statuses]), NEW u \in Int
  PROVE  IsFiniteSet(Rows(r, u)) /\ Cardinality(Rows(r, u)) \in Nat
<1>1. IsFiniteSet(1..Len(r)) /\ DOMAIN r = 1..Len(r) /\ Len(r) \in Nat
  BY FS_Interval
<1>2. Rows(r, u) \in SUBSET (1..Len(r))
  BY <1>1 DEF Rows
<1> QED BY <1>1, <1>2, FS_Subset, FS_CardinalityType

\* A record counts whatever became of its call.
LEMMA RowsAppended ==
  ASSUME NEW r \in Seq([at : Nat, status : Models!Statuses]), NEW t \in Nat,
         NEW status \in Models!Statuses, NEW u \in Int
  PROVE  LET a == Append(r, [at |-> t, status |-> status])
         IN  /\ a \in Seq([at : Nat, status : Models!Statuses])
             /\ Cardinality(Rows(r, u)) <= Cardinality(Rows(a, u))
             /\ u <= t => Cardinality(Rows(a, u)) = Cardinality(Rows(r, u)) + 1
<1> DEFINE row == [at |-> t, status |-> status]
           a == Append(r, row)
           n == Len(r) + 1
<1>1. row \in [at : Nat, status : Models!Statuses] /\ row.at = t /\ Models!Counted(row.status)
  BY DEF Models!Counted
<1> HIDE DEF row
<1>2. /\ a \in Seq([at : Nat, status : Models!Statuses])
      /\ DOMAIN a = DOMAIN r \cup {n} /\ n \notin DOMAIN r
      /\ a[n] = row /\ \A i \in DOMAIN r : a[i] = r[i]
  BY <1>1
<1> HIDE DEF a, n
<1>3. Rows(a, u) = IF u <= t THEN Rows(r, u) \cup {n} ELSE Rows(r, u)
  BY <1>1, <1>2 DEF Rows
<1>4. n \notin Rows(r, u)
  BY <1>2 DEF Rows
<1>5. IsFiniteSet(Rows(r, u)) /\ Cardinality(Rows(r, u)) \in Nat
  BY RowsCounted
<1>6. Cardinality(Rows(r, u) \cup {n}) = Cardinality(Rows(r, u)) + 1
  BY <1>4, <1>5, OneMore
<1>7. /\ Cardinality(Rows(r, u)) <= Cardinality(Rows(a, u))
      /\ u <= t => Cardinality(Rows(a, u)) = Cardinality(Rows(r, u)) + 1
  BY <1>3, <1>5, <1>6
<1> QED BY <1>2, <1>7 DEF a, row

LEMMA FlyingCounts ==
  ASSUME NEW calls, NEW p
  PROVE  IsFiniteSet(Flying(calls, p)) /\ Cardinality(Flying(calls, p)) \in Nat
BY ServicesAssumption, FS_Subset, FS_CardinalityType DEF ServicesAssumption, Flying

\* One call more or less is on its way.
LEMMA FlyingChanged ==
  ASSUME NEW calls, calls = [d \in LlmCallers |-> calls[d]], NEW c \in LlmCallers, NEW k, NEW p
  PROVE  LET next == [calls EXCEPT ![c] = k]
         IN  /\ c \notin Flying(calls, p) /\ c \in Flying(next, p) =>
                  /\ Cardinality(Flying(next, p)) = Cardinality(Flying(calls, p)) + 1
                  /\ Cardinality(Flying(calls, p)) <= Cardinality(LlmCallers) - 1
             /\ Cardinality(Flying(calls, p)) <= Cardinality(Flying(next, p)) + 1
             /\ (c \in Flying(calls, p) <=> c \in Flying(next, p)) =>
                  Flying(next, p) = Flying(calls, p)
<1> DEFINE next == [calls EXCEPT ![c] = k]
<1>1. \A d \in LlmCallers : next[d] = (IF d = c THEN k ELSE calls[d])
  OBVIOUS
<1> HIDE DEF next
<1>2. /\ Flying(next, p) \cup {c} = Flying(calls, p) \cup {c}
      /\ c \notin Flying(calls, p) /\ c \in Flying(next, p) =>
           Flying(next, p) = Flying(calls, p) \cup {c}
      /\ (c \in Flying(calls, p) <=> c \in Flying(next, p)) => Flying(next, p) = Flying(calls, p)
  BY <1>1 DEF Flying
<1>3. /\ IsFiniteSet(Flying(calls, p)) /\ Cardinality(Flying(calls, p)) \in Nat
      /\ IsFiniteSet(Flying(next, p)) /\ Cardinality(Flying(next, p)) \in Nat
  BY FlyingCounts
<1>4. c \notin Flying(calls, p) =>
        Cardinality(Flying(calls, p) \cup {c}) = Cardinality(Flying(calls, p)) + 1
  BY <1>3, OneMore
<1>5. /\ Cardinality(Flying(calls, p)) <= Cardinality(Flying(calls, p) \cup {c})
      /\ Cardinality(Flying(next, p) \cup {c}) <= Cardinality(Flying(next, p)) + 1
  BY <1>3, OneMore
<1>6. c \notin Flying(calls, p) => Cardinality(Flying(calls, p)) <= Cardinality(LlmCallers) - 1
  <2>1. IsFiniteSet(LlmCallers \ {c}) /\ Cardinality(LlmCallers \ {c}) = Cardinality(LlmCallers) - 1
    BY ServicesAssumption, FS_RemoveElement DEF ServicesAssumption
  <2>2. c \notin Flying(calls, p) => Flying(calls, p) \in SUBSET (LlmCallers \ {c})
    BY DEF Flying
  <2> QED BY <2>1, <2>2, FS_Subset
<1>7. Cardinality(Flying(calls, p)) <= Cardinality(Flying(next, p)) + 1
  <2>1. Cardinality(Flying(calls, p) \cup {c}) \in Nat
    BY <1>3, OneMore
  <2> QED BY <1>2, <1>3, <1>5, <2>1
<1> QED BY <1>2, <1>4, <1>6, <1>7 DEF next

\* Records and calls in flight only grow, records are lost, time goes on: what was matched is.
LEMMA StillMatched ==
  ASSUME NEW b, NEW r, NEW calls, NEW p, NEW faults \in Int, NEW t \in Nat,
         Matches(b, r, calls, p, faults, t),
         NEW next, NEW e \in Int, e <= faults, NEW v \in Nat, t <= v,
         Cardinality(Flying(calls, p)) <= Cardinality(Flying(next, p)) + (faults - e)
  PROVE  Matches(b, r, next, p, e, v)
<1>1. /\ LlmMaxFaults \in Nat /\ LlmMinute \in Nat /\ LlmMaxCallsPerMinute \in Nat
      /\ Cardinality(LlmCallers) \in Nat
  BY ServicesAssumption, FS_CardinalityType DEF ServicesAssumption
<1>2. /\ b \in Seq(Nat) /\ r \in Seq([at : Nat, status : Models!Statuses])
      /\ \A i \in DOMAIN b : b[i] <= t
  BY DEF Matches
<1>3. \A i \in DOMAIN b : b[i] <= v
  <2>1. \A i \in DOMAIN b : b[i] \in Nat
    BY <1>2
  <2> QED BY <1>2, <2>1
<1>4. \A u \in Int : Cardinality(Recent(b, u)) <=
        Cardinality(Rows(r, u)) + Cardinality(Flying(next, p)) + (LlmMaxFaults - e)
  <2> SUFFICES ASSUME NEW u \in Int
               PROVE  Cardinality(Recent(b, u)) <= Cardinality(Rows(r, u))
                        + Cardinality(Flying(next, p)) + (LlmMaxFaults - e)
    OBVIOUS
  <2>1. /\ Cardinality(Recent(b, u)) \in Nat /\ Cardinality(Rows(r, u)) \in Nat
        /\ Cardinality(Flying(calls, p)) \in Nat /\ Cardinality(Flying(next, p)) \in Nat
    BY <1>2, RecentCounts, RowsCounted, FlyingCounts
  <2>2. Cardinality(Recent(b, u)) <=
          Cardinality(Rows(r, u)) + Cardinality(Flying(calls, p)) + (LlmMaxFaults - faults)
    BY DEF Matches
  <2> QED BY <1>1, <2>1, <2>2
<1>5. Cardinality(Recent(b, v - LlmMinute)) <=
        LlmMaxCallsPerMinute + Cardinality(LlmCallers) - 1 + (LlmMaxFaults - e)
  <2> DEFINE u == t - LlmMinute
             w == v - LlmMinute
  <2>0. u \in Int /\ w \in Int /\ u <= w
    BY <1>1
  <2> HIDE DEF u, w
  <2>1. /\ Cardinality(Recent(b, w)) <= Cardinality(Recent(b, u))
        /\ Cardinality(Recent(b, w)) \in Nat
        /\ Cardinality(Recent(b, u)) \in Nat
    BY <1>2, <2>0, RecentCounts
  <2>2. Cardinality(Recent(b, u)) <=
          LlmMaxCallsPerMinute + Cardinality(LlmCallers) - 1 + (LlmMaxFaults - faults)
    BY DEF Matches, u
  <2>3. Cardinality(Recent(b, w)) <=
          LlmMaxCallsPerMinute + Cardinality(LlmCallers) - 1 + (LlmMaxFaults - e)
    BY <1>1, <2>1, <2>2
  <2> QED BY <2>3 DEF w
<1> QED BY <1>2, <1>3, <1>4, <1>5 DEF Matches

\* A call ends, or is not let through, and leaves a record.
LEMMA RecordMatches ==
  ASSUME NEW b, NEW r, NEW calls, NEW p, NEW faults \in Int, NEW t \in Nat,
         Matches(b, r, calls, p, faults, t),
         NEW next, NEW e \in Int, e <= faults, faults <= LlmMaxFaults,
         NEW status \in Models!Statuses,
         Cardinality(Flying(calls, p)) <= Cardinality(Flying(next, p)) + 1
  PROVE  Matches(b, Append(r, [at |-> t, status |-> status]), next, p, e, t)
<1> DEFINE a == Append(r, [at |-> t, status |-> status])
<1>1. /\ LlmMaxFaults \in Nat /\ LlmMinute \in Nat /\ LlmMaxCallsPerMinute \in Nat
      /\ Cardinality(LlmCallers) \in Nat
  BY ServicesAssumption, FS_CardinalityType DEF ServicesAssumption
<1>2. /\ b \in Seq(Nat) /\ r \in Seq([at : Nat, status : Models!Statuses])
      /\ \A i \in DOMAIN b : b[i] <= t
  BY DEF Matches
<1>3. /\ a \in Seq([at : Nat, status : Models!Statuses])
      /\ \A u \in Int : u <= t => Cardinality(Rows(a, u)) = Cardinality(Rows(r, u)) + 1
  BY <1>2, RowsAppended
<1> HIDE DEF a
<1>4. /\ Cardinality(Flying(calls, p)) \in Nat /\ Cardinality(Flying(next, p)) \in Nat
  BY FlyingCounts
<1>5. ASSUME NEW u \in Int
      PROVE  Cardinality(Recent(b, u)) <=
               Cardinality(Rows(a, u)) + Cardinality(Flying(next, p)) + (LlmMaxFaults - e)
  <2>1. /\ Cardinality(Recent(b, u)) \in Nat /\ Cardinality(Rows(r, u)) \in Nat
        /\ Cardinality(Rows(a, u)) \in Nat
    BY <1>2, <1>3, RecentCounts, RowsCounted
  <2>2. /\ Cardinality(Recent(b, u)) <=
             Cardinality(Rows(r, u)) + Cardinality(Flying(calls, p)) + (LlmMaxFaults - faults)
        /\ LlmMaxFaults - faults <= LlmMaxFaults - e
    BY <1>1 DEF Matches
  <2>3. CASE u <= t
    BY <1>1, <1>3, <1>4, <2>1, <2>2, <2>3
  <2>4. CASE u > t
    <3>1. Cardinality(Recent(b, u)) = 0
      <4>1. \A i \in DOMAIN b : b[i] \in Nat /\ b[i] < u
        BY <1>2, <2>4
      <4> QED BY <1>2, <4>1, RecentCounts
    <3> QED BY <1>1, <1>4, <2>1, <3>1
  <2> QED BY <2>3, <2>4
<1>6. Cardinality(Recent(b, t - LlmMinute)) <=
        LlmMaxCallsPerMinute + Cardinality(LlmCallers) - 1 + (LlmMaxFaults - e)
  <2> DEFINE u == t - LlmMinute
  <2>0. u \in Int
    BY <1>1
  <2> HIDE DEF u
  <2>1. Cardinality(Recent(b, u)) \in Nat
    BY <1>2, <2>0, RecentCounts
  <2>2. Cardinality(Recent(b, u)) <=
          LlmMaxCallsPerMinute + Cardinality(LlmCallers) - 1 + (LlmMaxFaults - faults)
    BY DEF Matches, u
  <2>3. Cardinality(Recent(b, u)) <=
          LlmMaxCallsPerMinute + Cardinality(LlmCallers) - 1 + (LlmMaxFaults - e)
    BY <1>1, <2>1, <2>2
  <2> QED BY <2>3 DEF u
<1> QED BY <1>2, <1>3, <1>5, <1>6 DEF Matches, a

\* A call is let through when the records allow it: the calls of this minute are these
\* records, the calls of the other callers, and those that lost their record.
LEMMA BeginMatches ==
  ASSUME NEW b, NEW r, NEW calls, NEW p, NEW faults \in Int, NEW t \in Nat,
         Matches(b, r, calls, p, faults, t),
         Cardinality(Rows(r, t - LlmMinute)) < LlmMaxCallsPerMinute,
         calls = [d \in LlmCallers |-> calls[d]], NEW c \in LlmCallers, NEW k,
         c \notin Flying(calls, p), c \in Flying([calls EXCEPT ![c] = k], p)
  PROVE  Matches(Append(b, t), r, [calls EXCEPT ![c] = k], p, faults, t)
<1> DEFINE a == Append(b, t)
           next == [calls EXCEPT ![c] = k]
<1>1. /\ LlmMaxFaults \in Nat /\ LlmMinute \in Nat /\ LlmMaxCallsPerMinute \in Nat
      /\ Cardinality(LlmCallers) \in Nat
  BY ServicesAssumption, FS_CardinalityType DEF ServicesAssumption
<1>2. /\ b \in Seq(Nat) /\ r \in Seq([at : Nat, status : Models!Statuses])
      /\ \A i \in DOMAIN b : b[i] <= t
  BY DEF Matches
<1>3. a \in Seq(Nat) /\ \A i \in DOMAIN a : a[i] <= t
  BY <1>2
<1>4. \A u \in Int : /\ Cardinality(Recent(a, u)) <= Cardinality(Recent(b, u)) + 1
                     /\ Cardinality(Recent(a, u)) \in Nat /\ Cardinality(Recent(b, u)) \in Nat
                     /\ Cardinality(Rows(r, u)) \in Nat
  BY <1>2, <1>3, RecentAppended, RecentCounts, RowsCounted
<1>5. /\ Cardinality(Flying(next, p)) = Cardinality(Flying(calls, p)) + 1
      /\ Cardinality(Flying(calls, p)) <= Cardinality(LlmCallers) - 1
      /\ Cardinality(Flying(calls, p)) \in Nat
  <2>1. LET n == [calls EXCEPT ![c] = k]
        IN  c \notin Flying(calls, p) /\ c \in Flying(n, p) =>
              /\ Cardinality(Flying(n, p)) = Cardinality(Flying(calls, p)) + 1
              /\ Cardinality(Flying(calls, p)) <= Cardinality(LlmCallers) - 1
    BY FlyingChanged
  <2>2. Cardinality(Flying(calls, p)) \in Nat
    BY FlyingCounts
  <2> QED BY <2>1, <2>2
<1> HIDE DEF a, next
<1>6. \A u \in Int : Cardinality(Recent(b, u)) <=
        Cardinality(Rows(r, u)) + Cardinality(Flying(calls, p)) + (LlmMaxFaults - faults)
  BY DEF Matches
<1>7. \A u \in Int : Cardinality(Recent(a, u)) <=
        Cardinality(Rows(r, u)) + Cardinality(Flying(next, p)) + (LlmMaxFaults - faults)
  BY <1>1, <1>4, <1>5, <1>6
<1>8. Cardinality(Recent(a, t - LlmMinute)) <=
        LlmMaxCallsPerMinute + Cardinality(LlmCallers) - 1 + (LlmMaxFaults - faults)
  <2> DEFINE u == t - LlmMinute
  <2>1. u \in Int
    BY <1>1
  <2> HIDE DEF u
  <2>2. Cardinality(Recent(a, u)) <= Cardinality(Rows(r, u))
          + Cardinality(Flying(calls, p)) + (LlmMaxFaults - faults) + 1
    BY <1>1, <1>4, <1>5, <1>6, <2>1
  <2>3. Cardinality(Rows(r, u)) <= LlmMaxCallsPerMinute - 1
    BY <1>1, <1>4, <2>1 DEF u
  <2>4. Cardinality(Recent(a, u)) <=
          LlmMaxCallsPerMinute + Cardinality(LlmCallers) - 1 + (LlmMaxFaults - faults)
    BY <1>1, <1>4, <1>5, <2>1, <2>2, <2>3
  <2> QED BY <2>4 DEF u
<1> QED BY <1>2, <1>3, <1>7, <1>8 DEF Matches, a, next

\* What is left of the bounds, so many faults among them.
HasLeft(l, faults) == l = [calls |-> l.calls, toggles |-> l.toggles, faults |-> faults]

\* The circuits, and the calls of each provider matched by its records.
ModelsInv ==
  /\ CircuitCounts
  /\ llmUsage = [p \in Models!Providers |-> llmUsage[p]]
  /\ llmBegun = [p \in Models!Providers |-> llmBegun[p]]
  /\ HasLeft(llmLeft, llmLeft.faults) /\ llmLeft.faults \in Nat /\ llmLeft.faults <= LlmMaxFaults
  /\ \A p \in Models!Providers :
       Matches(llmBegun[p], llmUsage[p], llmCall, p, llmLeft.faults, llmNow)

\* The call of c goes on as k, provider p has let through b and recorded r, and e records may
\* still be lost.
UsageStep(c, k, p, b, r, e) ==
  /\ llmCall' = [llmCall EXCEPT ![c] = k]
  /\ llmBegun' = [llmBegun EXCEPT ![p] = b]
  /\ llmUsage' = [llmUsage EXCEPT ![p] = r]
  /\ HasLeft(llmLeft', e)
  /\ llmNow' = llmNow

LEMMA UsageChanged ==
  ASSUME ModelsInv, CircuitCounts', NEW c \in LlmCallers, NEW k, NEW p \in Models!Providers,
         NEW b, NEW r, NEW e \in Nat, e <= llmLeft.faults, UsageStep(c, k, p, b, r, e),
         Matches(b, r, [llmCall EXCEPT ![c] = k], p, e, llmNow),
         \A q \in Models!Providers \ {p} :
           c \in Flying(llmCall, q) <=> c \in Flying([llmCall EXCEPT ![c] = k], q)
  PROVE  ModelsInv'
<1>1. \A q \in Models!Providers :
        /\ llmBegun'[q] = (IF q = p THEN b ELSE llmBegun[q])
        /\ llmUsage'[q] = (IF q = p THEN r ELSE llmUsage[q])
  BY DEF ModelsInv, UsageStep
<1>2. /\ llmUsage' = [q \in Models!Providers |-> llmUsage'[q]]
      /\ llmBegun' = [q \in Models!Providers |-> llmBegun'[q]]
  BY DEF ModelsInv, UsageStep
<1>3. llmLeft'.faults = e /\ HasLeft(llmLeft', llmLeft'.faults)
  BY DEF UsageStep, HasLeft
<1>4. e <= LlmMaxFaults
  BY ServicesAssumption DEF ServicesAssumption, ModelsInv
<1>5. ASSUME NEW q \in Models!Providers \ {p}
      PROVE  Matches(llmBegun[q], llmUsage[q], llmCall', q, e, llmNow)
  <2> DEFINE next == [llmCall EXCEPT ![c] = k]
  <2>1. Flying(next, q) = Flying(llmCall, q)
    <3>1. llmCall = [d \in LlmCallers |-> llmCall[d]]
      BY DEF ModelsInv, CircuitCounts
    <3> QED BY <3>1, FlyingChanged
  <2>2. next = llmCall'
    BY DEF UsageStep
  <2> HIDE DEF next
  <2>3. /\ Matches(llmBegun[q], llmUsage[q], llmCall, q, llmLeft.faults, llmNow)
        /\ llmLeft.faults \in Int /\ llmNow \in Nat /\ e \in Int
    BY DEF ModelsInv, CircuitCounts
  <2>4. Cardinality(Flying(llmCall, q)) <=
          Cardinality(Flying(next, q)) + (llmLeft.faults - e)
    BY <2>1, <2>3, FlyingCounts
  <2>5. Matches(llmBegun[q], llmUsage[q], next, q, e, llmNow)
    <3>1. llmNow <= llmNow
      BY <2>3
    <3> QED BY <2>3, <2>4, <3>1, StillMatched
  <2> QED BY <2>2, <2>5
<1>6. \A q \in Models!Providers :
        Matches(llmBegun'[q], llmUsage'[q], llmCall', q, llmLeft'.faults, llmNow')
  <2>1. llmNow' = llmNow /\ llmCall' = [llmCall EXCEPT ![c] = k]
    BY DEF UsageStep
  <2> QED BY <1>1, <1>3, <1>5, <2>1
<1>7. \A q \in Models!Providers :
        Matches(llmBegun[q], llmUsage[q], llmCall, q, llmLeft.faults, llmNow)'
  BY <1>6 DEF Matches, Recent, Rows, Flying, Models!Counted, Models!Statuses
<1>8. Models!Providers' = Models!Providers
  BY DEF Models!Providers
<1>9. HasLeft(llmLeft, llmLeft.faults)'
  BY <1>3 DEF HasLeft
<1> QED BY <1>2, <1>3, <1>4, <1>7, <1>8, <1>9 DEF ModelsInv

\* Nothing is let through or recorded.
LEMMA QuietKeeps ==
  ASSUME ModelsInv, CircuitCounts', NEW c \in LlmCallers, NEW k,
         llmCall' = [llmCall EXCEPT ![c] = k], UNCHANGED <<llmUsage, llmBegun, llmNow>>,
         HasLeft(llmLeft', llmLeft.faults),
         \A q \in Models!Providers :
           c \in Flying(llmCall, q) <=> c \in Flying([llmCall EXCEPT ![c] = k], q)
  PROVE  ModelsInv'
<1> DEFINE p == LlmDefault
           next == [llmCall EXCEPT ![c] = k]
<1>1. p \in Models!Providers
  BY DEF Models!Providers
<1>2. UsageStep(c, k, p, llmBegun[p], llmUsage[p], llmLeft.faults)
  <2>1. llmBegun = [llmBegun EXCEPT ![p] = llmBegun[p]]
    BY DEF ModelsInv
  <2>2. llmUsage = [llmUsage EXCEPT ![p] = llmUsage[p]]
    BY DEF ModelsInv
  <2> QED BY <2>1, <2>2 DEF UsageStep
<1>3. llmLeft.faults \in Nat /\ llmLeft.faults <= llmLeft.faults
  BY DEF ModelsInv
<1>4. Matches(llmBegun[p], llmUsage[p], next, p, llmLeft.faults, llmNow)
  <2>1. Flying(next, p) = Flying(llmCall, p)
    <3>1. llmCall = [d \in LlmCallers |-> llmCall[d]]
      BY DEF ModelsInv, CircuitCounts
    <3> QED BY <1>1, <3>1, FlyingChanged
  <2> HIDE DEF next
  <2>2. /\ Matches(llmBegun[p], llmUsage[p], llmCall, p, llmLeft.faults, llmNow)
        /\ llmLeft.faults \in Int /\ llmNow \in Nat /\ llmNow <= llmNow
    BY <1>1 DEF ModelsInv, CircuitCounts
  <2>3. Cardinality(Flying(llmCall, p)) <=
          Cardinality(Flying(next, p)) + (llmLeft.faults - llmLeft.faults)
    BY <2>1, <2>2, FlyingCounts
  <2> QED BY <1>3, <2>2, <2>3, StillMatched
<1> HIDE DEF p
<1> QED BY <1>1, <1>2, <1>3, <1>4, UsageChanged DEF next

\* The two names of Cardinality mean the same; the records that countCalls counts.
LEMMA SameCardinality == \A S : Models!Cardinality(S) = Cardinality(S)
BY DEF Models!Cardinality, Cardinality

LEMMA RowsOfMinute ==
  ASSUME ModelsInv, NEW p \in Models!Providers
  PROVE  Models!countCalls(p) = Cardinality(Rows(llmUsage[p], llmNow - LlmMinute))
<1> DEFINE S == {i \in DOMAIN llmUsage[p] :
                   Models!Counted(llmUsage[p][i].status) /\ llmUsage[p][i].at + LlmMinute >= llmNow}
<1>1. S = Rows(llmUsage[p], llmNow - LlmMinute)
  <2>1. /\ llmNow \in Nat /\ LlmMinute \in Nat
        /\ llmUsage[p] \in Seq([at : Nat, status : Models!Statuses])
    BY ServicesAssumption DEF ServicesAssumption, ModelsInv, CircuitCounts, Matches
  <2>2. \A i \in DOMAIN llmUsage[p] : llmUsage[p][i].at \in Nat
    <3> DEFINE r == llmUsage[p]
               Row == [at : Nat, status : Models!Statuses]
    <3>1. r \in Seq(Row)
      BY <2>1
    <3> HIDE DEF r, Row
    <3>2. \A i \in DOMAIN r : r[i] \in Row
      BY <3>1
    <3>3. \A i \in DOMAIN r : r[i].at \in Nat
      BY <3>2 DEF Row
    <3> QED BY <3>3 DEF r
  <2>3. \A i \in DOMAIN llmUsage[p] :
          llmUsage[p][i].at + LlmMinute >= llmNow <=> llmUsage[p][i].at >= llmNow - LlmMinute
    BY <2>1, <2>2
  <2> QED BY <2>3 DEF Rows
<1>2. Models!countCalls(p) = Models!Cardinality(S)
  BY DEF Models!countCalls
<1> HIDE DEF S
<1> QED BY <1>1, <1>2, SameCardinality

\* A call ends, and its record is written or lost.
LEMMA CallEndKeeps ==
  ASSUME ModelsInv, CircuitCounts', NEW c \in LlmCallers, NEW p, p = llmCall[c].provider,
         llmCall' = [llmCall EXCEPT ![c] = Models!NoCall], UNCHANGED <<llmBegun, llmNow>>,
         NEW e \in Nat, e <= llmLeft.faults, HasLeft(llmLeft', e),
         \/ \E status \in Models!Statuses : Models!insertRecord(p, status)
         \/ e + 1 <= llmLeft.faults /\ UNCHANGED llmUsage
  PROVE  ModelsInv'
<1> DEFINE next == [llmCall EXCEPT ![c] = Models!NoCall]
<1>1. /\ p \in Models!Providers
      /\ Matches(llmBegun[p], llmUsage[p], llmCall, p, llmLeft.faults, llmNow)
      /\ llmNow \in Nat /\ llmNow <= llmNow /\ llmLeft.faults \in Int /\ e \in Int
      /\ llmLeft.faults <= LlmMaxFaults
  BY DEF ModelsInv, CircuitCounts
<1>2. Cardinality(Flying(llmCall, p)) <= Cardinality(Flying(next, p)) + 1
  <2>1. llmCall = [d \in LlmCallers |-> llmCall[d]]
    BY DEF ModelsInv, CircuitCounts
  <2> QED BY <2>1, FlyingChanged
<1>3. \A q \in Models!Providers \ {p} : c \in Flying(llmCall, q) <=> c \in Flying(next, q)
  <2>1. next[c].step = "idle"
    <3>1. llmCall = [d \in LlmCallers |-> llmCall[d]]
      BY DEF ModelsInv, CircuitCounts
    <3> QED BY <3>1 DEF Models!NoCall
  <2> QED BY <2>1 DEF Flying
<1>4. llmBegun' = [llmBegun EXCEPT ![p] = llmBegun[p]]
  BY DEF ModelsInv
<1>5. CASE \E status \in Models!Statuses : Models!insertRecord(p, status)
  <2>1. PICK status \in Models!Statuses : Models!insertRecord(p, status)
    BY <1>5
  <2> DEFINE r == Append(llmUsage[p], [at |-> llmNow, status |-> status])
  <2>2. llmUsage' = [llmUsage EXCEPT ![p] = r]
    BY <2>1 DEF Models!insertRecord
  <2> HIDE DEF next
  <2>3. Matches(llmBegun[p], r, next, p, e, llmNow)
    BY <1>1, <1>2, RecordMatches
  <2> HIDE DEF r
  <2>4. UsageStep(c, Models!NoCall, p, llmBegun[p], r, e)
    BY <1>4, <2>2 DEF UsageStep
  <2> QED BY <1>1, <1>3, <2>3, <2>4, UsageChanged DEF next
<1>6. CASE e + 1 <= llmLeft.faults /\ UNCHANGED llmUsage
  <2>1. llmUsage' = [llmUsage EXCEPT ![p] = llmUsage[p]]
    BY <1>6 DEF ModelsInv
  <2>2. UsageStep(c, Models!NoCall, p, llmBegun[p], llmUsage[p], e)
    BY <1>4, <2>1 DEF UsageStep
  <2> HIDE DEF next
  <2>3. Cardinality(Flying(llmCall, p)) <=
          Cardinality(Flying(next, p)) + (llmLeft.faults - e)
    <3>1. Cardinality(Flying(llmCall, p)) \in Nat /\ Cardinality(Flying(next, p)) \in Nat
      BY FlyingCounts
    <3> QED BY <1>1, <1>2, <1>6, <3>1
  <2>4. Matches(llmBegun[p], llmUsage[p], next, p, e, llmNow)
    BY <1>1, <2>3, StillMatched
  <2> QED BY <1>1, <1>3, <2>2, <2>4, UsageChanged DEF next
<1> QED BY <1>5, <1>6

\* A record that is lost, and one that may be.
LEMMA FaultsSpent ==
  ASSUME ModelsInv, NEW n \in Nat, Models!Faults(n)
  PROVE  \E e \in Nat : e + n <= llmLeft.faults /\ HasLeft(llmLeft', e)
<1>1. /\ llmLeft.faults - n \in Nat /\ (llmLeft.faults - n) + n <= llmLeft.faults
  BY DEF Models!Faults, ModelsInv
<1>2. HasLeft(llmLeft', llmLeft.faults - n)
  BY DEF Models!Faults, ModelsInv, HasLeft
<1> QED BY <1>1, <1>2

LEMMA RecordKeeps ==
  ASSUME ModelsInv, CircuitCounts', NEW c \in LlmCallers, NEW p, p = llmCall[c].provider,
         llmCall' = [llmCall EXCEPT ![c] = Models!NoCall], UNCHANGED <<llmBegun, llmNow>>,
         NEW status \in Models!Statuses, Models!Record(p, status)
  PROVE  ModelsInv'
<1>1. CASE Models!insertRecord(p, status) /\ UNCHANGED llmLeft
  <2>1. /\ llmLeft.faults \in Nat /\ llmLeft.faults <= llmLeft.faults
        /\ HasLeft(llmLeft', llmLeft.faults)
    BY <1>1 DEF ModelsInv
  <2> QED BY <1>1, <2>1, CallEndKeeps
<1>2. CASE Models!Faults(1) /\ UNCHANGED llmUsage
  <2>1. PICK e \in Nat : e + 1 <= llmLeft.faults /\ HasLeft(llmLeft', e)
    BY <1>2, FaultsSpent
  <2>2. e <= llmLeft.faults
    BY <2>1 DEF ModelsInv
  <2> QED BY <1>2, <2>1, <2>2, CallEndKeeps
<1> QED BY <1>1, <1>2 DEF Models!Record

LEMMA AnsweredCounted ==
  ASSUME ModelsInv, CircuitCounts', NEW c \in LlmCallers, Models!Answered(c)
  PROVE  ModelsInv'
<1> DEFINE p == llmCall[c].provider
<1>1. /\ llmCall' = [llmCall EXCEPT ![c] = Models!NoCall] /\ UNCHANGED <<llmBegun, llmNow>>
      /\ "success" \in Models!Statuses /\ "failed" \in Models!Statuses
  BY DEF Models!Answered, Models!Failed, Models!To, Models!Statuses
<1>2. \/ Models!insertRecord(p, "success") /\ UNCHANGED llmLeft
      \/ Models!Faults(1) /\ Models!insertRecord(p, "failed")
      \/ Models!Faults(2) /\ UNCHANGED llmUsage
  BY DEF Models!Answered
<1> HIDE DEF p
<1>3. CASE Models!insertRecord(p, "success") /\ UNCHANGED llmLeft
  BY <1>1, <1>3, RecordKeeps DEF Models!Record, p
<1>4. CASE Models!Faults(1) /\ Models!insertRecord(p, "failed")
  <2>1. PICK e \in Nat : e + 1 <= llmLeft.faults /\ HasLeft(llmLeft', e)
    BY <1>4, FaultsSpent
  <2>2. e <= llmLeft.faults
    BY <2>1 DEF ModelsInv
  <2> QED BY <1>1, <1>4, <2>1, <2>2, CallEndKeeps DEF p
<1>5. CASE Models!Faults(2) /\ UNCHANGED llmUsage
  <2>1. PICK e \in Nat : e + 2 <= llmLeft.faults /\ HasLeft(llmLeft', e)
    BY <1>5, FaultsSpent
  <2>2. e <= llmLeft.faults /\ e + 1 <= llmLeft.faults
    BY <2>1 DEF ModelsInv
  <2> QED BY <1>1, <1>5, <2>1, <2>2, CallEndKeeps DEF p
<1> QED BY <1>2, <1>3, <1>4, <1>5

LEMMA NotAnsweredCounted ==
  ASSUME ModelsInv, CircuitCounts', NEW c \in LlmCallers, Models!NotAnswered(c)
  PROVE  ModelsInv'
<1>1. /\ llmCall' = [llmCall EXCEPT ![c] = Models!NoCall] /\ UNCHANGED <<llmBegun, llmNow>>
      /\ Models!Record(llmCall[c].provider, "failed") /\ "failed" \in Models!Statuses
  BY DEF Models!NotAnswered, Models!Failed, Models!To, Models!Statuses
<1> QED BY <1>1, RecordKeeps

LEMMA CompleteCounted ==
  ASSUME ModelsInv, CircuitCounts', NEW c \in LlmCallers, Models!complete(c)
  PROVE  ModelsInv'
<1> DEFINE p == llmCall[c].provider
           k == [llmCall[c] EXCEPT !.step = "waiting"]
           next == [llmCall EXCEPT ![c] = k]
<1>1. \/ /\ Models!Record(p, "blocked") \/ Models!Record(p, "failed")
         /\ llmCall' = [llmCall EXCEPT ![c] = Models!NoCall]
         /\ UNCHANGED <<llmBegun, llmNow>>
      \/ /\ Models!assertWithinLimits(p) /\ llmCall[c].step = "made"
         /\ llmBegun' = [llmBegun EXCEPT ![p] = Append(llmBegun[p], llmNow)]
         /\ llmCall' = [llmCall EXCEPT ![c] = k]
         /\ UNCHANGED <<llmUsage, llmLeft, llmNow>>
  BY DEF Models!complete, Models!To, Models!At
<1>2. CASE /\ Models!Record(p, "blocked") \/ Models!Record(p, "failed")
           /\ llmCall' = [llmCall EXCEPT ![c] = Models!NoCall]
           /\ UNCHANGED <<llmBegun, llmNow>>
  <2>1. "blocked" \in Models!Statuses /\ "failed" \in Models!Statuses
    BY DEF Models!Statuses
  <2> HIDE DEF p
  <2> QED BY <1>2, <2>1, RecordKeeps DEF p
<1>3. CASE /\ Models!assertWithinLimits(p) /\ llmCall[c].step = "made"
           /\ llmBegun' = [llmBegun EXCEPT ![p] = Append(llmBegun[p], llmNow)]
           /\ llmCall' = [llmCall EXCEPT ![c] = k]
           /\ UNCHANGED <<llmUsage, llmLeft, llmNow>>
  <2>1. /\ p \in Models!Providers
        /\ Matches(llmBegun[p], llmUsage[p], llmCall, p, llmLeft.faults, llmNow)
        /\ llmNow \in Nat /\ llmLeft.faults \in Int /\ llmLeft.faults \in Nat
        /\ llmLeft.faults <= llmLeft.faults
        /\ llmCall = [d \in LlmCallers |-> llmCall[d]]
        /\ HasLeft(llmLeft', llmLeft.faults)
    BY <1>3 DEF ModelsInv, CircuitCounts
  <2>2. Cardinality(Rows(llmUsage[p], llmNow - LlmMinute)) < LlmMaxCallsPerMinute
    BY <1>3, <2>1, RowsOfMinute DEF Models!assertWithinLimits
  <2>3. /\ next[c] = k /\ llmCall[c].provider = p
        /\ \A q \in Models!Providers \ {p} : c \notin Flying(llmCall, q) /\ c \notin Flying(next, q)
        /\ c \notin Flying(llmCall, p)
    <3>1. next[c] = k
      BY <2>1
    <3>2. k.provider = p
      BY <2>1, <1>3
    <3> HIDE DEF next, k
    <3> QED BY <1>3, <3>1, <3>2 DEF Flying
  <2>4. c \in Flying(next, p)
    <3>1. k.step = "waiting" /\ k.provider = p
      BY <1>3
    <3> HIDE DEF next, k
    <3> QED BY <2>3, <3>1 DEF Flying
  <2>5. Matches(Append(llmBegun[p], llmNow), llmUsage[p], next, p, llmLeft.faults, llmNow)
    <3> HIDE DEF k
    <3> QED BY <2>1, <2>2, <2>3, <2>4, BeginMatches
  <2>6. UsageStep(c, k, p, Append(llmBegun[p], llmNow), llmUsage[p], llmLeft.faults)
    <3>1. llmUsage = [llmUsage EXCEPT ![p] = llmUsage[p]]
      BY DEF ModelsInv
    <3> QED BY <1>3, <2>1, <3>1 DEF UsageStep
  <2> HIDE DEF k
  <2> DEFINE b == Append(llmBegun[p], llmNow)
             r == llmUsage[p]
  <2> HIDE DEF b, r
  <2>7. /\ UsageStep(c, k, p, b, r, llmLeft.faults)
        /\ Matches(b, r, [llmCall EXCEPT ![c] = k], p, llmLeft.faults, llmNow)
    BY <2>5, <2>6 DEF b, r
  <2> QED BY <2>1, <2>3, <2>7, UsageChanged
<1> QED BY <1>1, <1>2, <1>3

LEMMA CallsKeep == ModelsInv /\ (Models!Next \/ UNCHANGED llmVars) => ModelsInv'
<1> SUFFICES ASSUME ModelsInv, Models!Next \/ UNCHANGED llmVars PROVE ModelsInv'
  OBVIOUS
<1>1. CircuitCounts'
  BY ModelsKeep DEF ModelsInv
<1>2. CASE UNCHANGED llmVars
  BY <1>2 DEF llmVars, ModelsInv, CircuitCounts, HasLeft, Matches, Recent, Rows, Flying,
              Models!Counted, Models!Statuses, Models!Providers, FitsStreak
<1>3. ASSUME UNCHANGED <<llmUsage, llmBegun, llmCall>>, HasLeft(llmLeft', llmLeft.faults),
             llmNow' \in Nat, llmNow <= llmNow'
      PROVE  ModelsInv'
  <2>1. llmLeft'.faults = llmLeft.faults /\ HasLeft(llmLeft', llmLeft'.faults)
    BY <1>3 DEF HasLeft
  <2>2. ASSUME NEW p \in Models!Providers
        PROVE  Matches(llmBegun'[p], llmUsage'[p], llmCall', p, llmLeft'.faults, llmNow')
    <3>1. /\ Matches(llmBegun[p], llmUsage[p], llmCall, p, llmLeft.faults, llmNow)
          /\ llmLeft.faults \in Int /\ llmLeft.faults <= llmLeft.faults /\ llmNow \in Nat
      BY DEF ModelsInv, CircuitCounts
    <3>2. Cardinality(Flying(llmCall, p)) <=
            Cardinality(Flying(llmCall, p)) + (llmLeft.faults - llmLeft.faults)
      BY <3>1, FlyingCounts
    <3>3. Matches(llmBegun[p], llmUsage[p], llmCall, p, llmLeft.faults, llmNow')
      BY <1>3, <3>1, <3>2, StillMatched
    <3> QED BY <1>3, <2>1, <3>3
  <2>3. \A p \in Models!Providers :
          Matches(llmBegun[p], llmUsage[p], llmCall, p, llmLeft.faults, llmNow)'
    BY <2>2 DEF Matches, Recent, Rows, Flying, Models!Counted, Models!Statuses
  <2>4. Models!Providers' = Models!Providers /\ HasLeft(llmLeft, llmLeft.faults)'
    BY <2>1 DEF Models!Providers, HasLeft
  <2> QED BY <1>1, <1>3, <2>1, <2>3, <2>4 DEF ModelsInv
<1>4. CASE Models!Tick \/ Models!Toggle
  <2>1. llmNow \in Nat /\ HasLeft(llmLeft, llmLeft.faults)
    BY DEF ModelsInv, CircuitCounts
  <2>2. /\ UNCHANGED <<llmUsage, llmBegun, llmCall>> /\ HasLeft(llmLeft', llmLeft.faults)
        /\ llmNow' \in Nat /\ llmNow <= llmNow'
    BY <1>4, <2>1 DEF Models!Tick, Models!Toggle, HasLeft
  <2> QED BY <1>3, <2>2
<1>5. ASSUME NEW c \in LlmCallers, NEW id \in Models!Providers, Models!createProvider(c, id)
      PROVE  ModelsInv'
  <2>1. PICK p \in Models!resolveConfig(id) :
          llmCall' = [llmCall EXCEPT ![c] =
                        [Models!NoCall EXCEPT !.step = "made", !.provider = p]]
    BY <1>5 DEF Models!createProvider
  <2> DEFINE k == [Models!NoCall EXCEPT !.step = "made", !.provider = p]
  <2>2. k.step = "made"
    BY DEF Models!NoCall
  <2>3. llmCall' = [llmCall EXCEPT ![c] = k]
    BY <2>1
  <2> HIDE DEF k
  <2>4. \A q : c \notin Flying(llmCall, q) /\ c \notin Flying([llmCall EXCEPT ![c] = k], q)
    <3>1. [llmCall EXCEPT ![c] = k][c] = k
      BY DEF ModelsInv, CircuitCounts
    <3>2. llmCall[c].step = "idle"
      BY <1>5 DEF Models!createProvider
    <3> QED BY <2>2, <3>1, <3>2 DEF Flying
  <2>5. UNCHANGED <<llmUsage, llmBegun, llmNow>> /\ HasLeft(llmLeft', llmLeft.faults)
    BY <1>5 DEF Models!createProvider, ModelsInv, HasLeft
  <2> QED BY <1>1, <2>3, <2>4, <2>5, QuietKeeps
<1>6. ASSUME NEW c \in LlmCallers, NEW k, llmCall' = [llmCall EXCEPT ![c] = k],
             k.step \in {"waiting", "sleeping"}, k.provider = llmCall[c].provider,
             llmCall[c].step \in {"waiting", "sleeping"},
             UNCHANGED <<llmUsage, llmBegun, llmNow, llmLeft>>
      PROVE  ModelsInv'
  <2>1. [llmCall EXCEPT ![c] = k][c] = k
    BY DEF ModelsInv, CircuitCounts
  <2>2. \A q : c \in Flying(llmCall, q) <=> c \in Flying([llmCall EXCEPT ![c] = k], q)
    BY <1>6, <2>1 DEF Flying
  <2>3. HasLeft(llmLeft', llmLeft.faults)
    BY <1>6 DEF ModelsInv
  <2> QED BY <1>1, <1>6, <2>2, <2>3, QuietKeeps
<1>7. ASSUME NEW c \in LlmCallers, Models!WaitToRetry(c)
      PROVE  ModelsInv'
  <2> DEFINE k == [llmCall[c] EXCEPT !.step = "sleeping"]
  <2>1. llmCall' = [llmCall EXCEPT ![c] = k] /\ llmCall[c].step = "waiting"
        /\ UNCHANGED <<llmUsage, llmBegun, llmNow, llmLeft>>
    BY <1>7 DEF Models!WaitToRetry, Models!To, Models!At
  <2>2. k.step = "sleeping" /\ k.provider = llmCall[c].provider
    BY <2>1
  <2> HIDE DEF k
  <2> QED BY <1>6, <2>1, <2>2
<1>8. ASSUME NEW c \in LlmCallers, Models!Retry(c)
      PROVE  ModelsInv'
  <2> DEFINE k == [llmCall[c] EXCEPT !.step = "waiting", !.attempt = @ + 1]
  <2>1. llmCall' = [llmCall EXCEPT ![c] = k] /\ llmCall[c].step = "sleeping"
        /\ UNCHANGED <<llmUsage, llmBegun, llmNow, llmLeft>>
    BY <1>8 DEF Models!Retry, Models!To, Models!At
  <2>2. k.step = "waiting" /\ k.provider = llmCall[c].provider
    BY <2>1
  <2> HIDE DEF k
  <2> QED BY <1>6, <2>1, <2>2
<1> QED
  BY <1>1, <1>2, <1>4, <1>5, <1>7, <1>8, CompleteCounted, AnsweredCounted, NotAnsweredCounted
     DEF Models!Next

\* At the start nothing was let through.
LEMMA ModelsStart == Models!Init => ModelsInv
<1> SUFFICES ASSUME Models!Init PROVE ModelsInv
  OBVIOUS
<1>1. CircuitCounts
  BY DEF Models!Init, CircuitCounts, FitsStreak, Models!Closed, Models!NoCall, Models!Providers
<1>2. /\ LlmMaxFaults \in Nat /\ LlmMinute \in Nat /\ LlmMaxCallsPerMinute \in Nat
      /\ Cardinality(LlmCallers) \in Nat /\ Cardinality(LlmCallers) # 0
  BY ServicesAssumption, FS_CardinalityType, FS_EmptySet DEF ServicesAssumption
<1>3. /\ HasLeft(llmLeft, llmLeft.faults) /\ llmLeft.faults = LlmMaxFaults
      /\ llmUsage = [p \in Models!Providers |-> <<>>]
      /\ llmBegun = [p \in Models!Providers |-> <<>>]
  BY DEF Models!Init, HasLeft
<1>4. ASSUME NEW p
      PROVE  Matches(<<>>, <<>>, llmCall, p, LlmMaxFaults, llmNow)
  <2>1. \A u : Recent(<<>>, u) = {}
    BY DEF Recent
  <2>2. \A u : Cardinality(Recent(<<>>, u)) = 0
    BY <2>1, FS_EmptySet
  <2>3. /\ <<>> \in Seq(Nat) /\ <<>> \in Seq([at : Nat, status : Models!Statuses])
        /\ \A i \in DOMAIN <<>> : <<>>[i] <= llmNow
    OBVIOUS
  <2>4. \A u \in Int : Cardinality(Rows(<<>>, u)) \in Nat
    BY <2>3, RowsCounted
  <2>5. Cardinality(Flying(llmCall, p)) \in Nat
    BY FlyingCounts
  <2>6. \A u \in Int : Cardinality(Recent(<<>>, u)) <=
          Cardinality(Rows(<<>>, u)) + Cardinality(Flying(llmCall, p))
            + (LlmMaxFaults - LlmMaxFaults)
    BY <1>2, <2>2, <2>4, <2>5
  <2>7. Cardinality(Recent(<<>>, llmNow - LlmMinute)) <=
          LlmMaxCallsPerMinute + Cardinality(LlmCallers) - 1 + (LlmMaxFaults - LlmMaxFaults)
    BY <1>2, <2>2
  <2> QED BY <2>3, <2>6, <2>7 DEF Matches
<1>5. \A p \in Models!Providers :
        Matches(llmBegun[p], llmUsage[p], llmCall, p, llmLeft.faults, llmNow)
  BY <1>3, <1>4
<1> QED BY <1>1, <1>2, <1>3, <1>5 DEF ModelsInv

\* ProviderRuntime.CallsStayNearLimit of Services: the calls of a provider let through in any
\* minute exceed its limit by no more than the other callers and the records that were lost.
THEOREM CallLimits == ServicesSpec => []CallsStayNearLimit
<1> DEFINE Inv == focus = "models" => ModelsInv
<1>1. ServicesInit => Inv
  BY ModelsStart DEF ServicesInit
<1>2. Inv /\ [ServicesNext]_allVars => Inv'
  BY OneService, CallsKeep
<1>3. Inv => CallsStayNearLimit
  <2> SUFFICES ASSUME ModelsInv, NEW p \in Models!Providers
               PROVE  Models!Cardinality({i \in DOMAIN llmBegun[p] :
                                            llmBegun[p][i] + LlmMinute >= llmNow})
                        <= LlmMaxCallsPerMinute + Models!Cardinality(LlmCallers) - 1
                             + (LlmMaxFaults - llmLeft.faults)
    BY DEF CallsStayNearLimit, Models!CallsStayNearLimit
  <2> DEFINE S == {i \in DOMAIN llmBegun[p] : llmBegun[p][i] + LlmMinute >= llmNow}
  <2>1. Matches(llmBegun[p], llmUsage[p], llmCall, p, llmLeft.faults, llmNow)
    BY DEF ModelsInv
  <2>2. S = Recent(llmBegun[p], llmNow - LlmMinute)
    <3>1. llmBegun[p] \in Seq(Nat) /\ llmNow \in Nat /\ LlmMinute \in Nat
      BY <2>1, ServicesAssumption DEF ServicesAssumption, ModelsInv, CircuitCounts, Matches
    <3>2. \A i \in DOMAIN llmBegun[p] : llmBegun[p][i] \in Nat
      BY <3>1
    <3>3. \A i \in DOMAIN llmBegun[p] :
            llmBegun[p][i] + LlmMinute >= llmNow <=> llmBegun[p][i] >= llmNow - LlmMinute
      BY <3>1, <3>2
    <3> QED BY <3>3 DEF Recent
  <2> HIDE DEF S
  <2>3. Cardinality(S) <=
          LlmMaxCallsPerMinute + Cardinality(LlmCallers) - 1 + (LlmMaxFaults - llmLeft.faults)
    BY <2>1, <2>2 DEF Matches
  <2>4. Models!Cardinality(S) <= LlmMaxCallsPerMinute + Models!Cardinality(LlmCallers) - 1
                                  + (LlmMaxFaults - llmLeft.faults)
    BY <2>3, SameCardinality
  <2> QED BY <2>4 DEF S
<1> QED BY <1>1, <1>2, <1>3, PTL DEF ServicesSpec

-----------------------------------------------------------------------------
(* The planning pipeline.                                                  *)

RunModes == {"read_only", "workspace_write", "danger_full_access"}

\* The rank of a mode is its place among the modes.
LEMMA ModesRanked ==
  /\ Plan!Rank("read_only") = 1 /\ Plan!Rank("workspace_write") = 2
  /\ Plan!Rank("danger_full_access") = 3
  /\ Plan!ToSet(Plan!PermissionModes) = RunModes
<1>1. /\ DOMAIN Plan!PermissionModes = 1..3
      /\ Plan!PermissionModes[1] = "read_only" /\ Plan!PermissionModes[2] = "workspace_write"
      /\ Plan!PermissionModes[3] = "danger_full_access"
  BY DEF Plan!PermissionModes
<1>2. \A i \in 1..3 : i = 1 \/ i = 2 \/ i = 3
  OBVIOUS
<1> QED BY <1>1, <1>2 DEF Plan!Rank, Plan!ToSet, RunModes

\* Whatever a plan asks for a task, and whatever it has to write, its mode is not above the
\* run's.
LEMMA ModeNarrowed ==
  ASSUME NEW writes, NEW requested, NEW inherited \in RunModes
  PROVE  Plan!Rank(Plan!graphTaskPermissionMode(writes, requested, inherited))
           <= Plan!Rank(inherited)
<1>1. /\ Plan!parsePermissionMode(inherited, "workspace_write") = inherited
      /\ Plan!parsePermissionMode(requested, inherited) \in RunModes
  BY ModesRanked DEF Plan!parsePermissionMode
<1>2. /\ Plan!Rank(Plan!clampPermissionMode(requested, inherited)) <= Plan!Rank(inherited)
      /\ Plan!clampPermissionMode(requested, inherited) \in RunModes
  BY <1>1, ModesRanked DEF Plan!clampPermissionMode, RunModes
<1>3. inherited # "read_only" => Plan!Rank("workspace_write") <= Plan!Rank(inherited)
  BY ModesRanked DEF RunModes
<1> QED BY <1>1, <1>2, <1>3 DEF Plan!graphTaskPermissionMode

\* PlanPipeline: no task of a graph may do more than the run it belongs to, whatever the
\* planner answers.
THEOREM TaskModes == ServicesSpec => []TasksWithinRunMode
<1> USE ServicesAssumption DEF ServicesAssumption
<1> DEFINE Inv == focus = "plan" => planRequest \in PlanRequests /\ Plan!TasksWithinRunMode
<1>1. ServicesInit => Inv
  BY DEF ServicesInit, Plan!Init, Plan!TasksWithinRunMode
<1>2. Inv /\ [ServicesNext]_allVars => Inv'
  <2> SUFFICES ASSUME focus = "plan", planRequest \in PlanRequests, Plan!TasksWithinRunMode,
                      Plan!Next \/ UNCHANGED planVars
               PROVE  planRequest' \in PlanRequests /\ Plan!TasksWithinRunMode'
    BY OneService
  <2>1. planRequest' = planRequest
    BY DEF Plan!Next, planVars, Plan!PlannerFails, Plan!PlannerAnswers,
           Plan!OverrideClarification, Plan!Pause, Plan!DraftGraph, Plan!BuildGraph
  <2>2. \/ planGraph' = planGraph
        \/ \E p : planGraph' = Plan!createTaskGraphFromPlan(p)
    BY DEF Plan!Next, planVars, Plan!PlannerFails, Plan!PlannerAnswers,
           Plan!OverrideClarification, Plan!Pause, Plan!DraftGraph, Plan!BuildGraph
  <2>3. CASE planGraph' = planGraph
    BY <2>1, <2>3 DEF Plan!TasksWithinRunMode
  <2>4. ASSUME NEW p, planGraph' = Plan!createTaskGraphFromPlan(p)
        PROVE  Plan!TasksWithinRunMode'
    <3>1. planRequest.mode \in RunModes
      BY DEF RunModes
    <3>2. \A i \in DOMAIN planGraph' :
            Plan!Rank(planGraph'[i].permissionMode) <= Plan!Rank(planRequest.mode)
      BY <2>4, <3>1, ModeNarrowed DEF Plan!createTaskGraphFromPlan, Plan!TaskRow
    <3> QED BY <2>1, <3>2 DEF Plan!TasksWithinRunMode
  <2> QED BY <2>1, <2>2, <2>3, <2>4
<1>3. Inv => TasksWithinRunMode
  BY DEF TasksWithinRunMode
<1> QED BY <1>1, <1>2, <1>3, PTL DEF ServicesSpec

-----------------------------------------------------------------------------
(* The plans: what PlanTransforms_proofs proves.  Services has each definition of          *)
(* PlanTransforms as Plan!..., and the lemmas say that the two names mean the same.         *)

\* The bounds of a time limit.
LEMMA SameTimes == Plan!MaxTimeoutMs = MaxTimeoutMs /\ Plan!DefaultTimeoutMs = DefaultTimeoutMs
BY SMT DEF Plan!MaxTimeoutMs, Plan!DefaultTimeoutMs, MaxTimeoutMs, DefaultTimeoutMs

\* A task whose other fields take their defaults.
LEMMA SamePlanTask ==
  \A key, role, parentKey, dependsOn :
    Plan!planTask(key, role, parentKey, dependsOn) = planTask(key, role, parentKey, dependsOn)
BY SameTimes DEF Plan!planTask, planTask, Plan!Absent, Absent

\* The range checks.
LEMMA SameFields == \A t, w : Plan!TaskFieldsValid(t, w) = TaskFieldsValid(t, w)
BY SameTimes
   DEF Plan!TaskFieldsValid, Plan!MalformedKeys, Plan!NoKey, TaskFieldsValid, MalformedKeys, NoKey

\* The checks of keys, dependencies and parents.
LEMMA SameRest ==
  \A p : /\ Plan!KeysDistinct(p) = KeysDistinct(p)
         /\ Plan!TaskKeys(p) = TaskKeys(p)
         /\ \A k : Plan!DependenciesKnown(p, k) = DependenciesKnown(p, k)
         /\ \A k : Plan!validateParentHierarchy(p, k) = validateParentHierarchy(p, k)
         /\ Plan!detectCycles(p) = detectCycles(p)
BY DEF Plan!KeysDistinct, Plan!DependenciesKnown, Plan!TaskKeys, Plan!detectCycles,
       Plan!validateParentHierarchy, Plan!HasCycle, Plan!ByKey, Plan!NoKey, Plan!Max,
       Plan!Cardinality,
       KeysDistinct, DependenciesKnown, TaskKeys, detectCycles, validateParentHierarchy, HasCycle,
       ByKey, NoKey, Max, Cardinality

\* The validity of a plan.
LEMMA SameValid == \A p : Plan!validatePlanSpec(p) = validatePlanSpec(p)
BY SameFields, SameRest DEF Plan!validatePlanSpec, validatePlanSpec

\* What a goal's words say.
LEMMA SameComplexity == \A w, l : Plan!assessTaskComplexity(w, l) = assessTaskComplexity(w, l)
BY DEF Plan!assessTaskComplexity, Plan!Min, Plan!Max, assessTaskComplexity, Min, Max

\* The fallback plan.
LEMMA SameFallback ==
  \A w, l, d : Plan!createFallbackPlanSpec(w, l, d) = createFallbackPlanSpec(w, l, d)
<1> SUFFICES ASSUME NEW w, NEW l, NEW d
             PROVE  Plan!createFallbackPlanSpec(w, l, d) = createFallbackPlanSpec(w, l, d)
  OBVIOUS
<1>1. Plan!assessTaskComplexity(w, l) = assessTaskComplexity(w, l)
  BY SameComplexity
<1>2. \A key, role, parent, deps :
        Plan!planTask(key, role, parent, deps) = planTask(key, role, parent, deps)
  BY SamePlanTask
<1>3. QED
  BY <1>1, <1>2 DEF Plan!createFallbackPlanSpec, Plan!NoKey, createFallbackPlanSpec, NoKey

\* The tasks of a template.
LEMMA SameModuleTasks == \A t, p : Plan!ModuleTasks(t, p) = ModuleTasks(t, p)
BY SamePlanTask DEF Plan!ModuleTasks, ModuleTasks

\* A simple template.
LEMMA SameSimple == \A k, r : Plan!simpleTemplate(k, r) = simpleTemplate(k, r)
BY DEF Plan!simpleTemplate, Plan!Leaf, Plan!defineKey, Plan!verifyKey,
       simpleTemplate, Leaf, defineKey, verifyKey

\* The templates of the to-do application.
LEMMA SameTodo == Plan!todoCliPlanningTemplates = todoCliPlanningTemplates
BY DEF Plan!todoCliPlanningTemplates, Plan!Leaf, Plan!Module, todoCliPlanningTemplates, Leaf, Module

\* A chain of simple templates.
LEMMA SameChain == \A m : Plan!Chain(m) = Chain(m)
BY SameSimple DEF Plan!Chain, Chain

\* The chains there are.
LEMMA SameChained == \A n, r : Plan!ChainedTemplates(n, r) = ChainedTemplates(n, r)
BY SameChain DEF Plan!ChainedTemplates, ChainedTemplates

\* The templates of a goal.
LEMMA SameTemplates ==
  \A w, d : Plan!planningTemplatesFor(w, d) = planningTemplatesFor(w, d)
BY SameChained, SameTodo, SameComplexity DEF Plan!planningTemplatesFor, planningTemplatesFor

\* The sequences of a sequence, joined.
LEMMA SameFlatten == \A s : Plan!FlattenSeq(s) = FlattenSeq(s)
BY DEF Plan!FlattenSeq, FlattenSeq

\* The plan of a request to plan only.
LEMMA SameDraft ==
  \A w, d : Plan!createPlanningOnlyPlanSpec(w, d) = createPlanningOnlyPlanSpec(w, d)
BY SameModuleTasks, SamePlanTask, SameTemplates, SameFlatten
   DEF Plan!createPlanningOnlyPlanSpec, Plan!NoKey, createPlanningOnlyPlanSpec, NoKey

\* A key that is not taken.
LEMMA SameUnique ==
  \A b, e : Plan!uniqueKey(b, e) = uniqueKey(b, e)
  BY DEF Plan!uniqueKey, Plan!numberedKey, Plan!Min, Plan!Cardinality, uniqueKey, numberedKey, Min,
         Cardinality

\* The keys that are made up are told apart.
LEMMA SameKeysApart == \A n : Plan!MadeUpKeysApart(n) = MadeUpKeysApart(n)
  BY DEF Plan!MadeUpKeysApart, Plan!SupplementalApart, Plan!NumberedApart, Plan!numberedKey,
         Plan!requestedNodeKey, Plan!MaxRequestedTaskNodes, Plan!MalformedKeys, Plan!NoKey,
         MadeUpKeysApart, SupplementalApart, NumberedApart, numberedKey, requestedNodeKey,
         MaxRequestedTaskNodes, MalformedKeys, NoKey

\* The number of tasks a request asks for.
LEMMA SameRequested == \A n : Plan!requestedMinimumTaskNodes(n) = requestedMinimumTaskNodes(n)
  BY DEF Plan!requestedMinimumTaskNodes, Plan!MaxRequestedTaskNodes, Plan!Min,
         requestedMinimumTaskNodes, MaxRequestedTaskNodes, Min

\* The keys of the tasks that are added.
LEMMA SameSupplemental == \A e, n : Plan!SupplementalKeys(e, n) = SupplementalKeys(e, n)
  BY SameUnique DEF Plan!SupplementalKeys, Plan!requestedNodeKey, SupplementalKeys, requestedNodeKey

\* A set in some order.
LEMMA SameSetToSeq == \A S : Plan!SetToSeq(S) = SetToSeq(S)
  BY DEF Plan!SetToSeq, Plan!Cardinality, Plan!IsInjective, SetToSeq, Cardinality, IsInjective

\* The least and the greatest of a set.
LEMMA SameMinMax == \A S : Plan!Min(S) = Min(S) /\ Plan!Max(S) = Max(S)
  BY DEF Plan!Min, Plan!Max, Min, Max

\* The plan with tasks added.
LEMMA SameMinimum ==
  \A p, n : Plan!ensureMinimumTaskNodePlan(p, n) = ensureMinimumTaskNodePlan(p, n)
<1> SUFFICES ASSUME NEW p, NEW n
             PROVE  Plan!ensureMinimumTaskNodePlan(p, n) = ensureMinimumTaskNodePlan(p, n)
  OBVIOUS
<1> DEFINE tasks == p.tasks
           preferred == <<"implementation_slices", "interface_surface", "architecture",
                          "domain_model", "requirements_scope", "scope", "goal">>
           worker(t) == ~IsReviewer(t) /\ ~t.materialization
           planWorker(t) == ~Plan!IsReviewer(t) /\ ~t.materialization
           anchor == PreferredParent(tasks, preferred, worker, worker)
           planAnchor == Plan!PreferredParent(tasks, preferred, planWorker, planWorker)
           waves == {2} \union {tasks[i].wave : i \in DOMAIN tasks}
           two == {p.maxWaves, 2}
           wave == Min({Max(waves), Max(two)})
           planWave == Plan!Min({Plan!Max(waves), Plan!Max(two)})
           node(key) == [planTask(key, "developer", anchor, {anchor} \ {NoKey}) EXCEPT !.wave = wave]
           planNode(key) == [Plan!planTask(key, "developer", planAnchor, {planAnchor} \ {Plan!NoKey})
                               EXCEPT !.wave = planWave]
           d == requestedMinimumTaskNodes(n) - Len(tasks)
           planD == Plan!requestedMinimumTaskNodes(n) - Len(tasks)
           keys == SetToSeq(SupplementalKeys(TaskKeys(tasks), d))
           planKeys == Plan!SetToSeq(Plan!SupplementalKeys(Plan!TaskKeys(tasks), planD))
<1>1. anchor = planAnchor
  BY DEF PreferredParent, KeyOfFirst, IsReviewer, NoKey, Min,
         Plan!PreferredParent, Plan!KeyOfFirst, Plan!IsReviewer, Plan!NoKey, Plan!Min
<1>2. wave = planWave
  <2> HIDE DEF waves, two
  <2>1. QED
    BY SameMinMax
<1>3. d = planD /\ TaskKeys(tasks) = Plan!TaskKeys(tasks)
  BY SameRequested, SameRest
<1>4. keys = planKeys
  <2> HIDE DEF d, planD, tasks
  <2>1. QED
    BY <1>3, SameSupplemental, SameSetToSeq
<1> HIDE DEF anchor, planAnchor, wave, planWave, keys, planKeys
<1>5. \A key : node(key) = planNode(key)
  BY <1>1, <1>2, SamePlanTask DEF NoKey, Plan!NoKey
<1>6. [i \in DOMAIN keys |-> node(keys[i])] = [i \in DOMAIN planKeys |-> planNode(planKeys[i])]
  <2> HIDE DEF node, planNode
  <2>1. QED
    BY <1>4, <1>5
<1> DEFINE more == [i \in DOMAIN keys |-> node(keys[i])]
           planMore == [i \in DOMAIN planKeys |-> planNode(planKeys[i])]
           minimum == requestedMinimumTaskNodes(n)
           planMinimum == Plan!requestedMinimumTaskNodes(n)
<1>7. ensureMinimumTaskNodePlan(p, n) =
        IF Len(tasks) >= minimum THEN p
        ELSE [p EXCEPT !.maxWaves = Max({@, wave}), !.tasks = @ \o more]
  BY DEF ensureMinimumTaskNodePlan, anchor, wave, keys
<1>8. Plan!ensureMinimumTaskNodePlan(p, n) =
        IF Len(tasks) >= planMinimum THEN p
        ELSE [p EXCEPT !.maxWaves = Plan!Max({@, planWave}), !.tasks = @ \o planMore]
  BY DEF Plan!ensureMinimumTaskNodePlan, planAnchor, planWave, planKeys
<1>9. minimum = planMinimum /\ more = planMore
  BY <1>6, SameRequested
<1> HIDE DEF more, planMore, minimum, planMinimum
<1>10. Max({p.maxWaves, wave}) = Plan!Max({p.maxWaves, planWave})
  BY <1>2, SameMinMax
<1> DEFINE Grown(w, t) == [p EXCEPT !.maxWaves = w, !.tasks = t]
<1>11. /\ [p EXCEPT !.maxWaves = Max({@, wave}), !.tasks = @ \o more]
            = Grown(Max({p.maxWaves, wave}), tasks \o more)
       /\ [p EXCEPT !.maxWaves = Plan!Max({@, planWave}), !.tasks = @ \o planMore]
            = Grown(Plan!Max({p.maxWaves, planWave}), tasks \o planMore)
  OBVIOUS
<1> HIDE DEF Grown
<1>12. QED
  BY <1>7, <1>8, <1>9, <1>10, <1>11

\* The place of the task that is to write the files.
LEMMA SameExisting == \A t : Plan!existingIndex(t) = existingIndex(t)
  BY DEF Plan!existingIndex, Plan!Min, existingIndex, Min

\* That task.
LEMMA SameFinal ==
  \A p, k, e : Plan!materializationTask(p, k, e) = materializationTask(p, k, e)
<1> SUFFICES ASSUME NEW p, NEW k, NEW e
             PROVE  Plan!materializationTask(p, k, e) = materializationTask(p, k, e)
  OBVIOUS
<1> DEFINE tasks == p.tasks
           preferred == <<"implementation_slices", "implementation", "interface_surface",
                          "architecture", "scope", "goal">>
           parent == PreferredParent(tasks, preferred,
                       LAMBDA t : t.key # k, LAMBDA t : t.key # k /\ ~IsReviewer(t))
           planParent == Plan!PreferredParent(tasks, preferred,
                           LAMBDA t : t.key # k, LAMBDA t : t.key # k /\ ~Plan!IsReviewer(t))
           base == IF e = 0 THEN planTask(k, "developer", NoKey, {}) ELSE tasks[e]
           planBase == IF e = 0 THEN Plan!planTask(k, "developer", Plan!NoKey, {}) ELSE tasks[e]
           others == {tasks[i].key : i \in {j \in DOMAIN tasks : ~IsReviewer(tasks[j])}}
           planOthers == {tasks[i].key : i \in {j \in DOMAIN tasks : ~Plan!IsReviewer(tasks[j])}}
           waves == {tasks[i].wave : i \in DOMAIN tasks}
           top == Max({base.wave} \union waves)
           planTop == Plan!Max({planBase.wave} \union waves)
<1>1. parent = planParent
  BY DEF PreferredParent, KeyOfFirst, IsReviewer, NoKey, Min,
         Plan!PreferredParent, Plan!KeyOfFirst, Plan!IsReviewer, Plan!NoKey, Plan!Min
<1>2. base = planBase
  BY SamePlanTask DEF NoKey, Plan!NoKey
<1>3. others = planOthers
  BY DEF IsReviewer, Plan!IsReviewer
<1> HIDE DEF base, planBase, waves
<1>4. top = planTop
  BY <1>2, SameMinMax
<1> HIDE DEF top, planTop, parent, planParent, others, planOthers
<1>5. materializationTask(p, k, e) =
        [base EXCEPT !.role = "developer", !.dependencyType = "finished",
                     !.parentKey = IF @ = NoKey THEN parent ELSE @,
                     !.dependsOn = (@ \union others) \ {k},
                     !.maxRetries = Max({@, 1}),
                     !.wave = IF e = 0 THEN top + 1 ELSE top,
                     !.expandable = FALSE, !.maxExpansionDepth = 0, !.materialization = TRUE,
                     !.permissionMode = IF @ = Absent THEN "danger_full_access" ELSE @]
  BY DEF materializationTask, base, parent, others, top, waves
<1>6. Plan!materializationTask(p, k, e) =
        [planBase EXCEPT !.role = "developer", !.dependencyType = "finished",
                     !.parentKey = IF @ = Plan!NoKey THEN planParent ELSE @,
                     !.dependsOn = (@ \union planOthers) \ {k},
                     !.maxRetries = Plan!Max({@, 1}),
                     !.wave = IF e = 0 THEN planTop + 1 ELSE planTop,
                     !.expandable = FALSE, !.maxExpansionDepth = 0, !.materialization = TRUE,
                     !.permissionMode = IF @ = Plan!Absent THEN "danger_full_access" ELSE @]
  BY DEF Plan!materializationTask, planBase, planParent, planOthers, planTop, waves
<1>7. NoKey = Plan!NoKey /\ Absent = Plan!Absent
  BY DEF NoKey, Plan!NoKey, Absent, Plan!Absent
<1>8. Max({base.maxRetries, 1}) = Plan!Max({planBase.maxRetries, 1})
  BY <1>2, SameMinMax
<1>9. QED
  BY <1>1, <1>2, <1>3, <1>4, <1>5, <1>6, <1>7, <1>8

\* The plan in which all work comes before it.
LEMMA SameArtifact ==
  \A p, w : Plan!ensureArtifactMaterializationPlan(p, w) = ensureArtifactMaterializationPlan(p, w)
<1> SUFFICES ASSUME NEW p, NEW w
             PROVE  Plan!ensureArtifactMaterializationPlan(p, w) =
                      ensureArtifactMaterializationPlan(p, w)
  OBVIOUS
<1> DEFINE tasks == p.tasks
           e == existingIndex(tasks)
           planE == Plan!existingIndex(tasks)
           k == IF e = 0 THEN uniqueKey("final_materialization", TaskKeys(tasks)) ELSE tasks[e].key
           planK == IF planE = 0 THEN Plan!uniqueKey("final_materialization", Plan!TaskKeys(tasks))
                    ELSE tasks[planE].key
           final == materializationTask(p, k, e)
           planFinal == Plan!materializationTask(p, planK, planE)
           placed == IF e = 0 THEN Append(tasks, final) ELSE [tasks EXCEPT ![e] = final]
           planPlaced == IF planE = 0 THEN Append(tasks, planFinal)
                         ELSE [tasks EXCEPT ![planE] = planFinal]
           review(t) == IF t.key = k \/ ~IsReviewer(t) THEN t
                        ELSE [t EXCEPT !.dependsOn = (@ \union {k}) \ {t.key}]
           planReview(t) == IF t.key = planK \/ ~Plan!IsReviewer(t) THEN t
                            ELSE [t EXCEPT !.dependsOn = (@ \union {planK}) \ {t.key}]
           done == [i \in DOMAIN placed |-> review(placed[i])]
           planDone == [i \in DOMAIN planPlaced |-> planReview(planPlaced[i])]
<1>1. e = planE /\ TaskKeys(tasks) = Plan!TaskKeys(tasks)
  BY SameExisting, SameRest
<1>2. k = planK
  <2> HIDE DEF e, planE, tasks
  <2>1. QED
    BY <1>1, SameUnique
<1>3. final = planFinal
  <2> HIDE DEF e, planE, k, planK
  <2>1. QED
    BY <1>1, <1>2, SameFinal
<1>4. placed = planPlaced
  <2> HIDE DEF e, planE, final, planFinal, tasks
  <2>1. QED
    BY <1>1, <1>3
<1>5. \A t : review(t) = planReview(t)
  <2> HIDE DEF k, planK
  <2>1. QED
    BY <1>2 DEF IsReviewer, Plan!IsReviewer
<1>6. done = planDone
  <2> HIDE DEF placed, planPlaced, review, planReview
  <2>1. QED
    BY <1>4, <1>5
<1>7. ensureArtifactMaterializationPlan(p, w) =
        IF ~w THEN p ELSE [p EXCEPT !.maxWaves = Max({@, final.wave}), !.tasks = done]
  BY DEF ensureArtifactMaterializationPlan
<1>8. Plan!ensureArtifactMaterializationPlan(p, w) =
        IF ~w THEN p ELSE [p EXCEPT !.maxWaves = Plan!Max({@, planFinal.wave}), !.tasks = planDone]
  BY DEF Plan!ensureArtifactMaterializationPlan
<1> HIDE DEF done, planDone, final, planFinal
<1>9. Max({p.maxWaves, final.wave}) = Plan!Max({p.maxWaves, planFinal.wave})
  BY <1>3, SameMinMax
<1>10. QED
  BY <1>6, <1>7, <1>8, <1>9

-----------------------------------------------------------------------------
(* The planning pipeline's graphs.                                           *)

\* A graph has a row for each task of a plan, with its key and its dependencies.
RowsOf(g, p) ==
  /\ g = [i \in DOMAIN p.tasks |-> g[i]]
  /\ \A i \in DOMAIN p.tasks : g[i].key = p.tasks[i].key /\ g[i].dependsOn = p.tasks[i].dependsOn

\* The graph of a valid plan that is rewritten: it can be created, is as large as asked for, and
\* has a cycle exactly when the task that writes the files is put where work waits for a review.
LEMMA GraphOfPlan ==
  ASSUME NEW p, NEW n, PlanShaped(p, n), validatePlanSpec(p), MadeUpKeysApart(n),
         NEW requested \in Nat, NEW writes, NEW g,
         RowsOf(g, ensureArtifactMaterializationPlan(ensureMinimumTaskNodePlan(p, requested), writes))
  PROVE  /\ KeysDistinct(g) /\ DependenciesKnown(g, TaskKeys(g))
         /\ Len(g) >= requestedMinimumTaskNodes(requested)
         /\ detectCycles(g) <=>
              writes /\ Misplaced(ensureMinimumTaskNodePlan(p, requested).tasks)
<1> DEFINE q == ensureMinimumTaskNodePlan(p, requested)
           r == ensureArtifactMaterializationPlan(q, writes)
           minimum == requestedMinimumTaskNodes(requested)
<1>1. /\ n \in Nat /\ KeysDistinct(p.tasks) /\ DependenciesKnown(p.tasks, TaskKeys(p.tasks))
      /\ ~detectCycles(p.tasks)
  BY DEF validatePlanSpec, PlanShaped, Listed
<1>2. PICK m \in Nat : /\ Extended(p, q, n, m) /\ minimum <= m
                       /\ m <= n \/ m <= MaxRequestedTaskNodes
  <2>1. SupplementalApart(n)
    BY DEF MadeUpKeysApart
  <2>2. QED
    BY <1>1, <2>1, MinimumPlan
<1> HIDE DEF q, minimum
<1>3. PlanShaped(q, m) /\ Listed(q.tasks, m) /\ KeysDistinct(q.tasks)
  BY <1>2 DEF Extended, PlanShaped
<1>4. DependenciesKnown(q.tasks, TaskKeys(q.tasks)) /\ ~detectCycles(q.tasks)
  BY <1>1, <1>2, ExtendedAcyclic
<1>5. minimum \in Nat
  BY MinOfTwo DEF minimum, requestedMinimumTaskNodes, MaxRequestedTaskNodes
<1>6. \E N \in Nat :
        /\ Listed(r.tasks, N) /\ minimum <= N
        /\ KeysDistinct(r.tasks) /\ DependenciesKnown(r.tasks, TaskKeys(r.tasks))
        /\ detectCycles(r.tasks) <=> writes /\ Misplaced(q.tasks)
  <2>1. CASE writes
    <3>1. r = ensureArtifactMaterializationPlan(q, TRUE)
      BY <2>1 DEF ensureArtifactMaterializationPlan
    <3>2. NumberedApart("final_materialization", m + 1)
      <4>1. NumberedApart("final_materialization", n + MaxRequestedTaskNodes + 1)
        BY DEF MadeUpKeysApart
      <4>2. MaxRequestedTaskNodes \in Nat
        BY DEF MaxRequestedTaskNodes
      <4>3. 1..(m + 1) \subseteq 1..(n + MaxRequestedTaskNodes + 1)
        BY <1>1, <1>2, <4>2
      <4>4. QED
        BY <4>1, <4>3 DEF NumberedApart
    <3>3. PICK f : Rewritten(q, r, m, f)
      BY <1>3, <3>1, <3>2, ArtifactPlan
    <3>4. KeysDistinct(r.tasks) /\ DependenciesKnown(r.tasks, TaskKeys(r.tasks))
      BY <1>3, <1>4, <3>3, RewrittenKnown
    <3>5. detectCycles(r.tasks) <=> Misplaced(q.tasks)
      BY <1>3, <1>4, <3>3, RewrittenCycle
    <3>6. Listed(r.tasks, m) \/ Listed(r.tasks, m + 1)
      BY <3>3 DEF Rewritten
    <3>7. m + 1 \in Nat /\ minimum <= m + 1
      BY <1>2, <1>5
    <3>8. QED
      BY <1>2, <2>1, <3>4, <3>5, <3>6, <3>7
  <2>2. CASE ~writes
    <3>1. r = q
      BY <2>2 DEF ensureArtifactMaterializationPlan
    <3>2. QED
      BY <1>2, <1>3, <1>4, <2>2, <3>1
  <2>3. QED
    BY <2>1, <2>2
<1> HIDE DEF r
<1>7. RowsOf(g, r)
  BY DEF q, r
<1>8. PICK N \in Nat :
        /\ Listed(r.tasks, N) /\ minimum <= N
        /\ KeysDistinct(r.tasks) /\ DependenciesKnown(r.tasks, TaskKeys(r.tasks))
        /\ detectCycles(r.tasks) <=> writes /\ Misplaced(q.tasks)
  BY <1>6
<1>9. /\ Listed(g, N) /\ g = [i \in 1..N |-> g[i]]
      /\ \A i \in 1..N : g[i].key = r.tasks[i].key /\ g[i].dependsOn = r.tasks[i].dependsOn
  BY <1>7, <1>8 DEF RowsOf, Listed
<1>10. Len(g) = N
  <2> DEFINE S == {g[i] : i \in 1..N}
  <2>1. g \in [1..N -> S]
    BY <1>9
  <2> HIDE DEF S
  <2>2. QED
    BY <2>1, SeqOfFunction
<1>11. /\ KeysDistinct(g) /\ DependenciesKnown(g, TaskKeys(g))
       /\ detectCycles(g) <=> detectCycles(r.tasks)
  BY <1>8, <1>9, SameDependencies
<1>12. QED
  BY <1>5, <1>8, <1>10, <1>11 DEF q, minimum

\* The fallback plan has the shape of a plan, with two or four tasks.
LEMMA FallbackShaped ==
  ASSUME NEW words, NEW level, NEW developer
  PROVE  \E n \in {2, 4} : PlanShaped(createFallbackPlanSpec(words, level, developer), n)
<1> DEFINE p == createFallbackPlanSpec(words, level, developer)
           long == assessTaskComplexity(words, level).longTask
           target == IF developer THEN "developer" ELSE "researcher"
           scope == planTask("scope", "researcher", NoKey, {})
           architecture == [planTask("architecture", "planner", "scope", {"scope"})
                              EXCEPT !.expandable = long, !.maxExpansionDepth = IF long THEN 3 ELSE 0]
           implementation == planTask("implementation", target, "architecture", {"architecture"})
           verification == [planTask("verification", "reviewer", "implementation", {"implementation"})
                              EXCEPT !.dependencyType = "finished"]
           Fields(t) == t = [f \in TaskFieldNames |-> t[f]]
<1>1. /\ p = [goal |-> words, planningMode |-> IF long THEN "rolling" ELSE "single_wave",
              maxWaves |-> IF long THEN 12 ELSE 1, failureStrategy |-> "block_dependents",
              tasks |-> IF long THEN <<scope, architecture>>
                        ELSE <<scope, architecture, implementation, verification>>]
  BY DEF createFallbackPlanSpec
<1>2. Fields(scope) /\ Fields(architecture) /\ Fields(implementation) /\ Fields(verification)
  <2> HIDE DEF long, target
  <2>1. Fields(scope) /\ Fields(implementation)
    BY DEF planTask, TaskFieldNames
  <2>2. Fields(architecture)
    BY DEF planTask, TaskFieldNames
  <2>3. Fields(verification)
    BY DEF planTask, TaskFieldNames
  <2>4. QED
    BY <2>1, <2>2, <2>3
<1> HIDE DEF p, long, scope, architecture, implementation, verification, Fields
<1>3. DOMAIN p = {"goal", "planningMode", "maxWaves", "failureStrategy", "tasks"}
  BY <1>1
<1>4. CASE long
  <2>1. p.tasks = <<scope, architecture>>
    BY <1>1, <1>4
  <2>2. \A i \in 1..2 : Fields(p.tasks[i])
    BY <1>2, <2>1
  <2>3. Listed(p.tasks, 2) /\ p.tasks = [i \in 1..2 |-> p.tasks[i]]
    BY <2>1 DEF Listed
  <2>4. PlanShaped(p, 2)
    BY <1>3, <2>2, <2>3 DEF PlanShaped, Fields
  <2>5. QED
    BY <2>4 DEF p
<1>5. CASE ~long
  <2>1. p.tasks = <<scope, architecture, implementation, verification>>
    BY <1>1, <1>5
  <2>2. \A i \in 1..4 : Fields(p.tasks[i])
    BY <1>2, <2>1
  <2>3. Listed(p.tasks, 4) /\ p.tasks = [i \in 1..4 |-> p.tasks[i]]
    BY <2>1 DEF Listed
  <2>4. PlanShaped(p, 4)
    BY <1>3, <2>2, <2>3 DEF PlanShaped, Fields
  <2>5. QED
    BY <2>4 DEF p
<1>6. QED
  BY <1>4, <1>5

\* So has the planner's plan once it is normalised.
LEMMA NormalizedShaped ==
  ASSUME NEW raw \in PlanRawPlans
  PROVE  PlanShaped(Plan!normalizePlanSpec(raw), Len(raw.tasks)) /\ MadeUpKeysApart(Len(raw.tasks))
<1> DEFINE p == Plan!normalizePlanSpec(raw)
           n == Len(raw.tasks)
           task(i) == Plan!normalizeTaskSpec(raw.tasks[i], i, Plan!NoKey)
           S == {raw.tasks[i] : i \in DOMAIN raw.tasks}
<1>1. n \in Nat /\ DOMAIN raw.tasks = 1..n
  <2>1. raw.tasks \in Seq(S)
    BY PlanningAssumption DEF PlanningAssumption
  <2> HIDE DEF S
  <2>2. QED
    BY <2>1
<1>2. /\ DOMAIN p = {"goal", "planningMode", "maxWaves", "failureStrategy", "tasks"}
      /\ p.tasks = [i \in DOMAIN raw.tasks |-> task(i)]
  BY DEF Plan!normalizePlanSpec
<1>3. \A i : task(i) = [f \in TaskFieldNames |-> task(i)[f]]
  <2>1. SUFFICES ASSUME NEW i
                 PROVE  task(i) = [f \in TaskFieldNames |-> task(i)[f]]
    OBVIOUS
  <2> DEFINE r == raw.tasks[i]
             key == IF r.key = Plan!NoKey THEN "task_" \o Plan!ToString(i) ELSE r.key
             role == IF r.role = "" THEN "developer" ELSE r.role
             parentKey == IF r.parentKey = Plan!NoKey THEN Plan!NoKey ELSE r.parentKey
             type == IF r.dependencyType = "finished" THEN "finished" ELSE "success"
             timeoutMs ==
               Plan!boundedInteger(r.timeoutMs, Plan!DefaultTimeoutMs, 1000, Plan!MaxTimeoutMs)
             maxRetries == Plan!boundedInteger(r.maxRetries, 1, 0, 5)
             wave == Plan!boundedInteger(r.wave, 1, 1, 100)
             depth == Plan!boundedInteger(r.maxExpansionDepth, 0, 0, 20)
  <2>2. task(i) = [key |-> key, role |-> role, parentKey |-> parentKey, dependsOn |-> r.dependsOn,
                   dependencyType |-> type, timeoutMs |-> timeoutMs, maxRetries |-> maxRetries,
                   wave |-> wave, expandable |-> r.expandable, maxExpansionDepth |-> depth,
                   permissionMode |-> r.permissionMode, materialization |-> r.materialization]
    BY DEF Plan!normalizeTaskSpec
  <2> HIDE DEF task, r, key, role, parentKey, type, timeoutMs, maxRetries, wave, depth
  <2>3. QED
    BY <2>2 DEF TaskFieldNames, planTask
<1> HIDE DEF p, task, n
<1>4. PlanShaped(p, n)
  BY <1>1, <1>2, <1>3 DEF PlanShaped, Listed
<1>5. MadeUpKeysApart(n)
  BY PlanningAssumption, SameKeysApart DEF PlanningAssumption, n
<1>6. QED
  BY <1>4, <1>5 DEF p, n

\* The plan is valid; until it is a draft, it has the shape of a plan, next to which no key is
\* made up twice; and the graph is the draft's, or that of the rewritten plan.
PlanInv ==
  /\ planRequest \in PlanRequests
  /\ validatePlanSpec(planPlan)
  /\ planStep # "draft" => \E n \in Nat : PlanShaped(planPlan, n) /\ MadeUpKeysApart(n)
  /\ planStep \in {"planning", "returned", "planned", "paused", "draft", "executing"}
  /\ planStep \notin {"draft", "executing"} => planGraph = <<>>
  /\ planStep = "draft" => RowsOf(planGraph, planPlan)
  /\ planStep = "executing" =>
       RowsOf(planGraph, ensureArtifactMaterializationPlan(
                           ensureMinimumTaskNodePlan(planPlan, planRequest.minimum),
                           planRequest.writes))

\* The fallback plan of any request is such a plan.
LEMMA FallbackGood ==
  /\ validatePlanSpec(Plan!Fallback)
  /\ \E n \in Nat : PlanShaped(Plan!Fallback, n) /\ MadeUpKeysApart(n)
<1>1. Plan!Fallback =
        createFallbackPlanSpec(planRequest.words, planRequest.level, Plan!WithDeveloper)
  BY SameFallback DEF Plan!Fallback
<1>2. validatePlanSpec(Plan!Fallback)
  BY <1>1, FallbackPlanValid
<1>3. PICK n \in {2, 4} : PlanShaped(Plan!Fallback, n)
  BY <1>1, FallbackShaped
<1>4. MadeUpKeysApart(n) /\ n \in Nat
  BY PlanningAssumption, SameKeysApart DEF PlanningAssumption
<1>5. QED
  BY <1>2, <1>3, <1>4

\* The rows created for a plan are its tasks'.
LEMMA RowsCreated == \A p : RowsOf(Plan!createTaskGraphFromPlan(p), p)
  BY DEF RowsOf, Plan!createTaskGraphFromPlan, Plan!TaskRow

\* Every step keeps that.
LEMMA PlanKeeps == ASSUME PlanInv, Plan!Next \/ UNCHANGED planVars PROVE PlanInv'
<1> USE DEF PlanInv
<1>1. CASE UNCHANGED planVars
  BY <1>1 DEF planVars
<1>2. CASE Plan!PlannerFails
  BY <1>2 DEF Plan!PlannerFails
<1>3. ASSUME NEW raw \in PlanRawPlans, Plan!PlannerAnswers(raw)
      PROVE  PlanInv'
  <2> DEFINE usable == /\ Plan!parsePlanSpec(raw)
                       /\ Plan!validatePlanSpec(Plan!normalizePlanSpec(raw))
  <2>1. /\ planStep = "planning" /\ planStep' = "planned"
        /\ planPlan' = IF usable THEN Plan!normalizePlanSpec(raw) ELSE Plan!Fallback
        /\ UNCHANGED <<planRequest, planGraph>>
    BY <1>3 DEF Plan!PlannerAnswers
  <2>2. /\ validatePlanSpec(planPlan')
        /\ \E n \in Nat : PlanShaped(planPlan', n) /\ MadeUpKeysApart(n)
    <3>1. CASE usable
      <4>1. planPlan' = Plan!normalizePlanSpec(raw) /\ validatePlanSpec(planPlan')
        BY <2>1, <3>1, SameValid
      <4>2. Len(raw.tasks) \in Nat
        BY NormalizedShaped DEF PlanShaped, Listed
      <4>3. QED
        BY <4>1, <4>2, NormalizedShaped
    <3>2. CASE ~usable
      BY <2>1, <3>2, FallbackGood
    <3>3. QED
      BY <3>1, <3>2
  <2>3. QED
    BY <2>1, <2>2
<1>4. CASE Plan!OverrideClarification
  BY <1>4, FallbackGood DEF Plan!OverrideClarification
<1>5. CASE Plan!Pause
  BY <1>5 DEF Plan!Pause
<1>6. CASE Plan!DraftGraph
  <2>1. /\ planStep' = "draft" /\ planRequest' = planRequest
        /\ \E words : planPlan' = createPlanningOnlyPlanSpec(words, Plan!WithDeveloper)
        /\ planGraph' = Plan!createTaskGraphFromPlan(planPlan')
    BY <1>6, SameDraft DEF Plan!DraftGraph
  <2>2. validatePlanSpec(planPlan')
    BY <2>1, PlanningOnlyPlanValid
  <2>3. RowsOf(planGraph', planPlan')
    BY <2>1, RowsCreated
  <2>4. QED
    BY <2>1, <2>2, <2>3
<1>7. CASE Plan!BuildGraph
  <2>1. /\ planStep = "planned" /\ planStep' = "executing"
        /\ planRequest' = planRequest /\ planPlan' = planPlan
    BY <1>7 DEF Plan!BuildGraph
  <2>2. planGraph' = Plan!createTaskGraphFromPlan(
                       ensureArtifactMaterializationPlan(
                         ensureMinimumTaskNodePlan(planPlan, planRequest.minimum),
                         planRequest.writes))
    BY <1>7, SameMinimum, SameArtifact DEF Plan!BuildGraph
  <2>3. RowsOf(planGraph', ensureArtifactMaterializationPlan(
                             ensureMinimumTaskNodePlan(planPlan, planRequest.minimum),
                             planRequest.writes))
    BY <2>2, RowsCreated
  <2>4. QED
    BY <2>1, <2>3
<1>8. QED
  BY <1>1, <1>2, <1>3, <1>4, <1>5, <1>6, <1>7 DEF Plan!Next

\* The state a request begins in has it.
LEMMA PlanBegins == ASSUME Plan!Init PROVE PlanInv
  BY FallbackGood DEF Plan!Init, PlanInv

\* What the invariant says of a graph that is executed.
LEMMA GraphGood ==
  ASSUME PlanInv, planStep = "executing"
  PROVE  /\ KeysDistinct(planGraph) /\ DependenciesKnown(planGraph, TaskKeys(planGraph))
         /\ Len(planGraph) >= requestedMinimumTaskNodes(planRequest.minimum)
         /\ detectCycles(planGraph) <=>
              /\ planRequest.writes
              /\ Misplaced(ensureMinimumTaskNodePlan(planPlan, planRequest.minimum).tasks)
<1>1. planRequest.minimum \in Nat
  BY PlanningAssumption DEF PlanningAssumption, PlanInv
<1>2. PICK n \in Nat : PlanShaped(planPlan, n) /\ MadeUpKeysApart(n)
  BY DEF PlanInv
<1>3. QED
  BY <1>1, <1>2, GraphOfPlan DEF PlanInv

\* The invariant holds in every state.
LEMMA PlanHolds == ServicesSpec => [](focus = "plan" => PlanInv)
<1> DEFINE Inv == focus = "plan" => PlanInv
<1>1. ServicesInit => Inv
  BY PlanBegins DEF ServicesInit
<1>2. Inv /\ [ServicesNext]_allVars => Inv'
  <2> SUFFICES ASSUME Inv, [ServicesNext]_allVars, focus = "plan" PROVE PlanInv'
    BY OneService
  <2>1. [Plan!Next]_planVars
    BY OneService
  <2> QED BY <2>1, PlanKeeps
<1> QED BY <1>1, <1>2, PTL DEF ServicesSpec

\* PlanSpec: every plan that is reported, paused on or rewritten is valid, whatever the planner
\* answers: what normalisation lets through is validated, and the plans that are not validated
\* are made of parts that are.
THEOREM ValidPlans == ServicesSpec => []PlansAreValid
<1>1. (focus = "plan" => PlanInv) => PlansAreValid
  BY SameValid DEF PlansAreValid, Plan!PlansAreValid, PlanInv
<1> QED BY <1>1, PlanHolds, PTL

\* MinimumTaskNodes, ArtifactMaterialization: the graph of a rewritten plan can be created: its
\* keys are distinct, its dependencies lead to its tasks, and it is as large as asked for.
THEOREM CreatedGraphs == ServicesSpec => []GraphsCanBeCreated
<1>1. (focus = "plan" => PlanInv) => GraphsCanBeCreated
  <2> SUFFICES ASSUME focus = "plan", PlanInv, planGraph # <<>>
               PROVE  /\ KeysDistinct(planGraph)
                      /\ DependenciesKnown(planGraph, TaskKeys(planGraph))
                      /\ planStep = "executing" =>
                           Len(planGraph) >= requestedMinimumTaskNodes(planRequest.minimum)
    BY SameRest, SameRequested DEF GraphsCanBeCreated, Plan!GraphsCanBeCreated
  <2>1. CASE planStep = "executing"
    BY <2>1, GraphGood
  <2>2. CASE planStep # "executing"
    <3>1. planStep = "draft" /\ RowsOf(planGraph, planPlan)
      BY <2>2 DEF PlanInv
    <3>2. /\ DOMAIN planGraph = DOMAIN planPlan.tasks
          /\ \A i \in DOMAIN planPlan.tasks :
               /\ planGraph[i].key = planPlan.tasks[i].key
               /\ planGraph[i].dependsOn = planPlan.tasks[i].dependsOn
      BY <3>1 DEF RowsOf
    <3>3. KeysDistinct(planPlan.tasks) /\ DependenciesKnown(planPlan.tasks, TaskKeys(planPlan.tasks))
      BY DEF PlanInv, validatePlanSpec
    <3>4. TaskKeys(planGraph) = TaskKeys(planPlan.tasks)
      BY <3>2 DEF TaskKeys
    <3>5. QED
      BY <2>2, <3>2, <3>3, <3>4 DEF KeysDistinct, DependenciesKnown
  <2> QED BY <2>1, <2>2
<1> QED BY <1>1, PlanHolds, PTL

\* ArtifactMaterialization: a graph that is executed is a DAG, as README.md:414 calls it, except
\* exactly when files are to be written and the plan lets work, or the task that writes them,
\* wait for a review or for that task.
THEOREM CyclesFromReviews == ServicesSpec => []CycleExactlyFromReviewedWork
<1>1. (focus = "plan" => PlanInv) => CycleExactlyFromReviewedWork
  <2> SUFFICES ASSUME focus = "plan", PlanInv, planStep = "executing"
               PROVE  Plan!CycleExactlyFromReviewedWork
    BY DEF CycleExactlyFromReviewedWork, Plan!CycleExactlyFromReviewedWork
  <2> DEFINE tasks == ensureMinimumTaskNodePlan(planPlan, planRequest.minimum).tasks
  <2>1. tasks = Plan!ensureMinimumTaskNodePlan(planPlan, planRequest.minimum).tasks
    BY SameMinimum
  <2>2. detectCycles(planGraph) <=> planRequest.writes /\ Misplaced(tasks)
    BY GraphGood
  <2> HIDE DEF tasks
  <2>3. detectCycles(planGraph) <=> Plan!detectCycles(planGraph)
    BY SameRest
  <2>4. existingIndex(tasks) = Plan!existingIndex(tasks)
    BY SameExisting
  <2>5. Misplaced(tasks) <=>
          \E i, j \in DOMAIN tasks :
            /\ ~Plan!IsReviewer(tasks[i]) \/ i = Plan!existingIndex(tasks)
            /\ Plan!IsReviewer(tasks[j]) \/ j = Plan!existingIndex(tasks)
            /\ tasks[j].key \in tasks[i].dependsOn
    BY <2>4 DEF Misplaced, IsReviewer, Plan!IsReviewer
  <2> QED BY <2>1, <2>2, <2>3, <2>5 DEF Plan!CycleExactlyFromReviewedWork
<1> QED BY <1>1, PlanHolds, PTL

-----------------------------------------------------------------------------
(* The calls of tools.                                                     *)

\* What may be recorded of a call, and what of one that was started.
Started == {<<"started">>, <<"started", "failed">>, <<"started", "completed">>}
Logs ==
  Started \cup {<<>>, <<"failed">>, <<"started", "approval_required">>,
                <<"started", "approval_required", "failed">>}

Dangerous(o) == o.kind = "http" \/ o.op \in {"gh", "delete"}

\* Nothing that is still to be done needs an approval.
Harmless(todo) == \E S : todo \in Seq(S) /\ \A o \in S : ~Dangerous(o)

\* The state of a call, its events, what it performed, and the faults that are left.
Tells(k, log, done, faults) ==
  /\ DOMAIN k = DOMAIN Tools!Idle /\ log \in Logs
  /\ log = <<"started", "completed">> <=> k.answer = "ok"
  /\ k.answer = "ok" => k.todo = <<>> /\ ~k.error
  /\ k.answer = "failed" /\ k.todo = <<>> /\ ~k.error => k.timedOut \/ faults < ToolMaxFaults
  /\ k.answer = "rejected" => faults < ToolMaxFaults
  /\ done # {} => log \in Started
  /\ done # {} \/ k.step \in {"running", "late"} => Tools!Approved(k.request)
  /\ \A o \in done : Dangerous(o) => k.request.approval.approved
  /\ k.step = "idle" => log = <<>> /\ done = {}
  /\ k.step = "running" => log = <<"started">> /\ k.answer = "none" /\ ~k.timedOut
  /\ k.step = "late" => log \in Started /\ k.timedOut /\ k.answer \in {"failed", "rejected"}
  /\ k.step \in {"running", "late"} /\ ~k.request.approval.approved => Harmless(k.todo)

ToolInv ==
  /\ toolCall = [c \in ToolCalls |-> toolCall[c]]
  /\ toolEvents = [c \in ToolCalls |-> toolEvents[c]]
  /\ toolPerformed = [c \in ToolCalls |-> toolPerformed[c]]
  /\ toolLeft = [faults |-> toolLeft.faults, crashes |-> toolLeft.crashes]
  /\ toolLeft.faults \in Int /\ toolLeft.faults <= ToolMaxFaults
  /\ \A c \in ToolCalls : Tells(toolCall[c], toolEvents[c], toolPerformed[c], toolLeft.faults)

\* Call c goes on as k.
ToolStep(c, k, log, done, faults) ==
  /\ toolCall' = [toolCall EXCEPT ![c] = k]
  /\ toolEvents' = [toolEvents EXCEPT ![c] = log]
  /\ toolPerformed' = [toolPerformed EXCEPT ![c] = done]
  /\ toolLeft' = [faults |-> toolLeft'.faults, crashes |-> toolLeft'.crashes]
  /\ toolLeft'.faults = faults /\ faults \in Int /\ faults <= toolLeft.faults

LEMMA StepTells ==
  ASSUME ToolInv, NEW c \in ToolCalls, NEW k, NEW log, NEW done, NEW faults,
         ToolStep(c, k, log, done, faults), Tells(k, log, done, faults)
  PROVE  ToolInv'
<1>1. \A d \in ToolCalls :
        /\ toolCall'[d] = (IF d = c THEN k ELSE toolCall[d])
        /\ toolEvents'[d] = (IF d = c THEN log ELSE toolEvents[d])
        /\ toolPerformed'[d] = (IF d = c THEN done ELSE toolPerformed[d])
  BY DEF ToolInv, ToolStep
<1>2. /\ toolCall' = [d \in ToolCalls |-> toolCall'[d]]
      /\ toolEvents' = [d \in ToolCalls |-> toolEvents'[d]]
      /\ toolPerformed' = [d \in ToolCalls |-> toolPerformed'[d]]
  BY DEF ToolInv, ToolStep
<1>3. toolLeft'.faults \in Int /\ toolLeft'.faults <= ToolMaxFaults
  BY ServicesAssumption DEF ServicesAssumption, ToolInv, ToolStep
<1>4. \A l, o, r, f, g : Tells(l, o, r, f) /\ f \in Int /\ g \in Int /\ g <= f => Tells(l, o, r, g)
  BY ServicesAssumption DEF ServicesAssumption, Tells
<1>5. \A d \in ToolCalls :
        Tells(toolCall'[d], toolEvents'[d], toolPerformed'[d], toolLeft'.faults)
  BY <1>1, <1>4 DEF ToolInv, ToolStep
<1>6. \A d \in ToolCalls : Tells(toolCall[d], toolEvents[d], toolPerformed[d], toolLeft.faults)'
  BY <1>5 DEF Tells, Dangerous, Harmless
<1> QED BY <1>2, <1>3, <1>6 DEF ToolInv, ToolStep

LEMMA TwoEvents ==
  ASSUME NEW a, NEW b
  PROVE  <<a>> \o <<b>> = <<a, b>>
<1> DEFINE f == <<a>> \o <<b>>
<1>1. f \in Seq({a, b}) /\ Len(f) = 2 /\ f[1] = a /\ f[2] = b
  OBVIOUS
<1> HIDE DEF f
<1>2. f = <<a, b>>
  BY <1>1
<1> QED BY <1>2 DEF f

LEMMA ThreeEvents ==
  ASSUME NEW a, NEW b, NEW e
  PROVE  <<a, b>> \o <<e>> = <<a, b, e>>
<1> DEFINE f == <<a, b>> \o <<e>>
<1>1. f \in Seq({a, b, e}) /\ Len(f) = 3 /\ f[1] = a /\ f[2] = b /\ f[3] = e
  OBVIOUS
<1> HIDE DEF f
<1>2. f = <<a, b, e>>
  BY <1>1
<1> QED BY <1>2 DEF f

LEMMA Concatenated ==
  /\ <<>> \o <<"failed">> = <<"failed">> /\ <<>> \o <<>> = <<>>
  /\ <<"started">> \o <<"completed">> = <<"started", "completed">>
  /\ <<"started">> \o <<"failed">> = <<"started", "failed">>
  /\ <<"started">> \o <<>> = <<"started">>
  /\ <<"started", "approval_required">> \o <<"failed">>
       = <<"started", "approval_required", "failed">>
  /\ <<"started", "approval_required">> \o <<>> = <<"started", "approval_required">>
<1>1. <<>> \o <<"failed">> = <<"failed">> /\ <<>> \o <<>> = <<>>
  OBVIOUS
<1>2. /\ <<"started">> \o <<>> = <<"started">>
      /\ <<"started", "approval_required">> \o <<>> = <<"started", "approval_required">>
  OBVIOUS
<1> QED BY <1>1, <1>2, TwoEvents, ThreeEvents

\* The logs are told apart by their length and their events.
LEMMA LogsDiffer ==
  /\ <<"started">> # <<"started", "completed">> /\ <<>> # <<"started", "completed">>
  /\ <<"failed">> # <<"started", "completed">>
  /\ <<"started", "failed">> # <<"started", "completed">>
  /\ <<"started", "approval_required">> # <<"started", "completed">>
  /\ <<"started", "approval_required", "failed">> # <<"started", "completed">>
OBVIOUS

\* The fields of a call that its operations leave alone.
Same(k, k0) ==
  /\ DOMAIN k = DOMAIN Tools!Idle
  /\ k.step = k0.step /\ k.request = k0.request /\ k.timedOut = k0.timedOut
  /\ k.answer = k0.answer

\* Nothing of the bounds comes back.
Spent ==
  /\ toolLeft' = [faults |-> toolLeft'.faults, crashes |-> toolLeft'.crashes]
  /\ toolLeft'.faults \in Int /\ toolLeft'.faults <= toolLeft.faults

\* An operation of a call that works: it needs no approval, or the call has it.
LEMMA WorkTells ==
  ASSUME ToolInv, NEW c \in ToolCalls, Tools!Works(c), NEW k, NEW done,
         Same(k, toolCall[c]),
         ~toolCall[c].request.approval.approved => Harmless(k.todo),
         \A o \in done : Dangerous(o) => toolCall[c].request.approval.approved,
         toolCall' = [toolCall EXCEPT ![c] = k],
         toolPerformed' = [toolPerformed EXCEPT ![c] = done],
         UNCHANGED toolEvents, Spent
  PROVE  ToolInv'
<1>1. /\ toolCall[c].step \in {"running", "late"}
      /\ Tells(toolCall[c], toolEvents[c], toolPerformed[c], toolLeft.faults)
      /\ toolLeft.faults \in Int
  BY DEF Tools!Works, ToolInv
<1>2. ToolStep(c, k, toolEvents[c], done, toolLeft'.faults)
  <2>1. toolEvents' = [toolEvents EXCEPT ![c] = toolEvents[c]]
    BY DEF ToolInv
  <2> QED BY <2>1 DEF ToolStep, Spent
<1>3. toolLeft.faults < ToolMaxFaults => toolLeft'.faults < ToolMaxFaults
  BY <1>1, ServicesAssumption DEF ServicesAssumption, Spent, ToolInv
<1>4. Tells(k, toolEvents[c], done, toolLeft'.faults)
  BY <1>1, <1>3, LogsDiffer DEF Tells, Same, Started
<1> QED BY <1>2, <1>4, StepTells

LEMMA HarmlessTail ==
  ASSUME NEW todo, todo # <<>>, Harmless(todo)
  PROVE  ~Dangerous(Head(todo)) /\ Harmless(Tail(todo))
<1>1. PICK S : todo \in Seq(S) /\ \A o \in S : ~Dangerous(o)
  BY DEF Harmless
<1>2. Head(todo) \in S /\ Tail(todo) \in Seq(S)
  BY <1>1
<1> QED BY <1>1, <1>2 DEF Harmless

LEMMA HarmlessNothing == Harmless(<<>>)
<1> DEFINE S == {}
<1>1. <<>> \in Seq(S) /\ \A o \in S : ~Dangerous(o)
  OBVIOUS
<1> HIDE DEF S
<1> QED BY <1>1 DEF Harmless

\* The next operation is done or has failed, and the call goes on or not.
LEMMA GoesOn ==
  ASSUME ToolInv, NEW c \in ToolCalls, Tools!Works(c)
  PROVE  LET k == toolCall[c]
             approved == k.request.approval.approved
             ended == [k EXCEPT !.todo = <<>>]
         IN  /\ Same(k, k) /\ Same(Tools!Next1(k), k) /\ Same(Tools!Fails(k), k) /\ Same(ended, k)
             /\ ~approved => /\ Harmless(k.todo) /\ Harmless(Tools!Next1(k).todo)
                             /\ Harmless(Tools!Fails(k).todo) /\ Harmless(ended.todo)
                             /\ ~Dangerous(Head(k.todo))
             /\ \A o \in toolPerformed[c] : Dangerous(o) => approved
<1> DEFINE k == toolCall[c]
           n == [k EXCEPT !.todo = Tail(@)]
           f == [k EXCEPT !.todo = <<>>]
<1>1. /\ Tells(k, toolEvents[c], toolPerformed[c], toolLeft.faults)
      /\ k.step \in {"running", "late"} /\ k.todo # <<>>
  BY DEF Tools!Works, ToolInv
<1>2. DOMAIN k = DOMAIN Tools!Idle
      /\ DOMAIN Tools!Idle = {"step", "request", "todo", "hops", "error", "timedOut", "answer"}
  BY <1>1 DEF Tells, Tools!Idle
<1> HIDE DEF k
<1>3. Same(k, k) /\ Same(n, k) /\ n.todo = Tail(k.todo) /\ Same(f, k) /\ f.todo = <<>>
  BY <1>2 DEF Same
<1>4. DOMAIN n = DOMAIN Tools!Idle /\ DOMAIN f = DOMAIN Tools!Idle
  BY <1>3 DEF Same
<1>5. Tools!Next1(k) = [n EXCEPT !.hops = 0] /\ Tools!Fails(k) = [f EXCEPT !.error = TRUE]
  BY DEF Tools!Next1, Tools!Fails
<1> HIDE DEF n, f
<1>6. Same(Tools!Next1(k), k) /\ Tools!Next1(k).todo = Tail(k.todo)
  BY <1>2, <1>3, <1>4, <1>5 DEF Same
<1>7. Same(Tools!Fails(k), k) /\ Tools!Fails(k).todo = <<>>
  BY <1>2, <1>3, <1>4, <1>5 DEF Same
<1>8. ~k.request.approval.approved => Harmless(k.todo)
  BY <1>1 DEF Tells
<1>9. \A o \in toolPerformed[c] : Dangerous(o) => k.request.approval.approved
  BY <1>1 DEF Tells
<1> QED
  BY <1>1, <1>3, <1>6, <1>7, <1>8, <1>9, HarmlessTail, HarmlessNothing DEF k, f

LEMMA OperationKeeps ==
  ASSUME ToolInv, NEW c \in ToolCalls, Tools!Work(c)
  PROVE  ToolInv'
<1> DEFINE k == toolCall[c]
           o == Head(k.todo)
           approved == k.request.approval.approved
           more == toolPerformed[c] \cup {Tools!Done(o)}
<1>1. Tools!Works(c) /\ UNCHANGED toolEvents /\ Spent
  <2>1. /\ Tools!Works(c) /\ UNCHANGED toolEvents
        /\ UNCHANGED toolLeft \/ toolLeft' = [toolLeft EXCEPT !.faults = @ - 1]
    BY DEF Tools!Work, Tools!Throws, Tools!WorkOnFile, Tools!RunCommand, Tools!inspectTask,
           Tools!validateCreateTaskGraphNode, Tools!CreateOrDepend, Tools!CreateOrDependFails,
           Tools!Send, Tools!SendFails, Tools!Sends
  <2> QED BY <2>1 DEF Spent, ToolInv
<1>2. toolPerformed' = [toolPerformed EXCEPT ![c] = toolPerformed[c]]
      \/ toolPerformed' = [toolPerformed EXCEPT ![c] = more]
  <2>1. toolPerformed = [toolPerformed EXCEPT ![c] = toolPerformed[c]]
    BY DEF ToolInv
  <2>2. \/ UNCHANGED toolPerformed
        \/ toolPerformed' = [toolPerformed EXCEPT ![c] = toolPerformed[c]]
        \/ toolPerformed' = [toolPerformed EXCEPT ![c] = more]
    BY DEF Tools!Work, Tools!Throws, Tools!WorkOnFile, Tools!RunCommand, Tools!inspectTask,
           Tools!validateCreateTaskGraphNode, Tools!CreateOrDepend, Tools!CreateOrDependFails,
           Tools!Stored, Tools!Send, Tools!SendFails
  <2> QED BY <2>1, <2>2
<1>3. \A x \in more : Dangerous(x) => approved
  <2>1. Dangerous(Tools!Done(o)) => Dangerous(o)
    BY DEF Dangerous, Tools!Done
  <2> QED BY <1>1, <2>1, GoesOn
<1>4. \A x \in toolPerformed[c] : Dangerous(x) => approved
  BY <1>3
<1>5. ASSUME NEW n, toolCall' = [toolCall EXCEPT ![c] = n], Same(n, k),
             ~approved => Harmless(n.todo)
      PROVE  ToolInv'
  BY <1>1, <1>2, <1>3, <1>4, <1>5, WorkTells
<1>6. ASSUME toolCall' = [toolCall EXCEPT ![c] = Tools!Next1(@)]
             \/ toolCall' = [toolCall EXCEPT ![c] = Tools!Fails(@)]
             \/ toolCall' = [toolCall EXCEPT ![c] = [k EXCEPT !.todo = <<>>]]
      PROVE  ToolInv'
  BY <1>1, <1>5, <1>6, GoesOn
<1>7. CASE Tools!Throws(c) \/ Tools!WorkOnFile(c) \/ Tools!RunCommand(c) \/ Tools!inspectTask(c)
           \/ Tools!validateCreateTaskGraphNode(c) \/ Tools!CreateOrDepend(c)
           \/ Tools!CreateOrDependFails(c) \/ Tools!SendFails(c)
  BY <1>6, <1>7 DEF Tools!Throws, Tools!WorkOnFile, Tools!RunCommand, Tools!inspectTask,
         Tools!validateCreateTaskGraphNode, Tools!CreateOrDepend, Tools!CreateOrDependFails,
         Tools!SendFails
<1>8. CASE Tools!Send(c)
  <2>1. o.kind = "http"
    BY <1>8 DEF Tools!Send, Tools!Sends
  <2>2. approved
    BY <1>1, <2>1, GoesOn DEF Dangerous
  <2>3. \/ \E reply \in ToolReplies : toolCall' = [toolCall EXCEPT ![c] = Tools!Follow(k, o, reply)]
        \/ \E r : toolCall' = [toolCall EXCEPT ![c] = [k EXCEPT !.hops = @ + 1, !.todo[1] = r]]
    BY <1>8 DEF Tools!Send
  <2>4. ASSUME NEW reply \in ToolReplies,
               toolCall' = [toolCall EXCEPT ![c] = Tools!Follow(k, o, reply)]
        PROVE  ToolInv'
    <3>1. \/ Tools!Follow(k, o, reply) = Tools!Next1(k)
          \/ Tools!Follow(k, o, reply) = Tools!Fails(k)
          \/ Tools!Follow(k, o, reply) = [k EXCEPT !.todo = <<>>]
      BY DEF Tools!Follow
    <3> QED BY <1>6, <2>4, <3>1
  <2>5. ASSUME NEW r,
               toolCall' = [toolCall EXCEPT ![c] = [k EXCEPT !.hops = @ + 1, !.todo[1] = r]]
        PROVE  ToolInv'
    <3> DEFINE h == [k EXCEPT !.hops = @ + 1]
               n == [k EXCEPT !.hops = @ + 1, !.todo[1] = r]
    <3>1. Same(k, k)
      BY <1>1, GoesOn
    <3>2. DOMAIN Tools!Idle = {"step", "request", "todo", "hops", "error", "timedOut", "answer"}
      BY DEF Tools!Idle
    <3> HIDE DEF k
    <3>3. Same(h, k)
      BY <3>1, <3>2 DEF Same
    <3>4. n = [h EXCEPT !.todo[1] = r]
      OBVIOUS
    <3> HIDE DEF h, n
    <3>5. Same(n, k)
      BY <3>2, <3>3, <3>4 DEF Same
    <3> USE DEF k
    <3>6. toolCall' = [toolCall EXCEPT ![c] = n]
      BY <2>5 DEF n
    <3> QED BY <1>5, <2>2, <3>5, <3>6
  <2> QED BY <2>3, <2>4, <2>5
<1> QED BY <1>7, <1>8 DEF Tools!Work

\* The end of `execute` records and answers one of these.
LEMMA EndsAre ==
  ASSUME NEW ok \in BOOLEAN, NEW end \in Tools!Ends(ok)
  PROVE  \/ ok /\ end.log = <<"completed">> /\ end.answer = "ok" /\ end.faults = 0
         \/ /\ end.log = <<"failed">> /\ end.answer = "failed"
            /\ end.faults = (IF ok THEN 1 ELSE 0)
         \/ ~ok /\ end.log = <<>> /\ end.answer = "rejected" /\ end.faults = 1
BY DEF Tools!Ends

\* A call that ends with an error, or without one when nothing is left to do.
LEMMA AnswerKeeps ==
  ASSUME ToolInv, NEW c \in ToolCalls, NEW k, NEW log, NEW ok \in BOOLEAN,
         Tools!Answer(c, k, log, ok), DOMAIN k = DOMAIN Tools!Idle,
         k.step \in {"answered", "late"}, ~ok => k.error \/ k.timedOut,
         ok => k.todo = <<>> /\ ~k.error /\ k.step = "answered",
         log \in {<<>>, <<"started">>, <<"started", "approval_required">>},
         ok => log = <<"started">>,
         toolPerformed[c] # {} => log = <<"started">>,
         \A o \in toolPerformed[c] : Dangerous(o) => k.request.approval.approved,
         toolPerformed[c] # {} \/ k.step = "late" => Tools!Approved(k.request),
         k.step = "late" => /\ log = <<"started">> /\ k.timedOut
                            /\ ~k.request.approval.approved => Harmless(k.todo)
  PROVE  ToolInv'
<1>1. PICK end \in Tools!Ends(ok) :
        /\ end.faults <= toolLeft.faults
        /\ toolCall' = [toolCall EXCEPT ![c] = [k EXCEPT !.answer = end.answer]]
        /\ toolEvents' = [toolEvents EXCEPT ![c] = log \o end.log]
        /\ toolLeft' = [toolLeft EXCEPT !.faults = @ - end.faults]
        /\ UNCHANGED <<toolPerformed, toolNodes>>
  BY DEF Tools!Answer
<1> DEFINE n == [k EXCEPT !.answer = end.answer]
           done == toolPerformed[c]
           faults == toolLeft.faults - end.faults
<1>2. /\ DOMAIN n = DOMAIN k /\ n.answer = end.answer /\ n.step = k.step
      /\ n.request = k.request /\ n.todo = k.todo /\ n.error = k.error
      /\ n.timedOut = k.timedOut
  BY DEF Tools!Idle
<1>3. faults \in Int /\ faults <= toolLeft.faults /\ (end.faults = 1 => faults < ToolMaxFaults)
  BY EndsAre, ServicesAssumption DEF ServicesAssumption, ToolInv
<1>4. ToolStep(c, n, log \o end.log, done, faults)
  <2>1. toolPerformed' = [toolPerformed EXCEPT ![c] = done]
    BY <1>1 DEF ToolInv
  <2>2. /\ toolLeft' = [faults |-> toolLeft'.faults, crashes |-> toolLeft'.crashes]
        /\ toolLeft'.faults = faults
    BY <1>1 DEF ToolInv
  <2> QED BY <1>1, <1>3, <2>1, <2>2 DEF ToolStep
<1>5. /\ log \o end.log \in Logs
      /\ log \o end.log = <<"started", "completed">> <=> end.answer = "ok"
      /\ log = <<"started">> => log \o end.log \in Started
  <2>1. CASE ok
    BY <2>1, EndsAre, Concatenated, LogsDiffer DEF Logs, Started
  <2>2. CASE ~ok
    <3>1. CASE end.log = <<"failed">> /\ end.answer = "failed"
      BY <2>2, <3>1, Concatenated, LogsDiffer DEF Logs, Started
    <3>2. CASE end.log = <<>> /\ end.answer = "rejected"
      BY <2>2, <3>2, Concatenated, LogsDiffer DEF Logs, Started
    <3> QED BY <2>2, <3>1, <3>2, EndsAre
  <2> QED BY <2>1, <2>2
<1> HIDE DEF n, faults
<1>6. end.answer \in {"ok", "failed", "rejected"} /\ (end.answer = "ok" => ok)
      /\ (end.answer = "rejected" => end.faults = 1)
      /\ (end.answer = "failed" /\ ok => end.faults = 1)
      /\ (~ok => end.answer \in {"failed", "rejected"})
  BY EndsAre
<1>7. Tells(n, log \o end.log, done, faults)
  BY <1>2, <1>3, <1>5, <1>6 DEF Tells
<1> QED BY <1>4, <1>7, StepTells

\* A set of some of the numbers to fourteen has a greatest one.
LEMMA GreatestOf ==
  ASSUME NEW S \in SUBSET (1..14), S # {}
  PROVE  \E i \in S : \A j \in S : j <= i
<1> SUFFICES ASSUME \A i \in S : \E j \in S : j > i PROVE FALSE
  OBVIOUS
<1>1. \A i \in S : i \in 1..14
  OBVIOUS
<1>2. 14 \notin S
  BY <1>1
<1>3. 13 \notin S
  BY <1>1, <1>2
<1>4. 12 \notin S /\ 11 \notin S /\ 10 \notin S
  BY <1>1, <1>2, <1>3
<1>5. 9 \notin S /\ 8 \notin S /\ 7 \notin S
  BY <1>1, <1>2, <1>3, <1>4
<1>6. 6 \notin S /\ 5 \notin S /\ 4 \notin S
  BY <1>1, <1>2, <1>3, <1>4, <1>5
<1>7. 3 \notin S /\ 2 \notin S
  BY <1>1, <1>2, <1>3, <1>4, <1>5, <1>6
<1>8. \A i \in S : i = 1
  BY <1>1, <1>2, <1>3, <1>4, <1>5, <1>6, <1>7
<1>9. PICK i \in S : TRUE
  OBVIOUS
<1>10. PICK j \in S : j > i
  BY <1>9
<1> QED BY <1>8, <1>9, <1>10

\* What a name or an alias resolves to is a tool of the registry or none.
LEMMA ResolvedIs ==
  ASSUME NEW name
  PROVE  \/ \E i \in 1..14 : Tools!resolve(name) = Tools!DEFAULT_TOOL_DEFINITIONS[i]
         \/ Tools!resolve(name) = Tools!Unknown
<1> DEFINE all == Tools!DEFAULT_TOOL_DEFINITIONS
           claims == {i \in DOMAIN all : name \in all[i].aliases}
           last == CHOOSE i \in claims : \A j \in claims : j <= i
           named == {t \in Tools!Tools : t.name = name}
<1>1. DOMAIN all = 1..14
  BY DEF Tools!DEFAULT_TOOL_DEFINITIONS
<1>2. Tools!resolve(name) =
        CASE claims # {} -> all[last]
          [] claims = {} /\ named # {} -> CHOOSE t \in named : TRUE
          [] OTHER -> Tools!Unknown
  BY DEF Tools!resolve
<1>3. Tools!Tools = {all[i] : i \in DOMAIN all}
  BY DEF Tools!Tools, Tools!Range
<1> HIDE DEF all
<1>4. CASE claims # {}
  <2>1. claims \in SUBSET (1..14)
    BY <1>1
  <2> HIDE DEF claims
  <2>2. \E i \in claims : \A j \in claims : j <= i
    BY <1>4, <2>1, GreatestOf
  <2>3. last \in claims
    BY <2>2
  <2> QED BY <1>2, <1>4, <2>1, <2>3 DEF all
<1>5. CASE claims = {} /\ named # {}
  BY <1>1, <1>2, <1>3, <1>5 DEF all
<1>6. CASE claims = {} /\ named = {}
  BY <1>2, <1>6
<1> QED BY <1>4, <1>5, <1>6

LEMMA HarmlessOne ==
  ASSUME NEW o, ~Dangerous(o)
  PROVE  Harmless(<<o>>)
<1> DEFINE S == {o}
<1>1. <<o>> \in Seq(S) /\ \A x \in S : ~Dangerous(x)
  OBVIOUS
<1> HIDE DEF S
<1> QED BY <1>1 DEF Harmless

LEMMA HarmlessThree ==
  ASSUME NEW o, NEW p, NEW q, ~Dangerous(o), ~Dangerous(p), ~Dangerous(q)
  PROVE  Harmless(<<o, p, q>>)
<1> DEFINE S == {o, p, q}
<1>1. <<o, p, q>> \in Seq(S) /\ \A x \in S : ~Dangerous(x)
  OBVIOUS
<1> HIDE DEF S
<1> QED BY <1>1 DEF Harmless

\* A tool that needs no approval does nothing that needs one.
LEMMA HarmlessWork ==
  ASSUME NEW name, NEW args,
         Tools!approvalRequirementFor(Tools!resolve(name), args) = "none"
  PROVE  Harmless(Tools!executeAllowed(Tools!resolve(name), args))
<1> DEFINE tool == Tools!resolve(name)
<1>1. tool.name = "delete_file" => tool.requiresApproval
  <2>1. \A i \in 1..14 : LET t == Tools!DEFAULT_TOOL_DEFINITIONS[i]
                         IN  t.name = "delete_file" => t.requiresApproval
    BY DEF Tools!DEFAULT_TOOL_DEFINITIONS, Tools!Tool
  <2>2. Tools!Unknown.name # "delete_file"
    BY DEF Tools!Unknown, Tools!Tool
  <2> QED BY <2>1, <2>2, ResolvedIs
<1> HIDE DEF tool
<1>2. /\ tool.name \notin {"http_fetch", "web_search", "browser", "github", "llm_wiki"}
      /\ tool.name # "delete_file"
  <2>1. Tools!approvalRequirementFor(tool, args) = "none"
    BY DEF tool
  <2> QED BY <1>1, <2>1 DEF Tools!approvalRequirementFor
<1>3. /\ \A path : /\ ~Dangerous(Tools!File("read", path))
                   /\ ~Dangerous(Tools!File("write", path))
      /\ \A key : /\ ~Dangerous(Tools!Store("inspect", key))
                  /\ ~Dangerous(Tools!Store("validate", key))
                  /\ ~Dangerous(Tools!Store("create", key))
                  /\ ~Dangerous(Tools!Store("depend", key))
      /\ ~Dangerous(Tools!Exec("test")) /\ ~Dangerous(Tools!Throw)
  <2>1. \A kind, op, target, local, accepts :
          kind # "http" /\ op \notin {"gh", "delete"} =>
            ~Dangerous(Tools!Op(kind, op, target, local, accepts))
    BY DEF Dangerous, Tools!Op
  <2> QED BY <2>1 DEF Tools!File, Tools!Store, Tools!Exec, Tools!Throw
<1>4. \E o, p, q : /\ ~Dangerous(o) /\ ~Dangerous(p) /\ ~Dangerous(q)
                   /\ Tools!executeAllowed(tool, args) \in {<<o>>, <<o, p, q>>}
  <2>1. CASE tool.name \in {"read_file", "write_file"}
    BY <1>3, <2>1 DEF Tools!executeAllowed
  <2>2. CASE tool.name = "run_tests"
    BY <1>3, <2>2 DEF Tools!executeAllowed
  <2>3. CASE tool.name = "inspect_task"
    BY <1>3, <2>3 DEF Tools!executeAllowed
  <2>4. CASE tool.name = "create_task"
    BY <1>3, <2>4 DEF Tools!executeAllowed, Tools!createTask
  <2>5. CASE tool.name \notin {"read_file", "write_file", "run_tests", "inspect_task",
                               "create_task"}
    BY <1>2, <1>3, <2>5 DEF Tools!executeAllowed
  <2> QED BY <2>1, <2>2, <2>3, <2>4, <2>5
<1> QED BY <1>4, HarmlessOne, HarmlessThree DEF tool

\* A call that is begun: allowed or not, approved or not, recorded or not.
LEMMA BeginKeeps ==
  ASSUME ToolInv, NEW c \in ToolCalls, Tools!Begin(c)
  PROVE  ToolInv'
<1> DEFINE answered(r) == [Tools!Idle EXCEPT !.step = "answered", !.request = r, !.error = TRUE]
           noted(r) == [Tools!Idle EXCEPT !.step = "answered", !.request = r,
                                          !.error = TRUE, !.answer = "failed"]
           started(r) == [Tools!Idle EXCEPT !.step = "running", !.request = r,
             !.todo = Tools!executeAllowed(Tools!resolve(r.tool), r.args)]
<1>1. PICK r \in ToolRequests[c] :
        Tools!Refused(c, r) \/ Tools!NotApproved(c, r) \/ Tools!Started(c, r)
        \/ Tools!NotRecorded(c, r)
  BY DEF Tools!Begin
<1>2. toolEvents[c] = <<>> /\ toolPerformed[c] = {} /\ toolLeft.faults \in Int
      /\ toolLeft.faults <= ToolMaxFaults
      /\ toolPerformed = [toolPerformed EXCEPT ![c] = {}]
  <2>1. Tells(toolCall[c], toolEvents[c], toolPerformed[c], toolLeft.faults)
        /\ toolCall[c].step = "idle"
    BY DEF ToolInv, Tools!Begin
  <2>2. toolPerformed = [toolPerformed EXCEPT ![c] = toolPerformed[c]]
    BY DEF ToolInv
  <2> QED BY <2>1, <2>2 DEF Tells, ToolInv
<1>3. /\ DOMAIN answered(r) = DOMAIN Tools!Idle /\ answered(r).step = "answered"
      /\ answered(r).error /\ answered(r).error = TRUE
  BY DEF Tools!Idle
<1>4. CASE \/ Tools!Refused(c, r)
           \/ Tools!NotApproved(c, r) /\ Tools!Answer(c, answered(r),
                                                    <<"started", "approval_required">>, FALSE)
  <2>1. PICK log \in {<<>>, <<"started", "approval_required">>} :
          Tools!Answer(c, answered(r), log, FALSE)
    BY <1>4 DEF Tools!Refused
  <2> HIDE DEF answered
  <2> QED BY <1>2, <1>3, <2>1, AnswerKeeps
<1>5. CASE Tools!Started(c, r)
  <2>1. /\ DOMAIN started(r) = DOMAIN Tools!Idle /\ started(r).step = "running"
        /\ started(r).request = r /\ started(r).answer = "none" /\ ~started(r).timedOut
        /\ started(r).todo = Tools!executeAllowed(Tools!resolve(r.tool), r.args)
    BY DEF Tools!Idle
  <2>2. ~r.approval.approved => Harmless(started(r).todo)
    <3>1. ~r.approval.approved =>
            Tools!approvalRequirementFor(Tools!resolve(r.tool), r.args) = "none"
      BY <1>5 DEF Tools!Started, Tools!Approved, Tools!assertApproved
    <3> QED BY <2>1, <3>1, HarmlessWork
  <2>3. Tools!Approved(r)
    BY <1>5 DEF Tools!Started
  <2>4. ToolStep(c, started(r), <<"started">>, {}, toolLeft.faults)
    BY <1>2, <1>5 DEF Tools!Started, ToolStep, ToolInv
  <2> HIDE DEF started
  <2>5. Tells(started(r), <<"started">>, {}, toolLeft.faults)
    BY <2>1, <2>2, <2>3, LogsDiffer DEF Tells, Logs, Started
  <2> QED BY <2>4, <2>5, StepTells
<1>6. CASE Tools!NotRecorded(c, r)
  <2>1. /\ DOMAIN noted(r) = DOMAIN Tools!Idle /\ noted(r).step = "answered"
        /\ noted(r).answer = "failed" /\ noted(r).error
    BY DEF Tools!Idle
  <2>2. ToolStep(c, noted(r), <<"failed">>, {}, toolLeft.faults - 1)
    BY <1>2, <1>6 DEF Tools!NotRecorded, ToolStep, ToolInv
  <2> HIDE DEF noted
  <2>3. Tells(noted(r), <<"failed">>, {}, toolLeft.faults - 1)
    BY <2>1, LogsDiffer DEF Tells, Logs, Started
  <2> QED BY <2>2, <2>3, StepTells
<1>7. CASE /\ Tools!NotApproved(c, r)
           /\ ~Tools!Answer(c, answered(r), <<"started", "approval_required">>, FALSE)
  <2> DEFINE rejected == [answered(r) EXCEPT !.answer = "rejected"]
  <2>1. /\ toolLeft.faults > 0
        /\ toolCall' = [toolCall EXCEPT ![c] = rejected]
        /\ toolEvents' = [toolEvents EXCEPT ![c] = <<"started">>]
        /\ toolLeft' = [toolLeft EXCEPT !.faults = @ - 1]
        /\ UNCHANGED <<toolPerformed, toolNodes>>
    BY <1>7 DEF Tools!NotApproved
  <2>2. /\ DOMAIN rejected = DOMAIN Tools!Idle /\ rejected.step = "answered"
        /\ rejected.answer = "rejected" /\ rejected.error
    BY DEF Tools!Idle
  <2> HIDE DEF rejected
  <2>3. ToolStep(c, rejected, <<"started">>, {}, toolLeft.faults - 1)
    BY <1>2, <2>1 DEF ToolStep, ToolInv
  <2>4. toolLeft.faults - 1 < ToolMaxFaults
    BY <1>2, ServicesAssumption DEF ServicesAssumption
  <2>5. Tells(rejected, <<"started">>, {}, toolLeft.faults - 1)
    BY <2>2, <2>4, LogsDiffer DEF Tells, Logs, Started
  <2> QED BY <2>3, <2>5, StepTells
<1> QED BY <1>1, <1>4, <1>5, <1>6, <1>7

\* The answer comes from the operation, or from the timer.
LEMMA ResultKeeps ==
  ASSUME ToolInv, NEW c \in ToolCalls, Tools!Finish(c) \/ Tools!withToolCallTimeout(c)
  PROVE  ToolInv'
<1> DEFINE k == toolCall[c]
           f == [k EXCEPT !.step = "answered"]
           t == [k EXCEPT !.step = "late", !.timedOut = TRUE]
<1>1. /\ Tells(k, toolEvents[c], toolPerformed[c], toolLeft.faults) /\ k.step = "running"
      /\ DOMAIN k = DOMAIN Tools!Idle /\ toolEvents[c] = <<"started">> /\ ~k.timedOut
      /\ \A o \in toolPerformed[c] : Dangerous(o) => k.request.approval.approved
      /\ ~k.request.approval.approved => Harmless(k.todo)
      /\ Tools!Approved(k.request)
  BY DEF ToolInv, Tells, Tools!Finish, Tools!withToolCallTimeout, Tools!Waited
<1>2. CASE Tools!Finish(c)
  <2>1. Tools!Answer(c, f, <<"started">>, ~k.error) /\ k.todo = <<>>
    BY <1>1, <1>2 DEF Tools!Finish
  <2>2. /\ DOMAIN f = DOMAIN Tools!Idle /\ f.step = "answered" /\ f.error = k.error
        /\ f.todo = k.todo /\ f.request = k.request
    BY <1>1 DEF Tools!Idle
  <2> HIDE DEF f, k
  <2> QED BY <1>1, <2>1, <2>2, AnswerKeeps
<1>3. CASE Tools!withToolCallTimeout(c)
  <2>1. Tools!Answer(c, t, <<"started">>, FALSE)
    BY <1>1, <1>3 DEF Tools!withToolCallTimeout
  <2>2. /\ DOMAIN t = DOMAIN Tools!Idle /\ t.step = "late" /\ t.timedOut
        /\ t.todo = k.todo /\ t.request = k.request
    BY <1>1 DEF Tools!Idle
  <2> HIDE DEF t, k
  <2> QED BY <1>1, <2>1, <2>2, AnswerKeeps
<1> QED BY <1>2, <1>3

\* The process of a call ends.
LEMMA CrashKeeps ==
  ASSUME ToolInv, NEW c \in ToolCalls, Tools!Crash(c)
  PROVE  ToolInv'
<1> DEFINE k == toolCall[c]
           n == [k EXCEPT !.step = "lost"]
<1>1. /\ Tells(k, toolEvents[c], toolPerformed[c], toolLeft.faults)
      /\ DOMAIN k = DOMAIN Tools!Idle
      /\ toolLeft.faults \in Int /\ toolLeft.faults <= ToolMaxFaults
  BY DEF ToolInv, Tells
<1>2. ToolStep(c, n, toolEvents[c], toolPerformed[c], toolLeft.faults)
  <2>1. /\ toolCall' = [toolCall EXCEPT ![c] = n]
        /\ toolLeft' = [toolLeft EXCEPT !.crashes = @ - 1]
        /\ UNCHANGED <<toolEvents, toolPerformed>>
    BY DEF Tools!Crash
  <2>2. /\ toolEvents' = [toolEvents EXCEPT ![c] = toolEvents[c]]
        /\ toolPerformed' = [toolPerformed EXCEPT ![c] = toolPerformed[c]]
    BY <2>1 DEF ToolInv
  <2>3. /\ toolLeft' = [faults |-> toolLeft'.faults, crashes |-> toolLeft'.crashes]
        /\ toolLeft'.faults = toolLeft.faults
    BY <2>1 DEF ToolInv
  <2>4. toolLeft.faults <= toolLeft.faults
    BY <1>1
  <2> HIDE DEF n, k
  <2> QED BY <1>1, <2>1, <2>2, <2>3, <2>4, Zenon DEF ToolStep
<1>3. /\ DOMAIN n = DOMAIN Tools!Idle /\ n.step = "lost" /\ n.request = k.request
      /\ n.todo = k.todo /\ n.error = k.error /\ n.timedOut = k.timedOut /\ n.answer = k.answer
  BY <1>1 DEF Tools!Idle
<1> HIDE DEF k, n
<1>4. Tells(n, toolEvents[c], toolPerformed[c], toolLeft.faults)
  BY <1>1, <1>3 DEF Tells
<1> QED BY <1>2, <1>4, StepTells

\* A log has at most one ending, its last event.
LEMMA OneEnding ==
  ASSUME NEW log \in Logs
  PROVE  /\ Tools!Cardinality({i \in DOMAIN log : log[i] \in Tools!Terminal}) <= 1
         /\ "completed" \in Tools!Range(log) <=> log = <<"started", "completed">>
         /\ log \in Started => log # <<>> /\ Head(log) = "started"
<1> DEFINE endings == {i \in DOMAIN log : log[i] \in Tools!Terminal}
<1>1. \E i : endings \in {{}, {i}}
  <2>1. /\ "started" \notin Tools!Terminal /\ "approval_required" \notin Tools!Terminal
        /\ "completed" \in Tools!Terminal /\ "failed" \in Tools!Terminal
    BY DEF Tools!Terminal
  <2>2. CASE log \in {<<>>, <<"started">>, <<"started", "approval_required">>}
    <3>1. endings = {}
      BY <2>1, <2>2
    <3> QED BY <3>1
  <2>3. CASE log = <<"failed">>
    <3>1. endings = {1}
      BY <2>1, <2>3
    <3> QED BY <3>1
  <2>4. CASE log \in {<<"started", "failed">>, <<"started", "completed">>}
    <3>1. endings = {2}
      BY <2>1, <2>4
    <3> QED BY <3>1
  <2>5. CASE log = <<"started", "approval_required", "failed">>
    <3>1. endings = {3}
      BY <2>1, <2>5
    <3> QED BY <3>1
  <2> QED BY <2>2, <2>3, <2>4, <2>5 DEF Logs, Started
<1>2. Tools!Cardinality(endings) = Cardinality(endings)
  BY DEF Tools!Cardinality, Cardinality
<1>3. Cardinality(endings) <= 1
  <2>1. PICK i : endings \in {{}, {i}}
    BY <1>1
  <2>2. Cardinality({}) = 0 /\ Cardinality({i}) = 1
    BY FS_EmptySet, FS_Singleton
  <2> HIDE DEF endings
  <2> QED BY <2>1, <2>2
<1>4. "completed" \in Tools!Range(log) <=> log = <<"started", "completed">>
  BY DEF Logs, Started, Tools!Range
<1>5. log \in Started => log # <<>> /\ Head(log) = "started"
  BY DEF Started
<1> QED BY <1>2, <1>3, <1>4, <1>5

\* ToolExecutor.execute: the events of a call tell what it did, whatever its operation still
\* does after a timeout; what leaves the machine, and a deletion, was approved.
THEOREM ToolEvents == ServicesSpec => []EventsTellEffects
<1> USE ServicesAssumption DEF ServicesAssumption
<1> DEFINE Inv == focus = "tools" => ToolInv
<1>1. ServicesInit => Inv
  <2> SUFFICES ASSUME ServicesInit, focus = "tools" PROVE ToolInv
    OBVIOUS
  <2>1. Tools!Init
    BY DEF ServicesInit
  <2>2. \A c \in ToolCalls : /\ toolCall[c] = Tools!Idle /\ toolEvents[c] = <<>>
                             /\ toolPerformed[c] = {}
    BY <2>1 DEF Tools!Init
  <2>3. Tells(Tools!Idle, <<>>, {}, ToolMaxFaults)
    BY LogsDiffer DEF Tells, Tools!Idle, Logs
  <2> QED BY <2>1, <2>2, <2>3 DEF Tools!Init, ToolInv
<1>2. Inv /\ [ServicesNext]_allVars => Inv'
  <2> SUFFICES ASSUME ToolInv, [ServicesNext]_allVars, focus = "tools" PROVE ToolInv'
    BY OneService
  <2>1. Tools!Next \/ UNCHANGED toolVars
    BY OneService
  <2>2. CASE UNCHANGED toolVars
    BY <2>2 DEF toolVars, ToolInv, Tells, Dangerous, Harmless, Tools!Approved
  <2>3. CASE Tools!Next
    BY <2>3, BeginKeeps, OperationKeeps, ResultKeeps, CrashKeeps DEF Tools!Next
  <2> QED BY <2>1, <2>2, <2>3
<1>3. Inv => EventsTellEffects
  <2> SUFFICES ASSUME ToolInv PROVE Tools!EventsTellEffects
    BY DEF EventsTellEffects
  <2> SUFFICES ASSUME NEW c \in ToolCalls,
                      Tells(toolCall[c], toolEvents[c], toolPerformed[c], toolLeft.faults)
               PROVE  LET k == toolCall[c]
                          endings == {i \in DOMAIN toolEvents[c] :
                                        toolEvents[c][i] \in Tools!Terminal}
                      IN  /\ Tools!Cardinality(endings) <= 1
                          /\ "completed" \in Tools!Range(toolEvents[c]) <=> k.answer = "ok"
                          /\ k.answer = "ok" => k.todo = <<>> /\ ~k.error
                          /\ toolPerformed[c] # {} =>
                               toolEvents[c] # <<>> /\ Head(toolEvents[c]) = "started"
                          /\ k.answer = "failed" /\ k.todo = <<>> /\ ~k.error =>
                               k.timedOut \/ toolLeft.faults < ToolMaxFaults
                          /\ k.answer = "rejected" => toolLeft.faults < ToolMaxFaults
                          /\ toolPerformed[c] # {} => Tools!Approved(k.request)
                          /\ \A op \in toolPerformed[c] :
                               op.kind = "http" \/ op.op \in {"gh", "delete"} =>
                                 k.request.approval.approved
    BY DEF ToolInv, Tools!EventsTellEffects
  <2> QED BY OneEnding DEF Tells, Dangerous
<1> QED BY <1>1, <1>2, <1>3, PTL DEF ServicesSpec

-----------------------------------------------------------------------------
(* The web server and a connection to the gateway: what Gateway_proofs     *)
(* proves of each.                                                         *)

HttpProofs == INSTANCE Gateway_proofs WITH
  Frames <- HttpFrames, Requests <- HttpRequests, Credentials <- HttpCredentials,
  Tokens <- WebTokens, MaxInFlight <- WebMaxInFlight, MaxMessages <- WebMaxMessages,
  RateWindow <- WebRateWindow, IdleTimeout <- WebIdleTimeout,
  MaxNow <- HttpMaxNow, MaxInputs <- HttpMaxInputs, MaxFaults <- HttpMaxFaults,
  conn <- httpConn, now <- httpNow, last <- httpLast, left <- httpLeft

SocketProofs == INSTANCE Gateway_proofs WITH
  Frames <- WsFrames, Requests <- WsRequests, Credentials <- WsCredentials,
  Tokens <- WebTokens, MaxInFlight <- WebMaxInFlight, MaxMessages <- WebMaxMessages,
  RateWindow <- WebRateWindow, IdleTimeout <- WebIdleTimeout,
  MaxNow <- WsMaxNow, MaxInputs <- WsMaxInputs, MaxFaults <- WsMaxFaults,
  conn <- wsConn, now <- wsNow, last <- wsLast, left <- wsLeft

\* Again the two names of each definition mean the same.
LEMMA HttpSame ==
  /\ Http!Init = HttpProofs!Init
  /\ Http!Next = HttpProofs!Next
  /\ Http!ScopesHold = HttpProofs!ScopesHold
  /\ Http!EveryMessageIsAnswered = HttpProofs!EveryMessageIsAnswered
BY DEF Http!vars, Http!Closed, Http!Nothing, Http!Answered, Http!Scope, Http!Init, Http!Input,
         Http!Fault, Http!InputFault, Http!HttpRequest, Http!Upgrade, Http!Written, Http!Sent,
         Http!Ended, Http!consume, Http!Accepted, Http!Finished, Http!Received, Http!Turned,
         Http!Taken, Http!Counted, Http!OverLimit, Http!Busy, Http!Free, Http!OnMessage,
         Http!Push, Http!HandlerEnds, Http!RuntimeEvent, Http!IdleTimeoutFires, Http!PeerCloses,
         Http!Tick, Http!Next, Http!Changes, Http!Works, Http!ScopesHold,
         Http!EveryMessageIsAnswered, Http!Target, Http!Via, Http!Pass, Http!Passed,
         Http!sessionMethods, Http!providerMethods, Http!roleMethods, Http!knowledgeMethods,
         Http!graphMethods, Http!reportMethods, Http!cronMethods, Http!methodTargets,
         Http!READ_GATEWAY_METHODS, Http!gatewayMethodPermission,
         Http!assertGatewayMethodPermission, Http!chat, Http!scopeRuntime, Http!Directed,
         Http!dispatch, Http!dispatchGatewayRequest, Http!Get, Http!Post, Http!Whole,
         Http!providerRoutes, Http!cronRoutes, Http!roleRoutes, Http!sessionRoutes,
         Http!graphRoutes, Http!controlRoutes, Http!routeTargets, Http!isUnsafeMethod,
         Http!canUsePermission, Http!authenticate, Http!Gate, Http!serve, Http!handle,
         Http!Command, Http!Read, Http!ReadOf, Http!Write, Http!WriteOf, Http!doctorCommand,
         Http!listCommands, Http!queryCommands, Http!graphViewCommands, Http!Sibling,
         Http!graphInsertCommands, Http!graphEditCommands, Http!sessionReadCommands,
         Http!sessionWriteCommands, Http!simpleProviderCommand, Http!providerCommands,
         Http!roleCommands, Http!skillCandidateCommands, Http!runtimeControlCommands,
         Http!simpleCronCommand, Http!cronCommands, Http!Commands, Http!Named,
         Http!resolveCommand, Http!permissionRank, Http!minCommandPermission,
         Http!toolNeedsDanger, Http!toolExecutionPermission, Http!DangerIf,
         Http!permissionForInput, Http!assertCommandPermission, Http!validateInput, Http!run,
         Http!maxPermissionModeForCommandPermission,
         Http!assertPermissionModeWithinCommandPermission, Http!Tool,
         Http!DEFAULT_TOOL_DEFINITIONS, Http!Tools, Http!Unknown, Http!resolve,
         Http!parsePermissionMode, Http!Rank, Http!clampPermissionMode, Http!Range,
         HttpProofs!vars, HttpProofs!Closed, HttpProofs!Nothing, HttpProofs!Answered,
         HttpProofs!Scope, HttpProofs!Init, HttpProofs!Input, HttpProofs!Fault,
         HttpProofs!InputFault, HttpProofs!HttpRequest, HttpProofs!Upgrade, HttpProofs!Written,
         HttpProofs!Sent, HttpProofs!Ended, HttpProofs!consume, HttpProofs!Accepted,
         HttpProofs!Finished, HttpProofs!Received, HttpProofs!Turned, HttpProofs!Taken,
         HttpProofs!Counted, HttpProofs!OverLimit, HttpProofs!Busy, HttpProofs!Free,
         HttpProofs!OnMessage, HttpProofs!Push, HttpProofs!HandlerEnds, HttpProofs!RuntimeEvent,
         HttpProofs!IdleTimeoutFires, HttpProofs!PeerCloses, HttpProofs!Tick, HttpProofs!Next,
         HttpProofs!Changes, HttpProofs!Works, HttpProofs!ScopesHold,
         HttpProofs!EveryMessageIsAnswered, HttpProofs!Target, HttpProofs!Via, HttpProofs!Pass,
         HttpProofs!Passed, HttpProofs!sessionMethods, HttpProofs!providerMethods,
         HttpProofs!roleMethods, HttpProofs!knowledgeMethods, HttpProofs!graphMethods,
         HttpProofs!reportMethods, HttpProofs!cronMethods, HttpProofs!methodTargets,
         HttpProofs!READ_GATEWAY_METHODS, HttpProofs!gatewayMethodPermission,
         HttpProofs!assertGatewayMethodPermission, HttpProofs!chat, HttpProofs!scopeRuntime,
         HttpProofs!Directed, HttpProofs!dispatch, HttpProofs!dispatchGatewayRequest,
         HttpProofs!Get, HttpProofs!Post, HttpProofs!Whole, HttpProofs!providerRoutes,
         HttpProofs!cronRoutes, HttpProofs!roleRoutes, HttpProofs!sessionRoutes,
         HttpProofs!graphRoutes, HttpProofs!controlRoutes, HttpProofs!routeTargets,
         HttpProofs!isUnsafeMethod, HttpProofs!canUsePermission, HttpProofs!authenticate,
         HttpProofs!Gate, HttpProofs!serve, HttpProofs!handle, HttpProofs!Command,
         HttpProofs!Read, HttpProofs!ReadOf, HttpProofs!Write, HttpProofs!WriteOf,
         HttpProofs!doctorCommand, HttpProofs!listCommands, HttpProofs!queryCommands,
         HttpProofs!graphViewCommands, HttpProofs!Sibling, HttpProofs!graphInsertCommands,
         HttpProofs!graphEditCommands, HttpProofs!sessionReadCommands,
         HttpProofs!sessionWriteCommands, HttpProofs!simpleProviderCommand,
         HttpProofs!providerCommands, HttpProofs!roleCommands, HttpProofs!skillCandidateCommands,
         HttpProofs!runtimeControlCommands, HttpProofs!simpleCronCommand, HttpProofs!cronCommands,
         HttpProofs!Commands, HttpProofs!Named, HttpProofs!resolveCommand,
         HttpProofs!permissionRank, HttpProofs!minCommandPermission, HttpProofs!toolNeedsDanger,
         HttpProofs!toolExecutionPermission, HttpProofs!DangerIf, HttpProofs!permissionForInput,
         HttpProofs!assertCommandPermission, HttpProofs!validateInput, HttpProofs!run,
         HttpProofs!maxPermissionModeForCommandPermission,
         HttpProofs!assertPermissionModeWithinCommandPermission, HttpProofs!Tool,
         HttpProofs!DEFAULT_TOOL_DEFINITIONS, HttpProofs!Tools, HttpProofs!Unknown,
         HttpProofs!resolve, HttpProofs!parsePermissionMode, HttpProofs!Rank,
         HttpProofs!clampPermissionMode, HttpProofs!Range

\* What its module proves from is given.
LEMMA HttpGiven == HttpProofs!Given
BY ServicesAssumption
   DEF ServicesAssumption, InvocationFields, HttpProofs!Given, HttpProofs!InvocationFields

LEMMA HttpKeeps ==
  ASSUME HttpProofs!IInv, Http!Next \/ UNCHANGED httpVars
  PROVE  HttpProofs!IInv'
<1>1. [HttpProofs!Next]_(HttpProofs!vars)
  BY HttpSame DEF httpVars, HttpProofs!vars
<1> QED BY <1>1, HttpGiven, HttpProofs!NextKeeps

LEMMA SocketSame ==
  /\ Socket!Init = SocketProofs!Init
  /\ Socket!Next = SocketProofs!Next
  /\ Socket!ScopesHold = SocketProofs!ScopesHold
  /\ Socket!EveryMessageIsAnswered = SocketProofs!EveryMessageIsAnswered
BY DEF Socket!vars, Socket!Closed, Socket!Nothing, Socket!Answered, Socket!Scope, Socket!Init,
         Socket!Input, Socket!Fault, Socket!InputFault, Socket!HttpRequest, Socket!Upgrade,
         Socket!Written, Socket!Sent, Socket!Ended, Socket!consume, Socket!Accepted,
         Socket!Finished, Socket!Received, Socket!Turned, Socket!Taken, Socket!Counted,
         Socket!OverLimit, Socket!Busy, Socket!Free, Socket!OnMessage, Socket!Push,
         Socket!HandlerEnds, Socket!RuntimeEvent, Socket!IdleTimeoutFires, Socket!PeerCloses,
         Socket!Tick, Socket!Next, Socket!Changes, Socket!Works, Socket!ScopesHold,
         Socket!EveryMessageIsAnswered, Socket!Target, Socket!Via, Socket!Pass, Socket!Passed,
         Socket!sessionMethods, Socket!providerMethods, Socket!roleMethods,
         Socket!knowledgeMethods, Socket!graphMethods, Socket!reportMethods, Socket!cronMethods,
         Socket!methodTargets, Socket!READ_GATEWAY_METHODS, Socket!gatewayMethodPermission,
         Socket!assertGatewayMethodPermission, Socket!chat, Socket!scopeRuntime, Socket!Directed,
         Socket!dispatch, Socket!dispatchGatewayRequest, Socket!Get, Socket!Post, Socket!Whole,
         Socket!providerRoutes, Socket!cronRoutes, Socket!roleRoutes, Socket!sessionRoutes,
         Socket!graphRoutes, Socket!controlRoutes, Socket!routeTargets, Socket!isUnsafeMethod,
         Socket!canUsePermission, Socket!authenticate, Socket!Gate, Socket!serve, Socket!handle,
         Socket!Command, Socket!Read, Socket!ReadOf, Socket!Write, Socket!WriteOf,
         Socket!doctorCommand, Socket!listCommands, Socket!queryCommands,
         Socket!graphViewCommands, Socket!Sibling, Socket!graphInsertCommands,
         Socket!graphEditCommands, Socket!sessionReadCommands, Socket!sessionWriteCommands,
         Socket!simpleProviderCommand, Socket!providerCommands, Socket!roleCommands,
         Socket!skillCandidateCommands, Socket!runtimeControlCommands, Socket!simpleCronCommand,
         Socket!cronCommands, Socket!Commands, Socket!Named, Socket!resolveCommand,
         Socket!permissionRank, Socket!minCommandPermission, Socket!toolNeedsDanger,
         Socket!toolExecutionPermission, Socket!DangerIf, Socket!permissionForInput,
         Socket!assertCommandPermission, Socket!validateInput, Socket!run,
         Socket!maxPermissionModeForCommandPermission,
         Socket!assertPermissionModeWithinCommandPermission, Socket!Tool,
         Socket!DEFAULT_TOOL_DEFINITIONS, Socket!Tools, Socket!Unknown, Socket!resolve,
         Socket!parsePermissionMode, Socket!Rank, Socket!clampPermissionMode, Socket!Range,
         SocketProofs!vars, SocketProofs!Closed, SocketProofs!Nothing, SocketProofs!Answered,
         SocketProofs!Scope, SocketProofs!Init, SocketProofs!Input, SocketProofs!Fault,
         SocketProofs!InputFault, SocketProofs!HttpRequest, SocketProofs!Upgrade,
         SocketProofs!Written, SocketProofs!Sent, SocketProofs!Ended, SocketProofs!consume,
         SocketProofs!Accepted, SocketProofs!Finished, SocketProofs!Received, SocketProofs!Turned,
         SocketProofs!Taken, SocketProofs!Counted, SocketProofs!OverLimit, SocketProofs!Busy,
         SocketProofs!Free, SocketProofs!OnMessage, SocketProofs!Push, SocketProofs!HandlerEnds,
         SocketProofs!RuntimeEvent, SocketProofs!IdleTimeoutFires, SocketProofs!PeerCloses,
         SocketProofs!Tick, SocketProofs!Next, SocketProofs!Changes, SocketProofs!Works,
         SocketProofs!ScopesHold, SocketProofs!EveryMessageIsAnswered, SocketProofs!Target,
         SocketProofs!Via, SocketProofs!Pass, SocketProofs!Passed, SocketProofs!sessionMethods,
         SocketProofs!providerMethods, SocketProofs!roleMethods, SocketProofs!knowledgeMethods,
         SocketProofs!graphMethods, SocketProofs!reportMethods, SocketProofs!cronMethods,
         SocketProofs!methodTargets, SocketProofs!READ_GATEWAY_METHODS,
         SocketProofs!gatewayMethodPermission, SocketProofs!assertGatewayMethodPermission,
         SocketProofs!chat, SocketProofs!scopeRuntime, SocketProofs!Directed,
         SocketProofs!dispatch, SocketProofs!dispatchGatewayRequest, SocketProofs!Get,
         SocketProofs!Post, SocketProofs!Whole, SocketProofs!providerRoutes,
         SocketProofs!cronRoutes, SocketProofs!roleRoutes, SocketProofs!sessionRoutes,
         SocketProofs!graphRoutes, SocketProofs!controlRoutes, SocketProofs!routeTargets,
         SocketProofs!isUnsafeMethod, SocketProofs!canUsePermission, SocketProofs!authenticate,
         SocketProofs!Gate, SocketProofs!serve, SocketProofs!handle, SocketProofs!Command,
         SocketProofs!Read, SocketProofs!ReadOf, SocketProofs!Write, SocketProofs!WriteOf,
         SocketProofs!doctorCommand, SocketProofs!listCommands, SocketProofs!queryCommands,
         SocketProofs!graphViewCommands, SocketProofs!Sibling, SocketProofs!graphInsertCommands,
         SocketProofs!graphEditCommands, SocketProofs!sessionReadCommands,
         SocketProofs!sessionWriteCommands, SocketProofs!simpleProviderCommand,
         SocketProofs!providerCommands, SocketProofs!roleCommands,
         SocketProofs!skillCandidateCommands, SocketProofs!runtimeControlCommands,
         SocketProofs!simpleCronCommand, SocketProofs!cronCommands, SocketProofs!Commands,
         SocketProofs!Named, SocketProofs!resolveCommand, SocketProofs!permissionRank,
         SocketProofs!minCommandPermission, SocketProofs!toolNeedsDanger,
         SocketProofs!toolExecutionPermission, SocketProofs!DangerIf,
         SocketProofs!permissionForInput, SocketProofs!assertCommandPermission,
         SocketProofs!validateInput, SocketProofs!run,
         SocketProofs!maxPermissionModeForCommandPermission,
         SocketProofs!assertPermissionModeWithinCommandPermission, SocketProofs!Tool,
         SocketProofs!DEFAULT_TOOL_DEFINITIONS, SocketProofs!Tools, SocketProofs!Unknown,
         SocketProofs!resolve, SocketProofs!parsePermissionMode, SocketProofs!Rank,
         SocketProofs!clampPermissionMode, SocketProofs!Range

\* What its module proves from is given.
LEMMA SocketGiven == SocketProofs!Given
BY ServicesAssumption
   DEF ServicesAssumption, InvocationFields, SocketProofs!Given, SocketProofs!InvocationFields

LEMMA SocketKeeps ==
  ASSUME SocketProofs!IInv, Socket!Next \/ UNCHANGED wsVars
  PROVE  SocketProofs!IInv'
<1>1. [SocketProofs!Next]_(SocketProofs!vars)
  BY SocketSame DEF wsVars, SocketProofs!vars
<1> QED BY <1>1, SocketGiven, SocketProofs!NextKeeps

\* While a service of the gateway is in focus, the invariant of its module holds.
GatewayInv ==
  /\ focus = "http" => HttpProofs!IInv
  /\ focus = "socket" => SocketProofs!IInv

LEMMA GatewayStarts == ServicesInit => GatewayInv
<1>1. ServicesInit /\ focus = "http" => HttpProofs!IInv
  BY HttpSame, HttpGiven, HttpProofs!InitHolds DEF ServicesInit
<1>2. ServicesInit /\ focus = "socket" => SocketProofs!IInv
  BY SocketSame, SocketGiven, SocketProofs!InitHolds DEF ServicesInit
<1> QED BY <1>1, <1>2 DEF GatewayInv

LEMMA GatewayKeeps == GatewayInv /\ [ServicesNext]_allVars => GatewayInv'
<1> SUFFICES ASSUME GatewayInv, [ServicesNext]_allVars PROVE GatewayInv'
  OBVIOUS
<1>1. focus = "http" => HttpProofs!IInv'
  BY OneService, HttpKeeps DEF GatewayInv
<1>2. focus = "socket" => SocketProofs!IInv'
  BY OneService, SocketKeeps DEF GatewayInv
<1> QED BY <1>1, <1>2, OneService DEF GatewayInv

\* GatewayRules: whatever the way a request takes, it calls no operation of the runtime that its
\* caller's permission does not cover, as far as the inputs of the request tell: modes that the
\* operation finds in a task, a run or a cron job are not looked at.
THEOREM CallersScopes == ServicesSpec => []ScopesHold
<1>1. GatewayInv => ScopesHold
  BY HttpSame, SocketSame DEF GatewayInv, ScopesHold, HttpProofs!IInv, SocketProofs!IInv
<1> QED BY GatewayStarts, GatewayKeeps, <1>1, PTL DEF ServicesSpec

\* Gateway: each message of an open connection has had its one answer or has a handler that
\* will give it, and no more requests are in flight than may be.
THEOREM MessagesAnswered == ServicesSpec => []EveryMessageIsAnswered
<1>1. GatewayInv => EveryMessageIsAnswered
  BY SocketSame, SocketProofs!Answers DEF GatewayInv, EveryMessageIsAnswered
<1> QED BY GatewayStarts, GatewayKeeps, <1>1, PTL DEF ServicesSpec
===============================================================================
