--------------------------- MODULE CronScheduler ---------------------------
(***************************************************************************)
(* cron/CronScheduler.ts in processes that share one cron.json: what each  *)
(* keeps in memory, saves that merge it into the file under a file lock,   *)
(* jobs that are executed when they are due, edits of users, and a process *)
(* that dies. An operation is in one of a few slots of its process; the    *)
(* steps of a slot are the awaits of save and executeJob.                  *)
(***************************************************************************)
EXTENDS Naturals, Sequences, FiniteSets, FiniteSetsExt

CONSTANTS
  Processes,    \* the processes that run a scheduler on one data directory
  Slots,        \* operations in flight in one process, numbered
  Jobs,         \* the ids jobs are given
  Schedule,     \* job -> the parts [from, to, step] of its field of minutes
  MinutesPerHour,
  MaxNow,       \* the last minute of any behaviour
  Bounds        \* what is bounded together: the slots in use, the minutes, how often users
                \* create, pause, resume, delete or run a job, the event store fails, and a
                \* process dies

VARIABLES
  now,          \* minutes
  disk,         \* cron.json: job -> record
  lock,         \* whose lock file there is
  jobs,         \* process -> job -> record in memory
  dirty,        \* process -> dirtyJobIds
  gone,         \* process -> deletedJobIds
  running,      \* process -> the jobs being executed
  timer,        \* process -> whether its timer is set
  op,           \* process -> slot -> the operation
  file,         \* process -> slot -> what its save is about to write
  saved,        \* the jobs a save has put in the file
  removed,      \* the jobs somebody has deleted
  shared,       \* the saves under way while another one has, or had, a lock file as well
  lost,         \* the jobs such saves have taken out of the file
  fired,        \* job -> minute -> how often a timer has executed what was due then, up to 2
  stuck,        \* process -> the jobs whose start event failed
  bound,        \* one of Bounds
  spent         \* what of it has been used

vars == <<now, disk, lock, jobs, dirty, gone, running, timer, op, file, saved, removed, shared,
          lost, fired, stuck, bound, spent>>

Absent == [status |-> "absent", next |-> 0]
Idle   == [step |-> "idle", job |-> "none", executes |-> FALSE, caught |-> FALSE,
           attached |-> FALSE, timed |-> FALSE, due |-> <<>>]
Nobody == <<"none", 0>>
NoJobs == [j \in Jobs |-> Absent]
Present(js) == {j \in Jobs : js[j] # Absent}

-----------------------------------------------------------------------------
(* Schedules.                                                              *)

\* Every part of a field stands for a range and a step; none may leave the field.
parseField(parts, min, max) ==
  UNION {{v \in part.from..part.to : (v - part.from) % part.step = 0} : part \in parts}

ValidField(parts, min, max) ==
  \A part \in parts : part.step >= 1 /\ min <= part.from /\ part.from <= part.to /\ part.to <= max

matchesCron(parts, minute) ==
  minute % MinutesPerHour \in parseField(parts, 0, MinutesPerHour - 1)

\* The first minute that matches after this one.
nextCronRun(parts, after) ==
  Min({t \in (after + 1)..(after + MinutesPerHour) : matchesCron(parts, t)})

NextRun(j, status) == IF status = "active" THEN nextCronRun(Schedule[j], now) ELSE 0

-----------------------------------------------------------------------------
Init ==
  /\ now = 0
  /\ disk = NoJobs
  /\ lock = Nobody
  /\ jobs = [p \in Processes |-> disk]
  /\ dirty = [p \in Processes |-> {}]
  /\ gone = [p \in Processes |-> {}]
  /\ running = [p \in Processes |-> {}]
  /\ timer = [p \in Processes |-> FALSE]
  /\ op = [p \in Processes |-> [s \in Slots |-> Idle]]
  /\ file = [p \in Processes |-> [s \in Slots |-> NoJobs]]
  /\ saved = {} /\ removed = {} /\ shared = {} /\ lost = {}
  /\ fired = [j \in Jobs |-> [t \in 0..MaxNow |-> 0]]
  /\ stuck = [p \in Processes |-> {}]
  /\ bound \in Bounds /\ spent = [edits |-> 0, faults |-> 0, crashes |-> 0]

\* What only saves change.
saveVars == <<disk, lock, file, saved, shared, lost, bound>>
\* What no save changes, but what comes after it.
otherVars == <<now, removed, fired, stuck, bound>>

At(p, s, step) == op[p][s].step = step
Spend(what) == spent[what] < bound[what] /\ spent' = [spent EXCEPT ![what] = @ + 1]
Free(p, s) == <<p, s>> \in bound.slots /\ At(p, s, "idle") /\ \A t \in Slots : t < s => ~At(p, t, "idle")
Becomes(p, s, o) == op' = [op EXCEPT ![p][s] = o]

markDirty(p, j) ==
  /\ dirty' = [dirty EXCEPT ![p] = @ \union {j}]
  /\ gone' = [gone EXCEPT ![p] = @ \ {j}]

\* The timer is set when a job of the map has a time: it looks at least every minute.
scheduleTimer(p, js) == timer' = [timer EXCEPT ![p] = \E j \in Jobs : js[j].next # 0]

Tick ==
  /\ now < bound.minutes
  /\ now' = now + 1
  /\ UNCHANGED <<saveVars, jobs, dirty, gone, running, timer, op, removed, fired, stuck, spent>>

-----------------------------------------------------------------------------
(* Edits: the job in memory, a mark, and a save.                           *)

Save(p, s, j) == Becomes(p, s, [Idle EXCEPT !.step = "lock", !.job = j])

createJob(p, s, j) ==
  /\ Free(p, s) /\ Spend("edits")
  /\ ValidField(Schedule[j], 0, MinutesPerHour - 1)
  /\ j \notin saved \union removed /\ \A q \in Processes : jobs[q][j] = Absent
  /\ \E status \in {"active", "paused"} :
       jobs' = [jobs EXCEPT ![p][j] = [status |-> status, next |-> NextRun(j, status)]]
  /\ markDirty(p, j)
  /\ Save(p, s, j)
  /\ UNCHANGED <<saveVars, now, running, timer, removed, fired, stuck>>

\* pauseJob, resumeJob and updateJob.
updateJob(p, s, j) ==
  /\ Free(p, s) /\ Spend("edits")
  /\ j \in Present(jobs[p])
  /\ \E status \in {"active", "paused"} :
       jobs' = [jobs EXCEPT ![p][j] = [status |-> status, next |-> NextRun(j, status)]]
  /\ markDirty(p, j)
  /\ Save(p, s, j)
  /\ UNCHANGED <<saveVars, now, running, timer, removed, fired, stuck>>

deleteJob(p, s, j) ==
  /\ Free(p, s) /\ Spend("edits")
  /\ j \in Present(jobs[p])
  /\ jobs' = [jobs EXCEPT ![p][j] = Absent]
  /\ gone' = [gone EXCEPT ![p] = @ \union {j}]
  /\ dirty' = [dirty EXCEPT ![p] = @ \ {j}]
  /\ removed' = removed \union {j}
  /\ Save(p, s, j)
  /\ UNCHANGED <<saveVars, now, running, timer, fired, stuck>>

-----------------------------------------------------------------------------
(* Executions: of one job by a user, of what is due by the timer.          *)

Due(p) == {j \in Present(jobs[p]) : jobs[p][j].next \in 1..now}

\* The objects of the jobs, as they are now, in the order of their times.
DueList(p) ==
  LET before(j, k) == jobs[p][j].next < jobs[p][k].next
  IN  {seq \in [1..Cardinality(Due(p)) -> [job : Due(p), at : 1..now]] :
        /\ {seq[i].job : i \in DOMAIN seq} = Due(p)
        /\ \A i \in DOMAIN seq : seq[i].at = jobs[p][seq[i].job].next
        /\ \A i, k \in DOMAIN seq : before(seq[i].job, seq[k].job) => i < k}

Start(p, s, list, timed) ==
  Becomes(p, s, [Idle EXCEPT !.step = "next", !.attached = TRUE, !.timed = timed, !.due = list])

\* The timer fires. When nothing is due, or only what is running, it is just set again.
runDue(p, s) ==
  /\ timer[p] /\ Free(p, s) /\ Due(p) \ running[p] # {}
  /\ timer' = [timer EXCEPT ![p] = FALSE]
  /\ \E list \in DueList(p) : Start(p, s, list, TRUE)
  /\ UNCHANGED <<saveVars, now, jobs, dirty, gone, running, removed, fired, stuck, spent>>

runJob(p, s, j) ==
  /\ Free(p, s) /\ Spend("edits")
  /\ j \in Present(jobs[p])
  /\ Start(p, s, <<[job |-> j, at |-> 0]>>, FALSE)
  /\ UNCHANGED <<saveVars, now, jobs, dirty, gone, running, timer, removed, fired, stuck>>

NextJob(p, s) == Head(op[p][s].due).job

\* executeJob until the await of the action of the job.
ExecuteNext(p, s) ==
  /\ At(p, s, "next") /\ op[p][s].due # <<>>
  /\ LET o  == [op[p][s] EXCEPT !.due = Tail(@)]
         j  == NextJob(p, s)
         at == Head(op[p][s].due).at
     IN  \/ /\ j \in running[p]
            /\ Becomes(p, s, o)
            /\ UNCHANGED <<dirty, gone, running, fired>>
         \/ /\ j \notin running[p]
            /\ running' = [running EXCEPT ![p] = @ \union {j}]
            /\ markDirty(p, j)
            /\ fired' = IF at = 0 THEN fired
                        ELSE [fired EXCEPT ![j][at] = IF @ = 2 THEN 2 ELSE @ + 1]
            /\ Becomes(p, s, [o EXCEPT !.step = "executing", !.job = j, !.executes = TRUE])
  /\ UNCHANGED <<saveVars, now, jobs, timer, removed, stuck, spent>>

\* The event of the start fails: it is written outside of the try, so that nothing takes the
\* job from the running ones again, and runDue ends.
StartFails(p, s) ==
  /\ At(p, s, "next") /\ op[p][s].due # <<>> /\ Spend("faults")
  /\ NextJob(p, s) \notin running[p]
  /\ running' = [running EXCEPT ![p] = @ \union {NextJob(p, s)}]
  /\ stuck' = [stuck EXCEPT ![p] = @ \union {NextJob(p, s)}]
  /\ markDirty(p, NextJob(p, s))
  /\ IF op[p][s].timed THEN scheduleTimer(p, jobs[p]) ELSE UNCHANGED timer
  /\ Becomes(p, s, Idle)
  /\ UNCHANGED <<saveVars, now, jobs, removed, fired>>

\* The time of the next run is set in the object the operation holds, which a save may have
\* replaced in the map.
Rescheduled(p, s) ==
  LET j == op[p][s].job
  IN  IF op[p][s].attached /\ j \in Present(jobs[p])
      THEN [jobs EXCEPT ![p][j].next = NextRun(j, jobs[p][j].status)]
      ELSE jobs

\* The action has ended, well or in the catch; either way the job is saved.
Executed(p, s) ==
  /\ At(p, s, "executing")
  /\ jobs' = Rescheduled(p, s)
  /\ markDirty(p, op[p][s].job)
  /\ \E thrown \in BOOLEAN : Becomes(p, s, [op[p][s] EXCEPT !.step = "lock", !.caught = thrown])
  /\ UNCHANGED <<saveVars, now, running, timer, removed, fired, stuck, spent>>

Ended(p, s) ==
  /\ At(p, s, "next") /\ op[p][s].due = <<>>
  /\ IF op[p][s].timed THEN scheduleTimer(p, jobs[p]) ELSE UNCHANGED timer
  /\ Becomes(p, s, Idle)
  /\ UNCHANGED <<saveVars, now, jobs, dirty, gone, running, removed, fired, stuck, spent>>

-----------------------------------------------------------------------------
(* What an operation does once its save has returned and its event is      *)
(* recorded, or one of the two has thrown.                                 *)

EditEnds(p, s, thrown) ==
  /\ ~op[p][s].executes
  /\ IF thrown THEN UNCHANGED timer ELSE scheduleTimer(p, jobs[p])
  /\ Becomes(p, s, Idle)
  /\ UNCHANGED <<jobs, dirty, gone, running>>

\* The catch of executeJob: the job is rescheduled and saved a second time.
ErrorCaught(p, s, thrown) ==
  /\ op[p][s].executes /\ thrown /\ ~op[p][s].caught
  /\ jobs' = Rescheduled(p, s)
  /\ markDirty(p, op[p][s].job)
  /\ Becomes(p, s, [op[p][s] EXCEPT !.step = "lock", !.caught = TRUE])
  /\ UNCHANGED <<running, timer>>

\* Mutant: the job is not taken from the set of running ones.
MutNoLongerRunning(p, s) == UNCHANGED running

NoLongerRunning(p, s) == running' = [running EXCEPT ![p] = @ \ {op[p][s].job}]

\* Its finally. runDue goes on, or ends with the job whose catch has thrown.
ExecutionEnds(p, s, thrown) ==
  /\ op[p][s].executes /\ (thrown => op[p][s].caught)
  /\ NoLongerRunning(p, s)
  /\ scheduleTimer(p, jobs[p])
  /\ Becomes(p, s, [op[p][s] EXCEPT !.step = "next", !.executes = FALSE, !.caught = FALSE,
                                    !.due = IF thrown THEN <<>> ELSE @])
  /\ UNCHANGED <<jobs, dirty, gone>>

SaveEnds(p, s, thrown) ==
  EditEnds(p, s, thrown) \/ ErrorCaught(p, s, thrown) \/ ExecutionEnds(p, s, thrown)

-----------------------------------------------------------------------------
(* save under withFileLock.                                                *)

\* The saves under way.
Saving == {q \in Processes \X Slots : op[q[1]][q[2]].step \in {"merge", "write"}}

\* The lock file is created, which only one process can do.
Lock(p, s) ==
  /\ At(p, s, "lock") /\ lock = Nobody
  /\ lock' = <<p, s>>
  /\ shared' = IF Saving = {} THEN shared ELSE Saving \union {<<p, s>>}
  /\ Becomes(p, s, [op[p][s] EXCEPT !.step = "merge"])
  /\ UNCHANGED <<otherVars, disk, jobs, dirty, gone, running, timer, file, saved, lost, spent>>

\* The lock file is looked at: it is older than a save takes, since its process died.
SeeStale(p, s) ==
  /\ At(p, s, "lock") /\ lock[1] = "dead"
  /\ Becomes(p, s, [op[p][s] EXCEPT !.step = "stale"])
  /\ UNCHANGED <<saveVars, now, jobs, dirty, gone, running, timer, removed, fired, stuck, spent>>

\* The lock file there is now is deleted: another waiter may have replaced the old one by its own.
RemoveStale(p, s) ==
  /\ At(p, s, "stale")
  /\ lock' = Nobody
  /\ Becomes(p, s, [op[p][s] EXCEPT !.step = "lock"])
  /\ UNCHANGED <<otherVars, disk, jobs, dirty, gone, running, timer, file, saved, shared, lost, spent>>

\* Five seconds are over and there is a lock file: the mark stays for a later save.
LockTimesOut(p, s) ==
  /\ At(p, s, "lock") /\ lock # Nobody
  /\ SaveEnds(p, s, TRUE)
  /\ UNCHANGED <<saveVars, now, removed, fired, stuck, spent>>

\* Mutant: the process writes the jobs it has in memory.
MutMerged(p) == [j \in Jobs |-> IF j \in gone[p] THEN Absent ELSE jobs[p][j]]

\* The jobs of the file, with what this process has deleted and changed.
Merged(p) ==
  [j \in Jobs |-> CASE j \in dirty[p] /\ jobs[p][j] # Absent -> jobs[p][j]
                    [] j \in gone[p] /\ j \notin dirty[p] -> Absent
                    [] OTHER -> disk[j]]

\* From here on the map holds new objects.
Merge(p, s) ==
  /\ At(p, s, "merge")
  /\ file' = [file EXCEPT ![p][s] = Merged(p)]
  /\ jobs' = [jobs EXCEPT ![p] = Merged(p)]
  /\ op' = [op EXCEPT ![p] = [t \in Slots |->
              [op[p][t] EXCEPT !.attached = FALSE, !.step = IF t = s THEN "write" ELSE @]]]
  /\ UNCHANGED <<otherVars, disk, lock, dirty, gone, running, timer, saved, shared, lost, spent>>

\* The file is renamed into place, and every mark of the process is taken away.
Write(p, s) ==
  /\ At(p, s, "write")
  /\ disk' = file[p][s]
  /\ saved' = saved \union Present(file[p][s])
  /\ lost' = IF <<p, s>> \in shared THEN lost \union (Present(disk) \ Present(file[p][s])) ELSE lost
  /\ shared' = shared \ {<<p, s>>}
  /\ dirty' = [dirty EXCEPT ![p] = {}]
  /\ gone' = [gone EXCEPT ![p] = {}]
  /\ file' = [file EXCEPT ![p][s] = NoJobs]
  /\ Becomes(p, s, [op[p][s] EXCEPT !.step = "unlock"])
  /\ UNCHANGED <<otherVars, lock, jobs, running, timer, spent>>

\* Whatever lock file there is is deleted. Then the event is recorded, which may fail.
Unlock(p, s) ==
  /\ At(p, s, "unlock")
  /\ lock' = Nobody
  /\ \/ SaveEnds(p, s, FALSE) /\ UNCHANGED spent
     \/ SaveEnds(p, s, TRUE) /\ Spend("faults")
  /\ UNCHANGED <<otherVars, disk, file, saved, shared, lost>>

\* The process dies and another one is started in its place, which loads the file.
Crash(p) ==
  /\ Spend("crashes") /\ \E s \in Slots : <<p, s>> \in bound.slots
  /\ lock' = IF lock[1] = p THEN <<"dead", 0>> ELSE lock
  /\ shared' = {q \in shared : q[1] # p}
  /\ jobs' = [jobs EXCEPT ![p] = disk]
  /\ dirty' = [dirty EXCEPT ![p] = {}] /\ gone' = [gone EXCEPT ![p] = {}]
  /\ running' = [running EXCEPT ![p] = {}] /\ stuck' = [stuck EXCEPT ![p] = {}]
  /\ scheduleTimer(p, disk)
  /\ op' = [op EXCEPT ![p] = [s \in Slots |-> Idle]]
  /\ file' = [file EXCEPT ![p] = [s \in Slots |-> NoJobs]]
  /\ UNCHANGED <<now, bound, disk, saved, removed, lost, fired>>

-----------------------------------------------------------------------------
EditNext == \E p \in Processes, s \in Slots, j \in Jobs :
              createJob(p, s, j) \/ updateJob(p, s, j) \/ deleteJob(p, s, j) \/ runJob(p, s, j)
SlotNext(p, s) ==
  \/ ExecuteNext(p, s) \/ Executed(p, s) \/ Ended(p, s)
  \/ Lock(p, s) \/ SeeStale(p, s) \/ RemoveStale(p, s)
  \/ Merge(p, s) \/ Write(p, s) \/ Unlock(p, s)
TimerNext(p) == \E s \in Slots : runDue(p, s)

Next ==
  \/ Tick \/ EditNext
  \/ \E p \in Processes :
       \/ Crash(p) \/ TimerNext(p)
       \/ \E s \in Slots : SlotNext(p, s) \/ StartFails(p, s) \/ LockTimesOut(p, s)

Spec == Init /\ [][Next]_vars

\* A timer that is set fires, and what a process has begun goes on.
Fairness == \A p \in Processes : WF_vars(TimerNext(p)) /\ \A s \in Slots : WF_vars(SlotNext(p, s))
FairSpec == Spec /\ Fairness

-----------------------------------------------------------------------------
(* Properties.                                                             *)

\* A job that a save has put in the file stays there until somebody deletes it, whatever
\* processes that know nothing of it save meanwhile. Only saves that run at the same time can
\* take one out, and they need a process that died while saving: of two waiters that both find
\* its lock file old the second deletes the first one's (CronScheduler.ts:590).
SavedJobsAreKept ==
  /\ saved \ (removed \union lost) \subseteq Present(disk)
  /\ lost # {} => spent.crashes > 0

\* Every job that is due in a process whose timer is set, or is at work, is executed or no
\* longer due, unless the event of its start failed and it stays in the set of running ones.
\* (An edit whose save or event fails does not set the timer: CronScheduler.ts:153-155.)
Watched(p) == timer[p] \/ \E s \in Slots : op[p][s].timed
Executing(p, j) == \E s \in Slots : At(p, s, "executing") /\ op[p][s].job = j
DueJobsRun ==
  \A p \in Processes, j \in Jobs :
    (j \in Due(p) /\ Watched(p)) ~> (j \notin Due(p) \/ Executing(p, j) \/ j \in stuck[p])

\* README.md:578: schedules are standard five-field cron expressions, and a job of one is
\* executed once for a minute it names (in one process). The code does not ensure it: the
\* save after one job replaces the object of the next one in the list, so that the time of its
\* next run is set in an object nobody looks at.
DueTimeRunsOnce == \A j \in Jobs, t \in 0..MaxNow : fired[j][t] <= 1
=============================================================================
