------------------------------ MODULE StuckTasks ------------------------------
(***************************************************************************)
(* What the periodic wakeup does about stuck tasks, over a project's        *)
(* runners and tasks: the clean-up of abandoned runners                     *)
(* (src/runners/abandoned-runners.ts), then detection and recovery          *)
(* (src/health/stuck-task-detector.ts and stuck-task-recovery.ts).  The     *)
(* runners are other processes: what was found may be otherwise by the time *)
(* it is worked off.                                                        *)
(*                                                                          *)
(* A runner takes a task through coder, review and merge.  What a phase     *)
(* decides is in TaskLifecycle; here it succeeds, or goes wrong:            *)
(*   silent  its provider says nothing any more; the runner's heartbeat     *)
(*           goes on                                                        *)
(*   frozen  the process is alive and its heartbeat is late                 *)
(*   dead    the process is gone                                            *)
(* Ages of rows are flags: a heartbeat is late, an invocation silent, a     *)
(* task idle for longer than its threshold, or not.                         *)
(***************************************************************************)
EXTENDS Integers, FiniteSets

CONSTANTS
    Task, Runner,
    Nobody,             \* no runner, no task
    Gone,               \* the id of a runner whose row was deleted
    Reviewers,          \* how many reviewers are configured
    Pooled,             \* whether runners work in slots of the workspace pool
    MaxRecoveryAttempts,
    MaxRevivals,        \* MAX_S4_RECOVERIES
    MaxIncidents,       \* maxIncidentsPerHour
    MaxOwed,            \* bound of owed
    MaxFaults           \* bound: crashes, freezes, late answers, early lapses

ASSUME StuckAssumption ==
    /\ {Reviewers, MaxRecoveryAttempts, MaxIncidents} \subseteq Nat \ {0}
    /\ MaxRevivals \in Nat /\ Pooled \in BOOLEAN
    /\ {MaxOwed, MaxFaults} \subseteq Nat
    /\ {Nobody, Gone} \intersect (Task \union Runner) = {} /\ Nobody # Gone

VARIABLES
    task,       \* status, failure_count; whether the row and its invocations are old, and
                \* whether a coder succeeded; revivals since it was last worked on (audit)
    lock,       \* owner of the row in task_locks
    running,    \* rows of task_invocations marked running
    runner,     \* process, loop, the row in runners, and whether the process has a
                \* SIGTERM to handle that nothing follows up
    healer,     \* what the clean-up, or a pass of recoverStuckTasks, has still to work off
    incidents,  \* incidents of the last hour, up to MaxIncidents
    owed,       \* history: attempts begun less failures counted, up to MaxOwed
    faults

healthVars == <<task, lock, running, runner, healer, incidents, owed, faults>>

\* "again" is the review of a task that was set back to pending.
Act    == {"start", "resume", "review", "again", "merge"}
Codes  == {"start", "resume"}
Role   == {"coder", "reviewer"}
Open   == {"pending", "in_progress", "review", "merge_pending"}
Status == Open \union {"completed", "skipped"}

Invocation ==
    [task : Task, owner : Runner \union {Gone}, role : Role, n : 1..Reviewers,
     overtaken : BOOLEAN]

Signal == [kind : {"abandoned", "zombie", "dead", "orphan", "hanging"},
           runner : Runner \union {Nobody}, task : Task \union {Nobody},
           row : Invocation \union {Nobody}]

HealthTypeOK ==
    /\ task \in [Task -> [status : Status, failures : Nat, old : BOOLEAN, coded : BOOLEAN,
                          revived : 0..MaxRevivals]]
    /\ lock \in [Task -> Runner \union {Nobody, Gone}]
    /\ running \subseteq Invocation
    /\ runner \in [Runner -> [life : {"well", "silent", "frozen", "dead"}, row : BOOLEAN,
                              told : BOOLEAN, pc : {"idle", "claimed", "working"}, act : Act,
                              task : Task \union {Nobody}]]
    /\ healer \in [todo : SUBSET Signal, killed : SUBSET Signal, skip : BOOLEAN]
    /\ healer.killed \subseteq healer.todo
    /\ incidents \in 0..MaxIncidents
    /\ owed \in [Task -> Int]
    /\ faults \in 0..MaxFaults

Rested  == [life |-> "well", row |-> TRUE, told |-> FALSE, pc |-> "idle", act |-> "start", task |-> Nobody]
Resting == [todo |-> {}, killed |-> {}, skip |-> FALSE]

HealthInit ==
    /\ task = [t \in Task |-> [status |-> "pending", failures |-> 0, old |-> FALSE,
                              coded |-> FALSE, revived |-> 0]]
    /\ lock = [t \in Task |-> Nobody]
    /\ running = {}
    /\ runner = [r \in Runner |-> Rested]
    /\ healer = Resting
    /\ incidents = 0
    /\ owed = [t \in Task |-> 0]
    /\ faults = 0

Fault == faults < MaxFaults /\ faults' = faults + 1

Life(r)  == runner[r].life
Alive(r) == Life(r) # "dead"

-------------------------------------------------------------------------------
(* What detection finds, all of it from one reading of both databases       *)

Current(r) == IF runner[r].row /\ runner[r].pc = "working" THEN runner[r].task ELSE Nobody

\* getActiveRunnerForTask takes the one with the latest heartbeat.
ActiveRunners(t) ==
    {r \in Runner : Current(r) = t /\ Life(r) \in {"well", "silent"}}

RunnerSignals(kind, life) ==
    {[kind |-> kind, runner |-> r, task |-> Current(r), row |-> Nobody] :
       r \in {x \in Runner : runner[x].row /\ Life(x) = life}}

\* findAbandonedRunners: a heartbeat as late as that of a zombie, or no process.
Abandoned == RunnerSignals("abandoned", "frozen") \union RunnerSignals("abandoned", "dead")

OwnerDead(i) == i.owner \in Runner => ~ runner[i.owner].row \/ ~ Alive(i.owner)

IsSilent(i) == OwnerDead(i) \/ Life(i.owner) \in {"silent", "frozen"}

\* One signal for each running invocation that is not older than the row of
\* its task and was not active for too long.
Hanging(active) ==
    {[kind |-> "hanging", runner |-> active[i.task], task |-> i.task, row |-> i] :
       i \in {x \in running : /\ task[x.task].status \in Open \ {"pending"}
                              /\ ~ x.overtaken /\ IsSilent(x)
                              /\ active[x.task] # Nobody}}

\* Of a task that waits for its merge, the rows of its reviews do not count.
CountsFor(i, t) == i.task = t /\ task[t].status = "in_progress" /\ i.role = "coder"

OrphanedIdle ==
    {t \in Task : /\ task[t].status \in {"in_progress", "merge_pending"} /\ task[t].old
                  /\ \A i \in running : ~ CountsFor(i, t)
                  /\ ActiveRunners(t) = {}}

DeadOwner ==
    {t \in Task : /\ task[t].status \in Open \ {"pending"}
                  /\ \E i \in running : i.task = t /\ OwnerDead(i)}

\* Faulty variant: a task is recovered with its runner, and once more by itself.
UnhandledTwice(runnerSignals, taskSignals) == taskSignals

\* handledTaskIds: runners come first, and their tasks are done with them.
Unhandled(runnerSignals, taskSignals) ==
    {s \in taskSignals : \A x \in runnerSignals : x.task # s.task}

\* Which runner is active on a task that two are at work on: any of them.
Actives == {active \in [Task -> Runner \union {Nobody}] :
              \A t \in Task : IF ActiveRunners(t) = {} THEN active[t] = Nobody
                              ELSE active[t] \in ActiveRunners(t)}

OrphanSignals(tasks) ==
    [kind : {"orphan"}, runner : {Nobody}, row : {Nobody}, task : tasks]

Found(active) ==
    LET runners == RunnerSignals("zombie", "frozen") \union RunnerSignals("dead", "dead")
        hanging == Hanging(active)
        orphans == OrphanedIdle \union (DeadOwner \ {s.task : s \in hanging})
    IN  runners \union Unhandled(runners, hanging \union OrphanSignals(orphans))

Signalled(t) == \E s \in healer.todo : s.task = t

\* The wakeup that runs each minute would find the task, or is about to recover it.
Noticed(t) == Signalled(t) \/ \E active \in Actives : \E s \in Found(active) : s.task = t

-------------------------------------------------------------------------------
(* The runners                                                             *)

\* S7: what was coded before goes to its review.
ActFor(t) ==
    CASE task[t].status = "merge_pending" -> "merge"
      [] task[t].status = "review"        -> "review"
      [] task[t].status = "in_progress"   -> "resume"
      [] task[t].status = "pending"       -> IF task[t].coded THEN "again" ELSE "start"

\* What is nearest to its end comes first.
Place(status) ==
    CASE status = "merge_pending" -> 0 [] status = "review" -> 1
      [] status = "in_progress" -> 2 [] status = "pending" -> 3

Selectable(t) == task[t].status \in Open /\ lock[t] = Nobody

\* Selection and lock.  The task is not yet the runner's current one.  It is rare
\* that this comes before a pass that finds the task, or in the seconds of one.
Claim(r, t) ==
    /\ Life(r) = "well" /\ runner[r].pc = "idle"
    /\ Selectable(t)
    /\ \A u \in Task : Selectable(u) => Place(task[t].status) <= Place(task[u].status)
    /\ lock' = [lock EXCEPT ![t] = r]
    /\ runner' = [runner EXCEPT ![r] =
                    [@ EXCEPT !.pc = "claimed", !.task = t, !.act = ActFor(t)]]
    /\ IF Noticed(t) THEN Fault ELSE UNCHANGED faults
    /\ UNCHANGED <<task, running, healer, incidents, owed>>

\* markTaskInProgress looks at the status again; S7 does not.
Entered(t, act) ==
    CASE act = "start" /\ task[t].status = "pending" ->
           [task[t] EXCEPT !.status = "in_progress", !.old = FALSE, !.revived = 0]
      [] act = "again" -> [task[t] EXCEPT !.status = "review", !.old = FALSE, !.revived = 0]
      [] OTHER         -> [task[t] EXCEPT !.old = FALSE]

\* A merge needs no provider.
Started(r) ==
    LET act == runner[r].act IN
    IF act = "merge" THEN {}
    ELSE [task : {runner[r].task}, owner : {r}, overtaken : {FALSE},
          role : {IF act \in Codes THEN "coder" ELSE "reviewer"},
          n    : IF act \in Codes THEN {1} ELSE 1..Reviewers]

\* The handler of SIGTERM unregisters the runner and exits: no task, lock or
\* invocation is touched.
Stopped(r) == [runner EXCEPT ![r] = [@ EXCEPT !.life = "dead", !.row = FALSE, !.told = FALSE]]

\* The task is the runner's current one; coder or reviewers are invoked.  Then a
\* process that has a SIGTERM to handle comes back to its event loop.
Begin(r) ==
    LET t == runner[r].task IN
    /\ Life(r) = "well" /\ runner[r].pc = "claimed"
    /\ runner' = IF runner[r].told THEN Stopped(r) ELSE [runner EXCEPT ![r].pc = "working"]
    /\ running' = running \union Started(r)
    /\ task' = [task EXCEPT ![t] = Entered(t, runner[r].act)]
    /\ owed' = [owed EXCEPT ![t] = IF @ < MaxOwed THEN @ + 1 ELSE @]
    /\ UNCHANGED <<lock, healer, incidents, faults>>

\* The status that a phase ends with, whatever it is by then.  In a slot the
\* failures are not forgotten when the coder succeeds.
After(t, act) ==
    CASE act \in Codes -> [task[t] EXCEPT !.status = "review", !.failures = IF Pooled THEN @ ELSE 0,
                                         !.old = FALSE, !.coded = TRUE, !.revived = 0]
      [] act \in {"review", "again"} -> [task[t] EXCEPT !.status = "merge_pending", !.failures = 0,
                                                       !.old = FALSE, !.revived = 0]
      [] act = "merge" -> [task[t] EXCEPT !.status = "completed", !.failures = 0, !.old = FALSE]

\* The rows of others that are left are older than the task's row from now on.
Finish(r) ==
    LET t == runner[r].task IN
    /\ Life(r) = "well" /\ runner[r].pc = "working"
    /\ task' = [task EXCEPT ![t] = After(t, runner[r].act)]
    /\ running' = {IF i.task = t THEN [i EXCEPT !.overtaken = TRUE] ELSE i :
                     i \in {j \in running : j.owner # r}}
    /\ lock' = [lock EXCEPT ![t] = IF @ = r THEN Nobody ELSE @]
    /\ runner' = [runner EXCEPT ![r] = [@ EXCEPT !.pc = "idle", !.act = "start", !.task = Nobody]]
    /\ UNCHANGED <<healer, incidents, owed, faults>>

-------------------------------------------------------------------------------
(* What goes wrong                                                         *)

Lives(r, life) == runner' = [runner EXCEPT ![r].life = life]

\* However often a provider falls silent.
Hang(r) ==
    /\ Life(r) = "well" /\ runner[r].pc = "working" /\ runner[r].act # "merge"
    /\ Lives(r, "silent")
    /\ UNCHANGED <<task, lock, running, healer, incidents, owed, faults>>

\* A provider that was given up answers; a process is stuck in a synchronous
\* command; it goes on again; it dies.
Disturbed(r) ==
    /\ \/ Life(r) = "silent" /\ Lives(r, "well") /\ Fault
       \/ Life(r) \in {"well", "silent"} /\ Lives(r, "frozen") /\ Fault
       \/ Life(r) = "frozen" /\ Lives(r, "well") /\ UNCHANGED faults
       \/ Alive(r) /\ Lives(r, "dead") /\ Fault
    /\ UNCHANGED <<task, lock, running, healer, incidents, owed>>

Stop(r) ==
    /\ Life(r) \in {"well", "silent"}
    /\ runner' = Stopped(r)
    /\ Fault
    /\ UNCHANGED <<task, lock, running, healer, incidents, owed>>

\* A process that was stuck goes on until it comes back to its event loop, where
\* it handles the signal; it may end its phase before.
Obey(r) ==
    /\ Life(r) \in {"well", "silent"} /\ runner[r].told
    /\ runner' = Stopped(r)
    /\ UNCHANGED <<task, lock, running, healer, incidents, owed, faults>>

\* The wakeup starts another runner, with a new id, when its pass is done.
Spawn(r) ==
    /\ ~ Alive(r) /\ ~ runner[r].row
    /\ healer = Resting
    /\ incidents < MaxIncidents => \A active \in Actives : Found(active) = {}
    /\ runner' = [runner EXCEPT ![r] = Rested]
    /\ lock' = [t \in Task |-> IF lock[t] = r THEN Gone ELSE lock[t]]
    /\ running' = {IF i.owner = r THEN [i EXCEPT !.owner = Gone] ELSE i : i \in running}
    /\ UNCHANGED <<task, healer, incidents, owed, faults>>

\* An hour after it was taken.  The owner is gone, or silent, and no pass finds
\* the task.
LeftBehind(t) ==
    /\ ~ Noticed(t)
    /\ lock[t] \in Runner => Life(lock[t]) \in {"silent", "dead"} \/ ~ runner[lock[t]].row

\* It is rare that the owner is at work still, or that no pass came in between.
LockLapses(t) ==
    /\ lock[t] # Nobody
    /\ lock' = [lock EXCEPT ![t] = Nobody]
    /\ IF LeftBehind(t) THEN UNCHANGED faults ELSE Fault
    /\ UNCHANGED <<task, running, runner, healer, incidents, owed>>

\* Ten minutes without a change of the row or a new invocation.  A runner that
\* has nothing else to do would have taken the task.
Ages(t) ==
    /\ task[t].status \in {"in_progress", "merge_pending"} /\ ~ task[t].old
    /\ \A r \in Runner : ~ (Life(r) = "well" /\ runner[r].pc = "idle" /\ lock[t] = Nobody)
    /\ task' = [task EXCEPT ![t].old = TRUE]
    /\ UNCHANGED <<lock, running, runner, healer, incidents, owed, faults>>

\* A runner is there, or will be in a minute, and takes the next task.
HasRoom(r) == \/ Life(r) = "well" /\ runner[r].pc = "idle"
              \/ ~ Alive(r) /\ ~ runner[r].row

Revived(row) == [row EXCEPT !.status = "pending", !.failures = 0, !.old = FALSE,
                            !.revived = @ + 1]

\* S4: half an hour after it was skipped, by the wakeup, before its pass.
Revive(t) ==
    /\ healer = Resting
    /\ task[t].status = "skipped" /\ task[t].revived < MaxRevivals
    /\ ~ \E r \in Runner, u \in Task : HasRoom(r) /\ Selectable(u)
    /\ task' = [task EXCEPT ![t] = Revived(@)]
    /\ lock' = [lock EXCEPT ![t] = Nobody]
    /\ UNCHANGED <<running, runner, healer, incidents, owed, faults>>

IncidentsAge ==
    /\ incidents > 0
    /\ incidents' = incidents - 1
    /\ UNCHANGED <<task, lock, running, runner, healer, owed, faults>>

-------------------------------------------------------------------------------
(* The clean-up, then detection and recovery, signal by signal             *)

\* Before the wakeup comes to the projects, and whatever the incidents.
Sweep ==
    /\ healer = Resting
    /\ Abandoned # {}
    /\ healer' = [Resting EXCEPT !.todo = Abandoned]
    /\ UNCHANGED <<task, lock, running, runner, incidents, owed, faults>>

\* A runner has the lock and waits for the pressure on the system to go down:
\* it is rare that the wakeup comes in between.
Admitted(t) == \E r \in Runner : Life(r) = "well" /\ runner[r].pc = "claimed" /\ runner[r].task = t

Detect ==
    /\ healer = Resting
    /\ incidents < MaxIncidents
    /\ \E active \in Actives :
         /\ Found(active) # {}
         /\ healer' = [Resting EXCEPT !.todo = Found(active)]
         /\ IF \E s \in Found(active) : s.kind = "orphan" /\ Admitted(s.task)
            THEN Fault ELSE UNCHANGED faults
    /\ UNCHANGED <<task, running, lock, runner, incidents, owed>>

Rank(kind) == CASE kind = "abandoned" -> 0 [] kind = "zombie" -> 1 [] kind = "dead" -> 2
                [] kind = "orphan" -> 3 [] kind = "hanging" -> 4

ComesNext(s) == s \in healer.todo /\ \A x \in healer.todo : Rank(s.kind) <= Rank(x.kind)

\* Only task signals escalate.
Escalates(s) ==
    s.kind \in {"orphan", "hanging"} /\ task[s.task].failures + 1 >= MaxRecoveryAttempts

\* Faulty variant: a process that does not answer is left alone.
KilledSoftly(r) == IF Life(r) = "frozen" THEN runner ELSE Stopped(r)

\* SIGTERM, and after ten seconds SIGKILL, which leaves the row.
Killed(r) ==
    IF Life(r) \in {"frozen", "dead"} THEN [runner EXCEPT ![r].life = "dead"] ELSE Stopped(r)

\* The runner is killed, whatever it does by now; whether to escalate was
\* decided before.  The wait for its end lets the others go on.
Kill ==
    /\ healer.killed = {}
    /\ \E s \in healer.todo :
          /\ ComesNext(s) /\ s.kind \in {"zombie", "hanging"}
          /\ runner' = Killed(s.runner)
          /\ healer' = [healer EXCEPT !.killed = {s}, !.skip = Escalates(s)]
    /\ UNCHANGED <<task, lock, running, incidents, owed, faults>>

\* Faulty variant: the restart forgets the failure.
Forgotten(failures) == failures

Counted(failures) == failures + 1

\* Faulty variant: the next runner counts as killed already.
WorkedOffKilled(s) == [healer EXCEPT !.todo = @ \ {s}, !.skip = FALSE]

WorkedOff(s) == [Resting EXCEPT !.todo = healer.todo \ {s}]

\* One transaction, whatever the status is by now: invocations are closed, the
\* lock is released, the task is reset or skipped, and a failure is counted.
\* The runner's row is deleted with it.
Recovered(s, skip) ==
    /\ task' = [t \in Task |->
                  IF t # s.task THEN task[t]
                  ELSE [task[t] EXCEPT !.status = IF skip THEN "skipped" ELSE "pending",
                                       !.failures = Counted(@), !.old = FALSE]]
    /\ running' = {i \in running : i.task # s.task}
    /\ lock' = [t \in Task |-> IF t = s.task THEN Nobody ELSE lock[t]]
    /\ runner' = [r \in Runner |->
                    [runner[r] EXCEPT !.row = IF r = s.runner THEN FALSE ELSE @]]
    /\ owed' = [t \in Task |-> IF t = s.task THEN owed[t] - 1 ELSE owed[t]]
    /\ incidents' = IF incidents < MaxIncidents THEN incidents + 1 ELSE incidents
    /\ healer' = WorkedOff(s)
    /\ UNCHANGED faults

\* SIGTERM alone, and nobody waits: a process that is stuck handles it later.
Dismissed(s) ==
    IF Life(s.runner) \in {"well", "silent"} THEN Stopped(s.runner)
    ELSE [runner EXCEPT ![s.runner] =
            [@ EXCEPT !.row = FALSE, !.told = Life(s.runner) = "frozen"]]

\* Invocations are closed and the lock is released, whatever the status; only a
\* task in progress is reset, and no failure is counted.
CleanedUp(s) ==
    /\ task' = [t \in Task |->
                  IF t = s.task /\ task[t].status = "in_progress"
                  THEN [task[t] EXCEPT !.status = "pending", !.old = FALSE] ELSE task[t]]
    /\ running' = {i \in running : i.task # s.task}
    /\ lock' = [t \in Task |-> IF t = s.task THEN Nobody ELSE lock[t]]

\* The row goes even when the project's database cannot be written.
Clean ==
    \E s \in healer.todo :
       /\ s.kind = "abandoned"
       /\ \/ CleanedUp(s) /\ UNCHANGED faults
          \/ Fault /\ UNCHANGED <<task, running, lock>>
       /\ runner' = Dismissed(s)
       /\ healer' = WorkedOff(s)
       /\ UNCHANGED <<incidents, owed>>

Recover ==
    \E s \in healer.todo :
       /\ ComesNext(s)
       /\ \/ s \in healer.killed /\ Recovered(s, healer.skip)
          \/ s.kind \in {"dead", "orphan"} /\ Recovered(s, Escalates(s))

-------------------------------------------------------------------------------

Runs(r) == (\E t \in Task : Claim(r, t)) \/ Begin(r) \/ Finish(r)

Healer == Sweep \/ Clean \/ Detect \/ Kill \/ Recover

HealthNext ==
    \/ \E r \in Runner : Runs(r) \/ Hang(r) \/ Disturbed(r) \/ Stop(r) \/ Obey(r)
                         \/ Spawn(r)
    \/ \E t \in Task : LockLapses(t) \/ Ages(t) \/ Revive(t)
    \/ IncidentsAge
    \/ Healer

HealthSpec == HealthInit /\ [][HealthNext]_healthVars

\* A runner that is well goes on, the wakeup recovers and starts runners every
\* minute, time passes.  Nothing is fair about what goes wrong: a provider may
\* be silent, and a process stuck, for ever.
FairHealthSpec ==
    /\ HealthSpec
    /\ \A r \in Runner : /\ WF_healthVars(Runs(r)) /\ WF_healthVars(Obey(r))
                          /\ WF_healthVars(Spawn(r))
    /\ WF_healthVars(Healer) /\ WF_healthVars(IncidentsAge)
    /\ \A t \in Task : /\ WF_healthVars(Ages(t))
                       /\ WF_healthVars(LeftBehind(t) /\ LockLapses(t))

-------------------------------------------------------------------------------
(* Properties                                                              *)

(***************************************************************************)
(* However often its providers fall silent, a task comes to an end: every  *)
(* hang is found and counted, the count survives the restarts, and enough  *)
(* of them skip the task.  Crashes and stops, which are not counted alike, *)
(* leave nothing behind that no check finds, a runner, a lock or an        *)
(* invocation (the five detections together, and maxRecoveryAttempts).     *)
(***************************************************************************)
TasksEnd == \A t \in Task : []<>(task[t].status \in {"completed", "skipped"})

(***************************************************************************)
(* One attempt is counted as one failure, although a dead runner and the   *)
(* invocation it left are two signals of it, and although signals are      *)
(* worked off long after they were read (handledTaskIds).                  *)
(***************************************************************************)
FailuresAreAttempts == \A t \in Task : owed[t] >= 0

(***************************************************************************)
(* A process at work that has no row in runners, which no check would find *)
(* when it hangs, has a SIGTERM to handle: it was stuck when the clean-up  *)
(* deleted its row.  Recovery leaves no such process behind: it has killed *)
(* the runner before it deletes the row, whatever came in between.         *)
(***************************************************************************)
WorkersAreKnown ==
    \A r \in Runner : Alive(r) /\ runner[r].pc = "working" => runner[r].row \/ runner[r].told

(***************************************************************************)
(* A runner whose heartbeat is late is killed, so that nobody works on     *)
(* unseen (docs/cli/RUNNERS.md, step 3; docs/stuck-task-detection.md,      *)
(* "Recovery" of a zombie runner).                                         *)
(***************************************************************************)
NobodyWorksUnseen ==
    \A r \in Runner : Alive(r) /\ runner[r].pc = "working" => runner[r].row

\* What a signal is about.  A runner that was found dead, and one that was
\* killed for its signal, is dead until the pass is over: nobody takes its place.
SignalInv ==
    /\ \A s \in healer.todo :
         /\ s.runner \in IF s.kind = "orphan" THEN {Nobody} ELSE Runner
         /\ s.kind \in {"orphan", "hanging"} => s.task \in Task
         /\ s.kind = "dead" => ~ Alive(s.runner)
    /\ \A s \in healer.killed : s.kind # "orphan" /\ ~ Alive(s.runner)

\* The inductive invariant behind WorkersAreKnown: a row is deleted by the process
\* itself at its end, for a signal of recovery, and then the process is dead, or by
\* the clean-up.
KnownInv ==
    /\ HealthTypeOK
    /\ \A r \in Runner : /\ runner[r].pc # "idle" => runner[r].task \in Task
                         /\ Alive(r) => runner[r].row \/ runner[r].told
    /\ SignalInv

-------------------------------------------------------------------------------
(* Why one attempt is one failure.  What has gone wrong before pays for the *)
(* failures that are counted too often; the first mishap pays for none.     *)

Credit(t) == owed[t] + (IF faults = 0 THEN 0 ELSE faults - 1)

One(b) == IF b THEN 1 ELSE 0

AtWork(r, t) == runner[r].pc = "working" /\ runner[r].task = t

Signals(t) == {s \in healer.todo : s.task = t}

FoundAt(r, t) == \E s \in Signals(t) : s.runner = r

\* Runners that the next pass finds with the task.
Lost(t) ==
    {r \in Runner : Current(r) = t /\ Life(r) \in {"frozen", "dead"} /\ ~ FoundAt(r, t)}

Rows(t) == {i \in running : i.task = t /\ ~ i.overtaken}

\* Who is at work and has a row: a process that was told to end counts no more.
Engaged(r, t) == AtWork(r, t) /\ runner[r].row

\* Somebody works on the task whom the pass knows nothing of.
Unseen(t) == \E r \in Runner : Engaged(r, t) /\ Life(r) = "well" /\ ~ FoundAt(r, t)

\* Somebody works on it and no invocation of it is his (any more).
Unlisted(t) == \E r \in Runner : /\ Engaged(r, t) /\ Life(r) \in {"well", "frozen"}
                                 /\ \A i \in Rows(t) : i.owner # r

HasOvertaken(t) == \E i \in running : i.task = t /\ i.overtaken

Ever(t) == task[t].status \notin {"pending", "skipped"}

\* What may still be counted: for the signals of this pass and the runners the
\* next one finds, for the rows it finds, for the task itself.
PassDue(t)   == Cardinality(Signals(t)) + Cardinality(Lost(t)) + One(Unseen(t))
RowsDue(t)   == Cardinality(Rows(t)) + One(Unlisted(t))
StatusDue(t) == One(Ever(t)) + One(HasOvertaken(t))

Paid(t) ==
    /\ IsFiniteSet(Signals(t)) /\ IsFiniteSet(Lost(t)) /\ IsFiniteSet(Rows(t))
    /\ PassDue(t) <= Credit(t) /\ RowsDue(t) <= Credit(t) /\ StatusDue(t) <= Credit(t)
    /\ HasOvertaken(t) => Ever(t)

PaidInv == \A t \in Task : Paid(t)

\* A process that was told to end ends before its phase does.
Complies == \A r \in Runner : Finish(r) => ~ runner[r].told

\* Until something goes wrong, one runner is at a task, and has its lock; the
\* only signals of a task that somebody works on are of the hang of this one.
Orderly(r) ==
    LET t == runner[r].task IN
    /\ Life(r) # "frozen" /\ (Life(r) = "dead" => ~ runner[r].row) /\ ~ runner[r].told
    /\ Life(r) = "silent" => runner[r].pc = "working" /\ runner[r].act # "merge"
    /\ Alive(r) /\ runner[r].pc # "idle" => lock[t] = r
    /\ Alive(r) /\ runner[r].pc = "claimed" =>
         task[t].status \in Open /\ runner[r].act = ActFor(t) /\ ~ Signalled(t)
    /\ Alive(r) /\ runner[r].pc = "working" =>
         /\ task[t].status \in Open \ {"pending"}
         /\ runner[r].act # "merge" => \E i \in running : i.task = t /\ i.owner = r
         /\ \A s \in Signals(t) : s.kind = "hanging" /\ s.runner = r

Attended(i) ==
    /\ ~ i.overtaken
    /\ \/ Signalled(i.task)
       \/ i.owner \in Runner /\ Alive(i.owner) /\ AtWork(i.owner, i.task)

Genuine(s) ==
    \/ s.kind = "orphan"
    \/ /\ s.kind = "hanging"
       /\ Alive(s.runner) => Life(s.runner) = "silent" /\ AtWork(s.runner, s.task)

Order ==
    /\ \A r \in Runner : Orderly(r)
    /\ \A i \in running : Attended(i)
    /\ \A s \in healer.todo : Genuine(s)

OrderInv == faults = 0 => Order

(***************************************************************************)
(* A runner that hangs is killed once, and counted as one failure (the     *)
(* table of failure modes in docs/stuck-task-detection.md).  One review by *)
(* several reviewers that hangs has several rows in task_invocations.      *)
(***************************************************************************)
HangsAreKilledOnce == [][\A s \in healer'.killed \ healer.killed : runner[s.runner].row]_healthVars

(***************************************************************************)
(* What recovery resets is not under work by a runner that is well (the    *)
(* "conservative set of actions" of stuck-task-recovery.ts).               *)
(***************************************************************************)
HealthyWorkIsSpared ==
    [][Recover => \A t \in Task :
         owed'[t] < owed[t] => \A r \in Runner : Current(r) = t => Life(r) # "well"]_healthVars
===============================================================================
