------------------------------ MODULE WatchProofs ------------------------------
(* What the wakeup watches over, proved: of StuckTasks for any number of tasks  *)
(* and runners, of Monitor for any number of anomalies, responders and          *)
(* disturbances and any limit of attempts.                                      *)
EXTENDS StuckTasks, Monitor, FiniteSetTheorems, TLAPS

-------------------------------------------------------------------------------
(* Types of StuckTasks *)

TaskState == [status : Status, failures : Nat, old : BOOLEAN, coded : BOOLEAN,
              revived : 0..MaxRevivals]

RunnerState == [life : {"well", "silent", "frozen", "dead"}, row : BOOLEAN, told : BOOLEAN,
                pc : {"idle", "claimed", "working"}, act : Act,
                task : Task \union {Nobody}]

HealerState == [todo : SUBSET Signal, killed : SUBSET Signal, skip : BOOLEAN]

\* What KnownInv says of one runner.
Placed(s) == /\ s \in RunnerState
             /\ s.pc # "idle" => s.task \in Task
             /\ s.life # "dead" => s.row \/ s.told

LEMMA KnownParts ==
  KnownInv <=> /\ task \in [Task -> TaskState]
               /\ lock \in [Task -> Runner \union {Nobody, Gone}]
               /\ running \subseteq Invocation
               /\ runner \in [Runner -> RunnerState] /\ \A r \in Runner : Placed(runner[r])
               /\ healer \in HealerState /\ healer.killed \subseteq healer.todo
               /\ incidents \in 0..MaxIncidents
               /\ owed \in [Task -> Int]
               /\ faults \in 0..MaxFaults
               /\ SignalInv
BY DEF KnownInv, HealthTypeOK, TaskState, RunnerState, HealerState, Placed, Alive, Life

LEMMA KnownNext ==
  ASSUME task' \in [Task -> TaskState],
         lock' \in [Task -> Runner \union {Nobody, Gone}],
         running' \subseteq Invocation,
         runner' \in [Runner -> RunnerState], \A r \in Runner : Placed(runner'[r]),
         healer' \in HealerState, healer'.killed \subseteq healer'.todo,
         incidents' \in 0..MaxIncidents, owed' \in [Task -> Int], faults' \in 0..MaxFaults,
         SignalInv'
  PROVE  KnownInv'
BY DEF KnownInv, HealthTypeOK, TaskState, RunnerState, HealerState, Placed, Alive, Life

\* Nobody comes back from the dead, and nothing is added to what is to be worked off.
LEMMA SignalsStay ==
  ASSUME SignalInv, \A r \in Runner : ~ Alive(r) => ~ Alive(r)',
         healer'.todo \subseteq healer.todo, healer'.killed \subseteq healer.killed,
         healer.killed \subseteq healer.todo
  PROVE  SignalInv'
BY DEF SignalInv

LEMMA Bounds == /\ Reviewers \in Nat \ {0} /\ MaxIncidents \in Nat \ {0}
                /\ MaxRevivals \in Nat /\ MaxOwed \in Nat /\ MaxFaults \in Nat
                /\ Nobody \notin Runner /\ Nobody \notin Task
BY StuckAssumption

LEMMA Statuses == /\ 0 \in 0..MaxRevivals
                  /\ {"pending", "in_progress", "review", "merge_pending", "completed",
                      "skipped"} \subseteq Status
BY Bounds DEF Status, Open

LEMMA FaultType == ASSUME faults \in 0..MaxFaults, Fault PROVE faults' \in 0..MaxFaults
BY Bounds DEF Fault

LEMMA RestedType == Placed(Rested)
BY DEF Placed, Rested, RunnerState, Act

-------------------------------------------------------------------------------
(* The runners *)

LEMMA ClaimKnown == ASSUME KnownInv, NEW r \in Runner, NEW t \in Task, Claim(r, t)
                    PROVE  KnownInv'
<1>1. task[t].status \in Open BY DEF Claim, Selectable
<1>2. ActFor(t) \in Act BY <1>1 DEF ActFor, Act, Open
<1>3. \A x \in Runner : Placed(runner'[x]) /\ runner'[x].life = runner[x].life
  BY <1>2, KnownParts DEF Claim, Placed, RunnerState, Life
<1>4. faults' \in 0..MaxFaults BY FaultType, KnownParts DEF Claim
<1>5. SignalInv' BY <1>3, KnownParts, SignalsStay DEF Claim, Alive, Life
<1>6. lock' \in [Task -> Runner \union {Nobody, Gone}] BY KnownParts DEF Claim
<1>7. runner' \in [Runner -> RunnerState]
  BY <1>2, KnownParts DEF Claim, RunnerState
<1> QED BY <1>3, <1>4, <1>5, <1>6, <1>7, KnownParts, KnownNext DEF Claim

LEMMA StoppedPlaced ==
  ASSUME KnownInv, NEW r \in Runner, runner' = Stopped(r)
  PROVE  /\ runner' \in [Runner -> RunnerState]
         /\ \A x \in Runner : Placed(runner'[x]) /\ (~ Alive(x) => ~ Alive(x)')
         /\ ~ Alive(r)'
BY KnownParts DEF Stopped, Placed, RunnerState, Alive, Life

LEMMA BeginKnown == ASSUME KnownInv, NEW r \in Runner, Begin(r) PROVE KnownInv'
<1> DEFINE t == runner[r].task
<1>1. t \in Task /\ runner[r].act \in Act BY KnownParts DEF Begin, Placed, RunnerState
<1>2. Entered(t, runner[r].act) \in TaskState
  <2>1. task[t] \in TaskState BY <1>1, KnownParts
  <2>2. [task[t] EXCEPT !.old = FALSE] \in TaskState BY <2>1 DEF TaskState
  <2>3. /\ [task[t] EXCEPT !.status = "in_progress", !.old = FALSE, !.revived = 0] \in TaskState
        /\ [task[t] EXCEPT !.status = "review", !.old = FALSE, !.revived = 0] \in TaskState
    BY <2>1, Statuses DEF TaskState
  <2> QED BY <2>2, <2>3 DEF Entered
<1>3. Started(r) \subseteq Invocation
  <2>1. 1 \in 1..Reviewers BY Bounds
  <2> QED BY <1>1, <2>1 DEF Started, Invocation, Role
<1>4. runner' \in [Runner -> RunnerState] /\ \A x \in Runner :
        Placed(runner'[x]) /\ (~ Alive(x) => ~ Alive(x)')
  <2>1. CASE runner' = Stopped(r) BY <2>1, StoppedPlaced
  <2>2. CASE runner' = [runner EXCEPT ![r].pc = "working"]
    BY <1>1, <2>2, KnownParts DEF Placed, RunnerState, Alive, Life
  <2> QED BY <2>1, <2>2 DEF Begin
<1>5. SignalInv' BY <1>4, KnownParts, SignalsStay DEF Begin
<1>6. owed' \in [Task -> Int]
  <2>1. owed[t] \in Int BY <1>1, KnownParts
  <2>2. (IF owed[t] < MaxOwed THEN owed[t] + 1 ELSE owed[t]) \in Int BY <2>1
  <2> QED BY <2>2, KnownParts DEF Begin
<1>7. task' \in [Task -> TaskState] BY <1>1, <1>2, KnownParts DEF Begin
<1>8. running' \subseteq Invocation BY <1>3, KnownParts DEF Begin
<1> QED BY <1>4, <1>5, <1>6, <1>7, <1>8, KnownParts, KnownNext DEF Begin

LEMMA FinishKnown == ASSUME KnownInv, NEW r \in Runner, Finish(r) PROVE KnownInv'
<1> DEFINE t == runner[r].task
<1>1. t \in Task /\ runner[r].act \in Act BY KnownParts DEF Finish, Placed, RunnerState
<1>2. After(t, runner[r].act) \in TaskState
  <2>1. task[t] \in TaskState BY <1>1, KnownParts
  <2>2. \A n \in Nat : [task[t] EXCEPT !.status = "review", !.failures = n, !.old = FALSE,
                                     !.coded = TRUE, !.revived = 0] \in TaskState
    BY <2>1, Statuses DEF TaskState
  <2>3. (IF Pooled THEN task[t].failures ELSE 0) \in Nat BY <2>1 DEF TaskState
  <2>4. /\ [task[t] EXCEPT !.status = "merge_pending", !.failures = 0, !.old = FALSE,
                           !.revived = 0] \in TaskState
        /\ [task[t] EXCEPT !.status = "completed", !.failures = 0, !.old = FALSE] \in TaskState
    BY <2>1, Statuses DEF TaskState
  <2> QED BY <1>1, <2>2, <2>3, <2>4 DEF After, Act, Codes
<1>3. running' \subseteq Invocation
  BY KnownParts DEF Finish, Invocation
<1>4. runner' = [runner EXCEPT ![r] =
                    [@ EXCEPT !.pc = "idle", !.act = "start", !.task = Nobody]]
  BY DEF Finish
<1>5. "start" \in Act BY DEF Act
<1>6. runner' \in [Runner -> RunnerState] /\ \A x \in Runner :
        Placed(runner'[x]) /\ runner'[x].life = runner[x].life
  BY <1>4, <1>5, KnownParts DEF Placed, RunnerState
<1>7. SignalInv' BY <1>6, KnownParts, SignalsStay DEF Finish, Alive, Life
<1>8. lock' \in [Task -> Runner \union {Nobody, Gone}] BY KnownParts DEF Finish
<1>9. task' \in [Task -> TaskState] BY <1>1, <1>2, KnownParts DEF Finish
<1> QED BY <1>3, <1>6, <1>7, <1>8, <1>9, KnownParts, KnownNext DEF Finish

\* A runner that was not dead has another life.
LEMMA LivesKnown ==
  ASSUME KnownInv, NEW r \in Runner, Alive(r),
         NEW life \in {"well", "silent", "frozen", "dead"}, Lives(r, life),
         faults' \in 0..MaxFaults, UNCHANGED <<task, lock, running, healer, incidents, owed>>
  PROVE  KnownInv'
<1>1. runner' \in [Runner -> RunnerState] /\ \A x \in Runner : Placed(runner'[x])
  BY KnownParts DEF Lives, Placed, RunnerState, Alive, Life
<1>2. \A x \in Runner : ~ Alive(x) => ~ Alive(x)' BY KnownParts DEF Lives, Alive, Life
<1>3. SignalInv' BY <1>2, KnownParts, SignalsStay
<1> QED BY <1>1, <1>3, KnownParts, KnownNext

LEMMA MishapKnown == ASSUME KnownInv, NEW r \in Runner, Hang(r) \/ Disturbed(r)
                     PROVE  KnownInv'
<1>1. faults' \in 0..MaxFaults BY FaultType, KnownParts DEF Hang, Disturbed
<1> QED BY <1>1, LivesKnown DEF Hang, Disturbed, Alive

LEMMA StopKnown == ASSUME KnownInv, NEW r \in Runner, Stop(r) \/ Obey(r) PROVE KnownInv'
<1>1. faults' \in 0..MaxFaults BY FaultType, KnownParts DEF Stop, Obey
<1>2. SignalInv' BY StoppedPlaced, KnownParts, SignalsStay DEF Stop, Obey
<1> QED BY <1>1, <1>2, StoppedPlaced, KnownParts, KnownNext DEF Stop, Obey

\* The one step after which a dead runner lives: no pass is under way.
LEMMA SpawnKnown == ASSUME KnownInv, NEW r \in Runner, Spawn(r) PROVE KnownInv'
<1>1. SignalInv' BY DEF Spawn, Resting, SignalInv
<1>2. runner' \in [Runner -> RunnerState] /\ \A x \in Runner : Placed(runner'[x])
  BY RestedType, KnownParts DEF Spawn, Placed
<1>3. running' \subseteq Invocation BY KnownParts DEF Spawn, Invocation
<1>4. lock' \in [Task -> Runner \union {Nobody, Gone}] BY KnownParts DEF Spawn
<1> QED BY <1>1, <1>2, <1>3, <1>4, KnownParts, KnownNext DEF Spawn

LEMMA RunnerKnown ==
  ASSUME KnownInv, NEW r \in Runner,
         Runs(r) \/ Hang(r) \/ Disturbed(r) \/ Stop(r) \/ Obey(r) \/ Spawn(r)
  PROVE  KnownInv'
BY ClaimKnown, BeginKnown, FinishKnown, MishapKnown, StopKnown, SpawnKnown DEF Runs

-------------------------------------------------------------------------------
(* Time, and the wakeup *)

LEMMA TaskKnown == ASSUME KnownInv, NEW t \in Task, LockLapses(t) \/ Ages(t) \/ Revive(t)
                   PROVE  KnownInv'
<1>1. faults' \in 0..MaxFaults BY FaultType, KnownParts DEF LockLapses, Ages, Revive
<1>2. task' \in [Task -> TaskState]
  <2>1. task[t] \in TaskState BY KnownParts
  <2>2. [task[t] EXCEPT !.old = TRUE] \in TaskState BY <2>1 DEF TaskState
  <2>3. ASSUME task[t].revived < MaxRevivals
        PROVE  Revived(task[t]) \in TaskState
    <3>1. task[t].revived + 1 \in 0..MaxRevivals BY <2>1, <2>3, Bounds DEF TaskState
    <3> QED BY <2>1, <3>1, Statuses DEF TaskState, Revived
  <2> QED BY <2>2, <2>3, KnownParts DEF LockLapses, Ages, Revive
<1>3. lock' \in [Task -> Runner \union {Nobody, Gone}]
  BY KnownParts DEF LockLapses, Ages, Revive
<1>4. UNCHANGED <<running, runner, healer, incidents, owed>> BY DEF LockLapses, Ages, Revive
<1>5. SignalInv' BY <1>4, KnownParts, SignalsStay DEF Alive, Life
<1> QED BY <1>1, <1>2, <1>3, <1>4, <1>5, KnownParts, KnownNext

LEMMA IncidentsKnown == ASSUME KnownInv, IncidentsAge PROVE KnownInv'
<1>1. SignalInv' BY KnownParts, SignalsStay DEF IncidentsAge, Alive, Life
<1>2. incidents' \in 0..MaxIncidents BY Bounds, KnownParts DEF IncidentsAge
<1> QED BY <1>1, <1>2, KnownParts, KnownNext DEF IncidentsAge

LEMMA CurrentType == ASSUME KnownInv, NEW r \in Runner PROVE Current(r) \in Task \union {Nobody}
BY KnownParts DEF Current, Placed

\* What detection finds is what it takes it for.
LEMMA FoundSound ==
  ASSUME KnownInv, NEW active \in Actives, NEW s \in Found(active)
  PROVE  /\ s \in Signal
         /\ s.runner \in IF s.kind = "orphan" THEN {Nobody} ELSE Runner
         /\ s.kind \in {"orphan", "hanging"} => s.task \in Task
         /\ s.kind = "dead" => ~ Alive(s.runner)
<1>1. CASE s \in RunnerSignals("zombie", "frozen") \union RunnerSignals("dead", "dead")
  BY <1>1, CurrentType DEF RunnerSignals, Signal, Alive
<1>2. CASE s \in Hanging(active)
  <2>1. PICK i \in running : /\ active[i.task] # Nobody
                             /\ s = [kind |-> "hanging", runner |-> active[i.task],
                                     task |-> i.task, row |-> i]
    BY <1>2 DEF Hanging
  <2>2. i \in Invocation /\ i.task \in Task BY <2>1, KnownParts DEF Invocation
  <2>3. active[i.task] \in Runner BY <2>1, <2>2 DEF Actives
  <2> QED BY <2>1, <2>2, <2>3 DEF Signal
<1>3. CASE s \in OrphanSignals(OrphanedIdle \union (DeadOwner \ {x.task : x \in Hanging(active)}))
  <2>1. s.task \in Task BY <1>3 DEF OrphanSignals, OrphanedIdle, DeadOwner
  <2> QED BY <1>3, <2>1 DEF OrphanSignals, Signal
<1> QED BY <1>1, <1>2, <1>3 DEF Found, Unhandled

LEMMA DetectKnown == ASSUME KnownInv, Detect PROVE KnownInv'
<1>1. PICK active \in Actives : /\ healer' = [Resting EXCEPT !.todo = Found(active)]
                               /\ \/ Fault
                                  \/ UNCHANGED faults
  BY DEF Detect
<1>2. faults' \in 0..MaxFaults BY <1>1, FaultType, KnownParts
<1>3. healer' \in HealerState /\ healer'.killed = {} /\ healer'.todo = Found(active)
  BY <1>1, FoundSound DEF Resting, HealerState
<1>4. SignalInv' BY <1>3, FoundSound DEF SignalInv, Detect, Alive, Life
<1> QED BY <1>2, <1>3, <1>4, KnownParts, KnownNext DEF Detect

LEMMA AbandonedSound ==
  ASSUME KnownInv, NEW s \in Abandoned
  PROVE  s \in Signal /\ s.kind = "abandoned" /\ s.runner \in Runner /\ s.row = Nobody
BY CurrentType DEF Abandoned, RunnerSignals, Signal

LEMMA SweepKnown == ASSUME KnownInv, Sweep PROVE KnownInv'
<1>1. healer' \in HealerState /\ healer'.killed = {} /\ healer'.todo = Abandoned
  BY AbandonedSound DEF Sweep, Resting, HealerState
<1>2. SignalInv' BY <1>1, AbandonedSound DEF SignalInv
<1> QED BY <1>1, <1>2, KnownParts, KnownNext DEF Sweep

LEMMA CleanKnown == ASSUME KnownInv, Clean PROVE KnownInv'
<1>1. PICK s \in healer.todo : /\ s.kind = "abandoned"
                              /\ \/ CleanedUp(s) /\ UNCHANGED faults
                                 \/ Fault /\ UNCHANGED <<task, running, lock>>
                              /\ runner' = Dismissed(s)
                              /\ healer' = WorkedOff(s)
                              /\ UNCHANGED <<incidents, owed>>
  BY DEF Clean
<1>2. s.runner \in Runner BY <1>1, KnownParts DEF SignalInv
<1>3. runner' \in [Runner -> RunnerState] /\ \A x \in Runner :
        Placed(runner'[x]) /\ (~ Alive(x) => ~ Alive(x)')
  <2>1. CASE runner' = Stopped(s.runner) BY <1>2, <2>1, StoppedPlaced
  <2>2. CASE /\ Life(s.runner) = "frozen"
             /\ runner' = [runner EXCEPT ![s.runner] = [@ EXCEPT !.row = FALSE, !.told = TRUE]]
    <3>1. runner[s.runner] \in RunnerState /\ Placed(runner[s.runner]) BY <1>2, KnownParts
    <3>2. runner'[s.runner] \in RunnerState /\ Placed(runner'[s.runner])
      BY <1>2, <2>2, <3>1, KnownParts DEF Placed, RunnerState, Life
    <3>3. \A x \in Runner : x # s.runner => runner'[x] = runner[x] BY <2>2, KnownParts
    <3>4. runner'[s.runner].life = runner[s.runner].life
      BY <1>2, <2>2, <3>1, KnownParts DEF RunnerState
    <3>5. runner' = [x \in Runner |-> runner'[x]] BY <2>2, KnownParts
    <3> QED BY <3>2, <3>3, <3>4, <3>5, KnownParts DEF Alive, Life
  <2>3. CASE /\ Life(s.runner) = "dead"
             /\ runner' = [runner EXCEPT ![s.runner] = [@ EXCEPT !.row = FALSE, !.told = FALSE]]
    <3>1. runner[s.runner] \in RunnerState /\ Placed(runner[s.runner]) BY <1>2, KnownParts
    <3>2. runner'[s.runner] \in RunnerState /\ Placed(runner'[s.runner])
      BY <1>2, <2>3, <3>1, KnownParts DEF Placed, RunnerState, Life
    <3>3. \A x \in Runner : x # s.runner => runner'[x] = runner[x] BY <2>3, KnownParts
    <3>4. runner'[s.runner].life = runner[s.runner].life
      BY <1>2, <2>3, <3>1, KnownParts DEF RunnerState
    <3>5. runner' = [x \in Runner |-> runner'[x]] BY <2>3, KnownParts
    <3> QED BY <3>2, <3>3, <3>4, <3>5, KnownParts DEF Alive, Life
  <2>4. Life(s.runner) \in {"well", "silent", "frozen", "dead"}
    BY <1>2, KnownParts DEF RunnerState, Life
  <2> QED BY <1>1, <2>1, <2>2, <2>3, <2>4 DEF Dismissed
<1>4. task' \in [Task -> TaskState]
  <2>1. ASSUME NEW t \in Task
        PROVE  [task[t] EXCEPT !.status = "pending", !.old = FALSE] \in TaskState
    BY Statuses, KnownParts DEF TaskState
  <2> QED BY <1>1, <2>1, KnownParts DEF CleanedUp
<1>5. lock' \in [Task -> Runner \union {Nobody, Gone}] BY <1>1, KnownParts DEF CleanedUp
<1>6. running' \subseteq Invocation BY <1>1, KnownParts DEF CleanedUp
<1>7. healer' \in HealerState /\ healer'.killed = {} /\ healer'.todo \subseteq healer.todo
  BY <1>1, KnownParts DEF WorkedOff, Resting, HealerState
<1>8. SignalInv' BY <1>3, <1>7, KnownParts, SignalsStay
<1>9. faults' \in 0..MaxFaults BY <1>1, FaultType, KnownParts
<1> QED BY <1>1, <1>3, <1>4, <1>5, <1>6, <1>7, <1>8, <1>9, KnownParts, KnownNext

LEMMA KillKnown == ASSUME KnownInv, Kill PROVE KnownInv'
<1>1. PICK s \in healer.todo : /\ s.kind \in {"zombie", "hanging"}
                              /\ runner' = Killed(s.runner)
                              /\ healer' = [healer EXCEPT !.killed = {s}, !.skip = Escalates(s)]
  BY DEF Kill
<1>2. s.runner \in Runner BY <1>1, KnownParts DEF SignalInv
<1>3. /\ runner' \in [Runner -> RunnerState]
      /\ \A x \in Runner : Placed(runner'[x]) /\ (~ Alive(x) => ~ Alive(x)')
      /\ ~ Alive(s.runner)'
  <2>1. CASE runner' = Stopped(s.runner) BY <1>2, <2>1, StoppedPlaced
  <2>2. CASE runner' = [runner EXCEPT ![s.runner].life = "dead"]
    BY <1>2, <2>2, KnownParts DEF Placed, RunnerState, Alive, Life
  <2> QED BY <1>1, <2>1, <2>2 DEF Killed
<1>4. Escalates(s) \in BOOLEAN BY DEF Escalates
<1>5. healer' \in HealerState /\ healer'.killed = {s} /\ healer'.todo = healer.todo
  BY <1>1, <1>4, KnownParts DEF HealerState
<1>6. SignalInv' BY <1>1, <1>2, <1>3, <1>5, KnownParts DEF SignalInv
<1> QED BY <1>1, <1>3, <1>5, <1>6, KnownParts, KnownNext DEF Kill

\* What is recovered was dead when it was found, was killed since, or is an orphan.
LEMMA RecoveredIsDead ==
  ASSUME KnownInv, NEW s \in healer.todo,
         s \in healer.killed \/ s.kind \in {"dead", "orphan"}
  PROVE  s.runner \in Runner => ~ Alive(s.runner)
BY Bounds, KnownParts DEF SignalInv

LEMMA RecoverKnown == ASSUME KnownInv, Recover PROVE KnownInv'
<1>1. PICK s \in healer.todo, skip \in BOOLEAN :
        /\ s \in healer.killed \/ s.kind \in {"dead", "orphan"}
        /\ Recovered(s, skip)
  <2>1. healer.skip \in BOOLEAN BY KnownParts DEF HealerState
  <2>2. \A s \in healer.todo : Escalates(s) \in BOOLEAN BY DEF Escalates
  <2> QED BY <2>1, <2>2 DEF Recover
<1>2. s.runner \in Runner => ~ Alive(s.runner) BY <1>1, RecoveredIsDead
<1>3. task' \in [Task -> TaskState]
  <2>1. ASSUME NEW t \in Task
        PROVE  [task[t] EXCEPT !.status = IF skip THEN "skipped" ELSE "pending",
                               !.failures = Counted(@), !.old = FALSE] \in TaskState
    <3>1. task[t] \in TaskState /\ task[t].failures + 1 \in Nat BY KnownParts DEF TaskState
    <3> QED BY <3>1, Statuses DEF Counted, TaskState
  <2> QED BY <1>1, <2>1, KnownParts DEF Recovered
<1>4. lock' \in [Task -> Runner \union {Nobody, Gone}] BY <1>1, KnownParts DEF Recovered
<1>5. running' \subseteq Invocation BY <1>1, KnownParts DEF Recovered
<1>6. \A x \in Runner : Placed(runner'[x]) /\ runner'[x].life = runner[x].life
  BY <1>1, <1>2, KnownParts DEF Recovered, Placed, RunnerState, Alive, Life
<1>7. runner' \in [Runner -> RunnerState] BY <1>1, <1>6 DEF Recovered, Placed
<1>8. healer' \in HealerState /\ healer'.killed = {} /\ healer'.todo \subseteq healer.todo
  BY <1>1, KnownParts DEF Recovered, WorkedOff, Resting, HealerState
<1>9. SignalInv' BY <1>6, <1>8, KnownParts, SignalsStay DEF Alive, Life
<1>10. owed' \in [Task -> Int]
  <2>1. \A t \in Task : owed[t] \in Int /\ owed[t] - 1 \in Int BY KnownParts
  <2> QED BY <1>1, <2>1 DEF Recovered
<1>11. incidents' \in 0..MaxIncidents
  <2>1. incidents' = IF incidents < MaxIncidents THEN incidents + 1 ELSE incidents
    BY <1>1 DEF Recovered
  <2> QED BY <2>1, Bounds, KnownParts
<1> QED BY <1>1, <1>3, <1>4, <1>5, <1>6, <1>7, <1>8, <1>9, <1>10, <1>11, KnownParts, KnownNext
        DEF Recovered

-------------------------------------------------------------------------------

LEMMA InitKnown == HealthInit => KnownInv
<1> SUFFICES ASSUME HealthInit PROVE KnownInv OBVIOUS
<1>1. task \in [Task -> TaskState] BY Bounds DEF HealthInit, TaskState, Status, Open
<1>2. healer \in HealerState /\ healer.killed = {} /\ healer.todo = {}
  BY DEF HealthInit, Resting, HealerState
<1>3. SignalInv BY <1>2 DEF SignalInv
<1>4. runner \in [Runner -> RunnerState] /\ \A r \in Runner : Placed(runner[r])
  BY RestedType DEF HealthInit, Placed
<1> QED BY <1>1, <1>2, <1>3, <1>4, Bounds, KnownParts DEF HealthInit

LEMMA StepKnown == KnownInv /\ [HealthNext]_healthVars => KnownInv'
<1> SUFFICES ASSUME KnownInv, [HealthNext]_healthVars PROVE KnownInv' OBVIOUS
<1>1. ASSUME NEW r \in Runner, Runs(r) \/ Hang(r) \/ Disturbed(r) \/ Stop(r) \/ Obey(r) \/ Spawn(r)
      PROVE  KnownInv'
  BY <1>1, RunnerKnown
<1>2. ASSUME NEW t \in Task, LockLapses(t) \/ Ages(t) \/ Revive(t) PROVE KnownInv'
  BY <1>2, TaskKnown
<1>3. CASE UNCHANGED healthVars
  <2>1. SignalInv' BY <1>3, KnownParts, SignalsStay DEF healthVars, Alive, Life
  <2> QED BY <1>3, <2>1, KnownParts, KnownNext DEF healthVars
<1> QED BY <1>1, <1>2, <1>3, IncidentsKnown, SweepKnown, CleanKnown, DetectKnown, KillKnown,
           RecoverKnown
        DEF HealthNext, Healer

\* A process that lives has its row, or a SIGTERM to handle, and the signals of a pass
\* are about what they were found for: a dead runner stays dead until the pass is over.
THEOREM KnownInvariant == HealthSpec => []KnownInv
BY InitKnown, StepKnown, PTL DEF HealthSpec

\* Tasks, locks, invocations, runners and the pass have the types they should have,
\* whatever dies, freezes or answers late, and however often.
THEOREM TypesOfHealth == HealthSpec => []HealthTypeOK
<1>1. KnownInv => HealthTypeOK BY DEF KnownInv
<1> QED BY <1>1, KnownInvariant, PTL

\* A process that works on a task without its row in runners, out of the sight of the
\* checks, was told to end by the clean-up of abandoned runners and was stuck then: it
\* is no one whom recovery killed, nor one that nobody has told (cleanupAbandonedRunners,
\* killPidBestEffort).
THEOREM NobodyWorksUnknown == HealthSpec => []WorkersAreKnown
<1>1. KnownInv => WorkersAreKnown BY DEF KnownInv, WorkersAreKnown
<1> QED BY <1>1, KnownInvariant, PTL


-------------------------------------------------------------------------------
(* The order that is kept until something goes wrong *)

LEMMA NoFault == ASSUME KnownInv, faults' = 0 PROVE ~ Fault
BY KnownParts DEF Fault

\* A runner's task: the only one of its kind, as the lock has one owner.
LEMMA Alone ==
  ASSUME Order, NEW r \in Runner, NEW x \in Runner,
         Alive(r), runner[r].pc # "idle", Alive(x), runner[x].pc # "idle",
         runner[x].task = runner[r].task
  PROVE  x = r
BY DEF Order, Orderly

\* Nobody has lost its row.
LEMMA Listed ==
  ASSUME KnownInv, Order, NEW r \in Runner, Alive(r) PROVE runner[r].row /\ ~ runner[r].told
BY KnownParts DEF Order, Orderly, Placed, Alive, Life

\* A step that leaves the runner, its lock and its task alone.
LEMMA OrderlyStays ==
  ASSUME NEW r \in Runner, NEW t, t = runner[r].task, Orderly(r), runner'[r] = runner[r],
         Alive(r) /\ runner[r].pc # "idle" =>
           /\ lock'[t] = lock[t]
           /\ task'[t].status = task[t].status /\ task'[t].coded = task[t].coded
           /\ \A s \in healer'.todo : s.task = t => s \in healer.todo
           /\ \A i \in running : i.task = t /\ i.owner = r => i \in running'
  PROVE  Orderly(r)'
<1>1. Alive(r)' = Alive(r) /\ Life(r)' = Life(r) /\ runner'[r].task = t BY DEF Alive, Life
<1>2. CASE ~ (Alive(r) /\ runner[r].pc # "idle")
  BY <1>1, <1>2 DEF Orderly
<1>3. CASE Alive(r) /\ runner[r].pc # "idle"
  <2>1. ActFor(t)' = ActFor(t) BY <1>1, <1>3 DEF ActFor
  <2>2. Signalled(t)' => Signalled(t) BY <1>1, <1>3 DEF Signalled
  <2>3. \A s \in Signals(t)' : s \in Signals(t) BY <1>1, <1>3 DEF Signals
  <2>4. (\E i \in running : i.task = t /\ i.owner = r)
          => \E i \in running' : i.task = t /\ i.owner = r
    BY <1>3
  <2> QED BY <1>1, <1>3, <2>1, <2>2, <2>3, <2>4 DEF Orderly
<1> QED BY <1>2, <1>3

\* The same for a row whose owner is still there, or whose task is signalled still.
LEMMA AttendedStays ==
  ASSUME NEW i, Attended(i), Signalled(i.task) => Signalled(i.task)',
         i.owner \in Runner => runner'[i.owner] = runner[i.owner]
  PROVE  Attended(i)'
BY DEF Attended, Alive, Life, AtWork

LEMMA GenuineStays ==
  ASSUME NEW s, Genuine(s),
         s.runner \in Runner => runner'[s.runner] = runner[s.runner] \/ ~ Alive(s.runner)',
         s.kind = "hanging" => s.runner \in Runner
  PROVE  Genuine(s)'
BY DEF Genuine, Alive, Life, AtWork

LEMMA Hanger == ASSUME KnownInv, NEW s \in healer.todo, s.kind = "hanging"
                PROVE  s.runner \in Runner /\ s.task \in Task
BY KnownParts DEF SignalInv

-------------------------------------------------------------------------------

LEMMA ClaimOrder ==
  ASSUME KnownInv, OrderInv, NEW r \in Runner, NEW t \in Task, Claim(r, t)
  PROVE  OrderInv'
<1> SUFFICES ASSUME faults' = 0 PROVE Order' BY DEF OrderInv
<1>1. ~ Noticed(t) /\ faults' = faults BY NoFault DEF Claim
<1>2. Order BY <1>1 DEF OrderInv
<1>3. ~ Signalled(t) BY <1>1 DEF Noticed
<1>4. /\ lock[t] = Nobody /\ lock' = [lock EXCEPT ![t] = r]
      /\ runner' = [runner EXCEPT ![r] =
                      [@ EXCEPT !.pc = "claimed", !.task = t, !.act = ActFor(t)]]
      /\ UNCHANGED <<task, running, healer>>
      /\ Life(r) = "well" /\ runner[r].pc = "idle" /\ task[t].status \in Open
  BY DEF Claim, Selectable
<1>5. Orderly(r)'
  <2>1. /\ runner'[r].pc = "claimed" /\ runner'[r].task = t /\ runner'[r].act = ActFor(t)
        /\ runner'[r].life = "well" /\ ~ runner'[r].told
    BY <1>2, <1>4, Listed, KnownParts DEF Alive, Life, RunnerState
  <2>2. lock'[t] = r BY <1>4, KnownParts
  <2>3. ActFor(t)' = ActFor(t) /\ Signalled(t)' = Signalled(t)
    BY <1>4 DEF ActFor, Signalled
  <2> QED BY <1>3, <1>4, <2>1, <2>2, <2>3 DEF Orderly, Alive, Life
<1>6. ASSUME NEW x \in Runner, x # r PROVE Orderly(x)'
  <2>1. runner'[x] = runner[x] BY <1>4, <1>6, KnownParts
  <2>2. Alive(x) /\ runner[x].pc # "idle" => lock[runner[x].task] = x /\ x # Nobody
    BY <1>2, Bounds DEF Order, Orderly
  <2>3. Alive(x) /\ runner[x].pc # "idle" => lock'[runner[x].task] = lock[runner[x].task]
    BY <1>4, <2>2, KnownParts DEF Placed
  <2> QED BY <1>2, <1>4, <2>1, <2>3, OrderlyStays DEF Order
<1>7. ASSUME NEW i \in running' PROVE Attended(i)'
  <2>1. Attended(i) BY <1>2, <1>4 DEF Order
  <2>2. CASE i.owner = r
    <3>1. ~ AtWork(r, i.task) BY <1>4 DEF AtWork
    <3> QED BY <1>4, <2>1, <2>2, <3>1 DEF Attended, Signalled
  <2>3. CASE i.owner # r
    BY <1>4, <2>1, <2>3, KnownParts, AttendedStays DEF Signalled
  <2> QED BY <2>2, <2>3
<1>8. ASSUME NEW s \in healer'.todo PROVE Genuine(s)'
  <2>1. Genuine(s) /\ s \in healer.todo BY <1>2, <1>4 DEF Order
  <2>2. CASE s.runner = r
    <3>1. Alive(r) /\ Life(r) # "silent" BY <1>4 DEF Alive
    <3> QED BY <2>1, <2>2, <3>1 DEF Genuine
  <2>3. CASE s.runner # r
    BY <1>4, <2>1, <2>3, Hanger, KnownParts, GenuineStays
  <2> QED BY <2>2, <2>3
<1> QED BY <1>5, <1>6, <1>7, <1>8 DEF Order

LEMMA BeginOrder == ASSUME KnownInv, OrderInv, NEW r \in Runner, Begin(r) PROVE OrderInv'
<1> SUFFICES ASSUME faults' = 0 PROVE Order' BY DEF OrderInv
<1> DEFINE t == runner[r].task
<1>1. Order BY DEF OrderInv, Begin
<1>2. t \in Task BY KnownParts DEF Begin, Placed
<1>3. /\ Life(r) = "well" /\ runner[r].pc = "claimed" /\ ~ runner[r].told
      /\ runner' = [runner EXCEPT ![r].pc = "working"]
      /\ running' = running \union Started(r)
      /\ task' = [task EXCEPT ![t] = Entered(t, runner[r].act)]
      /\ UNCHANGED <<lock, healer>>
  BY <1>1, Listed DEF Begin, Alive
<1>4. /\ lock[t] = r /\ task[t].status \in Open /\ runner[r].act = ActFor(t)
      /\ ~ Signalled(t)
  BY <1>1, <1>3 DEF Order, Orderly, Alive
<1>5. /\ runner'[r].pc = "working" /\ runner'[r].life = "well" /\ ~ runner'[r].told
      /\ runner'[r].task = t /\ runner'[r].act = runner[r].act
  BY <1>3, KnownParts DEF Life, RunnerState
<1>6. Entered(t, runner[r].act).status \in Open \ {"pending"}
  <2>1. task[t] \in TaskState BY <1>2, KnownParts
  <2>2. CASE task[t].status = "pending" /\ task[t].coded
    <3>1. runner[r].act = "again" BY <1>4, <2>2 DEF ActFor
    <3> QED BY <2>1, <3>1 DEF Entered, Open, TaskState
  <2>3. CASE task[t].status = "pending" /\ ~ task[t].coded
    <3>1. runner[r].act = "start" BY <1>4, <2>3 DEF ActFor
    <3> QED BY <2>1, <2>3, <3>1 DEF Entered, Open, TaskState
  <2>4. CASE task[t].status # "pending"
    <3>1. runner[r].act \in {"merge", "review", "resume"} BY <1>4, <2>4 DEF ActFor, Open
    <3> QED BY <1>4, <2>1, <2>4, <3>1 DEF Entered, TaskState
  <2> QED BY <2>2, <2>3, <2>4
<1>7. runner[r].act # "merge" => \E i \in Started(r) : i.task = t /\ i.owner = r
  <2>1. 1 \in 1..Reviewers BY Bounds
  <2> SUFFICES ASSUME runner[r].act # "merge" PROVE \E i \in Started(r) : i.task = t /\ i.owner = r
    OBVIOUS
  <2> DEFINE i == [task |-> t, owner |-> r, overtaken |-> FALSE, n |-> 1,
                   role |-> IF runner[r].act \in Codes THEN "coder" ELSE "reviewer"]
  <2>2. i \in Started(r) BY <2>1 DEF Started
  <2>3. i.task = t /\ i.owner = r OBVIOUS
  <2> QED BY <2>2, <2>3
<1>8. \A i \in Started(r) : ~ i.overtaken /\ i.task = t /\ i.owner = r BY DEF Started
<1>9. Orderly(r)'
  <2>1. lock'[t] = r /\ task'[t].status \in Open \ {"pending"}
    BY <1>2, <1>3, <1>4, <1>6, KnownParts
  <2>2. Signals(t)' = {} BY <1>3, <1>4, <1>5 DEF Signals, Signalled
  <2>3. runner[r].act # "merge" => \E i \in running' : i.task = t /\ i.owner = r
    BY <1>3, <1>7
  <2> QED BY <1>5, <2>1, <2>2, <2>3 DEF Orderly, Alive, Life
<1>10. ASSUME NEW x \in Runner, x # r PROVE Orderly(x)'
  <2>1. runner'[x] = runner[x] BY <1>3, <1>10, KnownParts
  <2>2. Alive(x) /\ runner[x].pc # "idle" => runner[x].task # t
    BY <1>1, <1>3, <1>10, Alone DEF Alive
  <2>3. Alive(x) /\ runner[x].pc # "idle" => task'[runner[x].task] = task[runner[x].task]
    BY <1>3, <2>2, KnownParts DEF Placed
  <2> QED BY <1>1, <1>3, <2>1, <2>3, OrderlyStays DEF Order
<1>11. ASSUME NEW i \in running' PROVE Attended(i)'
  <2>1. CASE i \in Started(r)
    BY <1>5, <1>8, <2>1 DEF Attended, Alive, Life, AtWork
  <2>2. CASE i \in running /\ i.owner = r
    BY <1>1, <1>3, <2>2 DEF Order, Attended, AtWork, Signalled
  <2>3. CASE i \in running /\ i.owner # r
    BY <1>1, <1>3, <2>3, KnownParts, AttendedStays DEF Order, Signalled
  <2> QED BY <1>3, <2>1, <2>2, <2>3
<1>12. ASSUME NEW s \in healer'.todo PROVE Genuine(s)'
  <2>1. Genuine(s) /\ s \in healer.todo BY <1>1, <1>3 DEF Order
  <2>2. CASE s.runner = r
    BY <1>3, <2>1, <2>2 DEF Genuine, Alive
  <2>3. CASE s.runner # r
    BY <1>3, <2>1, <2>3, Hanger, KnownParts, GenuineStays
  <2> QED BY <2>2, <2>3
<1> QED BY <1>9, <1>10, <1>11, <1>12 DEF Order

LEMMA FinishOrder == ASSUME KnownInv, OrderInv, NEW r \in Runner, Finish(r) PROVE OrderInv'
<1> SUFFICES ASSUME faults' = 0 PROVE Order' BY DEF OrderInv
<1> DEFINE t == runner[r].task
<1>1. Order BY DEF OrderInv, Finish
<1>2. t \in Task BY KnownParts DEF Finish, Placed
<1>3. /\ Life(r) = "well" /\ runner[r].pc = "working"
      /\ task' = [task EXCEPT ![t] = After(t, runner[r].act)]
      /\ running' = {IF i.task = t THEN [i EXCEPT !.overtaken = TRUE] ELSE i :
                       i \in {j \in running : j.owner # r}}
      /\ lock' = [lock EXCEPT ![t] = IF @ = r THEN Nobody ELSE @]
      /\ runner' = [runner EXCEPT ![r] =
                      [@ EXCEPT !.pc = "idle", !.act = "start", !.task = Nobody]]
      /\ healer' = healer
  BY DEF Finish
<1>4. ~ Signalled(t)
  <2>1. \A s \in Signals(t) : s.kind = "hanging" /\ s.runner = r
    BY <1>1, <1>3 DEF Order, Orderly, Alive
  <2>2. \A s \in Signals(t) : FALSE
    BY <1>1, <1>3, <2>1 DEF Order, Genuine, Signals, Alive
  <2> QED BY <2>2 DEF Signals, Signalled
\* Nobody else has a row for the task.
<1>5. \A i \in running : i.owner # r => i.task # t
  <2> SUFFICES ASSUME NEW i \in running, i.owner # r, i.task = t PROVE FALSE OBVIOUS
  <2>1. i.owner \in Runner /\ Alive(i.owner) /\ AtWork(i.owner, t)
    BY <1>1, <1>4 DEF Order, Attended
  <2> QED BY <1>1, <1>3, <2>1, Alone DEF AtWork, Alive
<1>6. running' = {j \in running : j.owner # r} BY <1>3, <1>5
<1>7. Orderly(r)'
  <2>1. runner'[r].pc = "idle" /\ runner'[r].life = "well" /\ ~ runner'[r].told
    BY <1>1, <1>3, Listed, KnownParts DEF RunnerState, Alive, Life
  <2> QED BY <2>1 DEF Orderly, Alive, Life
<1>8. ASSUME NEW x \in Runner, x # r PROVE Orderly(x)'
  <2>1. runner'[x] = runner[x] BY <1>3, <1>8, KnownParts
  <2>2. Alive(x) /\ runner[x].pc # "idle" => runner[x].task # t
    BY <1>1, <1>3, <1>8, Alone DEF Alive
  <2>3. Alive(x) /\ runner[x].pc # "idle" => /\ task'[runner[x].task] = task[runner[x].task]
                                            /\ lock'[runner[x].task] = lock[runner[x].task]
    BY <1>3, <2>2, KnownParts DEF Placed
  <2> QED BY <1>1, <1>3, <1>6, <1>8, <2>1, <2>3, OrderlyStays DEF Order
<1>9. ASSUME NEW i \in running' PROVE Attended(i)'
  BY <1>1, <1>3, <1>6, KnownParts, AttendedStays DEF Order, Signalled
<1>10. ASSUME NEW s \in healer'.todo PROVE Genuine(s)'
  <2>1. Genuine(s) /\ s \in healer.todo BY <1>1, <1>3 DEF Order
  <2>2. CASE s.runner = r
    BY <1>3, <2>1, <2>2 DEF Genuine, Alive
  <2>3. CASE s.runner # r
    BY <1>3, <2>1, <2>3, Hanger, KnownParts, GenuineStays
  <2> QED BY <2>2, <2>3
<1> QED BY <1>7, <1>8, <1>9, <1>10 DEF Order


LEMMA HangOrder == ASSUME KnownInv, OrderInv, NEW r \in Runner, Hang(r) PROVE OrderInv'
<1> SUFFICES ASSUME faults' = 0 PROVE Order' BY DEF OrderInv
<1>1. Order BY DEF OrderInv, Hang
<1>2. /\ Life(r) = "well" /\ runner[r].pc = "working" /\ runner[r].act # "merge"
      /\ runner' = [runner EXCEPT ![r].life = "silent"]
      /\ UNCHANGED <<task, lock, running, healer>>
  BY DEF Hang, Lives
<1>3. /\ runner'[r].life = "silent" /\ runner'[r].pc = "working"
      /\ runner'[r].act = runner[r].act /\ runner'[r].task = runner[r].task
  BY <1>2, KnownParts DEF RunnerState
<1>4. Orderly(r)'
  <2>1. Orderly(r) /\ Alive(r) BY <1>1, <1>2 DEF Order, Alive
  <2>2. Signals(runner[r].task)' = Signals(runner[r].task) BY <1>2, <1>3 DEF Signals
  <2> QED BY <1>2, <1>3, <2>1, <2>2 DEF Orderly, Alive, Life
<1>5. ASSUME NEW x \in Runner, x # r PROVE Orderly(x)'
  BY <1>1, <1>2, <1>5, KnownParts, OrderlyStays DEF Order
<1>6. ASSUME NEW i \in running' PROVE Attended(i)'
  BY <1>1, <1>2, <1>3, KnownParts DEF Order, Attended, Signalled, Alive, Life, AtWork
<1>7. ASSUME NEW s \in healer'.todo PROVE Genuine(s)'
  <2>1. Genuine(s) /\ s \in healer.todo BY <1>1, <1>2 DEF Order
  <2>2. CASE s.runner = r
    BY <1>2, <2>1, <2>2 DEF Genuine, Alive
  <2>3. CASE s.runner # r
    BY <1>2, <2>1, <2>3, Hanger, KnownParts, GenuineStays
  <2> QED BY <2>2, <2>3
<1> QED BY <1>4, <1>5, <1>6, <1>7 DEF Order

\* All of these are mishaps, but the end of a freeze, which was one.
LEMMA DisturbedOrder ==
  ASSUME KnownInv, OrderInv, NEW r \in Runner, Disturbed(r) \/ Stop(r)
  PROVE  OrderInv'
<1> SUFFICES ASSUME faults' = 0 PROVE FALSE BY DEF OrderInv
<1>1. Life(r) = "frozen" /\ faults' = faults BY NoFault DEF Disturbed, Stop
<1> QED BY <1>1 DEF OrderInv, Order, Orderly

LEMMA SpawnOrder == ASSUME KnownInv, OrderInv, NEW r \in Runner, Spawn(r) PROVE OrderInv'
<1> SUFFICES ASSUME faults' = 0 PROVE Order' BY DEF OrderInv
<1>1. Order BY DEF OrderInv, Spawn
<1>2. /\ ~ Alive(r) /\ healer.todo = {} /\ healer' = healer
      /\ runner' = [runner EXCEPT ![r] = Rested]
      /\ lock' = [t \in Task |-> IF lock[t] = r THEN Gone ELSE lock[t]]
      /\ running' = {IF i.owner = r THEN [i EXCEPT !.owner = Gone] ELSE i : i \in running}
      /\ UNCHANGED task
  BY DEF Spawn, Resting
<1>3. \A i \in running : ~ Signalled(i.task) /\ i.owner # r
  BY <1>1, <1>2 DEF Order, Attended, Signalled
<1>4. running' = running BY <1>2, <1>3
<1>5. Orderly(r)'
  <2>1. runner'[r] = Rested BY <1>2, KnownParts
  <2> QED BY <2>1 DEF Orderly, Rested, Alive, Life
<1>6. ASSUME NEW x \in Runner, x # r PROVE Orderly(x)'
  <2>1. Alive(x) /\ runner[x].pc # "idle" => lock'[runner[x].task] = lock[runner[x].task]
    BY <1>1, <1>2, <1>6, KnownParts DEF Order, Orderly, Placed
  <2> QED BY <1>1, <1>2, <1>4, <1>6, <2>1, KnownParts, OrderlyStays DEF Order
<1>7. ASSUME NEW i \in running' PROVE Attended(i)'
  <2>1. Attended(i) /\ i.owner # r BY <1>1, <1>3, <1>4 DEF Order
  <2> QED BY <1>2, <1>3, <1>4, <2>1, KnownParts, AttendedStays
<1> QED BY <1>2, <1>5, <1>6, <1>7 DEF Order

\* The active runners can be chosen.
LEMMA SomeActives == Actives # {}
<1> DEFINE a == [t \in Task |-> IF ActiveRunners(t) = {} THEN Nobody
                                ELSE CHOOSE r \in Runner : r \in ActiveRunners(t)]
<1>1. ASSUME NEW t \in Task
      PROVE  IF ActiveRunners(t) = {} THEN a[t] = Nobody ELSE a[t] \in ActiveRunners(t)
  BY DEF ActiveRunners
<1>2. a \in [Task -> Runner \union {Nobody}] BY DEF ActiveRunners
<1> QED BY <1>1, <1>2 DEF Actives

LEMMA ActiveAtWork ==
  ASSUME KnownInv, NEW r \in Runner, NEW t \in Task
  PROVE  r \in ActiveRunners(t) <=> /\ Life(r) \in {"well", "silent"}
                                    /\ Engaged(r, t)
BY Bounds, KnownParts DEF ActiveRunners, Current, Engaged, AtWork, Placed, Life

LEMMA NoRunnerSignals ==
  ASSUME KnownInv, Order
  PROVE  RunnerSignals("zombie", "frozen") \union RunnerSignals("dead", "dead") = {}
BY DEF RunnerSignals, Order, Orderly

\* A task whose runner is silent is found; so its lock is safe.
LEMMA SilentIsFound ==
  ASSUME KnownInv, Order, NEW r \in Runner, Life(r) = "silent", ~ Signalled(runner[r].task)
  PROVE  Noticed(runner[r].task)
<1> DEFINE t == runner[r].task
<1>1. /\ runner[r].pc = "working" /\ t \in Task /\ Alive(r) /\ runner[r].row
      /\ task[t].status \in Open \ {"pending"}
      /\ \E i \in running : i.task = t /\ i.owner = r
  BY Listed, KnownParts DEF Order, Orderly, Alive, Placed
<1>2. PICK i \in running : i.task = t /\ i.owner = r BY <1>1
<1>3. ~ i.overtaken /\ IsSilent(i) BY <1>2 DEF Order, Attended, IsSilent
<1>4. PICK active \in Actives : TRUE BY SomeActives
<1>5. active[t] # Nobody
  BY <1>1, ActiveAtWork, Bounds DEF Actives, Engaged, AtWork, ActiveRunners
<1>6. [kind |-> "hanging", runner |-> active[t], task |-> t, row |-> i] \in Hanging(active)
  BY <1>1, <1>2, <1>3, <1>5 DEF Hanging
<1>7. \E s \in Found(active) : s.task = t
  BY <1>6, NoRunnerSignals DEF Found, Unhandled
<1> QED BY <1>7 DEF Noticed

LEMMA TaskOrder ==
  ASSUME KnownInv, OrderInv, NEW t \in Task, LockLapses(t) \/ Ages(t) \/ Revive(t)
  PROVE  OrderInv'
<1> SUFFICES ASSUME faults' = 0 PROVE Order' BY DEF OrderInv
<1>1. Order BY NoFault DEF OrderInv, LockLapses, Ages, Revive
<1>2. UNCHANGED <<running, runner, healer>> BY DEF LockLapses, Ages, Revive
\* What loses its lock, or is revived, is not under work.
<1>3. ASSUME NEW r \in Runner, Alive(r), runner[r].pc # "idle", runner[r].task = t
      PROVE  Ages(t)
  <2>1. lock[t] = r /\ task[t].status \in Open
    BY <1>1, <1>3, KnownParts DEF Order, Orderly, RunnerState
  <2>2. ~ Revive(t) BY <2>1 DEF Revive, Open
  <2>3. ~ LockLapses(t)
    <3> SUFFICES ASSUME LockLapses(t) PROVE FALSE OBVIOUS
    <3>1. LeftBehind(t) BY NoFault DEF LockLapses
    <3>2. Life(r) = "silent" BY <1>1, <1>3, <2>1, <3>1, Listed DEF LeftBehind, Alive
    <3> QED BY <1>1, <1>3, <3>1, <3>2, SilentIsFound DEF LeftBehind, Noticed
  <2> QED BY <2>2, <2>3
<1>4. \A u \in Task : u # t => lock'[u] = lock[u] /\ task'[u] = task[u]
  BY KnownParts DEF LockLapses, Ages, Revive
<1>5. Ages(t) => lock' = lock /\ task'[t].status = task[t].status /\ task'[t].coded = task[t].coded
  BY KnownParts DEF Ages, TaskState
<1>6. ASSUME NEW r \in Runner PROVE Orderly(r)'
  <2>1. Alive(r) /\ runner[r].pc # "idle" => LET u == runner[r].task IN
          /\ lock'[u] = lock[u]
          /\ task'[u].status = task[u].status /\ task'[u].coded = task[u].coded
    BY <1>3, <1>4, <1>5, KnownParts DEF Placed
  <2> QED BY <1>1, <1>2, <2>1, OrderlyStays DEF Order
<1>7. ASSUME NEW i \in running' PROVE Attended(i)'
  BY <1>1, <1>2, AttendedStays DEF Order, Signalled
<1>8. ASSUME NEW s \in healer'.todo PROVE Genuine(s)'
  BY <1>1, <1>2, Hanger, GenuineStays DEF Order
<1> QED BY <1>6, <1>7, <1>8 DEF Order

\* What a pass finds in order: hangs, each of the one runner at work on the task, and
\* tasks that nobody works on.
OfOne(s) ==
    \/ /\ s.kind = "hanging" /\ s.runner \in Runner /\ Life(s.runner) = "silent"
       /\ AtWork(s.runner, s.task)
    \/ s.kind = "orphan" /\ \A r \in Runner : Alive(r) => ~ AtWork(r, s.task)

LEMMA OrderFound ==
  ASSUME KnownInv, Order, healer.todo = {}, NEW active \in Actives, NEW s \in Found(active)
  PROVE  OfOne(s)
<1>1. \A i \in running : i.owner \in Runner /\ Alive(i.owner) /\ AtWork(i.owner, i.task)
  BY DEF Order, Attended, Signalled
<1>2. CASE s \in Hanging(active)
  <2>1. PICK i \in running : /\ active[i.task] # Nobody /\ IsSilent(i)
                             /\ s = [kind |-> "hanging", runner |-> active[i.task],
                                     task |-> i.task, row |-> i]
    BY <1>2 DEF Hanging
  <2>2. i.task \in Task BY <2>1, KnownParts DEF Invocation
  <2>3. active[i.task] \in Runner /\ active[i.task] \in ActiveRunners(i.task)
    BY <2>1, <2>2 DEF Actives, ActiveRunners
  <2>4. AtWork(active[i.task], i.task) /\ Alive(active[i.task])
    BY <2>2, <2>3, ActiveAtWork DEF Alive, Engaged
  <2>5. i.owner = active[i.task]
    BY <1>1, <2>1, <2>3, <2>4, Alone DEF AtWork
  <2>6. Life(i.owner) = "silent"
    BY <1>1, <2>1, Listed DEF IsSilent, OwnerDead, Order, Orderly, Alive
  <2> QED BY <2>1, <2>3, <2>4, <2>5, <2>6 DEF OfOne
<1>3. CASE s \in OrphanSignals(OrphanedIdle \union (DeadOwner \ {x.task : x \in Hanging(active)}))
  <2>1. DeadOwner = {}
    BY <1>1, Listed DEF DeadOwner, OwnerDead
  <2>2. s.kind = "orphan" /\ s.task \in OrphanedIdle BY <1>3, <2>1 DEF OrphanSignals
  <2>3. s.task \in Task /\ ActiveRunners(s.task) = {} BY <2>2 DEF OrphanedIdle
  <2>4. ASSUME NEW r \in Runner, Alive(r), AtWork(r, s.task) PROVE FALSE
    <3>1. Life(r) \in {"well", "silent"}
      BY <2>4, KnownParts DEF Order, Orderly, Alive, Life, RunnerState
    <3> QED BY <2>3, <2>4, <3>1, Listed, ActiveAtWork DEF Engaged
  <2> QED BY <2>2, <2>4 DEF OfOne
<1> QED BY <1>2, <1>3, NoRunnerSignals DEF Found, Unhandled

LEMMA DetectOrder == ASSUME KnownInv, OrderInv, Detect PROVE OrderInv'
<1> SUFFICES ASSUME faults' = 0 PROVE Order' BY DEF OrderInv
<1>1. PICK active \in Actives :
        /\ healer' = [Resting EXCEPT !.todo = Found(active)]
        /\ \A s \in Found(active) : s.kind = "orphan" => ~ Admitted(s.task)
        /\ faults' = faults
  BY NoFault DEF Detect
<1>2. Order /\ healer.todo = {} BY <1>1 DEF OrderInv, Detect, Resting
<1>3. healer'.todo = Found(active) BY <1>1 DEF Resting
<1>4. UNCHANGED <<task, running, lock, runner>> BY DEF Detect
<1>5. \A s \in healer'.todo : OfOne(s) BY <1>2, <1>3, OrderFound
<1>6. ASSUME NEW r \in Runner PROVE Orderly(r)'
  <2> DEFINE t == runner[r].task
  <2>1. Orderly(r) BY <1>2 DEF Order
  <2>2. ASSUME NEW s \in healer'.todo, s.kind = "hanging", s.task = t,
               Alive(r), runner[r].pc # "idle"
        PROVE  s.runner = r
    <3>1. s.runner \in Runner /\ Alive(s.runner) /\ AtWork(s.runner, t)
      BY <1>5, <2>2 DEF OfOne, Alive
    <3> QED BY <1>2, <2>2, <3>1, Alone DEF AtWork
  <2>3. ASSUME Alive(r), runner[r].pc = "working", NEW s \in healer'.todo, s.task = t
        PROVE  s.kind = "hanging" /\ s.runner = r
    <3>1. s.kind = "hanging" BY <1>5, <2>3 DEF OfOne, AtWork
    <3> QED BY <2>2, <2>3, <3>1
  <2>8. ASSUME Alive(r), runner[r].pc = "claimed", NEW s \in healer'.todo, s.task = t
        PROVE  FALSE
    <3>1. Life(r) = "well" BY <2>1, <2>8, KnownParts DEF Orderly, Alive, Life, RunnerState
    <3>2. Admitted(t) BY <2>8, <3>1 DEF Admitted
    <3>3. s.kind = "hanging" BY <1>1, <1>3, <1>5, <2>8, <3>2 DEF OfOne
    <3>4. s.runner = r BY <2>2, <2>8, <3>3
    <3> QED BY <1>5, <2>8, <3>3, <3>4 DEF OfOne, AtWork
  <2>4. ActFor(t)' = ActFor(t) BY <1>4 DEF ActFor
  <2>5. Alive(r) /\ runner[r].pc = "claimed" => ~ Signalled(t)'
    BY <1>4, <2>8 DEF Signalled
  <2>6. Alive(r) /\ runner[r].pc = "working" =>
          \A s \in Signals(t)' : s.kind = "hanging" /\ s.runner = r
    BY <1>4, <2>3 DEF Signals
  <2> QED BY <1>4, <2>1, <2>4, <2>5, <2>6 DEF Orderly, Alive, Life
<1>7. ASSUME NEW i \in running' PROVE Attended(i)'
  BY <1>2, <1>4, AttendedStays DEF Order, Signalled
<1>8. ASSUME NEW s \in healer'.todo PROVE Genuine(s)'
  BY <1>4, <1>5 DEF OfOne, Genuine, Alive, Life, AtWork
<1> QED BY <1>6, <1>7, <1>8 DEF Order

\* A kill takes one runner out, and its task is signalled.
LEMMA KillOrder == ASSUME KnownInv, OrderInv, Kill PROVE OrderInv'
<1> SUFFICES ASSUME faults' = 0 PROVE Order' BY DEF OrderInv
<1>1. Order BY DEF OrderInv, Kill
<1>2. PICK s \in healer.todo : /\ s.kind \in {"zombie", "hanging"}
                              /\ runner' = Killed(s.runner)
                              /\ healer'.todo = healer.todo
  BY KnownParts DEF Kill, HealerState
<1> DEFINE k == s.runner
<1>3. k \in Runner /\ s.kind = "hanging" BY <1>1, <1>2, Hanger DEF Order, Genuine
<1>4. UNCHANGED <<task, lock, running>> BY DEF Kill
<1>5. /\ \A x \in Runner : x # k => runner'[x] = runner[x]
      /\ runner'[k].life = "dead" /\ ~ runner'[k].row
  BY <1>1, <1>2, <1>3, KnownParts DEF Killed, Stopped, Order, Orderly, RunnerState, Life
<1>6. Orderly(k)'
  <2>1. ~ runner[k].told BY <1>1, <1>3 DEF Order, Orderly
  <2>2. ~ runner'[k].told BY <1>2, <1>3, <2>1, KnownParts DEF Killed, Stopped, RunnerState
  <2> QED BY <1>5, <2>2 DEF Orderly, Alive, Life
<1>7. ASSUME NEW x \in Runner, x # k PROVE Orderly(x)'
  BY <1>1, <1>2, <1>4, <1>5, <1>7, OrderlyStays DEF Order
<1>8. ASSUME NEW i \in running' PROVE Attended(i)'
  <2>1. Attended(i) /\ (Signalled(i.task)' <=> Signalled(i.task))
    BY <1>1, <1>2, <1>4 DEF Order, Signalled
  <2>2. CASE i.owner = k /\ ~ Signalled(i.task)
    <3>1. Alive(k) /\ AtWork(k, i.task) BY <2>1, <2>2 DEF Attended
    <3>2. s.task = i.task BY <1>1, <1>2, <1>3, <3>1 DEF Order, Genuine, AtWork
    <3> QED BY <1>2, <2>2, <3>2 DEF Signalled
  <2>3. CASE i.owner # k BY <1>5, <2>1, <2>3, AttendedStays
  <2>4. CASE Signalled(i.task) BY <2>1, <2>4 DEF Attended
  <2> QED BY <2>2, <2>3, <2>4
<1>9. ASSUME NEW x \in healer'.todo PROVE Genuine(x)'
  <2>1. Genuine(x) /\ x \in healer.todo BY <1>1, <1>2 DEF Order
  <2> QED BY <1>5, <2>1, Hanger, GenuineStays DEF Alive, Life
<1> QED BY <1>6, <1>7, <1>8, <1>9 DEF Order

\* Nobody is at work on what is recovered.
LEMMA RecoverOrder == ASSUME KnownInv, OrderInv, Recover PROVE OrderInv'
<1> SUFFICES ASSUME faults' = 0 PROVE Order' BY DEF OrderInv
<1>1. PICK s \in healer.todo, skip \in BOOLEAN :
        /\ s \in healer.killed \/ s.kind \in {"dead", "orphan"}
        /\ Recovered(s, skip)
  <2>1. healer.skip \in BOOLEAN BY KnownParts DEF HealerState
  <2>2. \A s \in healer.todo : Escalates(s) \in BOOLEAN BY DEF Escalates
  <2> QED BY <2>1, <2>2 DEF Recover
<1>2. Order BY <1>1 DEF OrderInv, Recovered
<1>3. s.runner \in Runner => ~ Alive(s.runner) BY <1>1, RecoveredIsDead
<1>4. healer'.todo = healer.todo \ {s} BY <1>1 DEF Recovered, WorkedOff, Resting
<1>5. ASSUME NEW r \in Runner, Alive(r), runner[r].pc # "idle" PROVE runner[r].task # s.task
  <2> SUFFICES ASSUME runner[r].task = s.task PROVE FALSE OBVIOUS
  <2>1. runner[r].pc = "working"
    BY <1>2, <1>5, KnownParts DEF Order, Orderly, Signalled, RunnerState
  <2>2. s.runner = r BY <1>2, <1>5, <2>1 DEF Order, Orderly, Signals
  <2> QED BY <1>3, <1>5, <2>2
<1>6. \A x \in Runner : /\ Alive(x) => runner'[x] = runner[x]
                        /\ runner'[x].life = runner[x].life
                        /\ ~ runner[x].row => ~ runner'[x].row
                        /\ runner'[x].told = runner[x].told
  BY <1>1, <1>3, KnownParts DEF Recovered, RunnerState
<1>7. ASSUME NEW x \in Runner PROVE Orderly(x)'
  <2>1. CASE ~ Alive(x) BY <1>2, <1>6, <2>1 DEF Order, Orderly, Alive, Life
  <2>2. CASE Alive(x)
    <3> DEFINE u == runner[x].task
    <3>1. runner[x].pc # "idle" => u # s.task /\ u \in Task BY <1>5, <2>2, KnownParts DEF Placed
    <3>2. runner[x].pc # "idle" => /\ lock'[u] = lock[u] /\ task'[u] = task[u]
                                   /\ \A i \in running : i.task = u => i \in running'
      BY <1>1, <3>1 DEF Recovered
    <3> QED BY <1>2, <1>4, <1>6, <2>2, <3>2, OrderlyStays DEF Order
  <2> QED BY <2>1, <2>2
<1>8. ASSUME NEW i \in running' PROVE Attended(i)'
  <2>1. Attended(i) /\ i.task # s.task BY <1>1, <1>2 DEF Order, Recovered
  <2>2. Signalled(i.task) => Signalled(i.task)' BY <1>4, <2>1 DEF Signalled
  <2> QED BY <1>6, <2>1, <2>2 DEF Attended, Alive, Life, AtWork
<1>9. ASSUME NEW x \in healer'.todo PROVE Genuine(x)'
  <2>1. Genuine(x) /\ x \in healer.todo BY <1>2, <1>4 DEF Order
  <2> QED BY <1>6, <2>1, Hanger, GenuineStays DEF Alive, Life
<1> QED BY <1>7, <1>8, <1>9 DEF Order

\* Until then nobody has to obey, and there is nothing to clean up.
LEMMA CalmOrder ==
  ASSUME KnownInv, OrderInv, (\E r \in Runner : Obey(r)) \/ Sweep \/ Clean
  PROVE  OrderInv'
<1> SUFFICES ASSUME faults' = 0 PROVE FALSE BY DEF OrderInv
<1>1. faults = 0 BY NoFault DEF Obey, Sweep, Clean
<1>2. Order BY <1>1 DEF OrderInv
<1>3. Abandoned = {} BY <1>2 DEF Abandoned, RunnerSignals, Order, Orderly
<1> QED BY <1>2, <1>3 DEF Obey, Sweep, Clean, Order, Orderly, Genuine

LEMMA InitOrder == HealthInit => OrderInv
<1> SUFFICES ASSUME HealthInit PROVE Order BY DEF OrderInv
<1>1. \A r \in Runner : Orderly(r) BY DEF HealthInit, Orderly, Rested, Alive, Life
<1> QED BY <1>1 DEF HealthInit, Resting, Order

LEMMA StutterOrder == ASSUME KnownInv, OrderInv, UNCHANGED healthVars \/ IncidentsAge
                      PROVE  OrderInv'
<1> SUFFICES ASSUME faults' = 0 PROVE Order' BY DEF OrderInv
<1>1. UNCHANGED <<task, lock, running, runner, healer, faults>> BY DEF healthVars, IncidentsAge
<1>2. Order BY <1>1 DEF OrderInv
<1>3. \A r \in Runner : Orderly(r)' BY <1>1, <1>2, OrderlyStays DEF Order
<1>4. \A i \in running' : Attended(i)' BY <1>1, <1>2, AttendedStays DEF Order, Signalled
<1>5. \A s \in healer'.todo : Genuine(s)' BY <1>1, <1>2, Hanger, GenuineStays DEF Order
<1> QED BY <1>3, <1>4, <1>5 DEF Order

LEMMA StepOrder == KnownInv /\ OrderInv /\ [HealthNext]_healthVars => OrderInv'
<1> SUFFICES ASSUME KnownInv, OrderInv, [HealthNext]_healthVars PROVE OrderInv' OBVIOUS
<1>1. ASSUME NEW r \in Runner, Runs(r) \/ Hang(r) \/ Disturbed(r) \/ Stop(r) \/ Obey(r) \/ Spawn(r)
      PROVE  OrderInv'
  BY <1>1, ClaimOrder, BeginOrder, FinishOrder, HangOrder, DisturbedOrder, CalmOrder, SpawnOrder
     DEF Runs
<1>2. ASSUME NEW t \in Task, LockLapses(t) \/ Ages(t) \/ Revive(t) PROVE OrderInv'
  BY <1>2, TaskOrder
<1> QED BY <1>1, <1>2, StutterOrder, CalmOrder, DetectOrder, KillOrder, RecoverOrder
        DEF HealthNext, Healer

\* Until something goes wrong, each task has at most one runner at work, which has its
\* lock, and each running invocation belongs to it or is about to be closed.
THEOREM OrderInvariant == HealthSpec => []OrderInv
BY InitOrder, StepOrder, KnownInvariant, PTL DEF HealthSpec

\* As long as no process crashes, freezes or answers after it was given up, a recovery
\* resets no task that a runner that is well is working on: it takes a mishap to get
\* there.
THEOREM SparedInOrder == ASSUME MaxFaults = 0 PROVE HealthSpec => HealthyWorkIsSpared
<1>1. KnownInv /\ OrderInv =>
        (Recover => \A t \in Task :
           owed'[t] < owed[t] => \A r \in Runner : Current(r) = t => Life(r) # "well")
  <2> SUFFICES ASSUME KnownInv, OrderInv, Recover, NEW t \in Task, owed'[t] < owed[t],
                      NEW r \in Runner, Current(r) = t, Life(r) = "well"
               PROVE  FALSE
    OBVIOUS
  <2>1. PICK s \in healer.todo, skip \in BOOLEAN :
          /\ s \in healer.killed \/ s.kind \in {"dead", "orphan"}
          /\ Recovered(s, skip)
    <3>1. healer.skip \in BOOLEAN BY KnownParts DEF HealerState
    <3>2. \A s \in healer.todo : Escalates(s) \in BOOLEAN BY DEF Escalates
    <3> QED BY <3>1, <3>2 DEF Recover
  <2>2. Order BY KnownParts, Bounds DEF OrderInv
  <2>3. t = s.task
    <3>1. t # s.task => owed'[t] = owed[t] BY <2>1 DEF Recovered
    <3>2. owed[t] \in Int BY KnownParts
    <3> QED BY <3>1, <3>2
  <2>4. Alive(r) /\ runner[r].pc = "working" /\ runner[r].task = t
    BY Bounds DEF Current, Alive
  <2>5. s.runner = r BY <2>2, <2>3, <2>4 DEF Order, Orderly, Signals
  <2> QED BY <2>1, <2>4, <2>5, RecoveredIsDead
<1> QED BY <1>1, KnownInvariant, OrderInvariant, PTL DEF HealthSpec, HealthyWorkIsSpared


-------------------------------------------------------------------------------
(* The failures that are counted are paid for *)

\* A set whose elements all come from those of a finite set.
LEMMA Covered ==
  ASSUME NEW S, NEW T, NEW f, IsFiniteSet(S), \A y \in T : \E x \in S : y = f[x]
  PROVE  IsFiniteSet(T) /\ Cardinality(T) \in Nat /\ Cardinality(T) <= Cardinality(S)
<1> DEFINE S0 == {x \in S : f[x] \in T}
           g  == [x \in S0 |-> f[x]]
<1>1. IsFiniteSet(S0) /\ Cardinality(S0) <= Cardinality(S) BY FS_Subset
<1>2. g \in Surjection(S0, T)
  <2>1. g \in [S0 -> T] OBVIOUS
  <2>2. \A y \in T : \E x \in S0 : g[x] = y OBVIOUS
  <2> QED BY <2>1, <2>2 DEF Surjection
<1>3. IsFiniteSet(T) /\ Cardinality(T) <= Cardinality(S0) BY <1>1, <1>2, FS_Surjection
<1>4. Cardinality(T) \in Nat /\ Cardinality(S0) \in Nat /\ Cardinality(S) \in Nat
  BY <1>1, <1>3, FS_CardinalityType
<1> QED BY <1>1, <1>3, <1>4

LEMMA Fewer ==
  ASSUME NEW S, NEW T, IsFiniteSet(S), T \subseteq S
  PROVE  /\ IsFiniteSet(T) /\ Cardinality(T) \in Nat /\ Cardinality(S) \in Nat
         /\ Cardinality(T) <= Cardinality(S)
BY FS_Subset, FS_CardinalityType

LEMMA OneMore ==
  ASSUME NEW S, NEW T, NEW x, IsFiniteSet(S), T \subseteq S \union {x}
  PROVE  /\ IsFiniteSet(T) /\ Cardinality(T) \in Nat /\ Cardinality(S) \in Nat
         /\ Cardinality(T) <= Cardinality(S) + 1
<1>1. IsFiniteSet(S \union {x}) /\ Cardinality(S \union {x}) <= Cardinality(S) + 1
      /\ Cardinality(S) \in Nat
  BY FS_AddElement, FS_CardinalityType
<1>2. Cardinality(S \union {x}) \in Nat BY <1>1, FS_CardinalityType
<1>3. IsFiniteSet(T) /\ Cardinality(T) <= Cardinality(S \union {x}) BY <1>1, FS_Subset
<1>4. Cardinality(T) \in Nat BY <1>3, FS_CardinalityType
<1> QED BY <1>1, <1>2, <1>3, <1>4

LEMMA OneLess ==
  ASSUME NEW S, NEW T, NEW x \in S, IsFiniteSet(S), T \subseteq S \ {x}
  PROVE  /\ IsFiniteSet(T) /\ Cardinality(T) \in Nat /\ Cardinality(S) \in Nat
         /\ Cardinality(T) <= Cardinality(S) - 1
<1>1. IsFiniteSet(S \ {x}) /\ Cardinality(S \ {x}) = Cardinality(S) - 1
      /\ Cardinality(S) \in Nat /\ Cardinality(S \ {x}) \in Nat
  BY FS_RemoveElement, FS_CardinalityType
<1>2. IsFiniteSet(T) /\ Cardinality(T) <= Cardinality(S \ {x}) BY <1>1, FS_Subset
<1>3. Cardinality(T) \in Nat BY <1>2, FS_CardinalityType
<1> QED BY <1>1, <1>2, <1>3

LEMMA Some ==
  ASSUME NEW S, NEW x \in S, IsFiniteSet(S)
  PROVE  Cardinality(S) \in Nat /\ Cardinality(S) >= 1
BY FS_EmptySet, FS_CardinalityType

LEMMA Two ==
  ASSUME NEW S, NEW x \in S, NEW y \in S, x # y, IsFiniteSet(S)
  PROVE  Cardinality(S) \in Nat /\ Cardinality(S) >= 2
<1>1. y \in S \ {x} /\ IsFiniteSet(S \ {x}) BY FS_RemoveElement
<1>2. Cardinality(S \ {x}) \in Nat /\ Cardinality(S \ {x}) >= 1 BY <1>1, Some
<1>3. Cardinality(S) \in Nat /\ Cardinality(S \ {x}) = Cardinality(S) - 1
  BY FS_RemoveElement, FS_CardinalityType
<1> QED BY <1>2, <1>3

\* The three things that the credit has to cover, and the attempts of a task that a
\* runner is needed for.
PassPaid(t)   == /\ IsFiniteSet(Signals(t)) /\ IsFiniteSet(Lost(t))
                 /\ PassDue(t) <= Credit(t)
RowsPaid(t)   == IsFiniteSet(Rows(t)) /\ RowsDue(t) <= Credit(t)
StatusPaid(t) == StatusDue(t) <= Credit(t) /\ (HasOvertaken(t) => Ever(t))

Down(r, t)  == Current(r) = t /\ Life(r) \in {"frozen", "dead"}
Busy(r, t)  == Engaged(r, t) /\ Life(r) = "well"
Toils(r, t) == Engaged(r, t) /\ Life(r) \in {"well", "frozen"}

LEMMA PaidParts ==
  ASSUME NEW t PROVE Paid(t) <=> PassPaid(t) /\ RowsPaid(t) /\ StatusPaid(t)
BY DEF Paid, PassPaid, RowsPaid, StatusPaid

LEMMA PaidNext ==
  ASSUME NEW t, PassPaid(t)', RowsPaid(t)', StatusPaid(t)' PROVE Paid(t)'
BY DEF Paid, PassPaid, RowsPaid, StatusPaid

LEMMA CreditType ==
  ASSUME KnownInv, KnownInv', NEW t \in Task
  PROVE  /\ Credit(t) \in Int /\ Credit(t)' \in Int
         /\ UNCHANGED faults => Credit(t)' - owed'[t] = Credit(t) - owed[t]
         /\ Fault /\ faults = 0 => Credit(t)' - owed'[t] = Credit(t) - owed[t]
         /\ Fault /\ faults > 0 => Credit(t)' - owed'[t] = Credit(t) - owed[t] + 1
<1>1. /\ owed[t] \in Int /\ owed'[t] \in Int /\ faults \in 0..MaxFaults /\ faults' \in 0..MaxFaults
  BY DEF KnownInv, HealthTypeOK
<1>2. faults \in Nat /\ faults' \in Nat BY <1>1, Bounds
<1> QED BY <1>1, <1>2 DEF Credit, Fault

LEMMA CreditStays ==
  ASSUME KnownInv, KnownInv', UNCHANGED faults \/ Fault, NEW t \in Task, owed'[t] = owed[t]
  PROVE  Credit(t) \in Int /\ Credit(t)' \in Int /\ Credit(t)' >= Credit(t)
<1>1. owed[t] \in Int /\ faults \in 0..MaxFaults BY DEF KnownInv, HealthTypeOK
<1>2. faults = 0 \/ faults > 0 BY <1>1, Bounds
<1> QED BY <1>1, <1>2, CreditType

LEMMA OneType == \A b \in BOOLEAN : One(b) \in 0..1 /\ (b => One(b) = 1) /\ (~ b => One(b) = 0)
BY DEF One

LEMMA DueParts ==
  ASSUME NEW t
  PROVE  /\ One(Unseen(t)) \in 0..1 /\ One(Unlisted(t)) \in 0..1
         /\ One(Ever(t)) \in 0..1 /\ One(HasOvertaken(t)) \in 0..1
         /\ Unseen(t) => One(Unseen(t)) = 1
         /\ ~ Unseen(t) => One(Unseen(t)) = 0
         /\ Unlisted(t) => One(Unlisted(t)) = 1
         /\ ~ Unlisted(t) => One(Unlisted(t)) = 0
         /\ Ever(t) => One(Ever(t)) = 1
         /\ ~ Ever(t) => One(Ever(t)) = 0
         /\ HasOvertaken(t) => One(HasOvertaken(t)) = 1
         /\ ~ HasOvertaken(t) => One(HasOvertaken(t)) = 0
BY DEF One

LEMMA DuePartsNext ==
  ASSUME NEW t
  PROVE  /\ One(Unseen(t))' \in 0..1 /\ One(Unlisted(t))' \in 0..1
         /\ One(Ever(t))' \in 0..1 /\ One(HasOvertaken(t))' \in 0..1
         /\ Unseen(t)' => One(Unseen(t))' = 1
         /\ ~ Unseen(t)' => One(Unseen(t))' = 0
         /\ Unlisted(t)' => One(Unlisted(t))' = 1
         /\ ~ Unlisted(t)' => One(Unlisted(t))' = 0
         /\ Ever(t)' => One(Ever(t))' = 1
         /\ ~ Ever(t)' => One(Ever(t))' = 0
         /\ HasOvertaken(t)' => One(HasOvertaken(t))' = 1
         /\ ~ HasOvertaken(t)' => One(HasOvertaken(t))' = 0
BY DEF One

\* The credit of a task under way.
LEMMA PassWorth ==
  ASSUME NEW t, PassPaid(t), Credit(t) \in Int
  PROVE  /\ Cardinality(Signals(t)) \in Nat /\ Cardinality(Lost(t)) \in Nat
         /\ Cardinality(Signals(t)) + Cardinality(Lost(t)) <= Credit(t)
         /\ Unseen(t) => Cardinality(Signals(t)) + Cardinality(Lost(t)) + 1 <= Credit(t)
         /\ Credit(t) >= 0
<1>1. Cardinality(Signals(t)) \in Nat /\ Cardinality(Lost(t)) \in Nat
  BY FS_CardinalityType DEF PassPaid
<1>2. Cardinality(Signals(t)) + Cardinality(Lost(t)) + One(Unseen(t)) <= Credit(t)
  BY DEF PassPaid, PassDue
<1> QED BY <1>1, <1>2, DueParts

LEMMA RowsWorth ==
  ASSUME NEW t, RowsPaid(t), Credit(t) \in Int
  PROVE  /\ Cardinality(Rows(t)) \in Nat
         /\ Cardinality(Rows(t)) <= Credit(t)
         /\ Unlisted(t) => Cardinality(Rows(t)) + 1 <= Credit(t)
         /\ Credit(t) >= 0
<1>1. Cardinality(Rows(t)) \in Nat BY FS_CardinalityType DEF RowsPaid
<1>2. Cardinality(Rows(t)) + One(Unlisted(t)) <= Credit(t) BY DEF RowsPaid, RowsDue
<1> QED BY <1>1, <1>2, DueParts

LEMMA StatusWorth ==
  ASSUME NEW t, StatusPaid(t), Credit(t) \in Int
  PROVE  /\ Credit(t) >= 0
         /\ Ever(t) => Credit(t) >= 1
         /\ HasOvertaken(t) => Credit(t) >= 2 /\ Ever(t)
<1>1. One(Ever(t)) + One(HasOvertaken(t)) <= Credit(t) /\ (HasOvertaken(t) => Ever(t))
  BY DEF StatusPaid, StatusDue
<1> QED BY <1>1, DueParts

-------------------------------------------------------------------------------
(* Steps that leave a due as it is, or lower it *)

\* The pass and its signals are as they were, and no more runners are in trouble or
\* at work.
LEMMA PassStays ==
  ASSUME KnownInv, KnownInv', NEW t \in Task, PassPaid(t), Signals(t)' = Signals(t),
         \A r \in Runner : (Down(r, t)' => Down(r, t)) /\ (Busy(r, t)' => Busy(r, t)),
         Credit(t) \in Int, Credit(t)' \in Int, Credit(t)' >= Credit(t)
  PROVE  PassPaid(t)'
<1>1. \A r \in Runner : FoundAt(r, t)' <=> FoundAt(r, t) BY DEF FoundAt
<1>2. Lost(t)' \subseteq Lost(t) BY <1>1 DEF Lost, Down
<1>3. Unseen(t)' => Unseen(t) BY <1>1 DEF Unseen, Busy
<1>4. /\ IsFiniteSet(Lost(t)') /\ Cardinality(Lost(t)') \in Nat /\ Cardinality(Lost(t)) \in Nat
      /\ Cardinality(Lost(t)') <= Cardinality(Lost(t))
  BY <1>2, Fewer DEF PassPaid
<1>5. Cardinality(Signals(t)) \in Nat /\ IsFiniteSet(Signals(t)')
  BY FS_CardinalityType DEF PassPaid
<1>6. PassDue(t)' <= Credit(t)'
  <2>1. Cardinality(Signals(t)) + Cardinality(Lost(t)') + One(Unseen(t))' <= Credit(t)'
    BY <1>3, <1>4, <1>5, PassWorth, DuePartsNext
  <2> QED BY <2>1 DEF PassDue
<1> QED BY <1>4, <1>5, <1>6 DEF PassPaid

\* No rows come, none of a runner at work goes.
LEMMA RowsStay ==
  ASSUME KnownInv, KnownInv', NEW t \in Task, RowsPaid(t), Rows(t)' \subseteq Rows(t),
         \A r \in Runner : Toils(r, t)' =>
            Toils(r, t) /\ \A i \in Rows(t) : i.owner = r => i \in Rows(t)',
         Credit(t) \in Int, Credit(t)' \in Int, Credit(t)' >= Credit(t)
  PROVE  RowsPaid(t)'
<1>1. Unlisted(t)' => Unlisted(t) BY DEF Unlisted, Toils
<1>2. /\ IsFiniteSet(Rows(t)') /\ Cardinality(Rows(t)') \in Nat /\ Cardinality(Rows(t)) \in Nat
      /\ Cardinality(Rows(t)') <= Cardinality(Rows(t))
  BY Fewer DEF RowsPaid
<1>3. Cardinality(Rows(t)') + One(Unlisted(t))' <= Credit(t)'
  BY <1>1, <1>2, RowsWorth, DuePartsNext
<1> QED BY <1>2, <1>3 DEF RowsPaid, RowsDue

LEMMA StatusStays ==
  ASSUME KnownInv, KnownInv', NEW t \in Task, StatusPaid(t), Ever(t)' => Ever(t),
         HasOvertaken(t)' => HasOvertaken(t) /\ Ever(t)',
         Credit(t) \in Int, Credit(t)' \in Int, Credit(t)' >= Credit(t)
  PROVE  StatusPaid(t)'
<1>1. One(Ever(t))' + One(HasOvertaken(t))' <= Credit(t)'
  BY StatusWorth, DuePartsNext
<1> QED BY <1>1 DEF StatusPaid, StatusDue

\* All three, when the runners are as they were, or fewer of them at work.
LEMMA PaidStays ==
  ASSUME KnownInv, KnownInv', NEW t \in Task, Paid(t), UNCHANGED faults \/ Fault,
         owed'[t] = owed[t], running' = running, healer'.todo = healer.todo,
         Ever(t)' => Ever(t), HasOvertaken(t) /\ Ever(t) => Ever(t)',
         \A r \in Runner : /\ Down(r, t)' => Down(r, t)
                           /\ Busy(r, t)' => Busy(r, t)
                           /\ Toils(r, t)' => Toils(r, t)
  PROVE  Paid(t)'
<1>1. Credit(t) \in Int /\ Credit(t)' \in Int /\ Credit(t)' >= Credit(t) BY CreditStays
<1>2. PassPaid(t) /\ RowsPaid(t) /\ StatusPaid(t) BY PaidParts
<1>3. Signals(t)' = Signals(t) BY DEF Signals
<1>4. Rows(t)' = Rows(t) BY DEF Rows
<1>5. HasOvertaken(t)' <=> HasOvertaken(t) BY DEF HasOvertaken
<1>6. PassPaid(t)' BY <1>1, <1>2, <1>3, PassStays
<1>7. RowsPaid(t)' BY <1>1, <1>2, <1>4, RowsStay
<1>8. StatusPaid(t)' BY <1>1, <1>2, <1>5, StatusStays DEF StatusPaid
<1> QED BY <1>6, <1>7, <1>8, PaidNext


LEMMA ClaimPaid ==
  ASSUME KnownInv, KnownInv', PaidInv, NEW r \in Runner, NEW u \in Task, Claim(r, u)
  PROVE  PaidInv'
<1> SUFFICES ASSUME NEW t \in Task PROVE Paid(t)' BY DEF PaidInv
<1>1. /\ runner[r].pc = "idle" /\ runner'[r].pc = "claimed"
      /\ \A x \in Runner : x # r => runner'[x] = runner[x]
      /\ UNCHANGED <<task, running, healer, owed>> /\ (UNCHANGED faults \/ Fault)
  BY KnownParts DEF Claim, RunnerState
<1>2. ASSUME NEW x \in Runner
      PROVE  /\ Down(x, t)' => Down(x, t)
             /\ Busy(x, t)' => Busy(x, t)
             /\ Toils(x, t)' => Toils(x, t)
  BY <1>1, Bounds DEF Down, Busy, Toils, Engaged, AtWork, Current, Life
<1>3. Ever(t)' <=> Ever(t) BY <1>1 DEF Ever
<1> QED BY <1>1, <1>2, <1>3, PaidStays DEF PaidInv

LEMMA TaskPaid ==
  ASSUME KnownInv, KnownInv', PaidInv, NEW u \in Task, LockLapses(u) \/ Ages(u) \/ Revive(u)
  PROVE  PaidInv'
<1> SUFFICES ASSUME NEW t \in Task PROVE Paid(t)' BY DEF PaidInv
<1>1. UNCHANGED <<running, runner, healer, owed>> /\ (UNCHANGED faults \/ Fault)
  BY DEF LockLapses, Ages, Revive
<1>2. ASSUME NEW x \in Runner
      PROVE  /\ Down(x, t)' => Down(x, t)
             /\ Busy(x, t)' => Busy(x, t)
             /\ Toils(x, t)' => Toils(x, t)
  BY <1>1 DEF Down, Busy, Toils, Engaged, AtWork, Current, Life
<1>3. Ever(t)' <=> Ever(t)
  <2>1. task[u] \in TaskState BY KnownParts
  <2>2. Ages(u) => task'[u].status = task[u].status BY <2>1, KnownParts DEF Ages, TaskState
  <2>3. Revive(u) => task'[u].status = "pending" /\ task[u].status = "skipped"
    BY <2>1, KnownParts DEF Revive, Revived, TaskState
  <2>4. \A v \in Task : v # u => task'[v] = task[v] BY KnownParts DEF LockLapses, Ages, Revive
  <2>5. LockLapses(u) => task' = task BY DEF LockLapses
  <2> QED BY <2>2, <2>3, <2>4, <2>5 DEF Ever
<1> QED BY <1>1, <1>2, <1>3, PaidStays DEF PaidInv

LEMMA StutterPaid ==
  ASSUME KnownInv, KnownInv', PaidInv, UNCHANGED healthVars \/ IncidentsAge
  PROVE  PaidInv'
<1> SUFFICES ASSUME NEW t \in Task PROVE Paid(t)' BY DEF PaidInv
<1>1. UNCHANGED <<task, running, runner, healer, owed, faults>> BY DEF healthVars, IncidentsAge
<1>2. ASSUME NEW x \in Runner
      PROVE  /\ Down(x, t)' => Down(x, t)
             /\ Busy(x, t)' => Busy(x, t)
             /\ Toils(x, t)' => Toils(x, t)
  BY <1>1 DEF Down, Busy, Toils, Engaged, AtWork, Current, Life
<1>3. Ever(t)' <=> Ever(t) BY <1>1 DEF Ever
<1> QED BY <1>1, <1>2, <1>3, PaidStays DEF PaidInv

\* What a runner leaves behind that stops, or is killed.
LEMMA EndPaid ==
  ASSUME KnownInv, KnownInv', PaidInv, NEW r \in Runner, Hang(r) \/ Stop(r) \/ Obey(r)
  PROVE  PaidInv'
<1> SUFFICES ASSUME NEW t \in Task PROVE Paid(t)' BY DEF PaidInv
<1>1. UNCHANGED <<task, running, healer, owed>> /\ (UNCHANGED faults \/ Fault)
  BY DEF Hang, Stop, Obey
<1>2. /\ \A x \in Runner : x # r => runner'[x] = runner[x]
      /\ \/ runner'[r].life = "silent"
         \/ runner'[r].life = "dead" /\ ~ runner'[r].row
  BY KnownParts DEF Hang, Lives, Stop, Obey, Stopped, RunnerState
<1>3. ASSUME NEW x \in Runner
      PROVE  /\ Down(x, t)' => Down(x, t)
             /\ Busy(x, t)' => Busy(x, t)
             /\ Toils(x, t)' => Toils(x, t)
  BY <1>2, Bounds DEF Down, Busy, Toils, Engaged, AtWork, Current, Life
<1>4. Ever(t)' <=> Ever(t) BY <1>1 DEF Ever
<1> QED BY <1>1, <1>3, <1>4, PaidStays DEF PaidInv

LEMMA KillPaid == ASSUME KnownInv, KnownInv', PaidInv, Kill PROVE PaidInv'
<1> SUFFICES ASSUME NEW t \in Task PROVE Paid(t)' BY DEF PaidInv
<1>1. PICK s \in healer.todo : /\ s.kind \in {"zombie", "hanging"}
                              /\ runner' = Killed(s.runner)
                              /\ healer'.todo = healer.todo
  BY KnownParts DEF Kill, HealerState
<1> DEFINE r == s.runner
<1>2. r \in Runner BY <1>1, KnownParts DEF SignalInv
<1>3. UNCHANGED <<task, running, owed, faults>> BY DEF Kill
<1>4. /\ \A x \in Runner : x # r => runner'[x] = runner[x]
      /\ runner'[r].life = "dead"
      /\ \/ ~ runner'[r].row
         \/ /\ Life(r) \in {"frozen", "dead"} /\ runner'[r].row = runner[r].row
            /\ runner'[r].pc = runner[r].pc /\ runner'[r].task = runner[r].task
  BY <1>1, <1>2, KnownParts DEF Killed, Stopped, RunnerState, Life
<1>5. ASSUME NEW x \in Runner
      PROVE  /\ Down(x, t)' => Down(x, t)
             /\ Busy(x, t)' => Busy(x, t)
             /\ Toils(x, t)' => Toils(x, t)
  BY <1>2, <1>4, Bounds DEF Down, Busy, Toils, Engaged, AtWork, Current, Life
<1>6. Ever(t)' <=> Ever(t) BY <1>3 DEF Ever
<1> QED BY <1>1, <1>3, <1>5, <1>6, PaidStays DEF PaidInv

-------------------------------------------------------------------------------

LEMMA OneRecord ==
  ASSUME NEW a, NEW b, NEW c, NEW d, NEW e,
         NEW i \in [task : {a}, owner : {b}, overtaken : {c}, role : {d}, n : {e}],
         NEW j \in [task : {a}, owner : {b}, overtaken : {c}, role : {d}, n : {e}]
  PROVE  i = j
OBVIOUS

\* An attempt that begins may fail once, whoever is at the task already.
LEMMA BeginPaid ==
  ASSUME KnownInv, KnownInv', PaidInv, NEW r \in Runner, Begin(r),
         Reviewers = 1, \A t \in Task : owed[t] < MaxOwed
  PROVE  PaidInv'
<1> SUFFICES ASSUME NEW t \in Task PROVE Paid(t)' BY DEF PaidInv
<1> DEFINE a == runner[r].task
<1>1. /\ Life(r) = "well" /\ runner[r].pc = "claimed" /\ a \in Task
      /\ UNCHANGED <<healer, faults>>
      /\ \A x \in Runner : x # r => runner'[x] = runner[x]
      /\ \/ runner'[r].life = runner[r].life /\ runner'[r].task = a
         \/ runner'[r].life = "dead" /\ ~ runner'[r].row
      /\ running' = running \union Started(r)
  BY KnownParts DEF Begin, Stopped, Placed, RunnerState
<1>2. \A x \in Runner : x # r => /\ Down(x, t)' <=> Down(x, t)
                                 /\ Busy(x, t)' <=> Busy(x, t)
                                 /\ Toils(x, t)' <=> Toils(x, t)
  BY <1>1 DEF Down, Busy, Toils, Engaged, AtWork, Current, Life
<1>3. ~ Down(r, t)' BY <1>1, Bounds DEF Down, Current, Life
<1>4. Signals(t)' = Signals(t) BY <1>1 DEF Signals
<1>5. HasOvertaken(t)' <=> HasOvertaken(t) BY <1>1 DEF HasOvertaken, Started
<1>6. PassPaid(t) /\ RowsPaid(t) /\ StatusPaid(t) BY PaidParts DEF PaidInv
<1>7. CASE t # a
  <2>1. owed'[t] = owed[t] /\ task'[t] = task[t] BY <1>7, KnownParts DEF Begin
  <2>2. Credit(t) \in Int /\ Credit(t)' \in Int /\ Credit(t)' >= Credit(t)
    BY <1>1, <2>1, CreditStays
  <2>3. ~ Busy(r, t)' /\ ~ Toils(r, t)'
    BY <1>1, <1>7 DEF Busy, Toils, Engaged, AtWork, Life
  <2>4. Rows(t)' = Rows(t) BY <1>1, <1>7 DEF Rows, Started
  <2>5. Ever(t)' <=> Ever(t) BY <2>1 DEF Ever
  <2>6. PassPaid(t)' BY <1>2, <1>3, <1>4, <1>6, <2>2, <2>3, PassStays
  <2>7. RowsPaid(t)' BY <1>2, <1>6, <2>2, <2>3, <2>4, RowsStay
  <2>8. StatusPaid(t)' BY <1>5, <1>6, <2>2, <2>5, StatusStays DEF StatusPaid
  <2> QED BY <2>6, <2>7, <2>8, PaidNext
<1>8. CASE t = a
  <2>1. owed'[t] = owed[t] + 1
    <3>1. owed[t] < MaxOwed OBVIOUS
    <3> QED BY <1>1, <1>8, <3>1, KnownParts DEF Begin
  <2>2. Credit(t) \in Int /\ Credit(t)' = Credit(t) + 1
    <3>1. owed[t] \in Int BY KnownParts
    <3> QED BY <1>1, <2>1, <3>1, CreditType
  <2>3. PassPaid(t)'
    <3>1. \A x \in Runner : FoundAt(x, t)' <=> FoundAt(x, t) BY <1>4 DEF FoundAt
    <3>2. Lost(t)' \subseteq Lost(t) BY <1>2, <1>3, <3>1 DEF Lost, Down
    <3>3. /\ IsFiniteSet(Lost(t)') /\ Cardinality(Lost(t)') \in Nat
          /\ Cardinality(Lost(t)') <= Cardinality(Lost(t))
      BY <1>6, <3>2, Fewer DEF PassPaid
    <3>4. Cardinality(Signals(t)) + Cardinality(Lost(t)') + One(Unseen(t))' <= Credit(t)'
      BY <1>6, <2>2, <3>3, PassWorth, DuePartsNext
    <3> QED BY <1>4, <1>6, <3>3, <3>4 DEF PassPaid, PassDue
  <2>4. RowsPaid(t)'
    <3>1. CASE Started(r) = {}
      <4>1. Rows(t)' = Rows(t) BY <1>1, <3>1 DEF Rows
      <4>2. Cardinality(Rows(t)) + One(Unlisted(t))' <= Credit(t)'
        BY <1>6, <2>2, RowsWorth, DuePartsNext
      <4> QED BY <1>6, <4>1, <4>2 DEF RowsPaid, RowsDue
    <3>2. CASE Started(r) # {}
      <4>1. 1..Reviewers = {1} OBVIOUS
      <4>2. PICK i : Started(r) = {i} /\ i.task = a /\ i.owner = r /\ ~ i.overtaken
        <5> DEFINE role == IF runner[r].act \in Codes THEN "coder" ELSE "reviewer"
        <5>1. \A i \in Started(r) : i.task = a /\ i.owner = r /\ ~ i.overtaken
          BY DEF Started
        <5>2. Started(r) \subseteq [task : {a}, owner : {r}, overtaken : {FALSE},
                                    role : {role}, n : {1}]
          BY <4>1 DEF Started
        <5>3. PICK i \in Started(r) : TRUE BY <3>2
        <5>4. \A j \in Started(r) : i = j BY <5>2, <5>3, OneRecord
        <5>5. Started(r) = {i} BY <5>3, <5>4
        <5> QED BY <5>1, <5>3, <5>5
      <4>3. Rows(t)' = Rows(t) \union {i} BY <1>1, <1>8, <4>2 DEF Rows
      <4>4. Unlisted(t)' => Unlisted(t)
        BY <1>2, <4>2, <4>3 DEF Unlisted, Toils
      <4>5. /\ IsFiniteSet(Rows(t)') /\ Cardinality(Rows(t)') \in Nat
            /\ Cardinality(Rows(t)') <= Cardinality(Rows(t)) + 1
        BY <1>6, <4>3, OneMore DEF RowsPaid
      <4>6. Cardinality(Rows(t)') + One(Unlisted(t))' <= Credit(t)'
        BY <1>6, <2>2, <4>4, <4>5, RowsWorth, DuePartsNext
      <4> QED BY <4>5, <4>6 DEF RowsPaid, RowsDue
    <3> QED BY <3>1, <3>2
  <2>5. StatusPaid(t)'
    <3>1. task'[t] = Entered(t, runner[r].act) BY <1>1, <1>8, KnownParts DEF Begin
    <3>2. Ever(t) => Ever(t)'
      BY <1>1, <1>8, <3>1, KnownParts DEF Ever, Entered, TaskState
    <3>3. One(Ever(t))' + One(HasOvertaken(t))' <= Credit(t)'
      BY <1>5, <1>6, <2>2, StatusWorth, DuePartsNext
    <3> QED BY <1>5, <1>6, <3>2, <3>3 DEF StatusPaid, StatusDue
  <2> QED BY <2>3, <2>4, <2>5, PaidNext
<1> QED BY <1>7, <1>8

\* An attempt that succeeds is owed from now on: for the status it reached, and for
\* the rows of others that it left behind.
LEMMA FinishPaid ==
  ASSUME KnownInv, KnownInv', PaidInv, NEW r \in Runner, Finish(r), ~ runner[r].told
  PROVE  PaidInv'
<1> SUFFICES ASSUME NEW t \in Task PROVE Paid(t)' BY DEF PaidInv
<1> DEFINE a == runner[r].task
<1>1. /\ Life(r) = "well" /\ runner[r].pc = "working" /\ a \in Task
      /\ UNCHANGED <<healer, owed, faults>>
      /\ \A x \in Runner : x # r => runner'[x] = runner[x]
      /\ runner'[r].pc = "idle" /\ runner'[r].life = "well"
      /\ running' = {IF i.task = a THEN [i EXCEPT !.overtaken = TRUE] ELSE i :
                       i \in {j \in running : j.owner # r}}
  BY KnownParts DEF Finish, Placed, RunnerState, Life
<1>2. \A x \in Runner : /\ Down(x, t)' => Down(x, t)
                        /\ Busy(x, t)' => Busy(x, t)
                        /\ Toils(x, t)' => Toils(x, t) /\ x # r
  BY <1>1, Bounds DEF Down, Busy, Toils, Engaged, AtWork, Current, Life
<1>3. Signals(t)' = Signals(t) BY <1>1 DEF Signals
<1>4. PassPaid(t) /\ RowsPaid(t) /\ StatusPaid(t) BY PaidParts DEF PaidInv
<1>5. Credit(t) \in Int /\ Credit(t)' \in Int /\ Credit(t)' = Credit(t)
  BY <1>1, CreditType DEF Credit
<1>6. PassPaid(t)' BY <1>2, <1>3, <1>4, <1>5, PassStays
<1>7. CASE t # a
  <2>1. task'[t] = task[t] BY <1>7, KnownParts DEF Finish
  <2>2. \A i \in running' : i.task = t => i \in running /\ i.owner # r
    BY <1>1, <1>7, KnownParts DEF Invocation
  <2>3. \A i \in running : i.task = t /\ i.owner # r => i \in running'
    BY <1>1, <1>7
  <2>4. RowsPaid(t)'
    <3>1. Rows(t)' \subseteq Rows(t) BY <2>2 DEF Rows
    <3>2. \A x \in Runner : Toils(x, t)' =>
            Toils(x, t) /\ \A i \in Rows(t) : i.owner = x => i \in Rows(t)'
      BY <1>2, <2>3 DEF Rows
    <3> QED BY <1>4, <1>5, <3>1, <3>2, RowsStay
  <2>5. HasOvertaken(t)' => HasOvertaken(t) BY <2>2 DEF HasOvertaken
  <2>6. Ever(t)' <=> Ever(t) BY <2>1 DEF Ever
  <2>7. StatusPaid(t)' BY <1>4, <1>5, <2>5, <2>6, StatusStays DEF StatusPaid
  <2> QED BY <1>6, <2>4, <2>7, PaidNext
<1>8. CASE t = a
  <2>1. \A i \in running' : i.task = t => i.overtaken
    BY <1>1, <1>8, KnownParts DEF Invocation
  <2>2. RowsPaid(t)'
    <3>1. Rows(t)' = {} BY <2>1 DEF Rows
    <3>2. ASSUME Unlisted(t)' PROVE Credit(t) >= 1
      <4>1. PICK x \in Runner : Toils(x, t) BY <1>2, <3>2 DEF Unlisted, Toils
      <4>2. CASE \E i \in Rows(t) : i.owner = x
        BY <1>4, <1>5, <4>2, Some, RowsWorth DEF RowsPaid
      <4>3. CASE ~ \E i \in Rows(t) : i.owner = x
        BY <1>4, <1>5, <4>1, <4>3, RowsWorth DEF Unlisted, Toils
      <4> QED BY <4>2, <4>3
    <3>3. 0 + One(Unlisted(t))' <= Credit(t)' BY <1>4, <1>5, <3>2, RowsWorth, DuePartsNext
    <3> QED BY <3>1, <3>3, FS_EmptySet DEF RowsPaid, RowsDue
  <2>3. StatusPaid(t)'
    <3>1. Engaged(r, t) BY <1>1, <1>8, KnownParts DEF Engaged, AtWork, Placed, Life
    <3>2. Credit(t) >= 1
      <4>1. CASE FoundAt(r, t)
        <5>1. PICK s \in Signals(t) : TRUE BY <4>1 DEF FoundAt
        <5> QED BY <1>4, <1>5, <5>1, Some, PassWorth DEF PassPaid
      <4>2. CASE ~ FoundAt(r, t)
        <5>1. Unseen(t) BY <1>1, <3>1, <4>2 DEF Unseen
        <5> QED BY <1>4, <1>5, <5>1, PassWorth
      <4> QED BY <4>1, <4>2
    <3>3. ASSUME HasOvertaken(t)' PROVE Credit(t) >= 2
      <4>1. PICK j \in running : j.owner # r /\ j.task = t
        <5>1. PICK i \in running' : i.task = t BY <3>3 DEF HasOvertaken
        <5>2. PICK j \in running : /\ j.owner # r
                                  /\ i = IF j.task = a THEN [j EXCEPT !.overtaken = TRUE] ELSE j
          BY <1>1, <5>1
        <5> QED BY <5>1, <5>2, KnownParts DEF Invocation
      <4>2. CASE j.overtaken
        <5>1. HasOvertaken(t) BY <4>1, <4>2 DEF HasOvertaken
        <5> QED BY <1>4, <1>5, <5>1, StatusWorth
      <4>3. CASE ~ j.overtaken
        <5>1. j \in Rows(t) BY <4>1, <4>3 DEF Rows
        <5>2. CASE \E i \in Rows(t) : i.owner = r
          BY <1>4, <1>5, <4>1, <5>1, <5>2, Two, RowsWorth DEF RowsPaid
        <5>3. CASE ~ \E i \in Rows(t) : i.owner = r
          <6>1. Unlisted(t) BY <1>1, <3>1, <5>3 DEF Unlisted
          <6> QED BY <1>4, <1>5, <5>1, <6>1, Some, RowsWorth DEF RowsPaid
        <5> QED BY <5>2, <5>3
      <4> QED BY <4>2, <4>3
    <3>4. Ever(t)'
      <4>1. task'[t] = After(t, runner[r].act) BY <1>1, <1>8, KnownParts DEF Finish
      <4>2. task[t] \in TaskState /\ runner[r].act \in Act BY KnownParts DEF RunnerState
      <4> QED BY <4>1, <4>2 DEF Ever, After, TaskState, Act, Codes
    <3>5. HasOvertaken(t)' => Credit(t) >= 2 BY <3>3
    <3>6. One(Ever(t))' + One(HasOvertaken(t))' <= Credit(t)'
      BY <1>5, <3>2, <3>5, DuePartsNext
    <3> QED BY <3>4, <3>6 DEF StatusPaid, StatusDue
  <2> QED BY <1>6, <2>2, <2>3, PaidNext
<1> QED BY <1>7, <1>8


\* A mishap to a runner at work: a failure more may be counted, for the runner that
\* the next pass finds, for the pass that does not know it, for its lost row.  The
\* first is not one too many, as the runner was alone at its task.
LEMMA DisturbedPaid ==
  ASSUME KnownInv, KnownInv', PaidInv, OrderInv, NEW r \in Runner, Disturbed(r)
  PROVE  PaidInv'
<1> SUFFICES ASSUME NEW t \in Task PROVE Paid(t)' BY DEF PaidInv
<1>1. /\ UNCHANGED <<task, running, healer, owed>>
      /\ \A x \in Runner : x # r => runner'[x] = runner[x]
      /\ runner'[r].row = runner[r].row /\ runner'[r].pc = runner[r].pc
      /\ runner'[r].task = runner[r].task
      /\ UNCHANGED faults \/ Fault
  BY KnownParts DEF Disturbed, Lives, RunnerState
<1>2. \/ Life(r) = "frozen" /\ runner'[r].life = "well" /\ UNCHANGED faults
      \/ Life(r) \in {"well", "silent"} /\ runner'[r].life \in {"frozen", "dead"} /\ Fault
      \/ Life(r) = "frozen" /\ runner'[r].life = "dead" /\ Fault
      \/ Life(r) = "silent" /\ runner'[r].life = "well" /\ Fault
  BY KnownParts DEF Disturbed, Lives, RunnerState, Alive, Life
<1>3. PassPaid(t) /\ RowsPaid(t) /\ StatusPaid(t) BY PaidParts DEF PaidInv
<1>4. \A x \in Runner : /\ AtWork(x, t)' <=> AtWork(x, t)
                        /\ Engaged(x, t)' <=> Engaged(x, t)
                        /\ Current(x)' = t <=> Current(x) = t
                        /\ x # r => Life(x)' = Life(x)
  BY <1>1, Bounds DEF Engaged, AtWork, Current, Life
<1>5. Signals(t)' = Signals(t) /\ Rows(t)' = Rows(t) BY <1>1 DEF Signals, Rows
<1>6. /\ Ever(t)' <=> Ever(t)
      /\ HasOvertaken(t)' <=> HasOvertaken(t)
  BY <1>1 DEF Ever, HasOvertaken
<1>7. Credit(t) \in Int /\ Credit(t)' \in Int /\ Credit(t)' >= Credit(t)
  BY <1>1, CreditStays
<1>8. CASE ~ Engaged(r, t)
  <2>1. \A x \in Runner : /\ Down(x, t)' => Down(x, t)
                          /\ Busy(x, t)' => Busy(x, t)
                          /\ Toils(x, t)' => Toils(x, t)
    BY <1>4, <1>8, Bounds DEF Down, Busy, Toils, Engaged, AtWork, Current
  <2> QED BY <1>1, <1>6, <2>1, PaidStays DEF PaidInv
<1>9. ASSUME Engaged(r, t), Alive(r) PROVE Paid(t)'
  <2>1. Current(r) = t BY <1>9 DEF Engaged, AtWork, Current
  <2>2. \A x \in Runner : FoundAt(x, t)' <=> FoundAt(x, t) BY <1>5 DEF FoundAt
  <2>3. StatusPaid(t)' BY <1>3, <1>6, <1>7, StatusStays DEF StatusPaid
  <2>4. /\ IsFiniteSet(Signals(t)) /\ Cardinality(Signals(t)) \in Nat
        /\ IsFiniteSet(Lost(t)) /\ Cardinality(Lost(t)) \in Nat
    BY <1>3, FS_CardinalityType DEF PassPaid
  <2>5. ASSUME NEW d \in Nat, IsFiniteSet(Lost(t)'),
               Cardinality(Lost(t)') \in Nat,
               Cardinality(Lost(t)') + One(Unseen(t))'
                 <= Cardinality(Lost(t)) + One(Unseen(t)) + d,
               Credit(t)' >= Credit(t) + d
        PROVE  PassPaid(t)'
    <3>1. Cardinality(Signals(t)) + Cardinality(Lost(t)') + One(Unseen(t))' <= Credit(t)'
      BY <1>3, <1>7, <2>4, <2>5, PassWorth, DueParts, DuePartsNext
    <3> QED BY <1>5, <2>4, <2>5, <3>1 DEF PassPaid, PassDue
  <2>6. ASSUME Fault, faults > 0 PROVE PassPaid(t)' /\ RowsPaid(t)'
    <3>1. Credit(t)' = Credit(t) + 1
      <4>1. owed[t] \in Int BY KnownParts
      <4> QED BY <1>1, <1>7, <2>6, <4>1, CreditType
    <3>2. RowsPaid(t)'
      <4>1. Cardinality(Rows(t)) + One(Unlisted(t))' <= Credit(t)'
        BY <1>3, <1>7, <3>1, RowsWorth, DuePartsNext
      <4> QED BY <1>3, <1>5, <4>1 DEF RowsPaid, RowsDue
    <3>3. CASE Life(r)' = "well"
      <4>1. Lost(t)' \subseteq Lost(t) BY <1>4, <2>2, <3>3 DEF Lost
      <4>2. /\ IsFiniteSet(Lost(t)') /\ Cardinality(Lost(t)') \in Nat
            /\ Cardinality(Lost(t)') <= Cardinality(Lost(t))
        BY <2>4, <4>1, Fewer
      <4>3. Cardinality(Lost(t)') + One(Unseen(t))' <= Cardinality(Lost(t)) + One(Unseen(t)) + 1
        BY <2>4, <4>2, DueParts, DuePartsNext
      <4> QED BY <2>5, <3>1, <3>2, <4>2, <4>3, <1>7
    <3>4. CASE Life(r)' # "well"
      <4>1. Lost(t)' \subseteq Lost(t) \union {r} BY <1>4, <2>2 DEF Lost
      <4>2. Unseen(t)' => Unseen(t) BY <1>4, <2>2, <3>4 DEF Unseen
      <4>3. /\ IsFiniteSet(Lost(t)') /\ Cardinality(Lost(t)') \in Nat
            /\ Cardinality(Lost(t)') <= Cardinality(Lost(t)) + 1
        BY <2>4, <4>1, OneMore
      <4>4. Cardinality(Lost(t)') + One(Unseen(t))' <= Cardinality(Lost(t)) + One(Unseen(t)) + 1
        BY <2>4, <4>2, <4>3, DueParts, DuePartsNext
      <4> QED BY <2>5, <3>1, <3>2, <4>3, <4>4, <1>7
    <3> QED BY <3>3, <3>4
  \* It goes on: the pass that did not find it knows nothing of it still.
  <2>7. CASE Life(r) = "frozen" /\ runner'[r].life = "well" /\ UNCHANGED faults
    <3>1. \A x \in Runner : Toils(x, t)' => Toils(x, t)
      BY <1>4, <2>7 DEF Toils, Life
    <3>2. RowsPaid(t)' BY <1>3, <1>5, <1>7, <3>1, RowsStay
    <3>3. CASE FoundAt(r, t)
      <4>1. Lost(t)' \subseteq Lost(t) /\ (Unseen(t)' => Unseen(t))
        BY <1>4, <2>2, <2>7, <3>3 DEF Lost, Unseen, Life
      <4>2. /\ IsFiniteSet(Lost(t)') /\ Cardinality(Lost(t)') \in Nat
            /\ Cardinality(Lost(t)') <= Cardinality(Lost(t))
        BY <2>4, <4>1, Fewer
      <4>3. Cardinality(Lost(t)') + One(Unseen(t))' <= Cardinality(Lost(t)) + One(Unseen(t)) + 0
        BY <2>4, <4>1, <4>2, DueParts, DuePartsNext
      <4> QED BY <1>7, <2>3, <2>5, <3>2, <4>2, <4>3, PaidNext
    <3>4. CASE ~ FoundAt(r, t)
      <4>1. r \in Lost(t) BY <2>1, <2>7, <3>4 DEF Lost
      <4>2. Lost(t)' \subseteq Lost(t) \ {r} BY <1>4, <2>2, <2>7 DEF Lost, Life
      <4>3. /\ IsFiniteSet(Lost(t)') /\ Cardinality(Lost(t)') \in Nat
            /\ Cardinality(Lost(t)') <= Cardinality(Lost(t)) - 1
        BY <2>4, <4>1, <4>2, OneLess
      <4>4. Cardinality(Lost(t)') + One(Unseen(t))' <= Cardinality(Lost(t)) + One(Unseen(t)) + 0
        BY <2>4, <4>3, DueParts, DuePartsNext
      <4> QED BY <1>7, <2>3, <2>5, <3>2, <4>3, <4>4, PaidNext
    <3> QED BY <3>3, <3>4
  <2>8. CASE Fault /\ faults > 0 BY <2>3, <2>6, <2>8, PaidNext
  \* The first mishap: the runner is the only one at the task.
  <2>9. CASE Fault /\ faults = 0
    <3>1. Order BY <2>9 DEF OrderInv
    <3>2. Life(r) \in {"well", "silent"} BY <1>2, <3>1, <2>9 DEF Order, Orderly
    <3>3. \A x \in Runner : Alive(x) /\ AtWork(x, t) => x = r
      BY <1>9, <3>1, Alone DEF Engaged, AtWork
    <3>4. ASSUME NEW x \in Runner, Engaged(x, t), Life(x)' \in {"well", "frozen"} PROVE x = r
      <4>1. x # r => Alive(x) BY <1>4, <3>4 DEF Alive
      <4> QED BY <3>3, <3>4, <4>1 DEF Engaged
    <3>5. RowsPaid(t)'
      <4>1. CASE Life(r) = "well"
        <5>1. \A x \in Runner : Toils(x, t)' => Toils(x, t)
          BY <1>4, <3>4, <4>1 DEF Toils
        <5> QED BY <1>3, <1>5, <1>7, <5>1, RowsStay
      <4>2. CASE Life(r) = "silent"
        <5>1. PICK i \in running : i.task = t /\ i.owner = r
          BY <1>9, <3>1, <4>2 DEF Order, Orderly, Engaged, AtWork
        <5>2. i \in Rows(t) BY <3>1, <5>1 DEF Order, Attended, Rows
        <5>3. ~ Unlisted(t)' BY <1>4, <1>5, <3>4, <5>1, <5>2 DEF Unlisted
        <5>4. Cardinality(Rows(t)) + One(Unlisted(t))' <= Credit(t)'
          BY <1>3, <1>7, <5>3, RowsWorth, DuePartsNext
        <5> QED BY <1>3, <1>5, <5>4 DEF RowsPaid, RowsDue
      <4> QED BY <3>2, <4>1, <4>2
    <3>6. CASE FoundAt(r, t)
      <4>1. Lost(t)' \subseteq Lost(t) BY <1>4, <2>2, <3>6 DEF Lost
      <4>2. ~ Unseen(t)' BY <1>4, <2>2, <3>4, <3>6 DEF Unseen
      <4>3. /\ IsFiniteSet(Lost(t)') /\ Cardinality(Lost(t)') \in Nat
            /\ Cardinality(Lost(t)') <= Cardinality(Lost(t))
        BY <2>4, <4>1, Fewer
      <4>4. Cardinality(Lost(t)') + One(Unseen(t))' <= Cardinality(Lost(t)) + One(Unseen(t)) + 0
        BY <2>4, <4>2, <4>3, DueParts, DuePartsNext
      <4> QED BY <1>7, <2>3, <2>5, <3>5, <4>3, <4>4, PaidNext
    <3>7. CASE ~ FoundAt(r, t) /\ Life(r) = "well"
      <4>1. Unseen(t) BY <1>9, <3>7 DEF Unseen
      <4>2. ~ Unseen(t)'
        <5>1. Life(r)' # "well" BY <1>2, <3>7, <2>9 DEF Life
        <5> QED BY <1>4, <3>4, <5>1 DEF Unseen
      <4>3. Lost(t)' \subseteq Lost(t) \union {r} BY <1>4, <2>2 DEF Lost
      <4>4. /\ IsFiniteSet(Lost(t)') /\ Cardinality(Lost(t)') \in Nat
            /\ Cardinality(Lost(t)') <= Cardinality(Lost(t)) + 1
        BY <2>4, <4>3, OneMore
      <4>5. One(Unseen(t)) = 1 /\ One(Unseen(t))' = 0 BY <4>1, <4>2 DEF One
      <4>6. Cardinality(Lost(t)') + One(Unseen(t))' <= Cardinality(Lost(t)) + One(Unseen(t)) + 0
        BY <2>4, <4>4, <4>5
      <4> QED BY <1>7, <2>3, <2>5, <3>5, <4>4, <4>6, PaidNext
    <3>8. CASE ~ FoundAt(r, t) /\ Life(r) = "silent"
      <4>1. Signals(t) = {}
        <5>1. \A s \in Signals(t) : s.runner = r BY <1>9, <3>1 DEF Order, Orderly, Engaged, AtWork
        <5> QED BY <3>8, <5>1 DEF FoundAt
      <4>2. \A x \in Runner : Current(x) = t => Life(x) \notin {"frozen", "dead"}
        BY <3>1, Bounds DEF Order, Orderly, Current
      <4>3. Lost(t)' \subseteq {r} BY <1>4, <4>2 DEF Lost
      <4>4. Ever(t) BY <1>9, <3>1 DEF Order, Orderly, Engaged, AtWork, Ever, Open
      <4>5. Credit(t) >= 1 BY <1>3, <1>7, <4>4, StatusWorth
      <4>6. /\ IsFiniteSet(Lost(t)') /\ Cardinality(Lost(t)') \in Nat
            /\ Cardinality(Lost(t)') <= 1
            /\ Life(r)' = "well" => Cardinality(Lost(t)') = 0
        <5>1. Lost(t)' \subseteq {} \union {r} BY <4>3
        <5>2. Life(r)' = "well" => Lost(t)' = {} BY <4>3 DEF Lost
        <5>3. IsFiniteSet(Lost(t)') /\ Cardinality(Lost(t)') \in Nat
              /\ Cardinality(Lost(t)') <= Cardinality({}) + 1
          BY <5>1, OneMore, FS_EmptySet
        <5> QED BY <5>2, <5>3, FS_EmptySet
      <4>7. Life(r)' # "well" => ~ Unseen(t)' BY <1>4, <3>4 DEF Unseen
      <4>8. Cardinality(Signals(t)) + Cardinality(Lost(t)') + One(Unseen(t))' <= Credit(t)'
        BY <1>7, <4>1, <4>5, <4>6, <4>7, DuePartsNext, FS_EmptySet
      <4>9. PassPaid(t)' BY <1>5, <2>4, <4>6, <4>8 DEF PassPaid, PassDue
      <4> QED BY <2>3, <3>5, <4>9, PaidNext
    <3> QED BY <3>2, <3>6, <3>7, <3>8
  <2>10. faults \in Nat BY KnownParts, Bounds
  <2> QED BY <1>2, <2>7, <2>8, <2>9, <2>10
<1> QED BY <1>2, <1>8, <1>9 DEF Alive

\* The rows of the dead runner are those of one that is gone.
LEMMA SpawnPaid ==
  ASSUME KnownInv, KnownInv', PaidInv, NEW r \in Runner, Spawn(r)
  PROVE  PaidInv'
<1> SUFFICES ASSUME NEW t \in Task PROVE Paid(t)' BY DEF PaidInv
<1>1. /\ ~ runner[r].row /\ UNCHANGED <<task, healer, owed, faults>>
      /\ runner'[r].pc = "idle" /\ \A x \in Runner : x # r => runner'[x] = runner[x]
      /\ running' = {IF i.owner = r THEN [i EXCEPT !.owner = Gone] ELSE i : i \in running}
  BY KnownParts DEF Spawn, Rested
<1>2. \A x \in Runner : /\ Down(x, t)' => Down(x, t)
                        /\ Busy(x, t)' => Busy(x, t)
                        /\ Toils(x, t)' => Toils(x, t) /\ x # r
  BY <1>1, Bounds DEF Down, Busy, Toils, Engaged, AtWork, Current, Life
<1>3. PassPaid(t) /\ RowsPaid(t) /\ StatusPaid(t) BY PaidParts DEF PaidInv
<1>4. Credit(t) \in Int /\ Credit(t)' \in Int /\ Credit(t)' = Credit(t)
  BY <1>1, CreditType DEF Credit
<1>5. PassPaid(t)'
  <2>1. Signals(t)' = Signals(t) BY <1>1 DEF Signals
  <2> QED BY <1>2, <1>3, <1>4, <2>1, PassStays
<1> DEFINE f == [i \in running |-> IF i.owner = r THEN [i EXCEPT !.owner = Gone] ELSE i]
<1>6. ASSUME NEW j \in running'
      PROVE  \E i \in running : /\ j = f[i] /\ i.task = j.task /\ i.overtaken = j.overtaken
  BY <1>1, KnownParts DEF Invocation
<1>7. RowsPaid(t)'
  <2>1. \A j \in Rows(t)' : \E i \in Rows(t) : j = f[i] BY <1>6 DEF Rows
  <2>2. /\ IsFiniteSet(Rows(t)') /\ Cardinality(Rows(t)') \in Nat
        /\ Cardinality(Rows(t)') <= Cardinality(Rows(t))
    <3> HIDE DEF f
    <3> QED BY <1>3, <2>1, Covered DEF RowsPaid
  <2>3. \A i \in Rows(t) : i.owner # r => i \in Rows(t)' BY <1>1 DEF Rows
  <2>4. Unlisted(t)' => Unlisted(t) BY <1>2, <2>3 DEF Unlisted, Toils
  <2>5. Cardinality(Rows(t)') + One(Unlisted(t))' <= Credit(t)'
    BY <1>3, <1>4, <2>2, <2>4, RowsWorth, DuePartsNext
  <2> QED BY <2>2, <2>5 DEF RowsPaid, RowsDue
<1>8. StatusPaid(t)'
  <2>1. HasOvertaken(t)' => HasOvertaken(t) BY <1>6 DEF HasOvertaken
  <2>2. Ever(t)' <=> Ever(t) BY <1>1 DEF Ever
  <2> QED BY <1>3, <1>4, <2>1, <2>2, StatusStays DEF StatusPaid
<1> QED BY <1>5, <1>7, <1>8, PaidNext


\* What is recovered was owed: the signal itself, and who else is at the task.
\* The runners that the clean-up finds were lost before.
LEMMA SweepPaid == ASSUME KnownInv, KnownInv', PaidInv, Sweep PROVE PaidInv'
<1> SUFFICES ASSUME NEW t \in Task PROVE Paid(t)' BY DEF PaidInv
<1>1. /\ healer.todo = {} /\ healer'.todo = Abandoned
      /\ UNCHANGED <<task, running, lock, runner, owed, faults>>
  BY DEF Sweep, Resting
<1>2. PassPaid(t) /\ RowsPaid(t) /\ StatusPaid(t) BY PaidParts DEF PaidInv
<1>3. Credit(t) \in Int /\ Credit(t)' \in Int /\ Credit(t)' >= Credit(t)
  BY <1>1, CreditStays
<1>4. \A x \in Runner : /\ Current(x)' = Current(x) /\ Life(x)' = Life(x)
                        /\ Engaged(x, t)' <=> Engaged(x, t)
  BY <1>1 DEF Current, Life, Engaged, AtWork
<1>5. \A x \in Runner : ~ FoundAt(x, t) BY <1>1 DEF FoundAt, Signals
<1>6. RowsPaid(t)'
  <2>1. Rows(t)' = Rows(t) BY <1>1 DEF Rows
  <2> QED BY <1>2, <1>3, <1>4, <2>1, RowsStay DEF Toils
<1>7. StatusPaid(t)'
  <2>1. (HasOvertaken(t)' <=> HasOvertaken(t)) /\ (Ever(t)' <=> Ever(t))
    BY <1>1 DEF HasOvertaken, Ever
  <2> QED BY <1>2, <1>3, <2>1, StatusStays DEF StatusPaid
<1> DEFINE f == [x \in Lost(t) |-> [kind |-> "abandoned", runner |-> x, task |-> t, row |-> Nobody]]
<1>8. ASSUME NEW s \in Signals(t)' PROVE \E x \in Lost(t) : s = f[x]
  <2>1. s \in Abandoned /\ s.task = t BY <1>1 DEF Signals
  <2>2. PICK x \in Runner : /\ runner[x].row /\ Life(x) \in {"frozen", "dead"}
                           /\ s = [kind |-> "abandoned", runner |-> x, task |-> Current(x),
                                   row |-> Nobody]
    BY <2>1 DEF Abandoned, RunnerSignals
  <2>3. x \in Lost(t) BY <1>5, <2>1, <2>2 DEF Lost
  <2> QED BY <2>1, <2>2, <2>3
<1>9. /\ IsFiniteSet(Signals(t)') /\ Cardinality(Signals(t)') \in Nat
      /\ Cardinality(Signals(t)') <= Cardinality(Lost(t))
  <2>1. IsFiniteSet(Lost(t)) BY <1>2 DEF PassPaid
  <2> HIDE DEF f
  <2> QED BY <1>8, <2>1, Covered
<1>10. Lost(t)' = {}
  <2> SUFFICES ASSUME NEW x \in Runner, x \in Lost(t)' PROVE FALSE BY DEF Lost
  <2>1. /\ Current(x) = t /\ Life(x) \in {"frozen", "dead"} /\ ~ FoundAt(x, t)'
        /\ runner[x].row
    BY <1>4, Bounds DEF Lost, Current
  <2>2. [kind |-> "abandoned", runner |-> x, task |-> t, row |-> Nobody] \in Abandoned
    BY <2>1 DEF Abandoned, RunnerSignals
  <2> QED BY <1>1, <2>1, <2>2 DEF FoundAt, Signals
<1>11. Unseen(t)' => Unseen(t) BY <1>4, <1>5 DEF Unseen
<1>12. PassPaid(t)'
  <2>1. IsFiniteSet(Lost(t)') /\ Cardinality(Lost(t)') = 0 BY <1>10, FS_EmptySet
  <2>2. IsFiniteSet(Signals(t)) /\ Cardinality(Signals(t)) \in Nat
        /\ Cardinality(Lost(t)) \in Nat
    BY <1>2, FS_CardinalityType DEF PassPaid
  <2>3. Cardinality(Signals(t)') + Cardinality(Lost(t)') + One(Unseen(t))' <= Credit(t)'
    BY <1>2, <1>3, <1>9, <1>11, <2>1, <2>2, PassWorth, DueParts, DuePartsNext
  <2> QED BY <1>9, <2>1, <2>3 DEF PassPaid, PassDue
<1> QED BY <1>6, <1>7, <1>12, PaidNext

\* Nothing is counted, and the runner is gone, or engaged no more.
LEMMA CleanPaid == ASSUME KnownInv, KnownInv', PaidInv, Clean PROVE PaidInv'
<1> SUFFICES ASSUME NEW t \in Task PROVE Paid(t)' BY DEF PaidInv
<1>1. PICK s \in healer.todo : /\ s.kind = "abandoned"
                              /\ \/ CleanedUp(s) /\ UNCHANGED faults
                                 \/ Fault /\ UNCHANGED <<task, running, lock>>
                              /\ runner' = Dismissed(s)
                              /\ healer'.todo = healer.todo \ {s}
                              /\ UNCHANGED owed
  BY DEF Clean, WorkedOff, Resting
<1> DEFINE r == s.runner
<1>2. r \in Runner BY <1>1, KnownParts DEF SignalInv
<1>3. ~ runner'[r].row /\ \A x \in Runner : x # r => runner'[x] = runner[x]
  BY <1>1, <1>2, KnownParts DEF Dismissed, Stopped, RunnerState
<1>4. \A x \in Runner : /\ Down(x, t)' => Down(x, t) /\ x # r
                        /\ Busy(x, t)' => Busy(x, t) /\ x # r
                        /\ Toils(x, t)' => Toils(x, t) /\ x # r
  BY <1>3, Bounds DEF Down, Busy, Toils, Engaged, AtWork, Current, Life
<1>5. PassPaid(t) /\ RowsPaid(t) /\ StatusPaid(t) BY PaidParts DEF PaidInv
<1>6. Credit(t) \in Int /\ Credit(t)' \in Int /\ Credit(t)' >= Credit(t)
  BY <1>1, CreditStays
<1>7. /\ IsFiniteSet(Signals(t)) /\ IsFiniteSet(Signals(t)')
      /\ Cardinality(Signals(t)) \in Nat /\ Cardinality(Signals(t)') \in Nat
      /\ Cardinality(Signals(t)') <= Cardinality(Signals(t))
  <2>1. Signals(t)' \subseteq Signals(t) BY <1>1 DEF Signals
  <2> QED BY <1>5, <2>1, Fewer, FS_CardinalityType DEF PassPaid
<1>8. ASSUME NEW x \in Runner, x # r PROVE FoundAt(x, t)' <=> FoundAt(x, t)
  BY <1>1, <1>8 DEF FoundAt, Signals
<1>9. PassPaid(t)'
  <2>1. Lost(t)' \subseteq Lost(t) BY <1>4, <1>8 DEF Lost, Down
  <2>2. Unseen(t)' => Unseen(t) BY <1>4, <1>8 DEF Unseen, Busy
  <2>3. /\ IsFiniteSet(Lost(t)') /\ Cardinality(Lost(t)') \in Nat
        /\ Cardinality(Lost(t)) \in Nat /\ Cardinality(Lost(t)') <= Cardinality(Lost(t))
    BY <1>5, <2>1, Fewer DEF PassPaid
  <2>4. Cardinality(Signals(t)') + Cardinality(Lost(t)') + One(Unseen(t))' <= Credit(t)'
    BY <1>5, <1>6, <1>7, <2>2, <2>3, PassWorth, DueParts, DuePartsNext
  <2> QED BY <1>7, <2>3, <2>4 DEF PassPaid, PassDue
<1>10. CASE UNCHANGED <<task, running>> \/ t # s.task
  <2>1. /\ \A i \in running : i.task = t => i \in running'
        /\ running' \subseteq running /\ task'[t] = task[t]
    BY <1>1, <1>10 DEF CleanedUp
  <2>2. Rows(t)' = Rows(t) BY <2>1 DEF Rows
  <2>3. RowsPaid(t)' BY <1>4, <1>5, <1>6, <2>2, RowsStay
  <2>4. (HasOvertaken(t)' => HasOvertaken(t)) /\ (Ever(t)' <=> Ever(t))
    BY <2>1 DEF HasOvertaken, Ever
  <2>5. StatusPaid(t)' BY <1>5, <1>6, <2>4, StatusStays DEF StatusPaid
  <2> QED BY <1>9, <2>3, <2>5, PaidNext
<1>11. CASE CleanedUp(s) /\ t = s.task
  <2>1. Rows(t)' = {} /\ ~ HasOvertaken(t)' BY <1>11 DEF CleanedUp, Rows, HasOvertaken
  <2>2. Ever(t)' => Ever(t) BY <1>11, KnownParts DEF CleanedUp, Ever, TaskState
  <2>3. StatusPaid(t)' BY <1>5, <1>6, <2>1, <2>2, StatusStays
  <2>4. ASSUME Unlisted(t)' PROVE Credit(t) >= 1
    <3>1. PICK x \in Runner : Toils(x, t) BY <1>4, <2>4 DEF Unlisted, Toils
    <3>2. CASE \E i \in Rows(t) : i.owner = x
      BY <1>5, <1>6, <3>2, Some, RowsWorth DEF RowsPaid
    <3>3. CASE ~ \E i \in Rows(t) : i.owner = x
      BY <1>5, <1>6, <3>1, <3>3, RowsWorth DEF Unlisted, Toils
    <3> QED BY <3>2, <3>3
  <2>5. Credit(t) >= 0 BY <1>5, <1>6, StatusWorth
  <2>6. 0 + One(Unlisted(t))' <= Credit(t)' BY <1>6, <2>4, <2>5, DuePartsNext
  <2>7. RowsPaid(t)' BY <2>1, <2>6, FS_EmptySet DEF RowsPaid, RowsDue
  <2> QED BY <1>9, <2>3, <2>7, PaidNext
<1> QED BY <1>1, <1>10, <1>11

LEMMA RecoverPaid ==
  ASSUME KnownInv, KnownInv', PaidInv, Recover
  PROVE  PaidInv'
<1> SUFFICES ASSUME NEW t \in Task PROVE Paid(t)' BY DEF PaidInv
<1>1. PICK s \in healer.todo, skip \in BOOLEAN :
        /\ s \in healer.killed \/ s.kind \in {"dead", "orphan"}
        /\ Recovered(s, skip)
  <2>1. healer.skip \in BOOLEAN BY KnownParts DEF HealerState
  <2>2. \A s \in healer.todo : Escalates(s) \in BOOLEAN BY DEF Escalates
  <2> QED BY <2>1, <2>2 DEF Recover
<1>2. s.runner \in Runner => ~ Alive(s.runner) BY <1>1, RecoveredIsDead
<1>3. /\ healer'.todo = healer.todo \ {s} /\ UNCHANGED faults
      /\ running' = {i \in running : i.task # s.task}
  BY <1>1 DEF Recovered, WorkedOff, Resting
<1>4. \A x \in Runner : /\ runner'[x].life = runner[x].life /\ runner'[x].pc = runner[x].pc
                        /\ runner'[x].task = runner[x].task
                        /\ runner'[x].row => runner[x].row /\ x # s.runner
  BY <1>1, KnownParts DEF Recovered, RunnerState
<1>5. \A x \in Runner : /\ Down(x, t)' => Down(x, t) /\ x # s.runner
                        /\ Busy(x, t)' => Busy(x, t) /\ x # s.runner
                        /\ Toils(x, t)' => Toils(x, t) /\ x # s.runner
  BY <1>2, <1>4, Bounds DEF Down, Busy, Toils, Engaged, AtWork, Current, Life, Alive
<1>6. PassPaid(t) /\ RowsPaid(t) /\ StatusPaid(t) BY PaidParts DEF PaidInv
<1>7. CASE t # s.task
  <2>1. owed'[t] = owed[t] /\ task'[t] = task[t] BY <1>1, <1>7 DEF Recovered
  <2>2. Credit(t) \in Int /\ Credit(t)' \in Int /\ Credit(t)' >= Credit(t)
    BY <1>3, <2>1, CreditStays
  <2>3. Signals(t)' = Signals(t) BY <1>3, <1>7 DEF Signals
  <2>4. Rows(t)' = Rows(t) BY <1>3, <1>7 DEF Rows
  <2>5. HasOvertaken(t)' => HasOvertaken(t) BY <1>3 DEF HasOvertaken
  <2>6. Ever(t)' <=> Ever(t) BY <2>1 DEF Ever
  <2>7. PassPaid(t)' BY <1>5, <1>6, <2>2, <2>3, PassStays
  <2>8. RowsPaid(t)' BY <1>5, <1>6, <2>2, <2>4, RowsStay
  <2>9. StatusPaid(t)' BY <1>6, <2>2, <2>5, <2>6, StatusStays DEF StatusPaid
  <2> QED BY <2>7, <2>8, <2>9, PaidNext
<1>8. CASE t = s.task
  <2>1. owed'[t] = owed[t] - 1 /\ task'[t].status \in {"pending", "skipped"}
    BY <1>1, <1>8, KnownParts DEF Recovered, TaskState
  <2>2. Credit(t) \in Int /\ Credit(t)' = Credit(t) - 1
    <3>1. owed[t] \in Int BY KnownParts
    <3> QED BY <1>3, <2>1, <3>1, CreditType
  <2>3. s \in Signals(t) /\ Signals(t)' = Signals(t) \ {s} BY <1>3, <1>8 DEF Signals
  <2>4. ASSUME NEW x \in Runner, x # s.runner PROVE FoundAt(x, t)' <=> FoundAt(x, t)
    BY <2>3, <2>4 DEF FoundAt
  <2>5. /\ IsFiniteSet(Signals(t)) /\ IsFiniteSet(Signals(t)')
        /\ Cardinality(Signals(t)) \in Nat /\ Cardinality(Signals(t)') \in Nat
        /\ Cardinality(Signals(t)') <= Cardinality(Signals(t)) - 1
    BY <1>6, <2>3, OneLess DEF PassPaid
  <2>6. PassPaid(t)'
    <3>1. Lost(t)' \subseteq Lost(t) BY <1>5, <2>4 DEF Lost, Down
    <3>2. Unseen(t)' => Unseen(t) BY <1>5, <2>4 DEF Unseen, Busy
    <3>3. /\ IsFiniteSet(Lost(t)') /\ Cardinality(Lost(t)') \in Nat
          /\ Cardinality(Lost(t)) \in Nat /\ Cardinality(Lost(t)') <= Cardinality(Lost(t))
      BY <1>6, <3>1, Fewer DEF PassPaid
    <3>4. Cardinality(Signals(t)') + Cardinality(Lost(t)') + One(Unseen(t))' <= Credit(t)'
      BY <1>6, <2>2, <2>5, <3>2, <3>3, PassWorth, DueParts, DuePartsNext
    <3> QED BY <2>5, <3>3, <3>4 DEF PassPaid, PassDue
  <2>7. Rows(t)' = {} /\ ~ HasOvertaken(t)' BY <1>3, <1>8 DEF Rows, HasOvertaken
  <2>8. Credit(t) >= 1 BY <1>6, <2>2, <2>5, PassWorth
  <2>9. ASSUME Unlisted(t)' PROVE Credit(t) >= 2
    <3>1. PICK x \in Runner : Toils(x, t)' BY <2>9 DEF Unlisted, Toils
    <3>2. Toils(x, t) /\ x # s.runner BY <1>5, <3>1
    <3>3. CASE FoundAt(x, t)
      <4>1. PICK z \in Signals(t) : z.runner = x BY <3>3 DEF FoundAt
      <4>2. Cardinality(Signals(t)) >= 2 BY <2>3, <2>5, <3>2, <4>1, Two
      <4> QED BY <1>6, <2>2, <4>2, PassWorth
    <3>4. CASE ~ FoundAt(x, t) /\ Life(x) = "well"
      <4>1. Unseen(t) BY <3>2, <3>4 DEF Unseen, Toils
      <4> QED BY <1>6, <2>2, <2>5, <4>1, PassWorth
    <3>5. CASE ~ FoundAt(x, t) /\ Life(x) = "frozen"
      <4>1. Current(x) = t BY <3>2, <3>5, KnownParts DEF Toils, Engaged, AtWork, Current, Placed, Life
      <4>2. x \in Lost(t) BY <3>5, <4>1 DEF Lost
      <4>3. Cardinality(Lost(t)) >= 1 BY <1>6, <4>2, Some DEF PassPaid
      <4> QED BY <1>6, <2>2, <2>5, <4>3, PassWorth
    <3> QED BY <3>2, <3>3, <3>4, <3>5 DEF Toils
  <2>10. RowsPaid(t)'
    <3>1. 0 + One(Unlisted(t))' <= Credit(t)' BY <2>2, <2>8, <2>9, DuePartsNext
    <3> QED BY <2>7, <3>1, FS_EmptySet DEF RowsPaid, RowsDue
  <2>11. StatusPaid(t)'
    <3>1. ~ Ever(t)' BY <2>1 DEF Ever
    <3>2. One(Ever(t))' + One(HasOvertaken(t))' <= Credit(t)'
      BY <2>2, <2>7, <2>8, <3>1, DuePartsNext
    <3> QED BY <2>7, <3>2 DEF StatusPaid, StatusDue
  <2> QED BY <2>6, <2>10, <2>11, PaidNext
<1> QED BY <1>7, <1>8

-------------------------------------------------------------------------------

\* The signals of a task: of the runners that are in trouble with it, if there are any.
LEMMA FoundOfRunners ==
  ASSUME KnownInv, NEW active \in Actives, NEW t \in Task,
         NEW r \in Runner, Down(r, t)
  PROVE  /\ \E s \in Found(active) : s.task = t /\ s.runner = r
         /\ \A s \in Found(active) : s.task = t =>
              s \in RunnerSignals("zombie", "frozen") \union RunnerSignals("dead", "dead")
<1> DEFINE RS == RunnerSignals("zombie", "frozen") \union RunnerSignals("dead", "dead")
<1>1. Current(r) = t /\ runner[r].row /\ Life(r) \in {"frozen", "dead"}
  BY Bounds DEF Down, Current
<1>2. \E s \in RS : s.task = t /\ s.runner = r
  <2>1. CASE Life(r) = "frozen"
    <3>1. [kind |-> "zombie", runner |-> r, task |-> Current(r), row |-> Nobody]
            \in RunnerSignals("zombie", "frozen")
      BY <1>1, <2>1 DEF RunnerSignals
    <3> QED BY <1>1, <3>1
  <2>2. CASE Life(r) = "dead"
    <3>1. [kind |-> "dead", runner |-> r, task |-> Current(r), row |-> Nobody]
            \in RunnerSignals("dead", "dead")
      BY <1>1, <2>2 DEF RunnerSignals
    <3> QED BY <1>1, <3>1
  <2> QED BY <1>1, <2>1, <2>2
<1> HIDE DEF RS
<1>3. \A T : \A s \in Unhandled(RS, T) : s.task # t BY <1>2 DEF Unhandled
<1>4. \E T : Found(active) = RS \union Unhandled(RS, T) BY DEF Found, RS
<1> QED BY <1>2, <1>3, <1>4 DEF RS

\* Otherwise of hangs, or one orphan.
LEMMA FoundOfTask ==
  ASSUME KnownInv, NEW active \in Actives, NEW t \in Task,
         \A r \in Runner : ~ Down(r, t), NEW s \in Found(active), s.task = t
  PROVE  \/ s \in Hanging(active)
         \/ /\ s = [kind |-> "orphan", runner |-> Nobody, row |-> Nobody, task |-> t]
            /\ t \in OrphanedIdle \union DeadOwner
            /\ t \in OrphanedIdle \/ \A h \in Hanging(active) : h.task # t
<1>1. s \notin RunnerSignals("zombie", "frozen") \union RunnerSignals("dead", "dead")
  BY DEF RunnerSignals, Down
<1>2. CASE s \in Hanging(active) BY <1>2
<1>3. CASE s \in OrphanSignals(OrphanedIdle \union (DeadOwner \ {x.task : x \in Hanging(active)}))
  <2>1. s = [kind |-> "orphan", runner |-> Nobody, row |-> Nobody, task |-> t]
    BY <1>3 DEF OrphanSignals
  <2>2. t \in OrphanedIdle \union (DeadOwner \ {x.task : x \in Hanging(active)})
    BY <1>3 DEF OrphanSignals
  <2> QED BY <2>1, <2>2
<1> QED BY <1>1, <1>2, <1>3 DEF Found, Unhandled

LEMMA HangingRows ==
  ASSUME KnownInv, NEW active \in Actives, NEW t \in Task, NEW s \in Hanging(active), s.task = t
  PROVE  /\ ActiveRunners(t) # {}
         /\ \E i \in Rows(t) : /\ IsSilent(i)
                               /\ s = [kind |-> "hanging", runner |-> active[t],
                                       task |-> t, row |-> i]
<1>1. PICK i \in running : /\ ~ i.overtaken /\ IsSilent(i) /\ active[i.task] # Nobody
                           /\ s = [kind |-> "hanging", runner |-> active[i.task],
                                   task |-> i.task, row |-> i]
  BY DEF Hanging
<1>2. i.task = t BY <1>1
<1>3. i \in Rows(t) BY <1>1, <1>2 DEF Rows
<1>4. ActiveRunners(t) # {} BY <1>1, <1>2 DEF Actives
<1> QED BY <1>1, <1>2, <1>3, <1>4

\* The row of a runner that is well is not silent.
LEMMA WellSpeaks ==
  ASSUME NEW i \in running, i.owner \in Runner, Life(i.owner) = "well", runner[i.owner].row
  PROVE  ~ IsSilent(i)
BY DEF IsSilent, OwnerDead, Alive

\* What the next pass finds was owed before.
LEMMA DetectPaid ==
  ASSUME KnownInv, KnownInv', PaidInv, Detect
  PROVE  PaidInv'
<1> SUFFICES ASSUME NEW t \in Task PROVE Paid(t)' BY DEF PaidInv
<1>1. PICK active \in Actives : healer' = [Resting EXCEPT !.todo = Found(active)]
  BY DEF Detect
<1>17. UNCHANGED faults \/ Fault
  BY DEF Detect
<1>2. /\ healer.todo = {} /\ UNCHANGED <<task, running, lock, runner, owed>>
  BY DEF Detect, Resting
<1>3. Signals(t)' = {s \in Found(active) : s.task = t}
  <2>1. healer'.todo = Found(active) BY <1>1 DEF Resting
  <2> QED BY <2>1 DEF Signals
<1>4. Signals(t) = {} /\ \A x \in Runner : ~ FoundAt(x, t) BY <1>2 DEF Signals, FoundAt
<1>5. Credit(t) \in Int /\ Credit(t)' \in Int /\ Credit(t)' >= Credit(t)
  BY <1>17, <1>2, CreditStays
<1>6. PassPaid(t) /\ RowsPaid(t) /\ StatusPaid(t) BY PaidParts DEF PaidInv
<1>7. RowsPaid(t)'
  <2>1. Rows(t)' = Rows(t) BY <1>2 DEF Rows
  <2>2. \A x \in Runner : Toils(x, t)' <=> Toils(x, t) BY <1>2 DEF Toils, Engaged, AtWork, Life
  <2> QED BY <1>5, <1>6, <2>1, <2>2, RowsStay
<1>8. StatusPaid(t)'
  <2>1. (HasOvertaken(t)' <=> HasOvertaken(t)) /\ (Ever(t)' <=> Ever(t))
    BY <1>2 DEF HasOvertaken, Ever
  <2> QED BY <1>5, <1>6, <2>1, StatusStays DEF StatusPaid
<1>9. \A x \in Runner : /\ Current(x)' = Current(x) /\ Life(x)' = Life(x)
                        /\ Engaged(x, t)' <=> Engaged(x, t)
  BY <1>2 DEF Current, Life, Engaged, AtWork
<1>10. Unseen(t)' => Unseen(t) BY <1>4, <1>9 DEF Unseen
<1>11. Lost(t) = {x \in Runner : Down(x, t)} BY <1>4 DEF Lost, Down
<1>12. Lost(t)' = {}
  <2> SUFFICES ASSUME NEW x \in Runner, x \in Lost(t)' PROVE FALSE BY DEF Lost
  <2>1. Down(x, t) /\ ~ FoundAt(x, t)' BY <1>9 DEF Lost, Down
  <2>2. PICK s \in Found(active) : s.task = t /\ s.runner = x BY <2>1, FoundOfRunners
  <2> QED BY <1>3, <2>1, <2>2 DEF FoundAt
<1>13. ASSUME IsFiniteSet(Signals(t)'), Cardinality(Signals(t)') \in Nat,
              Cardinality(Signals(t)') + One(Unseen(t))' <= Credit(t)
       PROVE  Paid(t)'
  <2>1. IsFiniteSet(Lost(t)') /\ Cardinality(Lost(t)') = 0 BY <1>12, FS_EmptySet
  <2>2. Cardinality(Signals(t)') + Cardinality(Lost(t)') + One(Unseen(t))' <= Credit(t)'
    BY <1>5, <1>13, <2>1, DuePartsNext
  <2>3. PassPaid(t)' BY <1>13, <2>1, <2>2 DEF PassPaid, PassDue
  <2> QED BY <1>7, <1>8, <2>3, PaidNext
\* The runners found are those that were in trouble.
<1>14. CASE \E r \in Runner : Down(r, t)
  <2> DEFINE f == [x \in Runner |->
                     [kind |-> IF Life(x) = "frozen" THEN "zombie" ELSE "dead", runner |-> x,
                      task |-> Current(x), row |-> Nobody]]
  <2>1. ASSUME NEW s \in Signals(t)' PROVE \E x \in Lost(t) : s = f[x]
    <3>1. s \in RunnerSignals("zombie", "frozen") \union RunnerSignals("dead", "dead")
          /\ s.task = t
      BY <1>3, <1>14, FoundOfRunners
    <3>2. PICK x \in Runner : /\ Life(x) \in {"frozen", "dead"}
                              /\ s = f[x]
      BY <3>1 DEF RunnerSignals
    <3>3. Current(x) = t BY <3>1, <3>2
    <3> QED BY <1>11, <3>2, <3>3 DEF Down
  <2>2. /\ IsFiniteSet(Signals(t)') /\ Cardinality(Signals(t)') \in Nat
        /\ Cardinality(Signals(t)') <= Cardinality(Lost(t))
    <3> HIDE DEF f
    <3> QED BY <1>6, <2>1, Covered DEF PassPaid
  <2>3. Cardinality(Signals(t)') + One(Unseen(t))' <= Credit(t)
    BY <1>4, <1>5, <1>6, <1>10, <2>2, PassWorth, DuePartsNext, FS_EmptySet
  <2> QED BY <1>13, <2>2, <2>3
<1>15. CASE (\A r \in Runner : ~ Down(r, t)) /\ \E h \in Hanging(active) : h.task = t
  <2> DEFINE H == {i \in Rows(t) : IsSilent(i)}
             f == [i \in H |-> [kind |-> "hanging", runner |-> active[t], task |-> t, row |-> i]]
  <2>1. t \notin OrphanedIdle BY <1>15, HangingRows DEF OrphanedIdle
  <2>2. ASSUME NEW s \in Signals(t)' PROVE \E i \in H : s = f[i]
    <3>1. s \in Hanging(active) /\ s.task = t BY <1>3, <1>15, <2>1, FoundOfTask
    <3> QED BY <3>1, HangingRows
  <2>3. IsFiniteSet(H) /\ Cardinality(H) \in Nat /\ Cardinality(H) <= Cardinality(Rows(t))
    BY <1>6, Fewer DEF RowsPaid
  <2>4. /\ IsFiniteSet(Signals(t)') /\ Cardinality(Signals(t)') \in Nat
        /\ Cardinality(Signals(t)') <= Cardinality(H)
    <3> HIDE DEF f, H
    <3> QED BY <2>2, <2>3, Covered
  <2>5. CASE ~ Unseen(t)'
    <3>1. Cardinality(Signals(t)') + One(Unseen(t))' <= Credit(t)
      BY <1>5, <1>6, <2>3, <2>4, <2>5, RowsWorth, DuePartsNext
    <3> QED BY <1>13, <2>4, <3>1
  \* Who is well is at work with a row that is not among those found, or without one.
  <2>6. CASE Unseen(t)'
    <3>1. PICK x \in Runner : Busy(x, t) BY <1>10, <2>6 DEF Unseen, Busy
    <3>2. CASE \E i \in Rows(t) : i.owner = x
      <4>1. PICK i \in Rows(t) : i.owner = x BY <3>2
      <4>2. i \notin H BY <3>1, <4>1, WellSpeaks DEF Rows, Busy, Engaged
      <4>3. H \subseteq Rows(t) \ {i} BY <4>2
      <4>4. Cardinality(Rows(t)) \in Nat /\ Cardinality(H) <= Cardinality(Rows(t)) - 1
        <5> HIDE DEF H
        <5> QED BY <1>6, <4>1, <4>3, OneLess DEF RowsPaid
      <4>5. Cardinality(Signals(t)') + One(Unseen(t))' <= Credit(t)
        BY <1>5, <1>6, <2>3, <2>4, <4>4, RowsWorth, DuePartsNext
      <4> QED BY <1>13, <2>4, <4>5
    <3>3. CASE ~ \E i \in Rows(t) : i.owner = x
      <4>1. Unlisted(t) BY <3>1, <3>3 DEF Unlisted, Busy
      <4>2. Cardinality(Signals(t)') + One(Unseen(t))' <= Credit(t)
        BY <1>5, <1>6, <2>3, <2>4, <4>1, RowsWorth, DuePartsNext
      <4> QED BY <1>13, <2>4, <4>2
    <3> QED BY <3>2, <3>3
  <2> QED BY <2>5, <2>6
<1>16. CASE (\A r \in Runner : ~ Down(r, t)) /\ \A h \in Hanging(active) : h.task # t
  <2> DEFINE o == [kind |-> "orphan", runner |-> Nobody, row |-> Nobody, task |-> t]
  <2>1. \A s \in Signals(t)' : s = o /\ t \in OrphanedIdle \union DeadOwner
    BY <1>3, <1>16, FoundOfTask
  <2>2. CASE Signals(t)' = {}
    <3>1. IsFiniteSet(Signals(t)') /\ Cardinality(Signals(t)') = 0 BY <2>2, FS_EmptySet
    <3>2. Cardinality(Signals(t)') + One(Unseen(t))' <= Credit(t)
      BY <1>5, <1>6, <1>10, <3>1, PassWorth, DuePartsNext
    <3> QED BY <1>13, <3>1, <3>2
  <2>3. CASE Signals(t)' # {}
    <3>1. t \in OrphanedIdle \union DeadOwner BY <2>1, <2>3
    <3>2. Signals(t)' \subseteq {} \union {o} BY <2>1
    <3>3. /\ IsFiniteSet(Signals(t)') /\ Cardinality(Signals(t)') \in Nat
          /\ Cardinality(Signals(t)') <= 1
      <4> HIDE DEF o
      <4>1. IsFiniteSet(Signals(t)') /\ Cardinality(Signals(t)') \in Nat
            /\ Cardinality(Signals(t)') <= Cardinality({}) + 1
        BY <3>2, OneMore, FS_EmptySet
      <4> QED BY <4>1, FS_EmptySet
    <3>4. Ever(t) BY <3>1 DEF OrphanedIdle, DeadOwner, Ever, Open
    <3>5. CASE ~ Unseen(t)'
      <4>1. Cardinality(Signals(t)') + One(Unseen(t))' <= Credit(t)
        BY <1>5, <1>6, <3>3, <3>4, <3>5, StatusWorth, DuePartsNext
      <4> QED BY <1>13, <3>3, <4>1
    \* Then the rows whose owners are dead were left behind.
    <3>6. CASE Unseen(t)'
      <4>1. PICK x \in Runner : Engaged(x, t) /\ Life(x) = "well" BY <1>10, <3>6 DEF Unseen, Busy
      <4>2. x \in ActiveRunners(t) BY <4>1, ActiveAtWork DEF Engaged
      <4>3. t \in DeadOwner BY <3>1, <4>2 DEF OrphanedIdle
      <4>4. PICK i \in running : i.task = t /\ OwnerDead(i) BY <4>3 DEF DeadOwner
      <4>5. i.overtaken
        <5> SUFFICES ASSUME ~ i.overtaken PROVE FALSE OBVIOUS
        <5>1. active[t] # Nobody BY <4>2, Bounds DEF Actives, ActiveRunners
        <5>2. task[t].status \in Open \ {"pending"} BY <4>3 DEF DeadOwner
        <5>3. [kind |-> "hanging", runner |-> active[t], task |-> t, row |-> i] \in Hanging(active)
          BY <4>4, <5>1, <5>2 DEF Hanging, IsSilent
        <5> QED BY <1>16, <5>3
      <4>6. HasOvertaken(t) BY <4>4, <4>5 DEF HasOvertaken
      <4>7. Cardinality(Signals(t)') + One(Unseen(t))' <= Credit(t)
        BY <1>5, <1>6, <3>3, <4>6, StatusWorth, DuePartsNext
      <4> QED BY <1>13, <3>3, <4>7
    <3> QED BY <3>5, <3>6
  <2> QED BY <2>2, <2>3
<1> QED BY <1>14, <1>15, <1>16

-------------------------------------------------------------------------------

LEMMA InitPaid == HealthInit => PaidInv
<1> SUFFICES ASSUME HealthInit, NEW t \in Task PROVE Paid(t) BY DEF PaidInv
<1>1. Signals(t) = {} /\ Rows(t) = {} /\ ~ HasOvertaken(t) /\ ~ Ever(t)
  BY DEF HealthInit, Resting, Signals, Rows, HasOvertaken, Ever
<1>2. Lost(t) = {} BY Bounds DEF HealthInit, Rested, Lost, Current
<1>3. ~ Unseen(t) /\ ~ Unlisted(t) BY DEF HealthInit, Rested, Unseen, Unlisted, Engaged, AtWork
<1>4. Credit(t) = 0 BY DEF HealthInit, Credit
<1> QED BY <1>1, <1>2, <1>3, <1>4, FS_EmptySet DEF Paid, PassDue, RowsDue, StatusDue, One

\* The bound on the history variable is not reached.
Counts == \A t \in Task : owed[t] < MaxOwed

LEMMA StepPaid ==
  ASSUME Reviewers = 1
  PROVE  KnownInv /\ KnownInv' /\ OrderInv /\ PaidInv /\ Counts /\ [HealthNext]_healthVars
           /\ [Complies]_healthVars
         => PaidInv'
<1> SUFFICES ASSUME KnownInv, KnownInv', OrderInv, PaidInv, Counts, [HealthNext]_healthVars,
                    [Complies]_healthVars
             PROVE  PaidInv'
  OBVIOUS
<1>3. CASE UNCHANGED healthVars BY <1>3, StutterPaid
<1>1. ASSUME NEW r \in Runner, Complies,
             Runs(r) \/ Hang(r) \/ Disturbed(r) \/ Stop(r) \/ Obey(r) \/ Spawn(r)
      PROVE  PaidInv'
  BY <1>1, ClaimPaid, BeginPaid, FinishPaid, EndPaid, DisturbedPaid, SpawnPaid
     DEF Runs, Counts, Complies
<1>2. ASSUME NEW t \in Task, LockLapses(t) \/ Ages(t) \/ Revive(t) PROVE PaidInv'
  BY <1>2, TaskPaid
<1> QED BY <1>1, <1>2, <1>3, StutterPaid, SweepPaid, CleanPaid, DetectPaid, KillPaid, RecoverPaid
        DEF HealthNext, Healer

\* With one reviewer, all that may still be counted as a failure of a task is paid for:
\* by attempts that began, and by mishaps but the first.
THEOREM PaidInvariant ==
  ASSUME Reviewers = 1
  PROVE  HealthSpec /\ []Counts /\ [][Complies]_healthVars => []PaidInv
BY InitPaid, StepPaid, KnownInvariant, OrderInvariant, PTL DEF HealthSpec

\* Of the failures counted against a task there are at most as many as there were attempts
\* and, after the first, mishaps: a crash, a freeze or a late answer costs one at most.
\* That is, as long as no process that was told to end ends its phase first.
THEOREM MishapsPay ==
  ASSUME Reviewers = 1
  PROVE  HealthSpec /\ []Counts /\ [][Complies]_healthVars => [](\A t \in Task : Credit(t) >= 0)
<1>1. KnownInv /\ PaidInv => \A t \in Task : Credit(t) >= 0
  <2> SUFFICES ASSUME KnownInv, PaidInv, NEW t \in Task PROVE Credit(t) >= 0 OBVIOUS
  <2>1. owed[t] \in Int /\ faults \in 0..MaxFaults BY KnownParts
  <2>2. Credit(t) \in Int BY <2>1, Bounds DEF Credit
  <2>3. StatusPaid(t) BY PaidParts DEF PaidInv
  <2> QED BY <2>2, <2>3, StatusWorth
<1> QED BY <1>1, KnownInvariant, PaidInvariant, PTL

\* One attempt is counted as one failure, with one reviewer and whatever single mishap:
\* not twice for a runner and its invocation, not twice for a signal that was worked off
\* late (handledTaskIds in recoverStuckTasks).
THEOREM AttemptsAreFailures ==
  ASSUME Reviewers = 1, MaxFaults <= 1
  PROVE  HealthSpec /\ []Counts /\ [][Complies]_healthVars => []FailuresAreAttempts
<1>1. KnownInv /\ (\A t \in Task : Credit(t) >= 0) => FailuresAreAttempts
  <2> SUFFICES ASSUME KnownInv, NEW t \in Task, Credit(t) >= 0 PROVE owed[t] >= 0
    BY DEF FailuresAreAttempts
  <2>1. owed[t] \in Int /\ faults \in 0..MaxFaults BY KnownParts
  <2>2. Credit(t) = owed[t] BY <2>1, Bounds DEF Credit
  <2> QED BY <2>2
<1> QED BY <1>1, KnownInvariant, MishapsPay, PTL

-------------------------------------------------------------------------------
(* Monitor *)

USE MonitorAssumption

-------------------------------------------------------------------------------
(* Disturbances *)

\* There are finitely many.
LEMMA DisturbancesFinite == \A S \in SUBSET Disturbances : IsFiniteSet(S)
<1> DEFINE Kinds == {"crash", "fail", "slow", "run", "investigate", "clear"}
<1>1. IsFiniteSet({}) BY FS_EmptySet
<1>2. IsFiniteSet({} \union {"crash"}) BY <1>1, FS_AddElement
<1>3. IsFiniteSet({} \union {"crash"} \union {"fail"}) BY <1>2, FS_AddElement
<1>4. IsFiniteSet({} \union {"crash"} \union {"fail"} \union {"slow"}) BY <1>3, FS_AddElement
<1>5. IsFiniteSet({} \union {"crash"} \union {"fail"} \union {"slow"} \union {"run"})
  BY <1>4, FS_AddElement
<1>6. IsFiniteSet({} \union {"crash"} \union {"fail"} \union {"slow"} \union {"run"}
                     \union {"investigate"})
  BY <1>5, FS_AddElement
<1>7. IsFiniteSet({} \union {"crash"} \union {"fail"} \union {"slow"} \union {"run"}
                     \union {"investigate"} \union {"clear"})
  BY <1>6, FS_AddElement
<1>8. Kinds = {} \union {"crash"} \union {"fail"} \union {"slow"} \union {"run"}
                 \union {"investigate"} \union {"clear"}
  OBVIOUS
<1>9. IsFiniteSet(Kinds) BY <1>7, <1>8
<1>10. QED BY <1>9, FS_Subset

\* What is on record stays within its bound.
DisturbedType == disturbed \subseteq Disturbances /\ Cardinality(disturbed) <= MaxDisturbed

LEMMA DisturbType ==
  ASSUME DisturbedType, NEW kind, Disturb(kind)
  PROVE  DisturbedType'
<1>1. IsFiniteSet(disturbed) BY DisturbancesFinite DEF DisturbedType
<1>2. Cardinality(disturbed \union {kind}) = Cardinality(disturbed) + 1
  BY <1>1, FS_AddElement DEF Disturb
<1>3. Cardinality(disturbed) \in Nat BY <1>1, FS_CardinalityType
<1>4. QED BY <1>2, <1>3 DEF Disturb, DisturbedType

-------------------------------------------------------------------------------
(* Type correctness *)

Row == [pc : {"off", "working", "fixed"}, row : {"none", "open", "closed"},
        latest : BOOLEAN, overdue : BOOLEAN]

RunType     == last \in [scan : SUBSET Anomaly, outcome : Outcome]
CycleType   == cycle \in [Cycler -> [pc : {"idle", "scanning"}, scan : SUBSET Anomaly,
                                     how : {"auto", "manual", "forced"}]]
AnomalyType == /\ present \subseteq Anomaly /\ alerts \subseteq Anomaly
               /\ attempts \in [Anomaly -> 0..MaxRemediations]
LastInv     == \A f \in Responder :
                 responder[f].row = "open" /\ responder[f].latest => last.outcome = "dispatched"

TypeInv == TypeOK /\ LatestInv

LEMMA Disjoint ==
  /\ \A w \in Wakeup : w \in Cycler /\ w \notin Responder
  /\ \A f \in Responder : f \in Cycler /\ f \notin Wakeup /\ f # Person
  /\ Person \in Cycler
BY DEF Cycler

LEMMA InitTypes == Init => TypeInv
<1> SUFFICES ASSUME Init PROVE TypeInv OBVIOUS
<1> USE DEF Init, NoRun, NotUsed, Idle, Outcome
<1>1. Cardinality(disturbed) <= MaxDisturbed BY FS_EmptySet
<1>2. CycleType BY DEF CycleType
<1>3. attempts \in [Anomaly -> 0..MaxRemediations] OBVIOUS
<1>4. QED BY <1>1, <1>2, <1>3 DEF TypeInv, TypeOK, LatestInv, CycleType

LEMMA ScanType ==
  ASSUME TypeOK, NEW c \in Cycler, NEW how \in {"auto", "manual", "forced"}, Scan(c, how)
  PROVE  present' \subseteq Anomaly /\ CycleType'
BY DEF TypeOK, CycleType, Scan

LEMMA OverType ==
  ASSUME TypeOK, NEW c \in Cycler, Over(c)
  PROVE  CycleType'
BY DEF TypeOK, CycleType, Over, Idle

\* A responder that ends, is given up or dies ends its latest run, if it was that.
LEMMA OutcomesType ==
  ASSUME TypeInv, NEW f \in Responder, NEW outcome \in Outcome, Outcomes(f, outcome),
         NEW row \in Row, row.row # "open", row.latest => row.pc = "working" /\ responder[f].latest,
         responder' = [responder EXCEPT ![f] = row]
  PROVE  RunType' /\ LastInv' /\ LatestInv' /\ responder' \in [Responder -> Row]
<1> USE DEF TypeInv, TypeOK, LatestInv
<1>1. last' \in [scan : SUBSET Anomaly, outcome : Outcome] BY DEF Outcomes
<1>2. responder' \in [Responder -> Row] BY DEF Row
<1>3. \A g \in Responder : responder'[g] = IF g = f THEN row ELSE responder[g] OBVIOUS
<1>4. \A g \in Responder : responder'[g].latest => responder[g].latest BY <1>3
<1>5. LatestInv'
  BY <1>3, <1>4 DEF Working, Dispatched
<1>6. LastInv'
  <2> SUFFICES ASSUME NEW g \in Responder, responder'[g].row = "open", responder'[g].latest
               PROVE  last'.outcome = "dispatched"
    BY DEF LastInv
  <2>1. g # f /\ responder[g] = responder'[g] BY <1>3
  <2>2. ~ responder[f].latest BY <2>1
  <2>3. QED BY <2>1, <2>2 DEF Outcomes
<1>7. QED BY <1>1, <1>2, <1>5, <1>6 DEF RunType

\* Runs that are recorded, cleared, or of which none is the last one any more.
LEMMA NoneLatestType ==
  ASSUME TypeInv
  PROVE  /\ NoneLatest \in [Responder -> Row]
         /\ \A f \in Responder : ~ NoneLatest[f].latest
<1>1. \A r \in Row : [r EXCEPT !.latest = FALSE] \in Row /\ ~ [r EXCEPT !.latest = FALSE].latest
  BY DEF Row
<1>2. \A f \in Responder : responder[f] \in Row BY DEF TypeInv, TypeOK, Row
<1>3. \A f \in Responder : NoneLatest[f] = [responder[f] EXCEPT !.latest = FALSE]
  BY DEF NoneLatest
<1>4. \A f \in Responder : NoneLatest[f] \in Row /\ ~ NoneLatest[f].latest
  BY <1>1, <1>2, <1>3, Zenon
<1>5. NoneLatest \in [Responder -> Row] BY <1>4, Zenon DEF NoneLatest
<1>6. QED BY <1>4, <1>5

LEMMA NewLatest ==
  ASSUME NEW f \in Responder, NEW R \in [Responder -> Row], NEW row \in Row,
         \A g \in Responder : ~ R[g].latest,
         row.row = "open", row.latest => last'.outcome = "dispatched",
         responder' = [R EXCEPT ![f] = row]
  PROVE  responder' \in [Responder -> Row] /\ LastInv' /\ LatestInv'
<1>1. \A g \in Responder : responder'[g] = IF g = f THEN row ELSE R[g] OBVIOUS
<1>2. f \in Dispatched' BY <1>1 DEF Dispatched
<1>3. QED BY <1>1, <1>2 DEF LastInv, LatestInv

LEMMA NoLatest ==
  ASSUME responder' \in [Responder -> Row], \A g \in Responder : ~ responder'[g].latest
  PROVE  LastInv' /\ LatestInv'
BY DEF LastInv, LatestInv

LEMMA SameRuns ==
  ASSUME TypeInv, UNCHANGED <<last, responder>>
  PROVE  RunType' /\ responder' \in [Responder -> Row] /\ LastInv' /\ LatestInv'
BY DEF TypeInv, TypeOK, RunType, Row, LastInv, LatestInv, Working, Dispatched

LEMMA DiedType ==
  ASSUME responder \in [Responder -> Row], NEW f \in Responder
  PROVE  /\ Died(f) \in Row /\ Died(f).pc = "off"
         /\ Died(f).row \in {responder[f].row, "none"}
         /\ Died(f).latest => responder[f].latest /\ Died(f).row = "open"
BY DEF Died, Row, NotUsed

LEMMA Parts ==
  TypeInv <=> /\ AnomalyType /\ RunType /\ {due, cooling} \subseteq BOOLEAN
              /\ responder \in [Responder -> Row] /\ LastInv /\ CycleType
              /\ DisturbedType /\ LatestInv
BY DEF TypeInv, TypeOK, AnomalyType, RunType, Row, LastInv, CycleType, DisturbedType

LEMMA PartsNext ==
  ASSUME AnomalyType', RunType', due' \in BOOLEAN, cooling' \in BOOLEAN,
         responder' \in [Responder -> Row], LastInv', CycleType', DisturbedType', LatestInv'
  PROVE  TypeInv'
BY DEF TypeInv, TypeOK, AnomalyType, RunType, Row, LastInv, CycleType, DisturbedType

\* Every step keeps the types.
LEMMA StepTypes == TypeInv /\ [Next]_vars => TypeInv'
<1> SUFFICES ASSUME TypeInv, [Next]_vars PROVE TypeInv' OBVIOUS
<1>0. /\ AnomalyType /\ RunType /\ due \in BOOLEAN /\ cooling \in BOOLEAN
      /\ responder \in [Responder -> Row] /\ LastInv /\ CycleType
      /\ DisturbedType /\ LatestInv /\ TypeOK
  BY Parts DEF TypeInv
<1>r. ASSUME UNCHANGED <<last, responder>>
      PROVE  RunType' /\ responder' \in [Responder -> Row] /\ LastInv' /\ LatestInv'
  BY <1>r, SameRuns
<1>c. UNCHANGED cycle => CycleType' BY <1>0 DEF CycleType
<1>d. UNCHANGED disturbed => DisturbedType' BY <1>0 DEF DisturbedType
<1>a. UNCHANGED <<present, alerts, attempts>> => AnomalyType' BY <1>0 DEF AnomalyType
<1>u. ASSUME UNCHANGED vars PROVE TypeInv'
  BY <1>u, <1>0, <1>r, <1>c, <1>d, <1>a, PartsNext DEF vars
<1>1. ASSUME NEW a \in Anomaly, AttemptAges(a) PROVE TypeInv'
  <2>1. AnomalyType' BY <1>1, <1>0 DEF AttemptAges, AnomalyType
  <2>2. QED BY <2>1, <1>1, <1>0, <1>r, <1>c, <1>d, PartsNext DEF AttemptAges
<1>2. ASSUME NEW a \in Anomaly, Acknowledge(a) PROVE TypeInv'
  <2>1. AnomalyType' BY <1>2, <1>0 DEF Acknowledge, AnomalyType
  <2>2. QED BY <2>1, <1>2, <1>0, <1>r, <1>c, <1>d, PartsNext DEF Acknowledge
<1>3. CASE IntervalPasses
  BY <1>3, <1>0, <1>r, <1>c, <1>d, <1>a, PartsNext DEF IntervalPasses
<1>4. CASE CooldownEnds
  BY <1>4, <1>0, <1>r, <1>c, <1>d, <1>a, PartsNext DEF CooldownEnds
<1>5. ASSUME NEW w \in Wakeup, Check(w) PROVE TypeInv'
  <2>1. CycleType' /\ present' \subseteq Anomaly BY <1>5, <1>0, Disjoint, ScanType DEF Check
  <2>2. AnomalyType' BY <2>1, <1>5, <1>0 DEF Check, AnomalyType
  <2>3. UNCHANGED <<due, disturbed>> BY <1>5 DEF Check
  <2>4. CASE UNCHANGED <<responder, last, cooling>>
    BY <2>1, <2>2, <2>3, <2>4, <1>0, <1>r, <1>d, PartsNext
  <2>5. ASSUME NEW f \in Dispatched, TimesOut(f) PROVE TypeInv'
    <3> DEFINE row == IF f \in Working THEN [responder[f] EXCEPT !.row = "closed"] ELSE NotUsed
    <3>1. f \in Responder /\ responder[f] \in Row BY <1>0 DEF Dispatched
    <3>2. row \in Row /\ row.row # "open" BY <3>1 DEF Row, NotUsed
    <3>3. row.latest => row.pc = "working" /\ responder[f].latest
      BY <3>1 DEF Row, NotUsed, Working
    <3>4. responder' = [responder EXCEPT ![f] = row] BY <2>5 DEF TimesOut, Closed
    <3>5. cooling' \in BOOLEAN /\ Outcomes(f, "error") BY <2>5 DEF TimesOut
    <3> HIDE DEF row
    <3>6. RunType' /\ LastInv' /\ LatestInv' /\ responder' \in [Responder -> Row]
      BY <3>1, <3>2, <3>3, <3>4, <3>5, OutcomesType DEF Outcome
    <3>7. QED BY <3>5, <3>6, <2>1, <2>2, <2>3, <1>0, <1>d, PartsNext
  <2>6. QED BY <2>4, <2>5, <1>5 DEF Check
<1>6. CASE RunByHand
  <2>1. CycleType' /\ present' \subseteq Anomaly
    BY <1>6, <1>0, Disjoint, ScanType DEF RunByHand
  <2>2. AnomalyType' BY <2>1, <1>6, <1>0 DEF RunByHand, AnomalyType
  <2>3. DisturbedType' BY <1>6, <1>0, DisturbType DEF RunByHand
  <2>4. QED BY <2>1, <2>2, <2>3, <1>6, <1>0, <1>r, PartsNext DEF RunByHand
<1>7. ASSUME NEW c \in Cycler, Skip(c) PROVE TypeInv'
  <2>1. CycleType' BY <1>7, <1>0, OverType DEF Skip
  <2>2. QED BY <2>1, <1>7, <1>0, <1>r, <1>d, <1>a, PartsNext DEF Skip
<1>alert. ASSUME NEW c \in Cycler PROVE Alerted(c) \subseteq Anomaly
  BY <1>0 DEF Alerted, AnomalyType, CycleType
<1>8. ASSUME NEW c \in Cycler, Record(c) PROVE TypeInv'
  <2>1. CycleType' BY <1>8, <1>0, OverType DEF Record
  <2>2. AnomalyType' BY <1>8, <1>0, <1>alert DEF Record, AnomalyType
  <2>3. RunType' BY <1>8, <1>0 DEF Record, RunType, CycleType, Outcome
  <2>4. responder' \in [Responder -> Row] /\ LastInv' /\ LatestInv'
    BY <1>8, NoneLatestType, NoLatest DEF Record
  <2>5. due' \in BOOLEAN /\ UNCHANGED <<cooling, disturbed>> BY <1>8 DEF Record
  <2>6. QED BY <2>1, <2>2, <2>3, <2>4, <2>5, <1>0, <1>d, PartsNext
<1>9. ASSUME NEW c \in Cycler, Dispatch(c) PROVE TypeInv'
  <2>1. CycleType' BY <1>9, <1>0, OverType DEF Dispatch
  <2>2. attempts' \in [Anomaly -> 0..MaxRemediations]
    BY <1>9, <1>0 DEF Dispatch, Attempted, Capped, AnomalyType
  <2>3. AnomalyType' BY <2>2, <1>9, <1>0, <1>alert DEF Dispatch, AnomalyType
  <2>4. due' \in BOOLEAN BY <1>9 DEF Dispatch
  <2>5. cycle[c].scan \subseteq Anomaly BY <1>0 DEF CycleType
  <2>6. ASSUME NEW f \in Responder, last' = [scan |-> cycle[c].scan, outcome |-> "dispatched"],
               responder' = [NoneLatest EXCEPT ![f] = [pc |-> "working", row |-> "open",
                                                      latest |-> TRUE, overdue |-> FALSE]],
               UNCHANGED <<cooling, disturbed>>
        PROVE  TypeInv'
    <3>1. RunType' BY <2>5, <2>6 DEF RunType, Outcome
    <3>2. [pc |-> "working", row |-> "open", latest |-> TRUE, overdue |-> FALSE] \in Row
      BY DEF Row
    <3>3. last'.outcome = "dispatched" BY <2>6
    <3>4. responder' \in [Responder -> Row] /\ LastInv' /\ LatestInv'
      BY <2>6, <3>2, <3>3, NoneLatestType, NewLatest
    <3>5. QED BY <2>1, <2>3, <2>4, <2>6, <3>1, <3>4, <1>0, <1>d, PartsNext
  <2>7. ASSUME Disturb("fail"), last' = [scan |-> cycle[c].scan, outcome |-> "error"],
               responder' = NoneLatest, cooling' = TRUE
        PROVE  TypeInv'
    <3>1. RunType' BY <2>5, <2>7 DEF RunType, Outcome
    <3>2. responder' \in [Responder -> Row] /\ LastInv' /\ LatestInv'
      BY <2>7, NoneLatestType, NoLatest
    <3>3. DisturbedType' BY <2>7, <1>0, DisturbType
    <3>4. QED BY <2>1, <2>3, <2>4, <2>7, <3>1, <3>2, <3>3, PartsNext
  <2>8. QED BY <2>6, <2>7, <1>9 DEF Dispatch
<1>10. ASSUME NEW f \in Responder, NEW outcome \in Outcome, NEW pc \in {"off", "fixed"},
              Ends(f, outcome, pc)
       PROVE  TypeInv'
  <2> DEFINE row == [NotUsed EXCEPT !.pc = pc]
  <2>1. row \in Row /\ row.row # "open" /\ ~ row.latest BY DEF Row, NotUsed
  <2>2. responder' = [responder EXCEPT ![f] = row] BY <1>10 DEF Ends
  <2>3. UNCHANGED <<present, due, attempts, alerts, cycle, disturbed>> BY <1>10 DEF Ends
  <2> HIDE DEF row
  <2>4. CASE responder[f].row = "none" /\ UNCHANGED <<last, cooling>>
    <3>1. responder' \in [Responder -> Row] BY <2>1, <2>2, <1>0
    <3>2. \A g \in Responder : responder'[g] = IF g = f THEN row ELSE responder[g]
      BY <2>2, <1>0
    <3>3. LastInv' BY <2>1, <2>4, <3>2, <1>0 DEF LastInv
    <3>4. LatestInv' BY <2>1, <3>2, <1>0 DEF LatestInv, Working, Dispatched
    <3>5. RunType' BY <2>4, <1>0 DEF RunType
    <3>6. QED BY <2>3, <2>4, <3>1, <3>3, <3>4, <3>5, <1>0, <1>a, <1>c, <1>d, PartsNext
  <2>5. CASE Outcomes(f, outcome) /\ cooling' = TRUE
    <3>1. RunType' /\ LastInv' /\ LatestInv' /\ responder' \in [Responder -> Row]
      BY <2>1, <2>2, <2>5, OutcomesType
    <3>2. QED BY <2>3, <2>5, <3>1, <1>0, <1>a, <1>c, <1>d, PartsNext
  <2>6. QED BY <2>4, <2>5, <1>10 DEF Ends
<1>11. ASSUME NEW f \in Responder, Responds(f) PROVE TypeInv'
  BY <1>11, <1>10 DEF Responds, Succeeds, Fails, Outcome
<1>12. ASSUME NEW f \in Responder, FollowUp(f) PROVE TypeInv'
  <2>1. CycleType' /\ present' \subseteq Anomaly
    BY <1>12, <1>0, Disjoint, ScanType DEF FollowUp
  <2>2. AnomalyType' BY <2>1, <1>12, <1>0 DEF FollowUp, AnomalyType
  <2>3. \A g \in Responder : /\ responder'[g].row = responder[g].row
                             /\ responder'[g].latest = responder[g].latest
                             /\ g # f => responder'[g] = responder[g]
    BY <1>12, <1>0 DEF FollowUp, Row
  <2>4. responder' \in [Responder -> Row] BY <1>12, <1>0 DEF FollowUp, Row
  <2>5. UNCHANGED <<last, due, cooling, attempts, alerts, disturbed>> BY <1>12 DEF FollowUp
  <2>6. LastInv' BY <2>3, <2>5, <1>0 DEF LastInv
  <2>7. LatestInv' BY <2>3, <1>0, <1>12 DEF LatestInv, Working, Dispatched, FollowUp
  <2>8. QED BY <2>1, <2>2, <2>4, <2>5, <2>6, <2>7, <1>0, <1>d, PartsNext DEF RunType
<1>13. ASSUME NEW f \in Responder, Overdue(f) PROVE TypeInv'
  <2>1. \A g \in Responder : /\ responder'[g].row = responder[g].row
                             /\ responder'[g].latest = responder[g].latest
                             /\ responder'[g].pc = responder[g].pc
    BY <1>13, <1>0 DEF Overdue, Row
  <2>2. responder' \in [Responder -> Row] BY <1>13, <1>0 DEF Overdue, Row
  <2>3. UNCHANGED <<present, last, due, cooling, attempts, alerts, cycle>> BY <1>13 DEF Overdue
  <2>4. DisturbedType' BY <1>13, <1>0, <1>d, DisturbType DEF Overdue
  <2>5. LastInv' BY <2>1, <2>3, <1>0 DEF LastInv
  <2>6. LatestInv' BY <2>1, <1>0 DEF LatestInv, Working, Dispatched
  <2>7. QED BY <2>2, <2>3, <2>4, <2>5, <2>6, <1>0, <1>a, <1>c, PartsNext DEF RunType
<1>14. ASSUME NEW f \in Responder, Investigate(f) PROVE TypeInv'
  <2>1. PICK latest, overdue \in BOOLEAN :
          /\ latest => \A g \in Working : ~ responder[g].latest
          /\ responder' = [responder EXCEPT ![f] =
                [pc |-> "working", row |-> "open", latest |-> latest, overdue |-> overdue]]
          /\ last' = IF latest THEN [last EXCEPT !.outcome = "dispatched"] ELSE last
    BY <1>14 DEF Investigate
  <2> DEFINE row == [pc |-> "working", row |-> "open", latest |-> latest, overdue |-> overdue]
  <2>2. row \in Row BY DEF Row
  <2>3. \A g \in Responder : responder'[g] = IF g = f THEN row ELSE responder[g]
    BY <2>1, <1>0
  <2>4. Dispatched = {} /\ responder[f] = NotUsed /\ cooling' \in {cooling, FALSE}
        /\ UNCHANGED <<present, due, attempts, alerts, cycle>> /\ Disturb("investigate")
    BY <1>14 DEF Investigate, IsNext, IsFree
  <2>5. latest => \A g \in Responder : ~ responder[g].latest
    BY <2>1, <2>4, <1>0 DEF LatestInv
  <2>6. RunType' BY <2>1, <1>0 DEF RunType, Outcome
  <2>7. responder' \in [Responder -> Row] BY <2>1, <2>2, <1>0
  <2>8. LastInv'
    <3> SUFFICES ASSUME NEW g \in Responder, responder'[g].row = "open"
                 PROVE  responder'[g].latest => last'.outcome = "dispatched"
      BY DEF LastInv
    <3>1. g = f BY <2>3, <2>4 DEF Dispatched
    <3>2. latest => last'.outcome = "dispatched" BY <2>1, <1>0 DEF RunType
    <3>3. responder'[g].latest = latest BY <3>1, <2>3
    <3>4. QED BY <3>2, <3>3
  <2>9. LatestInv'
    <3>1. \A g \in Responder : g # f => responder'[g] = responder[g] BY <2>3
    <3>2. responder'[f].latest = latest /\ responder'[f].row = "open" BY <2>3
    <3>3. QED BY <2>5, <3>1, <3>2, <1>0 DEF LatestInv, Working, Dispatched
  <2>10. DisturbedType' BY <2>4, <1>0, DisturbType
  <2>11. QED BY <2>4, <2>6, <2>7, <2>8, <2>9, <2>10, <1>0, <1>a, <1>c, PartsNext
<1>15. CASE Clear
  <2>1. responder' \in [Responder -> Row] /\ \A f \in Responder : ~ responder'[f].latest
    BY <1>15, <1>0 DEF Clear, NotUsed, Row
  <2>2. LastInv' /\ LatestInv' BY <2>1, NoLatest
  <2>3. RunType' BY <1>15 DEF Clear, NoRun, RunType, Outcome
  <2>4. DisturbedType' BY <1>15, <1>0, DisturbType DEF Clear
  <2>5. due' \in BOOLEAN /\ cooling' \in BOOLEAN /\ UNCHANGED <<present, attempts, alerts, cycle>>
    BY <1>15 DEF Clear
  <2>6. QED BY <2>1, <2>2, <2>3, <2>4, <2>5, <1>0, <1>a, <1>c, PartsNext
<1>16. ASSUME NEW c \in Cycler, Crash(c) PROVE TypeInv'
  <2>1. CycleType' BY <1>16, <1>0 DEF Crash, CycleType, Idle
  <2>2. \A f \in Responder :
          /\ responder'[f] \in Row
          /\ responder'[f].latest => responder[f].latest
          /\ f # c => responder'[f] = responder[f]
          /\ responder'[f].row = "open" => responder[f].row = "open"
          /\ responder'[f].latest /\ f = c => responder'[f].row = "open"
    BY <1>16, <1>0, DiedType DEF Crash, Row
  <2>3. responder' \in [Responder -> Row] BY <1>16, <1>0, DiedType DEF Crash
  <2>4. UNCHANGED <<present, last, due, cooling, attempts, alerts>> BY <1>16 DEF Crash
  <2>5. LastInv' BY <2>2, <2>4, <1>0 DEF LastInv
  <2>6. LatestInv' BY <2>2, <1>0 DEF LatestInv, Working, Dispatched
  <2>7. DisturbedType' BY <1>16, <1>0, DisturbType DEF Crash
  <2>8. QED BY <2>1, <2>3, <2>4, <2>5, <2>6, <2>7, <1>0, <1>a, PartsNext DEF RunType
<1>17. QED
  BY <1>u, <1>1, <1>2, <1>3, <1>4, <1>5, <1>6, <1>7, <1>8, <1>9, <1>11, <1>12, <1>13, <1>14,
     <1>15, <1>16 DEF Next, Decide

\* Every variable keeps its type, a run that is the last one and open is on
\* record as dispatched (src/monitor/loop.ts).
THEOREM TypeCorrect == Spec => []TypeOK
<1>1. TypeInv => TypeOK BY DEF TypeInv
<1>2. QED BY <1>1, InitTypes, StepTypes, PTL DEF Spec

-------------------------------------------------------------------------------
(* One responder *)

\* What a step does to responders and scans, when nobody interferes.  The
\* wakeup decides alone: the scan of a responder falls into its cooldown.
LEMMA InitCalm == Init => CalmInv
BY Disjoint DEF Init, CalmInv, Working, Dispatched, NotUsed, Idle

LEMMA StepCalm ==
  ASSUME TypeInv, CalmInv, [Next]_vars, \A v, w \in Wakeup : v = w
  PROVE  CalmInv'
<1> SUFFICES ASSUME Undisturbed' PROVE CalmInv' BY DEF CalmInv
<1> USE Disjoint
<1>d. ASSUME NEW kind, Disturb(kind) PROVE Undisturbed /\ kind \in {"crash", "fail"}
  BY <1>d DEF Undisturbed, Disturb
<1>s. UNCHANGED disturbed => Undisturbed BY DEF Undisturbed
<1>0. /\ responder \in [Responder -> Row] /\ cooling \in BOOLEAN
      /\ CycleType
  BY Parts
<1>f. Undisturbed <=> disturbed \subseteq {"crash", "fail"} BY DEF Undisturbed
<1>c. Undisturbed =>
        /\ \A f \in Working : responder[f].row = "open" /\ ~ responder[f].overdue
        /\ \A f, g \in Dispatched : f = g
        /\ \A f \in Responder :
              responder[f].pc = "fixed" \/ cycle[f].pc = "scanning" => cooling
        /\ \A w \in Wakeup : cycle[w].pc = "scanning" /\ ~ cooling => Dispatched = {}
        /\ cycle[Person].pc = "idle"
        /\ \A c \in Cycler : cycle[c].how # "forced"
  BY DEF CalmInv
<1> USE DEF Working, Dispatched
<1>u. ASSUME UNCHANGED <<responder, cycle, cooling, disturbed>> PROVE CalmInv'
  BY <1>u, <1>c, <1>s DEF CalmInv
<1>1. ASSUME NEW a \in Anomaly, AttemptAges(a) \/ Acknowledge(a) PROVE CalmInv'
  BY <1>1, <1>u DEF AttemptAges, Acknowledge
<1>2. CASE IntervalPasses BY <1>2, <1>u DEF IntervalPasses
<1>3. CASE CooldownEnds
  <2>1. UNCHANGED <<responder, cycle, disturbed>> /\ Quiet BY <1>3 DEF CooldownEnds
  <2>2. QED BY <2>1, <1>c, <1>s, <1>0 DEF CalmInv, Quiet, CycleType
<1>4. ASSUME NEW w \in Wakeup, Check(w) PROVE CalmInv'
  <2>1. UNCHANGED disturbed BY <1>4 DEF Check
  <2>2. /\ cycle'[w].pc = "scanning" /\ cycle'[w].how = "auto"
        /\ \A c \in Cycler : c # w => cycle'[c] = cycle[c]
    BY <1>4, <1>0 DEF Check, Scan, CycleType
  <2>3. CASE Dispatched = {} /\ UNCHANGED <<responder, last, cooling>>
    BY <2>1, <2>2, <2>3, <1>c, <1>s DEF CalmInv
  <2>4. ASSUME NEW f \in Dispatched, TimesOut(f) PROVE CalmInv'
    <3>1. f \notin Working BY <2>1, <2>4, <1>c, <1>s DEF TimesOut
    <3>2. responder' = [responder EXCEPT ![f] = NotUsed] /\ cooling' = TRUE
      BY <2>4, <3>1 DEF TimesOut, Closed
    <3>3. \A g \in Responder : responder'[g] = IF g = f THEN NotUsed ELSE responder[g]
      BY <3>2, <1>0
    <3>4. QED BY <2>1, <2>2, <3>2, <3>3, <1>c, <1>s DEF CalmInv, NotUsed
  <2>5. QED BY <2>3, <2>4, <1>4 DEF Check
<1>5. CASE RunByHand BY <1>5, <1>d DEF RunByHand
<1>6. CASE Clear BY <1>6, <1>d DEF Clear
<1>7. ASSUME NEW f \in Responder, Investigate(f) PROVE CalmInv'
  BY <1>7, <1>d DEF Investigate
<1>over. ASSUME NEW c \in Cycler, Over(c)
         PROVE  \A e \in Cycler : cycle'[e] = IF e = c THEN Idle ELSE cycle[e]
  BY <1>over, <1>0 DEF Over, CycleType
<1>8. ASSUME NEW c \in Cycler, Skip(c) PROVE CalmInv'
  BY <1>8, <1>over, <1>c, <1>s DEF Skip, CalmInv, Idle
<1>n. \A f \in Responder : /\ NoneLatest[f].pc = responder[f].pc
                          /\ NoneLatest[f].row = responder[f].row
                          /\ NoneLatest[f].overdue = responder[f].overdue
  <2>1. \A r \in Row : /\ [r EXCEPT !.latest = FALSE].pc = r.pc
                       /\ [r EXCEPT !.latest = FALSE].row = r.row
                       /\ [r EXCEPT !.latest = FALSE].overdue = r.overdue
    BY DEF Row
  <2>2. \A f \in Responder : NoneLatest[f] = [responder[f] EXCEPT !.latest = FALSE]
    BY DEF NoneLatest
  <2>3. QED BY <2>1, <2>2, <1>0, Zenon
<1>9. ASSUME NEW c \in Cycler, Record(c) PROVE CalmInv'
  <2>1. responder' = NoneLatest /\ UNCHANGED <<cooling, disturbed>> BY <1>9 DEF Record
  <2>2. QED BY <2>1, <1>9, <1>n, <1>over, <1>c, <1>s DEF Record, CalmInv, Idle
<1>10. ASSUME NEW c \in Cycler, Dispatch(c) PROVE CalmInv'
  <2>1. Undisturbed
    <3>1. CASE UNCHANGED disturbed BY <3>1, <1>s
    <3>2. CASE Disturb("fail") BY <3>2, <1>d
    <3>3. QED BY <3>1, <3>2, <1>10 DEF Dispatch
  <2>2. c \in Wakeup /\ ~ cooling /\ Dispatched = {}
    <3>1. cycle[c].pc = "scanning" /\ ~ cooling
      BY <2>1, <1>c, <1>10 DEF Dispatch, Dispatches, Wanted, Scanned
    <3>2. c \in Wakeup BY <3>1, <2>1, <1>c DEF Cycler
    <3>3. QED BY <3>1, <3>2, <2>1, <1>c
  <2>3. Working = {} BY <2>1, <2>2, <1>c
  <2>4. \A e \in Cycler : cycle'[e] = IF e = c THEN Idle ELSE cycle[e]
    BY <1>over, <1>10 DEF Dispatch
  <2>5. \A w \in Wakeup : cycle'[w].pc = "idle"
    BY <2>2, <2>4 DEF Idle
  <2>6. ASSUME NEW f \in Responder, UNCHANGED cooling,
               responder' = [NoneLatest EXCEPT ![f] = [pc |-> "working", row |-> "open",
                                                      latest |-> TRUE, overdue |-> FALSE]]
        PROVE  CalmInv'
    <3>1. /\ responder'[f].pc = "working" /\ responder'[f].row = "open"
          /\ ~ responder'[f].overdue
          /\ \A g \in Responder : g # f => responder'[g] = NoneLatest[g]
      BY <2>6 DEF NoneLatest
    <3>2. QED BY <3>1, <2>1, <2>2, <2>3, <2>4, <2>5, <2>6, <1>n, <1>c DEF CalmInv, Idle
  <2>7. CASE responder' = NoneLatest /\ cooling' = TRUE
    BY <2>7, <2>1, <2>2, <2>3, <2>4, <2>5, <1>n, <1>c DEF CalmInv, Idle
  <2>8. QED BY <2>6, <2>7, <1>10 DEF Dispatch
<1>11. ASSUME NEW f \in Responder, NEW outcome, NEW pc \in {"off", "fixed"},
              Ends(f, outcome, pc)
       PROVE  CalmInv'
  <2>1. UNCHANGED <<cycle, disturbed>> BY <1>11 DEF Ends
  <2>2. \A g \in Responder :
          responder'[g] = IF g = f THEN [NotUsed EXCEPT !.pc = pc] ELSE responder[g]
    BY <1>11, <1>0 DEF Ends
  <2>3. responder[f].row = "open" BY <2>1, <1>11, <1>c, <1>s DEF Ends
  <2>4. cooling' = TRUE BY <2>3, <1>11 DEF Ends
  <2>5. QED BY <2>1, <2>2, <2>4, <1>c, <1>s DEF CalmInv, NotUsed
<1>12. ASSUME NEW f \in Responder, Responds(f) PROVE CalmInv'
  BY <1>12, <1>11 DEF Responds, Succeeds, Fails
<1>13. ASSUME NEW f \in Responder, FollowUp(f) PROVE CalmInv'
  <2>1. UNCHANGED <<cooling, disturbed>> /\ responder[f].pc = "fixed" BY <1>13 DEF FollowUp
  <2>2. /\ cycle'[f].how = "auto"
        /\ \A c \in Cycler : c # f => cycle'[c] = cycle[c]
    BY <1>13, <1>0 DEF FollowUp, Scan, CycleType
  <2>3. \A g \in Responder : /\ responder'[g].row = responder[g].row
                             /\ responder'[g].overdue = responder[g].overdue
                             /\ responder'[g].pc = IF g = f THEN "off" ELSE responder[g].pc
    BY <1>13, <1>0 DEF FollowUp, Row
  <2>4. QED BY <2>1, <2>2, <2>3, <1>c, <1>s DEF CalmInv
<1>14. ASSUME NEW f \in Responder, Overdue(f) PROVE CalmInv'
  <2>1. f \notin Working BY <1>14, <1>d DEF Overdue
  <2>2. UNCHANGED <<cooling, cycle, disturbed>> BY <1>14, <2>1 DEF Overdue
  <2>3. \A g \in Responder : /\ responder'[g].row = responder[g].row
                             /\ responder'[g].pc = responder[g].pc
                             /\ g # f => responder'[g] = responder[g]
    BY <1>14, <1>0 DEF Overdue, Row
  <2>4. QED BY <2>1, <2>2, <2>3, <1>c, <1>s DEF CalmInv
<1>15. ASSUME NEW c \in Cycler, Crash(c) PROVE CalmInv'
  <2>1. Undisturbed /\ UNCHANGED cooling BY <1>15, <1>d DEF Crash
  <2>2. \A e \in Cycler : cycle'[e] = IF e = c THEN Idle ELSE cycle[e]
    BY <1>15, <1>0 DEF Crash, CycleType
  <2>3. \A f \in Responder :
          /\ f # c => responder'[f] = responder[f]
          /\ f = c => responder'[f].pc = "off" /\ responder'[f].row \in {responder[f].row, "none"}
    BY <1>15, <1>0, DiedType DEF Crash
  <2>4. QED BY <2>1, <2>2, <2>3, <1>c DEF CalmInv, Idle
<1>16. QED
  BY <1>u, <1>1, <1>2, <1>3, <1>4, <1>5, <1>6, <1>7, <1>8, <1>9, <1>10, <1>12, <1>13, <1>14,
     <1>15 DEF Next, Decide, vars

\* Two responders never act at once as long as one wakeup runs at a time, no
\* responder outlives its timeout and no person interferes; processes may die
\* or fail to start (monitorCheck, runMonitorCycle, src/monitor/loop.ts).
THEOREM OneResponderOnly ==
  ASSUME \A v, w \in Wakeup : v = w
  PROVE  Spec => []OneResponder
<1>1. CalmInv => OneResponder BY DEF CalmInv, OneResponder, Working, Dispatched
<1>2. TypeInv /\ CalmInv /\ [Next]_vars => CalmInv' BY StepCalm
<1>3. QED BY <1>1, <1>2, InitTypes, StepTypes, InitCalm, PTL DEF Spec
================================================================================
