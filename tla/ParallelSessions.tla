--------------------------- MODULE ParallelSessions ---------------------------
(***************************************************************************)
(* The parallel mode of one project: a session of workstreams, each with a *)
(* clone of the repository, a section of the tasks, a lease and a runner   *)
(* of its own (src/commands/runners-parallel.ts), and the wakeup that      *)
(* closes sessions nobody works for, restarts runners that died and        *)
(* launches the next session (src/runners/wakeup-project.ts,               *)
(* wakeup-project-parallel.ts, wakeup-reconcile.ts,                        *)
(* parallel-session-state.ts).  The rows are in the global database; the   *)
(* workstream of section x in session s is ws[s][x].                       *)
(*                                                                         *)
(* Under "disturbed" is on record what happened besides: a launch by a     *)
(* person ("by_hand"), a process that died ("crash"), a runner that is     *)
(* alive and sends no heartbeat ("late"), a launch that fails half-way     *)
(* ("fail"), the reset of a task whose runner is at work ("task_reset")    *)
(* and of the project ("project_reset"), and a session that somebody ends  *)
(* while its clones are being made ("early").                              *)
(***************************************************************************)
EXTENDS Integers, FiniteSets

CONSTANTS
    Section,       \* sections of tasks, numbered by their position
    Upstream,      \* [Section -> SUBSET Section]: those a section depends on
    Runner,        \* runner processes
    Launcher,      \* processes of "runners start"
    Session,
    MaxClones,     \* runners.parallel.maxClones
    RecoveryCap,   \* the attempt that blocks the session: 5 in the code
    None,
    Disturbances,
    MaxDisturbed   \* bound: how many of them happen

ASSUME SessionsAssumption ==
    /\ Section \subseteq Nat /\ IsFiniteSet(Section)
    /\ Upstream \in [Section -> SUBSET Section]
    /\ Session \subseteq Nat /\ IsFiniteSet(Session)
    /\ MaxClones \in Nat \ {0} /\ RecoveryCap \in Nat \ {0}
    /\ None \notin Runner \union Session \union Section
    /\ Disturbances \subseteq {"by_hand", "crash", "late", "fail", "task_reset",
                         "project_reset", "early"}
    /\ MaxDisturbed \in Nat

VARIABLES
    work,       \* sections with tasks to do
    session,    \* parallel_sessions.status; "none": no such row
    ws,         \* workstreams
    runner,     \* the processes, and their rows in runners
    launcher,
    wakeup,     \* where the wakeup is, and what it has read
    disturbed   \* history

vars == <<work, session, ws, runner, launcher, wakeup, disturbed>>

NoStream   == [status |-> "none", held |-> FALSE, owner |-> None, attempts |-> 0]
NoRunner   == [pc |-> "free", row |-> "none", session |-> None, section |-> None,
               sees |-> FALSE]
NotStarted == [pc |-> "idle", session |-> None, plan |-> {}]
Resting    == [pc |-> "idle", session |-> None, todo |-> {}, seen |-> [x \in Section |-> 0],
               blocked |-> FALSE, restart |-> {}, overtaken |-> FALSE]

TypeOK ==
    /\ work \subseteq Section
    /\ session \in [Session -> {"none", "running", "completed", "failed", "blocked_recovery"}]
    /\ ws \in [Session -> [Section -> [status : {"none", "running", "failed"}, held : BOOLEAN,
                                       owner : Runner \union {None},
                                       attempts : 0..RecoveryCap - 1]]]
    /\ runner \in [Runner -> [pc : {"free", "spawned", "ready", "working", "dead"},
                              row : {"none", "fresh", "stale"},
                              session : Session \union {None},
                              section : Section \union {None}, sees : BOOLEAN]]
    /\ launcher \in [Launcher -> [pc : {"idle", "planned", "admitted", "cloning"},
                                  session : Session \union {None}, plan : SUBSET Section]]
    /\ wakeup \in [pc : {"idle", "maintained", "recover", "probe", "verdict", "completed",
                          "failed", "restart", "again"},
                    session : Session \union {None},
                    todo : SUBSET Section, seen : [Section -> 0..RecoveryCap - 1],
                    blocked : BOOLEAN, restart : SUBSET Section, overtaken : BOOLEAN]
    /\ disturbed \subseteq Disturbances
    \* A runner has a clone, whose workstream exists, and owns no other one.
    /\ \A r \in Runner : runner[r].pc # "free" =>
          ws[runner[r].session][runner[r].section].status # "none"
    /\ \A s \in Session, x \in Section : ws[s][x].owner # None =>
          LET r == runner[ws[s][x].owner] IN r.session = s /\ r.section = x

Init ==
    /\ work = Section
    /\ session = [s \in Session |-> "none"]
    /\ ws = [s \in Session |-> [x \in Section |-> NoStream]]
    /\ runner = [r \in Runner |-> NoRunner]
    /\ launcher = [l \in Launcher |-> NotStarted]
    /\ wakeup = Resting
    /\ disturbed = {}

Record(kinds) ==
    /\ kinds \subseteq Disturbances \ disturbed
    /\ kinds # {} => Cardinality(disturbed) < MaxDisturbed
    /\ disturbed' = disturbed \union kinds

Disturb(kind) == Record({kind})

\* Sessions whose clones are being made, and what it counts as to end some of S.
Making   == {launcher[l].session : l \in {l \in Launcher : launcher[l].pc = "cloning"}}
Early(S) == IF S \intersect Making = {} THEN {} ELSE {"early"}

-------------------------------------------------------------------------------
(* What the database says                                                  *)

\* The trigger counts a blocked session as active, the queries do not.
Final == {"none", "completed", "failed"}
Ended == Final \union {"blocked_recovery"}

Active == {s \in Session : session[s] \notin Ended}

\* The runners of session s with a heartbeat of the last five minutes.
Alive(s) == {r \in Runner : runner[r].row = "fresh" /\ runner[r].session = s}

Running(s) == {x \in Section : ws[s][x].status = "running"}

\* Faulty variant: a lease that ran out is enough, alive runner or not.
OrphanedAlive(s) == {x \in Running(s) : ~ws[s][x].held}

\* Workstreams that closeStaleParallelSessions gives up.
Orphaned(s) ==
    IF Alive(s) = {} THEN {x \in Running(s) : ~ws[s][x].held} ELSE {}

\* Faulty variant: a session is over when its runners are not heard of.
Unheard(s) == Alive(s) = {}

\* Sessions it closes.
Stale(s) == Running(s) \ Orphaned(s) = {} /\ Alive(s) = {}

\* A workstream that is given up; its lease and what was counted for it are of no more use.
GivenUp(w) == [w EXCEPT !.status = "failed", !.attempts = 0, !.held = FALSE]

\* closeStaleParallelSessions: both of its statements.
CloseStale ==
    /\ ws' = [s \in Session |-> [x \in Section |->
                 IF s \in Active /\ x \in Orphaned(s)
                 THEN GivenUp(ws[s][x]) ELSE ws[s][x]]]
    /\ session' = [s \in Session |->
                      IF s \in Active /\ Stale(s) THEN "completed" ELSE session[s]]
    /\ Record(Early({s \in Active : Stale(s)}))

\* What hasActiveParallelSessionForProject finds afterwards: a session with a workstream
\* to do, or a runner of any session that is alive.
Busy == \/ \E s \in Active : ~Stale(s)
        \/ \E s \in Session : Alive(s) # {}

Free == {r \in Runner : runner[r].pc = "free"}

-------------------------------------------------------------------------------
(* Runners                                                                 *)

Stream(r) == ws[runner[r].session][runner[r].section]

\* The workstream that reconcileParallelSessionRecovery is at.
Due(x) == x \in wakeup.todo /\ \A y \in wakeup.todo : x <= y

\* History: r says that it is there when its workstream has just been found without a runner.
ShowsUp(r) ==
    wakeup' = [wakeup EXCEPT !.overtaken =
                  \/ @
                  \/ /\ wakeup.pc = "verdict" /\ runner[r].session = wakeup.session
                     /\ Due(runner[r].section)]

\* The lease of r's workstream is extended, for its owner.
Extend(r, owner) == ws' = [ws EXCEPT ![runner[r].session][runner[r].section].held = TRUE,
                                     ![runner[r].session][runner[r].section].owner = owner]

\* r has ended, and its row is gone: what it still owns is nobody's.
Gone(r) == runner' = [runner EXCEPT ![r] = NoRunner]

Disown(r) == ws' = [s \in Session |-> [x \in Section |->
                IF ws[s][x].owner = r THEN [ws[s][x] EXCEPT !.owner = None] ELSE ws[s][x]]]

\* startDaemon: only runners outside of sessions are looked for, then the row is inserted.
Register(r) ==
    /\ runner[r].pc = "spawned"
    /\ runner' = [runner EXCEPT ![r].pc = "ready", ![r].row = "fresh"]
    /\ ShowsUp(r)
    /\ UNCHANGED <<work, session, ws, launcher, disturbed>>

\* An iteration of the loop up to the choice of a task, heartbeat included.  The loop ends
\* when the workstream is not running any more or there is nothing to do in the section.
Iterate(r) ==
    /\ runner[r].pc = "ready" /\ runner[r].row # "none"
    /\ IF Stream(r).status # "running" THEN Gone(r) /\ Disown(r) /\ UNCHANGED wakeup
       ELSE IF runner[r].sees /\ runner[r].section \in work
       THEN /\ Extend(r, r) /\ ShowsUp(r)
            /\ runner' = [runner EXCEPT ![r].pc = "working", ![r].row = "fresh"]
       ELSE Extend(r, None) /\ Gone(r) /\ UNCHANGED wakeup
    /\ UNCHANGED <<work, session, launcher, disturbed>>

\* The timer of an invocation extends the lease.
Refresh(r) ==
    /\ runner[r].pc = "working" /\ Stream(r).status = "running"
    /\ Stream(r).held => Stream(r).owner # r
    /\ Extend(r, r)
    /\ UNCHANGED <<work, session, runner, launcher, wakeup, disturbed>>

\* The last task of the section ends.  The result is dropped if the timer has found that
\* the workstream is not running any more.
Finish(r) ==
    /\ runner[r].pc = "working"
    /\ \/ work' = work \ {runner[r].section}
       \/ Stream(r).status # "running" /\ UNCHANGED work
    /\ runner' = [runner EXCEPT ![r].pc = "ready"]
    /\ UNCHANGED <<session, ws, launcher, wakeup, disturbed>>

\* A runner whose row was deleted under it handles the signal it was sent.
Terminate(r) ==
    /\ runner[r].pc \in {"ready", "working"} /\ runner[r].row = "none"
    /\ Gone(r) /\ Disown(r)
    /\ UNCHANGED <<work, session, launcher, wakeup, disturbed>>

Crash(r) ==
    /\ runner[r].pc \in {"spawned", "ready", "working"}
    /\ Disturb("crash")
    /\ IF runner[r].row = "none" THEN Gone(r) /\ Disown(r)
       ELSE runner' = [runner EXCEPT ![r].pc = "dead"] /\ UNCHANGED ws
    /\ UNCHANGED <<work, session, launcher, wakeup>>

\* r is alive, or about to register, and would extend the lease of its workstream.
Attends(r, s, x) == /\ runner[r].pc \in {"spawned", "ready", "working"}
                    /\ runner[r].session = s /\ runner[r].section = x

\* Two minutes without a refresh: nobody is there for it, or a command that takes long
\* keeps the process from its timers.
LeaseExpires(s, x) ==
    /\ ws[s][x].held /\ ws[s][x].status = "running"
    /\ \/ (\A r \in Runner : ~Attends(r, s, x)) /\ UNCHANGED disturbed
       \/ (\E r \in Runner : Attends(r, s, x)) /\ Disturb("late")
    /\ ws' = [ws EXCEPT ![s][x].held = FALSE]
    /\ UNCHANGED <<work, session, runner, launcher, wakeup>>

\* Five minutes without a heartbeat, for the same reasons.
Silent(r) ==
    /\ runner[r].row = "fresh"
    /\ \/ runner[r].pc = "dead"
       \/ runner[r].pc \in {"ready", "working"} /\ "late" \in disturbed /\ ~Stream(r).held
    /\ runner' = [runner EXCEPT ![r].row = "stale"]
    /\ UNCHANGED <<work, session, ws, launcher, wakeup, disturbed>>

Beat(r) ==
    /\ runner[r].pc \in {"ready", "working"} /\ runner[r].row = "stale"
    /\ runner' = [runner EXCEPT ![r].row = "fresh"]
    /\ ShowsUp(r)
    /\ UNCHANGED <<work, session, ws, launcher, disturbed>>

-------------------------------------------------------------------------------
(* Launches                                                                *)

\* buildParallelRunPlan: the first sections with tasks whose upstream sections are done.
Plan == LET able == {x \in work : Upstream[x] \intersect work = {}}
        IN {x \in able : Cardinality({y \in able : y < x}) < MaxClones}

Goto(l, pc) == launcher' = [launcher EXCEPT ![l].pc = pc]
End(l)      == launcher' = [launcher EXCEPT ![l] = NotStarted]

\* A process with the arguments it was given: a launch passes the names of the sections.
Process(s, x, sees) ==
    [pc |-> "spawned", row |-> "none", session |-> s, section |-> x, sees |-> sees]

\* "runners start" up to its plan.
Begin(l) ==
    /\ launcher[l].pc = "idle"
    /\ launcher' = [launcher EXCEPT ![l] =
          IF Plan = {} THEN NotStarted ELSE [pc |-> "planned", session |-> None, plan |-> Plan]]

\* By hand.
Start(l) ==
    /\ Begin(l) /\ Disturb("by_hand")
    /\ UNCHANGED <<work, session, ws, runner, wakeup>>

Admit(l) ==
    /\ launcher[l].pc = "planned"
    /\ CloseStale
    /\ IF \E s \in Active : ~Stale(s) THEN End(l) ELSE Goto(l, "admitted")
    /\ UNCHANGED <<work, runner, wakeup>>

\* Faulty variant: a session that was blocked does not keep another one out.
AdmitsBlocked == Active = {}

\* trg_parallel_sessions_active_insert
Admitted == \A s \in Session : session[s] \in Final

Insert(l) ==
    /\ launcher[l].pc = "admitted"
    /\ \/ /\ ~Admitted
          /\ End(l) /\ UNCHANGED session
       \/ /\ Admitted
          /\ \E s \in Session :
               /\ session[s] = "none" /\ \A n \in Session : n < s => session[n] # "none"
               /\ session' = [session EXCEPT ![s] = "running"]
               /\ launcher' = [launcher EXCEPT ![l].pc = "cloning", ![l].session = s]
    /\ UNCHANGED <<work, ws, runner, wakeup, disturbed>>

\* The next workstream gets its clone, its row, a lease and a runner.
Place(l) ==
    /\ launcher[l].pc = "cloning"
    /\ \E x \in launcher[l].plan, r \in Free :
        LET s == launcher[l].session IN
        /\ \A y \in launcher[l].plan : x <= y
        /\ ws' = [ws EXCEPT ![s][x] = [NoStream EXCEPT !.status = "running", !.held = TRUE]]
        /\ runner' = [runner EXCEPT ![r] = Process(s, x, TRUE)]
        /\ launcher' = [launcher EXCEPT ![l] =
              IF launcher[l].plan = {x} THEN NotStarted
              ELSE [launcher[l] EXCEPT !.plan = launcher[l].plan \ {x}]]
    /\ UNCHANGED <<work, session, wakeup, disturbed>>

\* The clone cannot be made, or the runner not be spawned.
LaunchFails(l) ==
    /\ launcher[l].pc = "cloning" /\ Disturb("fail")
    /\ \/ UNCHANGED ws
       \/ \E x \in launcher[l].plan :
             /\ \A y \in launcher[l].plan : x <= y
             /\ ws' = [ws EXCEPT ![launcher[l].session][x] =
                          [NoStream EXCEPT !.status = "running", !.held = TRUE]]
    /\ End(l)
    /\ UNCHANGED <<work, session, runner, wakeup>>

-------------------------------------------------------------------------------
(* The wakeup                                                              *)

Abandoned == {r \in Runner : /\ runner[r].row # "none"
                             /\ runner[r].pc = "dead" \/ runner[r].row = "stale"}

\* cleanupAbandonedRunners and releaseExpiredLeases
Maintain ==
    /\ wakeup.pc = "idle" /\ wakeup' = [Resting EXCEPT !.pc = "maintained"]
    /\ runner' = [r \in Runner |->
          IF r \notin Abandoned THEN runner[r]
          ELSE IF runner[r].pc = "dead" THEN NoRunner ELSE [runner[r] EXCEPT !.row = "none"]]
    /\ ws' = [s \in Session |-> [x \in Section |->
          IF \/ ws[s][x].owner \in Abandoned
             \/ ws[s][x].status = "running" /\ ~ws[s][x].held
          THEN [ws[s][x] EXCEPT !.owner = None, !.held = FALSE] ELSE ws[s][x]]]
    /\ UNCHANGED <<work, session, launcher, disturbed>>

\* startRunner, unless every process of Launcher is taken.
StartRunner ==
    IF \E l \in Launcher : launcher[l].pc = "idle" THEN \E l \in Launcher : Begin(l)
    ELSE UNCHANGED launcher

\* projectHasPendingWork and hasActiveParallelSessionForProject
Check ==
    /\ wakeup.pc = "maintained"
    /\ IF work = {} THEN wakeup' = Resting /\ UNCHANGED <<session, ws, launcher, disturbed>>
       ELSE /\ CloseStale
            /\ IF Busy THEN wakeup' = [Resting EXCEPT !.pc = "recover"] /\ UNCHANGED launcher
               ELSE wakeup' = Resting /\ StartRunner
    /\ UNCHANGED <<work, runner>>

\* The candidates of reconcileParallelSessionRecovery: their runner may be dead.
Lapsed(s) == {x \in Running(s) : ~ws[s][x].held}

Candidates(s) ==
    /\ wakeup.pc = "recover" /\ s \in Active
    /\ wakeup' = [Resting EXCEPT !.pc = "probe", !.session = s, !.todo = Lapsed(s),
                     !.seen = [x \in Section |-> IF x \in Lapsed(s) THEN ws[s][x].attempts ELSE 0]]
    /\ UNCHANGED <<work, session, ws, runner, launcher, disturbed>>

NothingToRecover ==
    /\ wakeup.pc = "recover" /\ wakeup' = [Resting EXCEPT !.pc = "again"] /\ Active = {}
    /\ UNCHANGED <<work, session, ws, runner, launcher, disturbed>>

\* Faulty variant: a lease that ran out is enough to infer that the runner is dead.
ServedByLease(s, x) == FALSE

Served(s, x) == \E r \in Alive(s) : runner[r].section = x

\* The candidate x is dealt with.
After(x) == [wakeup EXCEPT !.pc = "probe", !.todo = @ \ {x}, !.seen[x] = 0, !.overtaken = FALSE]

\* SELECT of its active runner
Probe(x) ==
    /\ wakeup.pc = "probe" /\ Due(x)
    /\ wakeup' = IF Served(wakeup.session, x) THEN After(x)
                 ELSE [wakeup EXCEPT !.pc = "verdict"]
    /\ UNCHANGED <<work, session, ws, runner, launcher, disturbed>>

\* Faulty variant: one attempt more.
CappedLate(n) == n + 1 > RecoveryCap

\* After n attempts there is none left.
Capped(n) == n + 1 >= RecoveryCap

\* Faulty variant: the attempt is not counted.
Uncounted(w, n) == w

Attempted(w, n) ==
    IF w.status = "running" THEN [w EXCEPT !.attempts = n + 1] ELSE w

\* UPDATE of its row, whatever that is by now
Decide(x) ==
    /\ wakeup.pc = "verdict" /\ Due(x)
    /\ LET s == wakeup.session
           n == wakeup.seen[x]
       IN \/ /\ Capped(n)
             /\ ws' = [ws EXCEPT ![s][x] = GivenUp(ws[s][x])]
             /\ wakeup' = [After(x) EXCEPT !.blocked = TRUE]
          \/ /\ ~Capped(n)
             /\ ws' = [ws EXCEPT ![s][x] = Attempted(ws[s][x], n)]
             /\ wakeup' = [After(x) EXCEPT !.restart = @ \union {x}]
    /\ UNCHANGED <<work, session, runner, launcher, disturbed>>

GotoRestart ==
    wakeup' = IF wakeup.restart = {} THEN [Resting EXCEPT !.pc = "again"]
              ELSE [wakeup EXCEPT !.pc = "restart", !.blocked = FALSE]

\* The session of a workstream given up is blocked.  If the trigger refuses that, since it
\* has ended and another one is active, the cycle ends there.
Block ==
    /\ wakeup.pc = "probe" /\ wakeup.todo = {} /\ wakeup.blocked
    /\ \/ /\ \A n \in Session : n # wakeup.session => session[n] \in Final
          /\ session' = [session EXCEPT ![wakeup.session] = "blocked_recovery"]
          /\ GotoRestart
       \/ /\ \E n \in Session : n # wakeup.session /\ session[n] \notin Final
          /\ wakeup' = Resting /\ UNCHANGED session
    /\ UNCHANGED <<work, ws, runner, launcher, disturbed>>

\* Otherwise its workstreams are counted: without one that runs it is to be ended.
Count ==
    /\ wakeup.pc = "probe" /\ wakeup.todo = {} /\ ~wakeup.blocked
    /\ LET s == wakeup.session IN
       \/ Running(s) # {} /\ GotoRestart /\ UNCHANGED disturbed
       \/ /\ Running(s) = {} /\ Record(Early({s}))
          /\ wakeup' = [wakeup EXCEPT !.pc =
                IF \E x \in Section : ws[s][x].status # "none" THEN "completed" ELSE "failed"]
    /\ UNCHANGED <<work, session, ws, runner, launcher>>

EndSession ==
    /\ wakeup.pc \in {"completed", "failed"}
    /\ session' = [session EXCEPT ![wakeup.session] = wakeup.pc]
    /\ GotoRestart
    /\ UNCHANGED <<work, ws, runner, launcher, disturbed>>

\* restartWorkstreamRunner.  The sections of a restarted runner are the column's JSON text,
\* taken apart at the commas: no section has such a name.  What cannot be spawned, no
\* process being left, is not tried again before the next wakeup.
Restart ==
    /\ wakeup.pc = "restart" /\ wakeup' = [Resting EXCEPT !.pc = "again"]
    /\ \E started \in SUBSET wakeup.restart : \E f \in [started -> Free] :
          /\ started = wakeup.restart \/ Cardinality(started) = Cardinality(Free)
          /\ \A x, y \in started : f[x] = f[y] => x = y
          /\ runner' = [r \in Runner |->
                IF \E x \in started : f[x] = r
                THEN Process(wakeup.session, CHOOSE x \in started : f[x] = r, FALSE)
                ELSE runner[r]]
    /\ UNCHANGED <<work, session, ws, launcher, disturbed>>

\* The same question once more.
Again ==
    /\ wakeup.pc = "again" /\ wakeup' = Resting
    /\ CloseStale
    /\ IF Busy THEN UNCHANGED launcher ELSE StartRunner
    /\ UNCHANGED <<work, runner>>

-------------------------------------------------------------------------------
(* Resets                                                                  *)

\* resetTaskRuntime for a task that r works at: its process is killed, its workstream has
\* no lease and a blocked session runs again; if that is refused nothing is written.
TaskReset(r) ==
    /\ runner[r].pc = "working" /\ runner[r].row # "none"
    /\ Disturb("task_reset")
    /\ LET owned   == {s \in Session : \E x \in Section : ws[s][x].owner = r}
           unblock == {s \in owned : session[s] \in {"blocked_recovery", "failed"}}
       IN \/ /\ \A s \in unblock, n \in Session : s # n => session[n] \in Final
             /\ Gone(r)
             /\ session' = [s \in Session |-> IF s \in unblock THEN "running" ELSE session[s]]
             /\ ws' = [s \in Session |-> [x \in Section |->
                   IF ws[s][x].owner = r THEN [ws[s][x] EXCEPT !.owner = None, !.held = FALSE]
                   ELSE ws[s][x]]]
          \/ /\ \E s \in unblock, n \in Session : s # n /\ session[n] \notin Final
             /\ runner' = [runner EXCEPT ![r].pc = "dead"]
             /\ UNCHANGED <<session, ws>>
    /\ UNCHANGED <<work, launcher, wakeup>>

\* "project reset": the runners of workstreams are not found under the path of the project.
ProjectReset ==
    /\ Record({"project_reset"} \union Early({s \in Session : session[s] = "running"}))
    /\ work' = Section
    /\ session' = [s \in Session |-> IF session[s] = "running" THEN "failed" ELSE session[s]]
    /\ ws' = [s \in Session |-> [x \in Section |->
          IF ws[s][x].status = "none" THEN ws[s][x]
          ELSE GivenUp(ws[s][x])]]
    /\ UNCHANGED <<runner, launcher, wakeup>>

-------------------------------------------------------------------------------
RunnerStep(r) == Register(r) \/ Iterate(r) \/ Finish(r) \/ Terminate(r)

LauncherStep(l) == Admit(l) \/ Insert(l) \/ Place(l)

\* reconcileParallelSessionRecovery
Recover ==
    \/ \E s \in Session : Candidates(s)
    \/ \E x \in Section : Probe(x) \/ Decide(x)
    \/ NothingToRecover \/ Block \/ Count \/ EndSession \/ Restart

WakeupStep == Maintain \/ Check \/ Recover \/ Again

Next ==
    \/ \E r \in Runner : RunnerStep(r) \/ Refresh(r) \/ Beat(r) \/ Crash(r) \/ Silent(r) \/ TaskReset(r)
    \/ \E l \in Launcher : Start(l) \/ LauncherStep(l) \/ LaunchFails(l)
    \/ WakeupStep
    \/ \E s \in Session, x \in Section : LeaseExpires(s, x)
    \/ ProjectReset

Spec == Init /\ [][Next]_vars

\* Processes go on, the wakeup comes every minute, and a lease nobody extends runs out.
FairSpec ==
    /\ Spec
    /\ \A r \in Runner : WF_vars(RunnerStep(r)) /\ WF_vars(Refresh(r) \/ Beat(r))
    /\ \A l \in Launcher : WF_vars(LauncherStep(l))
    /\ WF_vars(WakeupStep)
    /\ WF_vars(\E s \in Session, x \in Section : LeaseExpires(s, x) /\ UNCHANGED disturbed)

-------------------------------------------------------------------------------
(***************************************************************************)
(* A repository has one session that is neither over nor given up, however *)
(* many launches, wakeups and resets there are: the check that comes first *)
(* and the trigger agree on that (launchParallelSession,                   *)
(* trg_parallel_sessions_active_insert and _update).                       *)
(***************************************************************************)
OneActiveSession ==
    \A s, n \in Session : session[s] \notin Final /\ session[n] \notin Final => s = n

(***************************************************************************)
(* The workstreams that may be worked on are those of one session: a       *)
(* session is not ended, and the next one launched, while a runner of the  *)
(* first may still start, whoever is late, dies or launches by hand        *)
(* (closeStaleParallelSessions, reconcileParallelSessionRecovery).  The    *)
(* exception is a session that is ended while its clones are made.         *)
(***************************************************************************)
OneSessionAtOnce == \A s, n \in Session : Running(s) # {} /\ Running(n) # {} => s = n

OneSessionRuns == "early" \notin disturbed => OneSessionAtOnce

(***************************************************************************)
(* A workstream is not given up under a runner that is there for it and    *)
(* says so, unless the project is reset, or the runner says so only after  *)
(* the recovery has looked for it and before it writes what it found       *)
(* (closeStaleParallelSessions, reconcileParallelSessionRecovery).         *)
(***************************************************************************)
NotGivenUpUnderWork ==
    [][\A r \in Runner :
          /\ runner[r].pc \in {"ready", "working"} /\ runner[r].row = "fresh"
          /\ Stream(r).status = "running"
          /\ ws'[runner[r].session][runner[r].section].status = "failed"
          => wakeup.overtaken \/ "project_reset" \in disturbed' \ disturbed]_vars

(***************************************************************************)
(* "If the original runner is still alive for this clone, do not restart"  *)
(* (src/runners/wakeup-reconcile.ts:64).                                   *)
(***************************************************************************)
LivingAreNotRestarted ==
    [][\A r \in Runner :
          runner[r].pc = "free" /\ runner'[r].pc = "spawned" /\ ~runner'[r].sees
          => ~Served(runner'[r].session, runner'[r].section)]_vars

(***************************************************************************)
(* The tasks of every section are done in the end, or a session is blocked *)
(* for somebody to look at it (processWakeupProject).                      *)
(***************************************************************************)
Blocked == \E s \in Session : session[s] = "blocked_recovery"

WorkIsServed == \A x \in Section : x \in work ~> (x \notin work \/ Blocked)

(***************************************************************************)
(* A runner the wakeup has started again looks for the tasks of its        *)
(* workstream: "with the correct section filter"                           *)
(* (src/runners/wakeup-runner.ts, restartWorkstreamRunner).                *)
(***************************************************************************)
RestartedRunnersSee == \A r \in Runner : runner[r].pc \in {"ready", "working"} => runner[r].sees
=============================================================================
