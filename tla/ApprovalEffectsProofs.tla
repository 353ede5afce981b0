------------------------- MODULE ApprovalEffectsProofs -------------------------
(* What TLC checks of ApprovalEffects on small instances, proved for any number *)
(* of processes, tasks and disturbances, and any section and intake pipeline.   *)
EXTENDS ApprovalEffects, TLAPS

USE EffectsAssumption

-------------------------------------------------------------------------------
(* Types, part by part *)

Mem == [pc : Labels, task : Task \union {None}, seen : SUBSET Step, todo : SUBSET Task,
        legacy : BOOLEAN]

MemType    == proc \in [Process -> Mem]
StatusType == status \in [Task -> {"absent", "active", "completed", "failed"}]
QueueType  == queue \in [Task -> {"none", "pending", "applied", "again", "anomaly"}]
StepsType  == steps \in [Task -> SUBSET Step]
CountType  == /\ taskHook \in [Task -> 0..2] /\ created \in [Intake -> 0..2]
              /\ announced \subseteq {"section", "project"}
              /\ pr \in {"none", "open", "recorded"}
              /\ disturbed \subseteq Disturbances \union {"overlap"}
RowsInv    == \A t \in Task :
                 /\ steps[t] # {} => queue[t] \in Tracked
                 /\ queue[t] \in {"applied", "again"} =>
                       {"task_completed_hook", "project_completion"} \subseteq steps[t]

LEMMA Parts ==
  TypeOK <=> MemType /\ StatusType /\ QueueType /\ StepsType /\ CountType /\ RowsInv
BY DEF TypeOK, Mem, MemType, StatusType, QueueType, StepsType, CountType, RowsInv, Tracked

LEMMA PartsNext ==
  ASSUME MemType', StatusType', QueueType', StepsType', CountType', RowsInv'
  PROVE  TypeOK'
BY DEF TypeOK, Mem, MemType, StatusType, QueueType, StepsType, CountType, RowsInv, Tracked

\* What a process has in memory: its part of RunInv.
RunOf(p) ==
  /\ InRun(p) <=> proc[p].pc \notin {"idle", "next"}
  /\ InRun(p) =>
        /\ queue[proc[p].task] \in Tracked
        /\ proc[p].seen \subseteq steps[proc[p].task]
        /\ proc[p].pc \notin {"task", "task_fired"} =>
              "task_completed_hook" \in steps[proc[p].task]
  /\ ~ proc[p].legacy => \A t \in proc[p].todo : queue[t] \in Tracked

LEMMA RunParts == (RunInv <=> \A p \in Process : RunOf(p)) /\ (RunInv' <=> \A p \in Process : RunOf(p)')
BY DEF RunInv, RunOf

\* What is on record stays on record.
Kept == \A t \in Task : /\ queue[t] \in Tracked => queue'[t] \in Tracked
                        /\ steps[t] \subseteq steps'[t]

\* A process that does nothing has its part of the invariant still.
LEMMA RunStays ==
  ASSUME MemType, Kept, NEW q \in Process, RunOf(q), proc'[q] = proc[q]
  PROVE  RunOf(q)'
BY DEF MemType, Mem, Kept, RunOf, InRun

LEMMA RunNextOf ==
  ASSUME MemType, RunInv, Kept, NEW p \in Process, RunOf(p)',
         \A q \in Process : q # p => proc'[q] = proc[q]
  PROVE  RunInv'
BY RunParts, RunStays

LEMMA RunUnmoved ==
  ASSUME MemType, RunInv, Kept, UNCHANGED proc
  PROVE  RunInv'
BY RunParts, RunStays

-------------------------------------------------------------------------------
(* The ways a process moves *)

\* From one step of a run to another.
LEMMA GotoMem ==
  ASSUME MemType, NEW p \in Process, NEW label \in Labels, Goto(p, label)
  PROVE  /\ MemType'
         /\ \A q \in Process : q # p => proc'[q] = proc[q]
         /\ proc'[p].pc = label /\ proc'[p].task = proc[p].task /\ proc'[p].seen = proc[p].seen
         /\ proc'[p].todo = proc[p].todo /\ proc'[p].legacy = proc[p].legacy
BY DEF Goto, MemType, Mem

\* Into a run.
LEMMA BeginMem ==
  ASSUME MemType, StepsType, NEW p \in Process, NEW t \in Task, NEW rows, Begin(p, t, rows)
  PROVE  /\ MemType'
         /\ \A q \in Process : q # p => proc'[q] = proc[q]
         /\ proc'[p].pc = "task" /\ proc'[p].task = t /\ proc'[p].seen = steps[t]
         /\ proc'[p].todo = proc[p].todo \ {t} /\ proc'[p].legacy = proc[p].legacy
<1> DEFINE Into(m) == [m EXCEPT !.pc = "task", !.task = t, !.seen = steps[t], !.todo = m.todo \ {t}]
<1>1. steps[t] \in SUBSET Step BY DEF StepsType
<1>2. \A m \in Mem :
         /\ Into(m) \in Mem
         /\ Into(m).pc = "task" /\ Into(m).task = t /\ Into(m).seen = steps[t]
         /\ Into(m).todo = m.todo \ {t} /\ Into(m).legacy = m.legacy
  BY <1>1 DEF Mem, Labels
<1>3. proc' = [proc EXCEPT ![p] = Into(proc[p])] BY DEF Begin, Seen
<1> HIDE DEF Into
<1>4. proc[p] \in Mem BY DEF MemType
<1>5. proc'[p] = Into(proc[p]) /\ \A q \in Process : q # p => proc'[q] = proc[q]
  BY <1>3 DEF MemType
<1>6. MemType' BY <1>2, <1>3, <1>4 DEF MemType
<1>7. QED BY <1>2, <1>4, <1>5, <1>6

\* Out of it.
LEMMA FinishMem ==
  ASSUME MemType, NEW p \in Process, Finish(p)
  PROVE  /\ MemType'
         /\ \A q \in Process : q # p => proc'[q] = proc[q]
         /\ proc'[p].pc \in {"idle", "next"} /\ proc'[p].task = None
         /\ proc'[p].todo = proc[p].todo /\ proc'[p].legacy = proc[p].legacy
<1>1. \A m \in Mem, label \in {"idle", "next"} :
         /\ [m EXCEPT !.pc = label, !.task = None, !.seen = {}] \in Mem
         /\ [m EXCEPT !.pc = label, !.task = None, !.seen = {}].pc = label
         /\ [m EXCEPT !.pc = label, !.task = None, !.seen = {}].task = None
         /\ [m EXCEPT !.pc = label, !.task = None, !.seen = {}].todo = m.todo
         /\ [m EXCEPT !.pc = label, !.task = None, !.seen = {}].legacy = m.legacy
  BY DEF Mem, Labels
<1>2. PICK label \in {"idle", "next"} :
         proc' = [proc EXCEPT ![p].pc = label, ![p].task = None, ![p].seen = {}]
  BY DEF Finish
<1>3. proc' = [proc EXCEPT ![p] = [proc[p] EXCEPT !.pc = label, !.task = None, !.seen = {}]]
  BY <1>2
<1>4. proc[p] \in Mem BY DEF MemType
<1>5. QED BY <1>1, <1>3, <1>4 DEF MemType

\* To nothing at all.
LEMMA IdleMem ==
  ASSUME MemType, NEW p \in Process, proc' = [proc EXCEPT ![p] = Idle]
  PROVE  /\ MemType'
         /\ \A q \in Process : q # p => proc'[q] = proc[q]
         /\ proc'[p] = Idle
BY DEF Idle, MemType, Mem, Labels

\* A step of a run that is neither its beginning nor its end.
LEMMA GotoRun ==
  ASSUME MemType, RunInv, Kept, NEW p \in Process, NEW label \in Labels, Goto(p, label),
         proc[p].pc \notin {"idle", "next"}, label \notin {"idle", "next"},
         label = "task_fired" \/ "task_completed_hook" \in steps'[proc[p].task]
  PROVE  RunInv'
<1>1. RunOf(p)' BY GotoMem, RunParts DEF RunOf, InRun, Kept, MemType, Mem
<1>2. QED BY <1>1, GotoMem, RunNextOf

\* The task a run is at.
LEMMA RunTask ==
  ASSUME MemType, RunInv, NEW p \in Process, proc[p].pc \notin {"idle", "next"}
  PROVE  /\ proc[p].task \in Task /\ InRun(p) /\ queue[proc[p].task] \in Tracked
         /\ proc[p].seen \subseteq steps[proc[p].task]
         /\ proc[p].pc \notin {"task", "task_fired"} =>
               "task_completed_hook" \in steps[proc[p].task]
BY RunParts DEF RunOf, InRun, MemType, Mem

\* A step that is put on record.
LEMMA AppliedType ==
  ASSUME StepsType, QueueType, RowsInv, NEW p \in Process, NEW step \in Step,
         proc[p].task \in Task, queue[proc[p].task] \in Tracked, Applied(p, step),
         UNCHANGED queue
  PROVE  /\ StepsType' /\ RowsInv' /\ Kept
         /\ \A t \in Task : steps'[t] = IF t = proc[p].task THEN steps[t] \union {step}
                                        ELSE steps[t]
BY DEF Applied, StepsType, QueueType, RowsInv, Kept

\* A change that concerns the audit trail in nothing.
LEMMA TrailType ==
  ASSUME StepsType, QueueType, RowsInv, UNCHANGED <<queue, steps>>
  PROVE  StepsType' /\ QueueType' /\ RowsInv' /\ Kept
BY DEF StepsType, QueueType, RowsInv, Kept

-------------------------------------------------------------------------------
(* Every step keeps the types, and what a process remembers right *)

Base == TypeOK /\ RunInv

LEMMA InitBase == Init => Base
<1> SUFFICES ASSUME Init PROVE Base OBVIOUS
<1>1. TypeOK BY DEF Init, TypeOK, Idle, Labels, Tracked
<1>2. \A p \in Process : proc[p] = Idle BY DEF Init
<1>3. RunInv BY <1>2 DEF RunInv, InRun, Idle
<1>4. QED BY <1>1, <1>3 DEF Base

LEMMA DisturbType ==
  ASSUME CountType, NEW kind, Disturb(kind)
  PROVE  disturbed' \subseteq Disturbances \union {"overlap"}
BY DEF CountType, Disturb

LEMMA BeginBase ==
  ASSUME Base, NEW p \in Process, NEW t \in Task, NEW rows, Begin(p, t, rows),
         QueueType', Kept, UNCHANGED steps, RowsInv', rows[t] \in Tracked
  PROVE  MemType' /\ RunInv' /\ disturbed' \subseteq Disturbances \union {"overlap"}
<1>1. MemType /\ StepsType /\ RunInv /\ CountType BY Parts DEF Base
<1>2. disturbed' \subseteq Disturbances \union {"overlap"} BY <1>1 DEF Begin, CountType
<1>3. queue'[t] \in Tracked BY DEF Begin
<1>4. steps[t] # {} => steps'[t] = steps[t] OBVIOUS
<1>5. RunOf(p)'
  BY <1>1, <1>3, BeginMem, RunParts DEF RunOf, InRun, Kept, MemType, Mem
<1>6. QED BY <1>1, <1>2, <1>5, BeginMem, RunNextOf

LEMMA CompleteBase ==
  ASSUME Base, NEW p \in Process, NEW t \in Task, Complete(p, t)
  PROVE  Base'
<1> USE DEF Complete
<1>1. /\ MemType /\ StatusType /\ QueueType /\ StepsType /\ CountType /\ RowsInv
  BY Parts DEF Base
<1>2. Begin(p, t, WithPendingRow(t)) /\ queue' = WithPendingRow(t) BY DEF Begin
<1>3. /\ QueueType' /\ RowsInv' /\ Kept /\ WithPendingRow(t)[t] \in Tracked
  BY <1>1, <1>2 DEF WithPendingRow, QueueType, RowsInv, Kept, Tracked
<1>4. MemType' /\ RunInv' /\ disturbed' \subseteq Disturbances \union {"overlap"}
  BY <1>2, <1>3, BeginBase
<1>5. StatusType' /\ StepsType' /\ CountType' BY <1>1, <1>4 DEF StatusType, StepsType, CountType
<1>6. QED BY <1>3, <1>4, <1>5, PartsNext DEF Base

LEMMA OutsideBase ==
  ASSUME Base, NEW t \in Task, CompleteOnly(t) \/ Fail(t) \/ Reset(t)
  PROVE  Base'
<1>1. /\ MemType /\ StatusType /\ QueueType /\ StepsType /\ CountType /\ RowsInv /\ RunInv
  BY Parts DEF Base
<1>2. UNCHANGED <<queue, steps, proc, taskHook, announced, pr, created>>
  BY DEF CompleteOnly, Fail, Reset
<1>3. disturbed' \subseteq Disturbances \union {"overlap"}
  BY <1>1, DisturbType DEF CompleteOnly, Fail, Reset, CountType
<1>4. StatusType' BY <1>1 DEF CompleteOnly, Fail, Reset, StatusType
<1>5. MemType' /\ CountType' BY <1>1, <1>2, <1>3 DEF MemType, CountType
<1>6. QED BY <1>1, <1>2, <1>4, <1>5, TrailType, RunUnmoved, PartsNext DEF Base

LEMMA FireBase ==
  ASSUME Base, NEW p \in Process, Fire(p) \/ Fired(p)
  PROVE  Base'
<1>1. /\ MemType /\ StatusType /\ QueueType /\ StepsType /\ CountType /\ RowsInv /\ RunInv
  BY Parts DEF Base
<1>2. proc[p].pc \in {"task", "task_fired"} BY DEF Fire, Fired, At
<1>3. proc[p].task \in Task /\ queue[proc[p].task] \in Tracked
      /\ proc[p].seen \subseteq steps[proc[p].task]
  BY <1>1, <1>2, RunTask
<1>4. CASE Fire(p)
  <2> USE DEF Fire
  <2>1. StepsType' /\ QueueType' /\ RowsInv' /\ Kept BY <1>1, <1>4, TrailType
  <2>2. PICK label \in {"intake", "task_fired"} : Goto(p, label)
                 /\ (label = "intake" => "task_completed_hook" \in proc[p].seen)
    BY <1>4 DEF Skips
  <2>3. label = "task_fired" \/ "task_completed_hook" \in steps'[proc[p].task]
    BY <1>3, <1>4, <2>2
  <2>4. label \in Labels BY DEF Labels
  <2>5. MemType' /\ RunInv' BY <1>1, <1>2, <2>1, <2>2, <2>3, <2>4, GotoMem, GotoRun
  <2>6. \A n \in 0..2 : (IF n < 2 THEN n + 1 ELSE 2) \in 0..2 OBVIOUS
  <2>7. taskHook' \in [Task -> 0..2] BY <1>1, <1>4, <2>6 DEF CountType
  <2>8. StatusType' /\ CountType' BY <1>1, <1>4, <2>7 DEF StatusType, CountType
  <2>9. QED BY <2>1, <2>5, <2>8, PartsNext DEF Base
<1>5. CASE Fired(p)
  <2> USE DEF Fired
  <2>1. Applied(p, "task_completed_hook") /\ Goto(p, "intake") BY <1>5
  <2>2. /\ StepsType' /\ RowsInv' /\ Kept /\ "task_completed_hook" \in steps'[proc[p].task]
    BY <1>1, <1>3, <1>5, <2>1, AppliedType DEF Step
  <2>3. MemType' /\ RunInv'
    BY <1>1, <1>2, <2>1, <2>2, GotoMem, GotoRun DEF Labels
  <2>4. QueueType' /\ StatusType' /\ CountType' BY <1>1, <1>5 DEF QueueType, StatusType, CountType
  <2>5. QED BY <2>2, <2>3, <2>4, PartsNext DEF Base
<1>6. QED BY <1>4, <1>5

\* A later step of a run that puts nothing on record.
LEMMA RunBase ==
  ASSUME Base, NEW p \in Process, NEW label \in Labels, Goto(p, label),
         proc[p].pc \notin {"idle", "next", "task", "task_fired"},
         label \notin {"idle", "next", "task", "task_fired"},
         UNCHANGED <<queue, steps>>, StatusType', CountType'
  PROVE  Base'
<1>1. /\ MemType /\ QueueType /\ StepsType /\ RowsInv /\ RunInv BY Parts DEF Base
<1>2. StepsType' /\ QueueType' /\ RowsInv' /\ Kept BY <1>1, TrailType
<1>3. "task_completed_hook" \in steps'[proc[p].task] BY <1>1, RunTask
<1>4. MemType' /\ RunInv' BY <1>1, <1>2, <1>3, GotoMem, GotoRun
<1>5. QED BY <1>2, <1>4, PartsNext DEF Base

\* One that does.
LEMMA RecordBase ==
  ASSUME Base, NEW p \in Process, NEW label \in Labels, NEW step \in Step, Goto(p, label),
         proc[p].pc \notin {"idle", "next", "task", "task_fired"},
         label \notin {"idle", "next", "task", "task_fired"}, Applied(p, step),
         UNCHANGED <<status, queue, taskHook, announced, pr, created, disturbed>>
  PROVE  Base'
<1>1. /\ MemType /\ StatusType /\ QueueType /\ StepsType /\ CountType /\ RowsInv /\ RunInv
  BY Parts DEF Base
<1>2. /\ proc[p].task \in Task /\ queue[proc[p].task] \in Tracked
      /\ "task_completed_hook" \in steps[proc[p].task]
  BY <1>1, RunTask
<1>3. StepsType' /\ RowsInv' /\ Kept BY <1>1, <1>2, AppliedType
<1>4. "task_completed_hook" \in steps'[proc[p].task] BY <1>2, <1>3 DEF Kept
<1>5. MemType' /\ RunInv' BY <1>1, <1>3, <1>4, GotoMem, GotoRun
<1>6. QueueType' /\ StatusType' /\ CountType' BY <1>1 DEF QueueType, StatusType, CountType
<1>7. QED BY <1>3, <1>5, <1>6, PartsNext DEF Base

LEMMA IntakeBase ==
  ASSUME Base, NEW p \in Process, Intakes(p) \/ Create(p) \/ IntakeDone(p)
  PROVE  Base'
<1>1. StatusType /\ CountType BY Parts DEF Base
<1>2. CASE Intakes(p)
  <2>1. PICK label \in {"section", "intake_new", "intake_done"} : Goto(p, label)
    BY <1>2 DEF Intakes
  <2>2. StatusType' /\ CountType' BY <1>1, <1>2 DEF Intakes, StatusType, CountType
  <2>3. QED BY <1>2, <2>1, <2>2, RunBase DEF Intakes, At, Labels
<1>3. CASE Create(p)
  <2> USE DEF Create, At
  <2>1. \A n \in 0..2 : (IF n < 2 THEN n + 1 ELSE 2) \in 0..2 OBVIOUS
  <2>2. StatusType' BY <1>1, <1>3 DEF StatusType
  <2>3. created' \in [Intake -> 0..2] BY <1>1, <1>3, <2>1 DEF CountType
  <2>4. CountType' BY <1>1, <1>3, <2>3 DEF CountType
  <2>5. QED BY <1>3, <2>2, <2>4, RunBase DEF Labels
<1>4. CASE IntakeDone(p) BY <1>4, RecordBase DEF IntakeDone, At, Labels, Step
<1>5. QED BY <1>2, <1>3, <1>4

LEMMA SectionBase ==
  ASSUME Base, NEW p \in Process,
         SectionStep(p) \/ SectionFired(p) \/ PullRequest(p) \/ RecordPr(p) \/ SectionOver(p)
  PROVE  Base'
<1>1. StatusType /\ CountType BY Parts DEF Base
<1>2. CASE SectionStep(p)
  <2> USE DEF SectionStep, At
  <2>1. StatusType' /\ CountType' BY <1>1, <1>2 DEF StatusType, CountType
  <2>2. PICK label \in {"project", "section_fired", "pr"} : Goto(p, label) BY <1>2
  <2>3. QED BY <1>2, <2>1, <2>2, RunBase DEF Labels
<1>3. CASE SectionFired(p) BY <1>3, RecordBase DEF SectionFired, At, Labels, Step
<1>4. CASE PullRequest(p)
  <2> USE DEF PullRequest, At
  <2>1. disturbed' \subseteq Disturbances \union {"overlap"}
    BY <1>1, <1>4, DisturbType DEF CountType
  <2>2. StatusType' /\ CountType' BY <1>1, <1>4, <2>1 DEF StatusType, CountType
  <2>3. PICK label \in {"pr_done", "pr_created"} : Goto(p, label) BY <1>4
  <2>4. QED BY <1>4, <2>2, <2>3, RunBase DEF Labels
<1>5. CASE RecordPr(p)
  <2> USE DEF RecordPr, At
  <2>1. StatusType' /\ CountType' BY <1>1, <1>5 DEF StatusType, CountType
  <2>2. QED BY <1>5, <2>1, RunBase DEF Labels
<1>6. CASE SectionOver(p) BY <1>6, RecordBase DEF SectionOver, At, Labels, Step
<1>7. QED BY <1>2, <1>3, <1>4, <1>5, <1>6

LEMMA ProjectBase ==
  ASSUME Base, NEW p \in Process, ProjectStep(p)
  PROVE  Base'
<1> USE DEF ProjectStep, At
<1>1. StatusType /\ CountType BY Parts DEF Base
<1>2. StatusType' /\ CountType' BY <1>1 DEF StatusType, CountType
<1>3. QED BY <1>2, RunBase DEF Labels

LEMMA FinishBase ==
  ASSUME Base, NEW p \in Process, Finish(p)
  PROVE  Base'
<1>1. /\ MemType /\ StatusType /\ QueueType /\ StepsType /\ CountType /\ RowsInv /\ RunInv
  BY Parts DEF Base
<1>2. /\ proc[p].task \in Task /\ queue[proc[p].task] \in Tracked
      /\ "task_completed_hook" \in steps[proc[p].task]
  BY <1>1, RunTask DEF Finish, At
<1> DEFINE t == proc[p].task
<1>3. StepsType' /\ \A x \in Task : steps'[x] = IF x = t
                                       THEN steps[x] \union {"project_completion"} ELSE steps[x]
  BY <1>1, <1>2 DEF Finish, Applied, StepsType, Step
<1>4. QueueType' /\ \A x \in Task : queue'[x] = IF x = t /\ queue[x] = "pending"
                                                 THEN "applied" ELSE queue[x]
  BY <1>1, <1>2 DEF Finish, QueueType
<1> HIDE DEF t
<1>a. /\ t \in Task /\ queue[t] \in Tracked /\ "task_completed_hook" \in steps[t]
  BY <1>2 DEF t
<1>b. Kept BY <1>1, <1>3, <1>4 DEF Kept, Tracked
<1>c. ASSUME NEW x \in Task, x # t
      PROVE  /\ steps'[x] # {} => queue'[x] \in Tracked
             /\ queue'[x] \in {"applied", "again"} =>
                   {"task_completed_hook", "project_completion"} \subseteq steps'[x]
  BY <1>1, <1>3, <1>4, <1>c DEF RowsInv
<1>d. /\ queue'[t] \in Tracked
      /\ {"task_completed_hook", "project_completion"} \subseteq steps'[t]
  BY <1>3, <1>a, <1>b DEF Kept
<1>5. RowsInv' BY <1>c, <1>d DEF RowsInv
<1>6. RunOf(p)' BY <1>1, <1>b, FinishMem, RunParts DEF RunOf, InRun, Kept, MemType, Mem
<1>7. MemType' /\ RunInv' BY <1>1, <1>b, <1>6, FinishMem, RunNextOf
<1>8. StatusType' /\ CountType' BY <1>1 DEF Finish, StatusType, CountType
<1>9. QED BY <1>3, <1>4, <1>5, <1>7, <1>8, PartsNext DEF Base

\* A process that reads a list, or ends its round.
LEMMA ListBase ==
  ASSUME Base, NEW p \in Process, Wake(p) \/ ListLegacy(p) \/ Sleep(p) \/ Crash(p)
  PROVE  Base'
<1>1. /\ MemType /\ StatusType /\ QueueType /\ StepsType /\ CountType /\ RowsInv /\ RunInv
  BY Parts DEF Base
<1>2. UNCHANGED <<status, queue, steps, taskHook, announced, pr, created>>
  BY DEF Wake, ListLegacy, Sleep, Crash
<1>3. QueueType' /\ StepsType' /\ RowsInv' /\ Kept BY <1>1, <1>2, TrailType
<1>4. disturbed' \subseteq Disturbances \union {"overlap"}
  BY <1>1, DisturbType DEF Wake, ListLegacy, Sleep, Crash, CountType
<1>5. StatusType' /\ CountType' BY <1>1, <1>2, <1>4 DEF StatusType, CountType
<1>6. CASE Wake(p)
  <2>1. PendingTasks \subseteq Task /\ \A t \in PendingTasks : queue[t] \in Tracked
    BY DEF PendingTasks, Tracked
  <2>2. /\ MemType' /\ \A q \in Process : q # p => proc'[q] = proc[q]
        /\ proc'[p].pc = "next" /\ proc'[p].task = proc[p].task /\ proc'[p].todo = PendingTasks
    <3>1. \A m \in Mem :
             /\ [m EXCEPT !.pc = "next", !.todo = PendingTasks, !.legacy = FALSE] \in Mem
             /\ [m EXCEPT !.pc = "next", !.todo = PendingTasks, !.legacy = FALSE].pc = "next"
             /\ [m EXCEPT !.pc = "next", !.todo = PendingTasks, !.legacy = FALSE].task = m.task
             /\ [m EXCEPT !.pc = "next", !.todo = PendingTasks, !.legacy = FALSE].todo
                  = PendingTasks
      BY <2>1 DEF Mem, Labels
    <3>2. proc' = [proc EXCEPT ![p] = [proc[p] EXCEPT !.pc = "next", !.todo = PendingTasks,
                                                      !.legacy = FALSE]]
      BY <1>6 DEF Wake
    <3>3. proc[p] \in Mem BY <1>1 DEF MemType
    <3>4. QED BY <1>1, <3>1, <3>2, <3>3 DEF MemType
  <2>3. RunOf(p)'
    BY <1>1, <1>2, <1>6, <2>1, <2>2, RunParts DEF RunOf, InRun, MemType, Mem, Wake, At
  <2>4. QED BY <1>1, <1>3, <1>5, <2>2, <2>3, RunNextOf, PartsNext DEF Base
<1>7. CASE ListLegacy(p)
  <2>1. LegacyTasks \subseteq Task BY DEF LegacyTasks
  <2>2. /\ MemType' /\ \A q \in Process : q # p => proc'[q] = proc[q]
        /\ proc'[p].pc = proc[p].pc /\ proc'[p].task = proc[p].task /\ proc'[p].legacy
    BY <1>1, <1>7, <2>1 DEF ListLegacy, MemType, Mem
  <2>3. RunOf(p)'
    BY <1>1, <1>2, <1>7, <2>2, RunParts DEF RunOf, InRun, MemType, Mem, ListLegacy, At
  <2>4. QED BY <1>1, <1>3, <1>5, <2>2, <2>3, RunNextOf, PartsNext DEF Base
<1>8. CASE Sleep(p) \/ Crash(p)
  <2>1. proc' = [proc EXCEPT ![p] = Idle] BY <1>8 DEF Sleep, Crash
  <2>2. proc'[p] = Idle BY <1>1, <2>1, IdleMem
  <2>3. Idle.pc = "idle" /\ Idle.task = None /\ Idle.todo = {} BY DEF Idle
  <2>4. RunOf(p)' BY <2>2, <2>3 DEF RunOf, InRun
  <2>5. QED BY <1>1, <1>3, <1>5, <2>1, <2>4, IdleMem, RunNextOf, PartsNext DEF Base
<1>9. QED BY <1>6, <1>7, <1>8

LEMMA ReplayBase ==
  ASSUME Base, NEW p \in Process, Replay(p)
  PROVE  Base'
<1> USE DEF Replay, At
<1>1. /\ MemType /\ StatusType /\ QueueType /\ StepsType /\ CountType /\ RowsInv /\ RunInv
  BY Parts DEF Base
<1>2. PICK t \in proc[p].todo : Begin(p, t, queue) OBVIOUS
<1>3. t \in Task /\ queue[t] \in Tracked BY <1>1, RunParts DEF RunOf, MemType, Mem
<1>4. UNCHANGED <<queue, steps>> BY <1>2 DEF Begin
<1>5. QueueType' /\ StepsType' /\ RowsInv' /\ Kept BY <1>1, <1>4, TrailType
<1>6. MemType' /\ RunInv' /\ disturbed' \subseteq Disturbances \union {"overlap"}
  BY <1>2, <1>3, <1>5, BeginBase
<1>7. StatusType' /\ CountType' BY <1>1, <1>6 DEF StatusType, CountType
<1>8. QED BY <1>5, <1>6, <1>7, PartsNext DEF Base

LEMMA BackfillBase ==
  ASSUME Base, NEW p \in Process, Backfill(p)
  PROVE  Base'
<1> USE DEF Backfill, At
<1>1. /\ MemType /\ StatusType /\ QueueType /\ StepsType /\ CountType /\ RowsInv /\ RunInv
  BY Parts DEF Base
<1>2. PICK t \in proc[p].todo :
          IF t \in Intake
          THEN /\ queue' = [queue EXCEPT ![t] = IF @ = "none" THEN "anomaly" ELSE @]
               /\ proc' = [proc EXCEPT ![p].todo = @ \ {t}]
               /\ UNCHANGED disturbed
          ELSE Begin(p, t, [queue EXCEPT ![t] = IF @ = "applied" THEN "again"
                                                ELSE IF @ = "again" THEN "again" ELSE "pending"])
  OBVIOUS
<1>3. t \in Task BY <1>1 DEF MemType, Mem
<1>4. CASE t \in Intake
  <2>1. /\ QueueType' /\ StepsType' /\ RowsInv' /\ Kept
    BY <1>1, <1>2, <1>3, <1>4 DEF QueueType, StepsType, RowsInv, Kept, Tracked
  <2>2. /\ MemType' /\ \A q \in Process : q # p => proc'[q] = proc[q]
        /\ proc'[p].pc = proc[p].pc /\ proc'[p].task = proc[p].task /\ proc'[p].legacy
    BY <1>1, <1>2, <1>4 DEF MemType, Mem
  <2>3. RunOf(p)' BY <1>1, <2>2, RunParts DEF RunOf, InRun, MemType, Mem
  <2>4. StatusType' /\ CountType' BY <1>1, <1>2, <1>4 DEF StatusType, CountType
  <2>5. QED BY <1>1, <2>1, <2>2, <2>3, <2>4, RunNextOf, PartsNext DEF Base
<1>5. CASE t \notin Intake
  <2> DEFINE rows == [queue EXCEPT ![t] = IF @ = "applied" THEN "again"
                                          ELSE IF @ = "again" THEN "again" ELSE "pending"]
  <2>1. Begin(p, t, rows) BY <1>2, <1>5
  <2>2. queue' = rows BY <2>1 DEF Begin
  <2>3. QueueType' /\ RowsInv' /\ Kept /\ rows[t] \in Tracked
    BY <1>1, <1>3, <2>2 DEF QueueType, RowsInv, Kept, Tracked
  <2> HIDE DEF rows
  <2>4. MemType' /\ RunInv' /\ disturbed' \subseteq Disturbances \union {"overlap"}
    BY <1>3, <2>1, <2>3, BeginBase
  <2>5. StatusType' /\ StepsType' /\ CountType'
    BY <1>1, <2>4 DEF StatusType, StepsType, CountType
  <2>6. QED BY <2>3, <2>4, <2>5, PartsNext DEF Base
<1>6. QED BY <1>4, <1>5

LEMMA UnchangedBase ==
  ASSUME Base, UNCHANGED vars
  PROVE  Base'
<1> USE DEF vars
<1>1. /\ MemType /\ StatusType /\ QueueType /\ StepsType /\ CountType /\ RowsInv /\ RunInv
  BY Parts DEF Base
<1>2. QueueType' /\ StepsType' /\ RowsInv' /\ Kept BY <1>1, TrailType
<1>3. MemType' /\ StatusType' /\ CountType' BY <1>1 DEF MemType, StatusType, CountType
<1>4. QED BY <1>1, <1>2, <1>3, RunUnmoved, PartsNext DEF Base

LEMMA BaseNext == Base /\ [Next]_vars => Base'
<1> SUFFICES ASSUME Base, [Next]_vars PROVE Base' OBVIOUS
<1> USE DEF Effects, Wakeup
<1>1. CASE UNCHANGED vars BY <1>1, UnchangedBase
<1>2. ASSUME NEW p \in Process, Effects(p) PROVE Base'
  BY <1>2, FireBase, IntakeBase, SectionBase, ProjectBase, FinishBase
<1>3. ASSUME NEW p \in Process, Wakeup(p) \/ Crash(p) PROVE Base'
  BY <1>3, ListBase, ReplayBase, BackfillBase
<1>4. ASSUME NEW p \in Process, NEW t \in Task, Complete(p, t) PROVE Base'
  BY <1>4, CompleteBase
<1>5. ASSUME NEW t \in Task, CompleteOnly(t) \/ Fail(t) \/ Reset(t) PROVE Base'
  BY <1>5, OutsideBase
<1>6. QED BY <1>1, <1>2, <1>3, <1>4, <1>5 DEF Next

(***************************************************************************)
(* Every variable has its type, nothing is on record as applied that was   *)
(* not pending, and what is applied as a whole has its first and its last  *)
(* step on record, for any number of processes.                            *)
(***************************************************************************)
THEOREM TypeCorrect == Spec => []TypeOK
<1>1. Base => TypeOK BY DEF Base
<1>2. QED BY InitBase, BaseNext, <1>1, PTL DEF Spec

-------------------------------------------------------------------------------
(* The successors of intake tasks *)

Past(p) == proc[p].pc \notin {"idle", "next"} \union BeforeIntake

Present(t) == status[NextOf[t]] # "absent"

\* Nothing is lost, and what is new on record was dealt with.
LEMMA SuccessorKept ==
  ASSUME SuccessorInv, UNCHANGED created,
         \A t \in Task : status'[t] = "absent" <=> status[t] = "absent",
         \A t \in Intake : ("intake" \in steps'[t] \/ queue'[t] \in {"applied", "again"}) =>
             Present(t) \/ "intake" \in steps[t] \/ queue[t] \in {"applied", "again"},
         \A p \in Process : Past(p)' /\ proc'[p].task \in Intake =>
             Present(proc'[p].task) \/ (Past(p) /\ proc[p].task = proc'[p].task)
  PROVE  SuccessorInv'
<1>1. \A t \in Intake : Present(t)' <=> Present(t) BY DEF Present
<1>2. \A t \in Intake : created'[t] = 0 <=> status'[NextOf[t]] = "absent"
  BY <1>1 DEF SuccessorInv, Present
<1>3. \A t \in Intake :
        "intake" \in steps'[t] \/ queue'[t] \in {"applied", "again"} => Present(t)'
  BY <1>1 DEF SuccessorInv, Present
<1>4. \A p \in Process : Past(p)' /\ proc'[p].task \in Intake => Present(proc'[p].task)
  BY DEF SuccessorInv, Present, Past
<1>5. \A p \in Process : Past(p)' /\ proc'[p].task \in Intake => status'[NextOf[proc'[p].task]] # "absent"
  BY <1>1, <1>4 DEF Present
<1>6. QED BY <1>2, <1>3, <1>5 DEF SuccessorInv, Present, Past

\* A step of a run, of which only that at the intake goes past it.
LEMMA GotoSuccessor ==
  ASSUME Base, SuccessorInv, NEW p \in Process, NEW label \in Labels, Goto(p, label),
         label \in {"idle", "next"} \union BeforeIntake \/ Past(p)
           \/ (proc[p].task \in Intake => Present(proc[p].task)),
         UNCHANGED <<status, queue, created>>,
         \A t \in Intake : "intake" \in steps'[t] => "intake" \in steps[t] \/ Present(t)
  PROVE  SuccessorInv'
<1>1. MemType BY Parts DEF Base
<1>2. \A q \in Process : Past(q)' /\ proc'[q].task \in Intake =>
             Present(proc'[q].task) \/ (Past(q) /\ proc[q].task = proc'[q].task)
  BY <1>1, GotoMem DEF Past
<1>3. QED BY <1>2, SuccessorKept

LEMMA BeginSuccessor ==
  ASSUME Base, SuccessorInv, NEW p \in Process, NEW t \in Task, NEW rows, Begin(p, t, rows),
         \A u \in Intake : queue'[u] \in {"applied", "again"} => queue[u] \in {"applied", "again"},
         \A u \in Task : status'[u] = "absent" <=> status[u] = "absent",
         UNCHANGED <<steps, created>>
  PROVE  SuccessorInv'
<1>1. MemType /\ StepsType BY Parts DEF Base
<1>2. \A q \in Process : Past(q)' => Past(q) /\ proc[q].task = proc'[q].task
  BY <1>1, BeginMem DEF Past, BeforeIntake
<1>3. QED BY <1>2, SuccessorKept

\* What is not part of a run.
LEMMA OutsideSuccessor ==
  ASSUME SuccessorInv, UNCHANGED <<steps, created>>,
         \A u \in Task : status'[u] = "absent" <=> status[u] = "absent",
         \A u \in Intake : queue'[u] \in {"applied", "again"} => queue[u] \in {"applied", "again"},
         \A q \in Process : Past(q)' => Past(q) /\ proc'[q].task = proc[q].task
  PROVE  SuccessorInv'
BY SuccessorKept

LEMMA IntakesSuccessor ==
  ASSUME Base, SuccessorInv, NEW p \in Process, Intakes(p)
  PROVE  SuccessorInv'
<1> USE DEF Intakes, At
<1>1. MemType /\ RunInv BY Parts DEF Base
<1>2. proc[p].pc = "intake" /\ UNCHANGED <<status, created, queue, steps>> OBVIOUS
<1> DEFINE t == proc[p].task
<1>3. t \in Task /\ proc[p].seen \subseteq steps[t] BY <1>1, <1>2, RunTask
<1>4. CASE t \notin Intake \/ Skips(p, "intake")
  <2>1. Goto(p, "section") BY <1>4
  <2>2. t \in Intake => Present(t) BY <1>3, <1>4 DEF Skips, SuccessorInv, Present
  <2>3. QED BY <1>2, <2>1, <2>2, GotoSuccessor DEF Labels
<1>5. CASE ~ (t \notin Intake \/ Skips(p, "intake")) /\ ~ Missing(t)
  <2>1. Goto(p, "intake_done") BY <1>5
  <2>2. t \in Intake => Present(t) BY <1>5 DEF Missing, Present
  <2>3. QED BY <1>2, <2>1, <2>2, GotoSuccessor DEF Labels
<1>6. CASE ~ (t \notin Intake \/ Skips(p, "intake")) /\ Missing(t)
  BY <1>2, <1>6, GotoSuccessor DEF Labels, BeforeIntake
<1>7. QED BY <1>4, <1>5, <1>6

LEMMA CreateSuccessor ==
  ASSUME Base, SuccessorInv, NEW p \in Process, Create(p), proc[p].task \in Intake,
         \A t, u \in Intake : NextOf[t] = NextOf[u] => t = u
  PROVE  SuccessorInv'
<1> DEFINE t == proc[p].task
<1>1. MemType /\ StatusType /\ CountType BY Parts DEF Base
<1>2. Goto(p, "intake_done") /\ t \in Intake /\ UNCHANGED <<queue, steps>> BY DEF Create
<1>3. status' = [status EXCEPT ![NextOf[t]] = IF @ = "absent" THEN "active" ELSE @] BY DEF Create
<1>4. created' = [created EXCEPT ![t] = IF @ < 2 THEN @ + 1 ELSE 2] BY DEF Create
<1>5. NextOf[t] \in Task BY <1>2
<1> HIDE DEF t
<1>6. \A u \in Task : status'[u] = "absent" <=> u # NextOf[t] /\ status[u] = "absent"
  BY <1>1, <1>3, <1>5 DEF StatusType
<1>7. \A u \in Intake : created'[u] = 0 <=> u # t /\ created[u] = 0
  BY <1>1, <1>2, <1>4 DEF CountType
<1>8. \A u \in Intake : NextOf[u] \in Task /\ (u # t => NextOf[u] # NextOf[t]) BY <1>2
<1>9. \A u \in Intake : status'[NextOf[u]] = "absent" <=> u # t /\ status[NextOf[u]] = "absent"
  BY <1>6, <1>8
<1>10. \A u \in Intake : created'[u] = 0 <=> status'[NextOf[u]] = "absent"
  BY <1>7, <1>9 DEF SuccessorInv
<1>11. \A u \in Intake : "intake" \in steps'[u] \/ queue'[u] \in {"applied", "again"} =>
          status'[NextOf[u]] # "absent"
  BY <1>2, <1>9 DEF SuccessorInv
<1>12. \A q \in Process : Past(q)' /\ proc'[q].task \in Intake =>
          proc'[q].task = t \/ (Past(q) /\ proc[q].task = proc'[q].task)
  BY <1>1, <1>2, GotoMem DEF Past, Labels, t
<1>13. \A q \in Process : Past(q)' /\ proc'[q].task \in Intake =>
          status'[NextOf[proc'[q].task]] # "absent"
  BY <1>9, <1>12 DEF SuccessorInv, Past
<1>14. QED BY <1>10, <1>11, <1>13 DEF SuccessorInv, Past

LEMMA EffectsSuccessor ==
  ASSUME Base, SuccessorInv, OnceInv, NEW p \in Process, Effects(p),
         \A t, u \in Intake : NextOf[t] = NextOf[u] => t = u
  PROVE  SuccessorInv'
<1> USE DEF At
<1>1. MemType /\ StepsType /\ QueueType /\ RunInv BY Parts DEF Base
<1>2. ASSUME NEW step \in Step, step # "intake", Applied(p, step)
      PROVE  \A t \in Intake : "intake" \in steps'[t] => "intake" \in steps[t]
  BY <1>1, <1>2 DEF Applied, StepsType
<1>3. CASE Fire(p)
  <2>1. PICK label \in {"intake", "task_fired"} : Goto(p, label) BY <1>3 DEF Fire
  <2>2. QED BY <1>3, <2>1, GotoSuccessor DEF Fire, Labels, BeforeIntake
<1>4. CASE Fired(p)
  BY <1>2, <1>4, GotoSuccessor DEF Fired, Labels, BeforeIntake, Step
<1>5. CASE Intakes(p) BY <1>5, IntakesSuccessor
<1>6. CASE IntakeDone(p)
  <2>1. proc[p].pc = "intake_done" /\ Past(p) BY <1>6 DEF IntakeDone, Past, BeforeIntake
  <2>2. proc[p].task \in Intake => Present(proc[p].task)
    BY <2>1 DEF SuccessorInv, Present, Past
  <2>3. \A t \in Intake : "intake" \in steps'[t] => "intake" \in steps[t] \/ t = proc[p].task
    BY <1>1, <1>6 DEF IntakeDone, Applied, StepsType
  <2>4. \A t \in Intake : "intake" \in steps'[t] => "intake" \in steps[t] \/ Present(t)
    BY <2>2, <2>3
  <2>5. QED BY <1>6, <2>1, <2>4, GotoSuccessor DEF IntakeDone, Labels
<1>7. CASE SectionStep(p)
  <2>1. PICK label \in {"project", "section_fired", "pr"} : Goto(p, label)
    BY <1>7 DEF SectionStep
  <2>2. QED BY <1>7, <2>1, GotoSuccessor DEF SectionStep, Labels, Past, BeforeIntake
<1>8. CASE SectionFired(p)
  BY <1>2, <1>8, GotoSuccessor DEF SectionFired, Labels, Past, BeforeIntake, Step
<1>9. CASE PullRequest(p)
  <2>1. PICK label \in {"pr_done", "pr_created"} : Goto(p, label)
    BY <1>9 DEF PullRequest
  <2>2. QED BY <1>9, <2>1, GotoSuccessor DEF PullRequest, Labels, Past, BeforeIntake
<1>10. CASE RecordPr(p)
  BY <1>10, GotoSuccessor DEF RecordPr, Labels, Past, BeforeIntake
<1>11. CASE SectionOver(p)
  BY <1>2, <1>11, GotoSuccessor DEF SectionOver, Labels, Past, BeforeIntake, Step
<1>12. CASE ProjectStep(p)
  BY <1>12, GotoSuccessor DEF ProjectStep, Labels, Past, BeforeIntake
<1>13. CASE Finish(p)
  <2>1. proc[p].pc = "project_done" BY <1>13 DEF Finish
  <2>2. proc[p].task \in Task BY <1>1, <2>1, RunTask
  <2>3. proc[p].task \in Intake => Present(proc[p].task)
    BY <2>1 DEF SuccessorInv, Present, BeforeIntake
  <2>4. \A t \in Task : queue'[t] = queue[t] \/ t = proc[p].task
    BY <1>1, <1>13 DEF Finish, QueueType
  <2>5. \A t \in Intake : "intake" \in steps'[t] => "intake" \in steps[t]
    BY <1>2, <1>13 DEF Finish, Step
  <2>6. \A q \in Process : Past(q)' => Past(q) /\ proc[q].task = proc'[q].task
    BY <1>1, <1>13, FinishMem DEF Past
  <2>7. UNCHANGED <<status, created>> BY <1>13 DEF Finish
  <2>8. QED BY <2>3, <2>4, <2>5, <2>6, <2>7, SuccessorKept
<1>14. CASE Create(p)
  <2>1. proc[p].task \in Intake BY <1>14 DEF Create, OnceInv
  <2>2. QED BY <1>14, <2>1, CreateSuccessor
<1>15. QED
  BY <1>3, <1>4, <1>5, <1>6, <1>7, <1>8, <1>9, <1>10, <1>11, <1>12, <1>13, <1>14 DEF Effects

LEMMA WakeupSuccessor ==
  ASSUME Base, SuccessorInv, NEW p \in Process, Wakeup(p) \/ Crash(p)
  PROVE  SuccessorInv'
<1> USE DEF At
<1>1. MemType /\ StepsType /\ QueueType /\ RunInv BY Parts DEF Base
<1>2. CASE Wake(p) \/ ListLegacy(p)
  <2>1. \A q \in Process : Past(q)' => Past(q) /\ proc[q].task = proc'[q].task
    BY <1>1, <1>2 DEF Wake, ListLegacy, Past, MemType, Mem
  <2>2. QED BY <1>2, <2>1, OutsideSuccessor DEF Wake, ListLegacy
<1>3. CASE Sleep(p) \/ Crash(p)
  <2>1. proc' = [proc EXCEPT ![p] = Idle] BY <1>3 DEF Sleep, Crash
  <2>2. \A q \in Process : Past(q)' => Past(q) /\ proc[q].task = proc'[q].task
    BY <1>1, <2>1, IdleMem DEF Past, Idle
  <2>3. QED BY <1>3, <2>2, OutsideSuccessor DEF Sleep, Crash
<1>4. CASE Replay(p)
  <2>1. PICK t \in proc[p].todo : Begin(p, t, queue) BY <1>4 DEF Replay
  <2>2. t \in Task BY <1>1 DEF MemType, Mem
  <2>3. UNCHANGED queue BY <2>1 DEF Begin
  <2>4. QED BY <1>4, <2>1, <2>2, <2>3, BeginSuccessor DEF Replay
<1>5. CASE Backfill(p)
  <2>1. PICK t \in proc[p].todo :
          IF t \in Intake
          THEN /\ queue' = [queue EXCEPT ![t] = IF @ = "none" THEN "anomaly" ELSE @]
               /\ proc' = [proc EXCEPT ![p].todo = @ \ {t}]
               /\ UNCHANGED disturbed
          ELSE Begin(p, t, [queue EXCEPT ![t] = IF @ = "applied" THEN "again"
                                                ELSE IF @ = "again" THEN "again" ELSE "pending"])
    BY <1>5 DEF Backfill
  <2>2. t \in Task /\ UNCHANGED <<status, steps, created>> BY <1>1, <1>5 DEF MemType, Mem, Backfill
  <2>3. CASE t \in Intake
    <3>1. \A q \in Process : Past(q)' => Past(q) /\ proc[q].task = proc'[q].task
      BY <1>1, <2>1, <2>3 DEF Past, MemType, Mem
    <3>2. \A u \in Intake : queue'[u] \in {"applied", "again"} => queue[u] \in {"applied", "again"}
      BY <1>1, <2>1, <2>3 DEF QueueType
    <3>3. QED BY <2>2, <3>1, <3>2, OutsideSuccessor
  <2>4. CASE t \notin Intake
    <3> DEFINE rows == [queue EXCEPT ![t] = IF @ = "applied" THEN "again"
                                            ELSE IF @ = "again" THEN "again" ELSE "pending"]
    <3>1. Begin(p, t, rows) BY <2>1, <2>4
    <3>2. queue' = rows BY <3>1 DEF Begin
    <3>3. \A u \in Intake : queue'[u] \in {"applied", "again"} => queue[u] \in {"applied", "again"}
      BY <1>1, <3>2 DEF QueueType
    <3> HIDE DEF rows
    <3>4. QED BY <2>2, <3>1, <3>3, BeginSuccessor
  <2>5. QED BY <2>3, <2>4
<1>6. QED BY <1>2, <1>3, <1>4, <1>5 DEF Wakeup

LEMMA SuccessorNext ==
  ASSUME \A t, u \in Intake : NextOf[t] = NextOf[u] => t = u
  PROVE  Base /\ SuccessorInv /\ OnceInv /\ [Next]_vars => SuccessorInv'
<1> SUFFICES ASSUME Base, SuccessorInv, OnceInv, [Next]_vars PROVE SuccessorInv' OBVIOUS
<1>1. MemType /\ StepsType /\ QueueType /\ StatusType BY Parts DEF Base
<1>2. CASE UNCHANGED vars BY <1>2, OutsideSuccessor DEF vars, Past
<1>3. ASSUME NEW p \in Process, Effects(p) PROVE SuccessorInv' BY <1>3, EffectsSuccessor
<1>4. ASSUME NEW p \in Process, Wakeup(p) \/ Crash(p) PROVE SuccessorInv'
  BY <1>4, WakeupSuccessor
<1>5. ASSUME NEW p \in Process, NEW t \in Task, Complete(p, t) PROVE SuccessorInv'
  <2>1. Begin(p, t, WithPendingRow(t)) /\ queue' = WithPendingRow(t)
    BY <1>5 DEF Complete, Begin
  <2>2. \A u \in Intake : queue'[u] \in {"applied", "again"} => queue[u] \in {"applied", "again"}
    BY <1>1, <2>1 DEF WithPendingRow, QueueType
  <2>3. \A u \in Task : status'[u] = "absent" <=> status[u] = "absent"
    BY <1>1, <1>5 DEF Complete, StatusType
  <2>4. QED BY <1>5, <2>1, <2>2, <2>3, BeginSuccessor DEF Complete
<1>6. ASSUME NEW t \in Task, CompleteOnly(t) \/ Fail(t) \/ Reset(t) PROVE SuccessorInv'
  <2>1. \A u \in Task : status'[u] = "absent" <=> status[u] = "absent"
    BY <1>1, <1>6 DEF CompleteOnly, Fail, Reset, StatusType
  <2>2. UNCHANGED <<queue, steps, created, proc>> BY <1>6 DEF CompleteOnly, Fail, Reset
  <2>3. QED BY <2>1, <2>2, OutsideSuccessor DEF Past
<1>7. QED BY <1>2, <1>3, <1>4, <1>5, <1>6 DEF Next

-------------------------------------------------------------------------------
(* Hooks that are not fired again *)

\* A run of its own for each task, which knows all that is on record.
LEMMA OverlapKept ==
  ASSUME Base, OverlapInv, "overlap" \notin disturbed' => "overlap" \notin disturbed,
         NEW p \in Process,
         \A q \in Process : proc'[q].task \in {proc[q].task, None},
         \A q \in Process : proc'[q].pc = "task" => proc'[q] = proc[q],
         \A t \in Task : t # proc[p].task \/ ~ InRun(p) \/ proc[p].pc = "task" =>
             steps'[t] = steps[t]
  PROVE  OverlapInv'
<1>1. MemType /\ RunInv BY Parts DEF Base
<1> SUFFICES ASSUME "overlap" \notin disturbed' PROVE
      /\ \A x, y \in Process : InRun(x)' /\ proc'[x].task = proc'[y].task => x = y
      /\ \A x \in Process : proc'[x].pc = "task" => proc'[x].seen = steps'[proc'[x].task]
  BY DEF OverlapInv
<1>2. \A x, y \in Process : InRun(x)' /\ proc'[x].task = proc'[y].task => x = y
  BY DEF OverlapInv, InRun
<1>3. ASSUME NEW x \in Process, proc'[x].pc = "task"
      PROVE  proc'[x].seen = steps'[proc'[x].task]
  <2>1. proc'[x] = proc[x] BY <1>3
  <2>2. InRun(x) /\ proc[x].task \in Task /\ proc[x].seen = steps[proc[x].task]
    BY <1>1, <1>3, <2>1, RunTask DEF OverlapInv
  <2>3. CASE x = p BY <1>3, <2>1, <2>2, <2>3
  <2>4. CASE x # p
    <3>1. proc[x].task # proc[p].task BY <2>2, <2>4 DEF OverlapInv
    <3>2. QED BY <2>1, <2>2, <3>1
  <2>5. QED BY <2>3, <2>4
<1>4. QED BY <1>2, <1>3

LEMMA OverlapBegin ==
  ASSUME Base, OverlapInv, NEW p \in Process, NEW t \in Task, NEW rows, Begin(p, t, rows),
         UNCHANGED steps
  PROVE  OverlapInv'
<1>1. MemType /\ StepsType /\ RunInv BY Parts DEF Base
<1> SUFFICES ASSUME "overlap" \notin disturbed' PROVE
      /\ \A x, y \in Process : InRun(x)' /\ proc'[x].task = proc'[y].task => x = y
      /\ \A x \in Process : proc'[x].pc = "task" => proc'[x].seen = steps'[proc'[x].task]
  BY DEF OverlapInv
<1>2. "overlap" \notin disturbed /\ \A q \in Process : proc[q].task # t BY DEF Begin
<1>3. \A x, y \in Process : InRun(x)' /\ proc'[x].task = proc'[y].task => x = y
  BY <1>1, <1>2, BeginMem DEF OverlapInv, InRun
<1>4. \A x \in Process : proc'[x].pc = "task" => proc'[x].seen = steps'[proc'[x].task]
  BY <1>1, <1>2, BeginMem DEF OverlapInv
<1>5. QED BY <1>3, <1>4

LEMMA OverlapGoto ==
  ASSUME Base, OverlapInv, NEW p \in Process, NEW label \in Labels \ {"task"}, Goto(p, label),
         "overlap" \notin disturbed' => "overlap" \notin disturbed,
         \A t \in Task : t # proc[p].task \/ ~ InRun(p) \/ proc[p].pc = "task" =>
             steps'[t] = steps[t]
  PROVE  OverlapInv'
<1>1. MemType BY Parts DEF Base
<1>2. \A q \in Process : proc'[q].task \in {proc[q].task, None} BY <1>1, GotoMem
<1>3. \A q \in Process : proc'[q].pc = "task" => proc'[q] = proc[q] BY <1>1, GotoMem
<1>4. QED BY <1>2, <1>3, OverlapKept

LEMMA AppliedElsewhere ==
  ASSUME StepsType, NEW p \in Process, NEW step, Applied(p, step)
  PROVE  \A t \in Task : t # proc[p].task => steps'[t] = steps[t]
BY DEF Applied, StepsType

LEMMA EffectsOverlap ==
  ASSUME Base, OverlapInv, NEW p \in Process, Effects(p)
  PROVE  OverlapInv'
<1> USE DEF At
<1>1. MemType /\ StepsType /\ RunInv BY Parts DEF Base
<1>2. proc[p].pc \notin {"idle", "next"} =>  InRun(p) BY <1>1, RunTask
<1>3. CASE Fire(p)
  <2>1. PICK label \in {"intake", "task_fired"} : Goto(p, label) BY <1>3 DEF Fire
  <2>2. QED BY <1>3, <2>1, OverlapGoto DEF Fire, Labels
<1>4. CASE Fired(p) \/ IntakeDone(p) \/ SectionFired(p) \/ SectionOver(p)
  <2>1. PICK label \in {"intake", "section", "pr", "project"} : Goto(p, label)
    BY <1>4 DEF Fired, IntakeDone, SectionFired, SectionOver
  <2>2. PICK step : Applied(p, step) BY <1>4 DEF Fired, IntakeDone, SectionFired, SectionOver
  <2>3. proc[p].pc \in {"task_fired", "intake_done", "section_fired", "pr_done"}
    BY <1>4 DEF Fired, IntakeDone, SectionFired, SectionOver
  <2>4. \A t \in Task : t # proc[p].task \/ ~ InRun(p) \/ proc[p].pc = "task" =>
             steps'[t] = steps[t]
    BY <1>1, <1>2, <2>2, <2>3, AppliedElsewhere
  <2>5. UNCHANGED disturbed BY <1>4 DEF Fired, IntakeDone, SectionFired, SectionOver
  <2>6. QED BY <2>1, <2>4, <2>5, OverlapGoto DEF Labels
<1>5. CASE Intakes(p) \/ Create(p) \/ SectionStep(p) \/ PullRequest(p) \/ RecordPr(p) \/ ProjectStep(p)
  <2>1. PICK label \in Labels \ {"task"} : Goto(p, label)
    BY <1>5 DEF Intakes, Create, SectionStep, PullRequest, RecordPr, ProjectStep, Labels
  <2>2. UNCHANGED steps BY <1>5 DEF Intakes, Create, SectionStep, PullRequest, RecordPr, ProjectStep
  <2>3. "overlap" \notin disturbed' => "overlap" \notin disturbed
    BY <1>5 DEF Intakes, Create, SectionStep, PullRequest, RecordPr, ProjectStep, Disturb
  <2>4. QED BY <2>1, <2>2, <2>3, OverlapGoto
<1>6. CASE Finish(p)
  <2>1. \A t \in Task : t # proc[p].task => steps'[t] = steps[t]
    BY <1>1, <1>6, AppliedElsewhere DEF Finish
  <2>2. proc[p].pc = "project_done" /\ InRun(p) BY <1>2, <1>6 DEF Finish
  <2>3. \A q \in Process : proc'[q].task \in {proc[q].task, None} BY <1>1, <1>6, FinishMem
  <2>4. \A q \in Process : proc'[q].pc = "task" => proc'[q] = proc[q] BY <1>1, <1>6, FinishMem
  <2>5. UNCHANGED disturbed BY <1>6 DEF Finish
  <2>6. QED BY <2>1, <2>2, <2>3, <2>4, <2>5, OverlapKept
<1>7. QED BY <1>3, <1>4, <1>5, <1>6 DEF Effects

LEMMA WakeupOverlap ==
  ASSUME Base, OverlapInv, NEW p \in Process, Wakeup(p) \/ Crash(p)
  PROVE  OverlapInv'
<1> USE DEF At
<1>1. MemType /\ StepsType /\ RunInv BY Parts DEF Base
<1>2. CASE Wake(p) \/ ListLegacy(p)
  <2>1. /\ \A q \in Process : proc'[q].task = proc[q].task
        /\ \A q \in Process : proc'[q].pc = "task" => proc'[q] = proc[q]
    BY <1>1, <1>2 DEF Wake, ListLegacy, MemType, Mem
  <2>2. QED BY <1>2, <2>1, OverlapKept DEF Wake, ListLegacy
<1>3. CASE Sleep(p) \/ Crash(p)
  <2>1. proc' = [proc EXCEPT ![p] = Idle] BY <1>3 DEF Sleep, Crash
  <2>2. \A q \in Process : q # p => proc'[q] = proc[q] BY <1>1, <2>1, IdleMem
  <2>8. proc'[p] = Idle BY <1>1, <2>1, IdleMem
  <2>3. proc'[p].task = None /\ proc'[p].pc = "idle" BY <2>8 DEF Idle
  <2>4. \A q \in Process : proc'[q].task \in {proc[q].task, None} BY <2>2, <2>3
  <2>5. \A q \in Process : proc'[q].pc = "task" => proc'[q] = proc[q] BY <2>2, <2>3
  <2>6. "overlap" \notin disturbed' => "overlap" \notin disturbed
    BY <1>3 DEF Sleep, Crash, Disturb
  <2>7. QED BY <1>3, <2>4, <2>5, <2>6, OverlapKept DEF Sleep, Crash
<1>4. CASE Replay(p)
  <2>1. PICK t \in proc[p].todo : Begin(p, t, queue) BY <1>4 DEF Replay
  <2>2. t \in Task BY <1>1 DEF MemType, Mem
  <2>3. QED BY <1>4, <2>1, <2>2, OverlapBegin DEF Replay
<1>5. CASE Backfill(p)
  <2>1. PICK t \in proc[p].todo :
          \/ proc' = [proc EXCEPT ![p].todo = @ \ {t}] /\ UNCHANGED disturbed /\ t \in Intake
          \/ Begin(p, t, [queue EXCEPT ![t] = IF @ = "applied" THEN "again"
                                              ELSE IF @ = "again" THEN "again" ELSE "pending"])
    BY <1>5 DEF Backfill
  <2>2. t \in Task /\ UNCHANGED steps BY <1>1, <1>5 DEF MemType, Mem, Backfill
  <2>3. CASE proc' = [proc EXCEPT ![p].todo = @ \ {t}] /\ UNCHANGED disturbed
    <3>1. /\ \A q \in Process : proc'[q].task = proc[q].task
          /\ \A q \in Process : q # p => proc'[q] = proc[q]
          /\ proc'[p].pc = "next"
      BY <1>1, <1>5, <2>3 DEF MemType, Mem, Backfill
    <3>2. \A q \in Process : proc'[q].pc = "task" => proc'[q] = proc[q] BY <3>1
    <3>3. QED BY <2>2, <2>3, <3>1, <3>2, OverlapKept
  <2>4. CASE \E rows : Begin(p, t, rows)
    <3>1. PICK rows : Begin(p, t, rows) BY <2>4
    <3>2. QED BY <2>2, <3>1, OverlapBegin
  <2>5. QED BY <2>1, <2>3, <2>4
<1>6. QED BY <1>2, <1>3, <1>4, <1>5 DEF Wakeup

LEMMA OverlapNext == Base /\ OverlapInv /\ [Next]_vars => OverlapInv'
<1> SUFFICES ASSUME Base, OverlapInv, [Next]_vars PROVE OverlapInv' OBVIOUS
<1>1. MemType /\ RunInv BY Parts DEF Base
<1>2. CASE UNCHANGED vars BY <1>2 DEF vars, OverlapInv, InRun
<1>3. ASSUME NEW p \in Process, Effects(p) PROVE OverlapInv' BY <1>3, EffectsOverlap
<1>4. ASSUME NEW p \in Process, Wakeup(p) \/ Crash(p) PROVE OverlapInv' BY <1>4, WakeupOverlap
<1>5. ASSUME NEW p \in Process, NEW t \in Task, Complete(p, t) PROVE OverlapInv'
  BY <1>5, OverlapBegin DEF Complete
<1>6. ASSUME NEW t \in Task, CompleteOnly(t) \/ Fail(t) \/ Reset(t) PROVE OverlapInv'
  <2>1. UNCHANGED <<steps, proc>> BY <1>6 DEF CompleteOnly, Fail, Reset
  <2>2. "overlap" \notin disturbed' => "overlap" \notin disturbed
    BY <1>6 DEF CompleteOnly, Fail, Reset, Disturb
  <2>3. QED BY <2>1, <2>2 DEF OverlapInv, InRun
<1>7. QED BY <1>2, <1>3, <1>4, <1>5, <1>6 DEF Next

\* The hook of a task is fired in one step only.
LEMMA OnlyFire ==
  ASSUME [Next]_vars
  PROVE  UNCHANGED taskHook \/ \E p \in Process : Fire(p)
BY DEF Next, vars, Effects, Wakeup, Fired, Intakes, Create, IntakeDone, SectionStep, SectionFired,
       PullRequest, RecordPr, SectionOver, ProjectStep, Finish, Wake, Replay, ListLegacy,
       Backfill, Sleep, Crash, Complete, CompleteOnly, Fail, Reset

LEMMA FireOnce ==
  ASSUME Base, OverlapInv, NEW p \in Process, Fire(p), NEW t \in Task,
         taskHook'[t] > taskHook[t], "task_completed_hook" \in steps[t]
  PROVE  "overlap" \in disturbed
<1>1. MemType /\ CountType /\ RunInv BY Parts DEF Base
<1>2. proc[p].pc = "task" BY DEF Fire, At
<1>3. proc[p].task \in Task BY <1>1, <1>2, RunTask
<1>4. CASE Skips(p, "task_completed_hook")
  <2>1. taskHook'[t] = taskHook[t] BY <1>4 DEF Fire
  <2>2. taskHook[t] \in 0..2 BY <1>1 DEF CountType
  <2>3. QED BY <2>1, <2>2
<1>5. CASE ~ Skips(p, "task_completed_hook")
  <2>1. taskHook' = [taskHook EXCEPT ![proc[p].task] = IF @ < 2 THEN @ + 1 ELSE 2]
    BY <1>5 DEF Fire
  <2>2. t = proc[p].task BY <1>1, <2>1 DEF CountType
  <2>3. QED BY <1>2, <1>5, <2>2 DEF OverlapInv, Skips
<1>6. QED BY <1>4, <1>5

(***************************************************************************)
(* Over crashes, replays and resets, the hook of a task whose firing is on *)
(* record is fired again only if two processes have at some time been at   *)
(* the effects of one task (getAppliedEffectSteps).                        *)
(***************************************************************************)
THEOREM RetriesSpareHooks == Spec => RetriesSpare
<1>1. Init => OverlapInv
  <2> SUFFICES ASSUME Init PROVE OverlapInv OBVIOUS
  <2>1. \A p \in Process : proc[p] = Idle BY DEF Init
  <2>2. QED BY <2>1 DEF OverlapInv, InRun, Idle
<1>2. Base /\ OverlapInv /\ [Next]_vars =>
        [\A t \in Task : /\ taskHook'[t] > taskHook[t]
                         /\ "task_completed_hook" \in steps[t]
                         => "overlap" \in disturbed]_vars
  <2> SUFFICES ASSUME Base, OverlapInv, [Next]_vars, NEW t \in Task,
                      taskHook'[t] > taskHook[t], "task_completed_hook" \in steps[t]
               PROVE  "overlap" \in disturbed
    OBVIOUS
  <2>1. CASE UNCHANGED taskHook
    <3>1. taskHook[t] \in 0..2 BY Parts DEF Base, CountType
    <3>2. QED BY <2>1, <3>1
  <2>2. CASE \E p \in Process : Fire(p) BY <2>2, FireOnce
  <2>3. QED BY <2>1, <2>2, OnlyFire
<1>3. QED BY <1>1, <1>2, InitBase, BaseNext, OverlapNext, PTL DEF Spec, RetriesSpare

-------------------------------------------------------------------------------
(* A finished section is announced *)

\* A run of t has come by the section: it has fired the hook, or found no reason to.
Looked(t) ==
    \/ "section_completion" \in steps[t]
    \/ \E p \in Process : /\ proc[p].task = t
                          /\ proc[p].pc \in {"section_fired", "pr", "pr_created", "pr_done"}

\* It has come by the pull request.
PrSettled(t) ==
    \/ "section_completion" \in steps[t]
    \/ \E p \in Process : proc[p].task = t /\ proc[p].pc = "pr_done"

\* Effects that are through include those on the section.
OverInv ==
    /\ \A t \in Section : queue[t] \in {"applied", "again"} => "section_completion" \in steps[t]
    /\ \A p \in Process :
          proc[p].pc \in {"project", "project_done"} /\ proc[p].task \in Section =>
             "section_completion" \in steps[proc[p].task]

\* The hook of the section is on record only if it was fired.
HookInv ==
    /\ \A t \in Task : "section_completed_hook" \in steps[t] => "section" \in announced
    /\ \A p \in Process : proc[p].pc = "section_fired" => "section" \in announced

\* A task that is not completed never was: no step of it is on record, no process is at it.
FreshInv ==
    "reset" \notin disturbed =>
       \A t \in Task : status[t] # "completed" =>
          steps[t] = {} /\ \A p \in Process : proc[p].task # t /\ t \notin proc[p].todo

Undisturbed == disturbed \intersect {"reset", "fail", "gh"} = {}

\* As long as a finished section is not announced, one of its tasks has its look at the
\* section still before it: the one completed last at least.
AnnounceInv ==
    Undisturbed /\ SectionDone /\ "section" \notin announced =>
       \E t \in Section : status[t] = "completed" /\ ~ Looked(t)

PrInv ==
    Undisturbed /\ SectionDone /\ pr # "recorded" =>
       \E t \in Section : status[t] = "completed" /\ ~ PrSettled(t)

SectionInv == OverInv /\ HookInv /\ FreshInv /\ AnnounceInv /\ PrInv

-------------------------------------------------------------------------------
(* What a step may do that concerns the section *)

\* A step of the effects that stays in the run.
Within(p) ==
    /\ \E label \in Labels : Goto(p, label)
    /\ UNCHANGED queue
    /\ \/ Fire(p) \/ Fired(p) \/ Intakes(p) \/ Create(p) \/ IntakeDone(p) \/ SectionStep(p)
       \/ SectionFired(p) \/ PullRequest(p) \/ RecordPr(p) \/ SectionOver(p) \/ ProjectStep(p)

LEMMA EffectsWithin ==
  ASSUME NEW p \in Process, Effects(p)
  PROVE  Within(p) \/ Finish(p)
<1>1. CASE Fire(p) \/ Fired(p) BY <1>1 DEF Fire, Fired, Within, Labels
<1>2. CASE Intakes(p) \/ Create(p) \/ IntakeDone(p)
  BY <1>2 DEF Intakes, Create, IntakeDone, Within, Labels
<1>3. CASE SectionStep(p) \/ SectionFired(p)
  BY <1>3 DEF SectionStep, SectionFired, Within, Labels
<1>4. CASE PullRequest(p) \/ RecordPr(p) BY <1>4 DEF PullRequest, RecordPr, Within, Labels
<1>5. CASE SectionOver(p) \/ ProjectStep(p)
  BY <1>5 DEF SectionOver, ProjectStep, Within, Labels
<1> QED BY <1>1, <1>2, <1>3, <1>4, <1>5 DEF Effects

\* Where a run goes, and what is true then.
LEMMA Edges ==
  ASSUME Base, NEW p \in Process, Within(p)
  PROVE  /\ proc'[p].pc = "project" =>
               \/ proc[p].pc = "section" /\ (proc[p].task \notin Section \/ Skips(p, "section_completion"))
               \/ proc[p].pc = "pr_done" /\ Applied(p, "section_completion")
         /\ proc'[p].pc = "project_done" => proc[p].pc = "project"
         /\ proc'[p].pc = "section_fired" => "section" \in announced'
         /\ proc'[p].pc = "pr" =>
               \/ proc[p].pc = "section_fired"
               \/ ~ SectionDone \/ Skips(p, "section_completed_hook")
         /\ proc'[p].pc = "pr_created" => proc[p].pc = "pr"
         /\ proc'[p].pc = "pr_done" =>
               /\ proc[p].pc \in {"pr", "pr_created"}
               /\ pr' = "recorded" \/ ~ SectionDone \/ "gh" \in disturbed'
         /\ proc'[p].pc \notin {"idle", "next"}
         /\ proc'[p].pc = "intake_new" =>
               proc[p].task \in Intake /\ Missing(proc[p].task) /\ UNCHANGED <<status, created>>
<1> USE DEF At
<1>1. MemType BY Parts DEF Base
<1>2. \A label \in Labels : Goto(p, label) => proc'[p].pc = label BY <1>1, GotoMem
<1> USE DEF Labels
<1>3. CASE Fire(p) BY <1>2, <1>3 DEF Fire
<1>4. CASE Fired(p) BY <1>2, <1>4 DEF Fired
<1>5. CASE Intakes(p) BY <1>2, <1>5 DEF Intakes
<1>6. CASE IntakeDone(p) BY <1>2, <1>6 DEF IntakeDone
<1>7. CASE SectionStep(p) BY <1>2, <1>7 DEF SectionStep
<1>8. CASE SectionFired(p) BY <1>2, <1>8 DEF SectionFired
<1>9. CASE PullRequest(p) BY <1>2, <1>9 DEF PullRequest, Disturb
<1>10. CASE RecordPr(p) BY <1>2, <1>10 DEF RecordPr
<1>11. CASE SectionOver(p) BY <1>2, <1>11 DEF SectionOver
<1>12. CASE ProjectStep(p) BY <1>2, <1>12 DEF ProjectStep
<1>13. CASE Create(p) BY <1>2, <1>13 DEF Create
<1> QED BY <1>3, <1>4, <1>5, <1>6, <1>7, <1>8, <1>9, <1>10, <1>11, <1>12, <1>13 DEF Within

\* What is new on record for t was put there by a run of t.
LEMMA NewOnRecord ==
  ASSUME Base, [Next]_vars, NEW t \in Task
  PROVE  /\ steps[t] \subseteq steps'[t]
         /\ \A step \in steps'[t] \ steps[t] : \E p \in Process :
               /\ proc[p].task = t
               /\ step = "section_completed_hook" => proc[p].pc = "section_fired"
               /\ step = "section_completion" => proc[p].pc = "pr_done"
<1>1. StepsType BY Parts DEF Base
<1>2. ASSUME NEW p \in Process, NEW step, Applied(p, step),
             step = "section_completed_hook" => proc[p].pc = "section_fired",
             step = "section_completion" => proc[p].pc = "pr_done"
      PROVE  /\ steps[t] \subseteq steps'[t]
             /\ \A new \in steps'[t] \ steps[t] : \E q \in Process :
                   /\ proc[q].task = t
                   /\ new = "section_completed_hook" => proc[q].pc = "section_fired"
                   /\ new = "section_completion" => proc[q].pc = "pr_done"
  <2>1. steps'[t] = IF t = proc[p].task THEN steps[t] \union {step} ELSE steps[t]
    BY <1>1, <1>2 DEF Applied, StepsType
  <2> QED BY <1>2, <2>1
<1>3. CASE UNCHANGED steps BY <1>3
<1>4. ASSUME NEW p \in Process, Effects(p)
      PROVE  UNCHANGED steps \/ \E step :
                /\ Applied(p, step)
                /\ step = "section_completed_hook" => proc[p].pc = "section_fired"
                /\ step = "section_completion" => proc[p].pc = "pr_done"
  BY <1>4 DEF Effects, Fire, Fired, Intakes, Create, IntakeDone, SectionStep, SectionFired, PullRequest,
              RecordPr, SectionOver, ProjectStep, Finish, At
<1>5. UNCHANGED steps \/ \E p \in Process : Effects(p)
  BY DEF Next, vars, Wakeup, Wake, Replay, ListLegacy, Backfill, Sleep, Crash, Complete,
         CompleteOnly, Fail, Reset
<1> QED BY <1>2, <1>3, <1>4, <1>5

\* A process that is at t after a step was there before, or has begun with t.
LEMMA AtTask ==
  ASSUME Base, [Next]_vars, NEW p \in Process, NEW t \in Task, proc'[p].task = t
  PROVE  \/ proc[p].task = t /\ proc'[p].pc = proc[p].pc
         \/ proc[p].task = t /\ Within(p)
         \/ /\ proc'[p].pc = "task"
            /\ t \in proc[p].todo \/ (status[t] = "active" /\ status'[t] = "completed")
<1>1. MemType /\ StepsType BY Parts DEF Base
<1>2. CASE proc'[p] = proc[p] BY <1>2
<1>3. ASSUME NEW q \in Process, NEW u \in Task, NEW rows, Begin(q, u, rows),
             u \in proc[q].todo \/ (status[u] = "active" /\ status'[u] = "completed")
      PROVE  \/ proc'[p] = proc[p]
             \/ /\ proc'[p].pc = "task"
                /\ t \in proc[p].todo \/ (status[t] = "active" /\ status'[t] = "completed")
  BY <1>1, <1>3, BeginMem
<1>4. ASSUME NEW q \in Process, Effects(q)
      PROVE  proc'[p] = proc[p] \/ (proc[p].task = t /\ Within(p))
  <2>1. CASE Within(q)
    <3>1. PICK label \in Labels : Goto(q, label) BY <2>1 DEF Within
    <3> QED BY <1>1, <2>1, <3>1, GotoMem
  <2>2. CASE Finish(q)
    <3>1. q # p BY <1>1, <2>2, FinishMem
    <3> QED BY <1>1, <2>2, <3>1, FinishMem
  <2> QED BY <1>4, <2>1, <2>2, EffectsWithin
<1>5. ASSUME NEW q \in Process, Wakeup(q) \/ Crash(q)
      PROVE  \/ proc'[p] = proc[p]
             \/ proc[p].task = t /\ proc'[p].pc = proc[p].pc
             \/ /\ proc'[p].pc = "task"
                /\ t \in proc[p].todo \/ (status[t] = "active" /\ status'[t] = "completed")
  <2>1. CASE Sleep(q) \/ Crash(q)
    <3>1. proc' = [proc EXCEPT ![q] = Idle] BY <2>1 DEF Sleep, Crash
    <3>2. Idle.task = None BY DEF Idle
    <3> QED BY <1>1, <3>1, <3>2, IdleMem
  <2>2. CASE Wake(q)
    <3>1. proc[q].task = None BY <2>2, Parts, RunParts DEF Wake, At, Base, RunOf, InRun
    <3>2. proc'[q].task = proc[q].task /\ \A x \in Process : x # q => proc'[x] = proc[x]
      BY <1>1, <2>2 DEF Wake, MemType, Mem
    <3> QED BY <3>1, <3>2
  <2>3. CASE ListLegacy(q)
    <3>1. /\ proc'[q].task = proc[q].task /\ proc'[q].pc = proc[q].pc
          /\ \A x \in Process : x # q => proc'[x] = proc[x]
      BY <1>1, <2>3 DEF ListLegacy, MemType, Mem
    <3> QED BY <3>1
  <2>4. CASE Replay(q)
    <3>1. PICK u \in proc[q].todo : Begin(q, u, queue) BY <2>4 DEF Replay
    <3>2. u \in Task BY <1>1 DEF MemType, Mem
    <3> QED BY <1>3, <3>1, <3>2
  <2>5. CASE Backfill(q)
    <3>1. PICK u \in proc[q].todo :
            \/ proc' = [proc EXCEPT ![q].todo = @ \ {u}]
            \/ \E rows : Begin(q, u, rows)
      BY <2>5 DEF Backfill
    <3>2. u \in Task BY <1>1 DEF MemType, Mem
    <3>3. CASE proc' = [proc EXCEPT ![q].todo = @ \ {u}]
      <4>1. /\ proc'[q].task = proc[q].task /\ proc'[q].pc = proc[q].pc
            /\ \A x \in Process : x # q => proc'[x] = proc[x]
        BY <1>1, <3>3 DEF MemType, Mem
      <4> QED BY <4>1
    <3>4. CASE \E rows : Begin(q, u, rows) BY <1>3, <3>1, <3>2, <3>4
    <3> QED BY <3>1, <3>3, <3>4
  <2> QED BY <1>5, <2>1, <2>2, <2>3, <2>4, <2>5 DEF Wakeup
<1>6. ASSUME NEW q \in Process, NEW u \in Task, Complete(q, u)
      PROVE  \/ proc'[p] = proc[p]
             \/ /\ proc'[p].pc = "task"
                /\ t \in proc[p].todo \/ (status[t] = "active" /\ status'[t] = "completed")
  <2>1. StatusType BY Parts DEF Base
  <2>2. status[u] = "active" /\ status'[u] = "completed" BY <1>6, <2>1 DEF Complete, StatusType
  <2> QED BY <1>3, <1>6, <2>2 DEF Complete
<1>7. ASSUME NEW u \in Task, CompleteOnly(u) \/ Fail(u) \/ Reset(u)
      PROVE  proc'[p] = proc[p]
  BY <1>7 DEF CompleteOnly, Fail, Reset
<1> QED BY <1>2, <1>4, <1>5, <1>6, <1>7 DEF Next, vars

\* Without resets a completed task stays completed; without failures a task leaves
\* "active" by being completed.
LEMMA StatusMoves ==
  ASSUME Base, [Next]_vars, NEW t \in Task
  PROVE  /\ status[t] = "completed" => status'[t] = "completed" \/ "reset" \in disturbed'
         /\ status[t] # "completed" /\ status'[t] = "completed" => status[t] = "active"
         /\ status[t] = "active" => \/ status'[t] \in {"active", "completed"}
                                    \/ "fail" \in disturbed'
<1>1. StatusType /\ MemType /\ RunInv BY Parts DEF Base
<1>2. CASE UNCHANGED status BY <1>2
<1>3. ASSUME NEW p \in Process, Create(p)
      PROVE  status'[t] = status[t] \/ (status[t] = "absent" /\ status'[t] = "active")
  BY <1>1, <1>3 DEF Create, StatusType
<1>4. ASSUME NEW u \in Task, status[u] = "active", status' = [status EXCEPT ![u] = "completed"]
      PROVE  status'[t] = status[t] \/ (status[t] = "active" /\ status'[t] = "completed")
  BY <1>1, <1>4 DEF StatusType
<1>5. ASSUME NEW u \in Task, Fail(u) \/ Reset(u)
      PROVE  \/ status'[t] = status[t]
             \/ status[t] = "active" /\ status'[t] = "failed" /\ "fail" \in disturbed'
             \/ status[t] = "completed" /\ status'[t] = "active" /\ "reset" \in disturbed'
  BY <1>1, <1>5 DEF Fail, Reset, Disturb, StatusType
<1>6. \/ UNCHANGED status
      \/ \E p \in Process : Create(p)
      \/ \E u \in Task : status[u] = "active" /\ status' = [status EXCEPT ![u] = "completed"]
      \/ \E u \in Task : Fail(u) \/ Reset(u)
  BY DEF Next, vars, Effects, Wakeup, Fire, Fired, Intakes, IntakeDone, SectionStep, SectionFired,
         PullRequest, RecordPr, SectionOver, ProjectStep, Finish, Wake, Replay, ListLegacy,
         Backfill, Sleep, Crash, Complete, CompleteOnly
<1> QED BY <1>2, <1>3, <1>4, <1>5, <1>6

\* What was announced, or went wrong, stays so.
LEMMA HistoryGrows ==
  ASSUME Base, [Next]_vars
  PROVE  /\ announced \subseteq announced' /\ disturbed \subseteq disturbed'
         /\ pr = "recorded" => pr' = "recorded"
<1>1. ASSUME NEW p \in Process, Effects(p)
      PROVE  /\ announced \subseteq announced' /\ disturbed \subseteq disturbed'
             /\ pr = "recorded" => pr' = "recorded"
  <2>1. announced \subseteq announced'
    <3>1. CASE UNCHANGED announced BY <3>1
    <3>2. CASE SectionStep(p) \/ ProjectStep(p) BY <3>2 DEF SectionStep, ProjectStep
    <3> QED BY <1>1, <3>1, <3>2 DEF Effects, Fire, Fired, Intakes, Create, IntakeDone, SectionFired,
               PullRequest, RecordPr, SectionOver, Finish
  <2>2. disturbed \subseteq disturbed'
    <3>1. CASE UNCHANGED disturbed BY <3>1
    <3>2. CASE PullRequest(p) BY <3>2 DEF PullRequest, Disturb
    <3> QED BY <1>1, <3>1, <3>2 DEF Effects, Fire, Fired, Intakes, Create, IntakeDone, SectionStep,
               SectionFired, RecordPr, SectionOver, ProjectStep, Finish
  <2>3. pr = "recorded" => pr' = "recorded"
    <3>1. CASE UNCHANGED pr BY <3>1
    <3>2. CASE PullRequest(p) \/ RecordPr(p) BY <3>2 DEF PullRequest, RecordPr
    <3> QED BY <1>1, <3>1, <3>2 DEF Effects, Fire, Fired, Intakes, Create, IntakeDone, SectionStep,
               SectionFired, SectionOver, ProjectStep, Finish
  <2> QED BY <2>1, <2>2, <2>3
<1>2. UNCHANGED <<announced, pr>> \/ \E p \in Process : Effects(p)
  BY DEF Next, vars, Wakeup, Wake, Replay, ListLegacy, Backfill, Sleep, Crash, Complete,
         CompleteOnly, Fail, Reset
<1>3. disturbed \subseteq disturbed' \/ \E p \in Process : Effects(p)
  <2>1. \A p \in Process, t \in Task : \A rows :
           Begin(p, t, rows) => disturbed \subseteq disturbed'
    BY DEF Begin
  <2>2. \A kind : Disturb(kind) => disturbed \subseteq disturbed' BY DEF Disturb
  <2>3. ASSUME NEW p \in Process, Replay(p) \/ Backfill(p)
        PROVE  disturbed \subseteq disturbed'
    BY <2>3 DEF Replay, Backfill, Begin
  <2>4. ASSUME NEW p \in Process, NEW t \in Task, Complete(p, t)
        PROVE  disturbed \subseteq disturbed'
    BY <2>1, <2>4 DEF Complete
  <2> QED BY <2>2, <2>3, <2>4
      DEF Next, vars, Wakeup, Wake, ListLegacy, Sleep, Crash, CompleteOnly, Fail, Reset
<1> QED BY <1>1, <1>2, <1>3

\* Lists are of completed tasks.
LEMMA ListMoves ==
  ASSUME Base, [Next]_vars, NEW p \in Process
  PROVE  \A t \in proc'[p].todo : t \in proc[p].todo \/ status[t] = "completed"
<1>1. MemType /\ StepsType BY Parts DEF Base
<1>2. ASSUME NEW q \in Process, NEW u \in Task, NEW rows, Begin(q, u, rows)
      PROVE  proc'[p].todo \subseteq proc[p].todo
  BY <1>1, <1>2, BeginMem
<1>3. ASSUME NEW q \in Process, Effects(q) PROVE proc'[p].todo = proc[p].todo
  <2>1. CASE Within(q) BY <1>1, <2>1, GotoMem DEF Within
  <2>2. CASE Finish(q) BY <1>1, <2>2, FinishMem
  <2> QED BY <1>3, <2>1, <2>2, EffectsWithin
<1>4. ASSUME NEW q \in Process, Wakeup(q) \/ Crash(q)
      PROVE  \A t \in proc'[p].todo : t \in proc[p].todo \/ status[t] = "completed"
  <2>1. CASE Sleep(q) \/ Crash(q)
    <3>1. proc' = [proc EXCEPT ![q] = Idle] BY <2>1 DEF Sleep, Crash
    <3>2. Idle.todo = {} BY DEF Idle
    <3> QED BY <1>1, <3>1, <3>2, IdleMem
  <2>2. CASE Wake(q) BY <1>1, <2>2 DEF Wake, PendingTasks, MemType, Mem
  <2>3. CASE ListLegacy(q) BY <1>1, <2>3 DEF ListLegacy, LegacyTasks, MemType, Mem
  <2>4. CASE Replay(q)
    <3>1. PICK u \in proc[q].todo : Begin(q, u, queue) BY <2>4 DEF Replay
    <3>2. u \in Task BY <1>1 DEF MemType, Mem
    <3> QED BY <1>2, <3>1, <3>2
  <2>5. CASE Backfill(q)
    <3>1. PICK u \in proc[q].todo :
            \/ proc' = [proc EXCEPT ![q].todo = @ \ {u}]
            \/ \E rows : Begin(q, u, rows)
      BY <2>5 DEF Backfill
    <3>2. u \in Task BY <1>1 DEF MemType, Mem
    <3>3. CASE proc' = [proc EXCEPT ![q].todo = @ \ {u}] BY <1>1, <3>3 DEF MemType, Mem
    <3>4. CASE \E rows : Begin(q, u, rows) BY <1>2, <3>2, <3>4
    <3> QED BY <3>1, <3>3, <3>4
  <2> QED BY <1>4, <2>1, <2>2, <2>3, <2>4, <2>5 DEF Wakeup
<1>5. ASSUME NEW q \in Process, NEW u \in Task, Complete(q, u)
      PROVE  proc'[p].todo \subseteq proc[p].todo
  BY <1>2, <1>5 DEF Complete
<1>6. ASSUME NEW u \in Task, CompleteOnly(u) \/ Fail(u) \/ Reset(u)
      PROVE  proc'[p].todo = proc[p].todo
  BY <1>6 DEF CompleteOnly, Fail, Reset
<1>7. CASE UNCHANGED vars BY <1>7 DEF vars
<1> QED BY <1>3, <1>4, <1>5, <1>6, <1>7 DEF Next

\* A task counts as applied from the end of a run of it.
LEMMA QueueMoves ==
  ASSUME Base, [Next]_vars, NEW t \in Task, queue'[t] \in {"applied", "again"}
  PROVE  \/ queue[t] \in {"applied", "again"}
         \/ \E p \in Process : proc[p].task = t /\ proc[p].pc = "project_done"
<1>1. QueueType /\ MemType BY Parts DEF Base
<1>2. CASE UNCHANGED queue BY <1>2
<1>3. ASSUME NEW p \in Process, Finish(p)
      PROVE  queue'[t] = queue[t] \/ (proc[p].task = t /\ proc[p].pc = "project_done")
  BY <1>1, <1>3 DEF Finish, At, QueueType
<1>4. ASSUME NEW p \in Process, Backfill(p)
      PROVE  queue[t] \in {"applied", "again"}
  <2>1. PICK u \in proc[p].todo :
          \/ queue' = [queue EXCEPT ![u] = IF @ = "none" THEN "anomaly" ELSE @]
          \/ queue' = [queue EXCEPT ![u] = IF @ = "applied" THEN "again"
                                           ELSE IF @ = "again" THEN "again" ELSE "pending"]
    BY <1>4 DEF Backfill, Begin
  <2> QED BY <1>1, <2>1 DEF QueueType
<1>5. ASSUME NEW p \in Process, NEW u \in Task, Complete(p, u)
      PROVE  queue[t] \in {"applied", "again"}
  <2>1. queue' = WithPendingRow(u) BY <1>5 DEF Complete, Begin
  <2> QED BY <1>1, <2>1 DEF WithPendingRow, QueueType
<1>6. \/ UNCHANGED queue
      \/ \E p \in Process : Finish(p) \/ Backfill(p) \/ \E u \in Task : Complete(p, u)
  <2>1. ASSUME NEW p \in Process, Effects(p) PROVE UNCHANGED queue \/ Finish(p)
    BY <2>1, EffectsWithin DEF Within
  <2>2. ASSUME NEW p \in Process, Replay(p) PROVE UNCHANGED queue
    BY <2>2 DEF Replay, Begin
  <2> QED BY <2>1, <2>2
      DEF Next, vars, Wakeup, Wake, ListLegacy, Sleep, Crash, CompleteOnly, Fail, Reset
<1> QED BY <1>2, <1>3, <1>4, <1>5, <1>6

-------------------------------------------------------------------------------
(* The invariant is kept *)

\* Where a run of t is after a step that has not begun it, and what holds there.
LEMMA RunGoesOn ==
  ASSUME Base, [Next]_vars, NEW p \in Process, NEW t \in Task, proc'[p].task = t,
         proc'[p].pc # "task"
  PROVE  proc[p].task = t /\ (proc'[p].pc = proc[p].pc \/ Within(p))
BY AtTask

LEMMA OverNext ==
  ASSUME Base, OverInv, [Next]_vars
  PROVE  OverInv'
<1>1. MemType /\ RunInv /\ StepsType BY Parts DEF Base
<1>2. ASSUME NEW t \in Section, queue'[t] \in {"applied", "again"}
      PROVE  "section_completion" \in steps'[t]
  <2>1. t \in Task OBVIOUS
  <2>2. "section_completion" \in steps[t] BY <1>2, <2>1, QueueMoves DEF OverInv
  <2> QED BY <2>1, <2>2, NewOnRecord
<1>3. ASSUME NEW p \in Process, proc'[p].pc \in {"project", "project_done"},
             proc'[p].task \in Section
      PROVE  "section_completion" \in steps'[proc'[p].task]
  <2> DEFINE t == proc'[p].task
  <2>1. t \in Task BY <1>3
  <2>2. proc[p].task = t /\ (proc'[p].pc = proc[p].pc \/ Within(p)) BY <1>3, <2>1, RunGoesOn
  <2>3. steps[t] \subseteq steps'[t] BY <2>1, NewOnRecord
  <2>4. CASE proc[p].pc \in {"project", "project_done"} BY <1>3, <2>2, <2>3, <2>4 DEF OverInv
  <2>5. CASE Skips(p, "section_completion") /\ proc[p].pc = "section"
    <3>1. proc[p].seen \subseteq steps[t] BY <1>1, <2>2, <2>5, RunTask
    <3> QED BY <2>3, <2>5, <3>1 DEF Skips
  <2>6. CASE Applied(p, "section_completion")
    BY <1>1, <2>1, <2>2, <2>6 DEF Applied, StepsType
  <2> QED BY <1>3, <2>2, <2>4, <2>5, <2>6, Edges
<1> QED BY <1>2, <1>3 DEF OverInv

LEMMA HookNext ==
  ASSUME Base, HookInv, [Next]_vars
  PROVE  HookInv'
<1>1. announced \subseteq announced' BY HistoryGrows
<1>2. ASSUME NEW t \in Task, "section_completed_hook" \in steps'[t]
      PROVE  "section" \in announced'
  <2>1. CASE "section_completed_hook" \in steps[t] BY <1>1, <2>1 DEF HookInv
  <2>2. CASE \E p \in Process : proc[p].pc = "section_fired" BY <1>1, <2>2 DEF HookInv
  <2> QED BY <1>2, <2>1, <2>2, NewOnRecord
<1>3. ASSUME NEW p \in Process, proc'[p].pc = "section_fired"
      PROVE  "section" \in announced'
  <2>1. MemType' /\ RunInv' BY BaseNext, Parts DEF Base, TypeOK, MemType, Mem
  <2>2. proc'[p].task \in Task
    BY <1>3, <2>1 DEF RunInv, InRun, MemType, Mem
  <2>3. proc[p].pc = "section_fired" \/ Within(p) BY <1>3, <2>2, RunGoesOn
  <2> QED BY <1>1, <1>3, <2>3, Edges DEF HookInv
<1> QED BY <1>2, <1>3 DEF HookInv

LEMMA FreshNext ==
  ASSUME Base, FreshInv, [Next]_vars
  PROVE  FreshInv'
<1> SUFFICES ASSUME "reset" \notin disturbed', NEW t \in Task, status'[t] # "completed"
             PROVE  /\ steps'[t] = {}
                    /\ \A p \in Process : proc'[p].task # t /\ t \notin proc'[p].todo
  BY DEF FreshInv
<1>1. "reset" \notin disturbed BY HistoryGrows
<1>2. status[t] # "completed" BY StatusMoves
<1>3. steps[t] = {} /\ \A p \in Process : proc[p].task # t /\ t \notin proc[p].todo
  BY <1>1, <1>2 DEF FreshInv
<1>4. steps'[t] = {} BY <1>3, NewOnRecord
<1>5. \A p \in Process : t \notin proc'[p].todo BY <1>2, <1>3, ListMoves
<1>6. \A p \in Process : proc'[p].task # t BY <1>3, AtTask
<1> QED BY <1>4, <1>5, <1>6

\* When a section gets finished, a task of it has just been completed, and nothing done for it.
LEMMA GetsFinished ==
  ASSUME Base, FreshInv, [Next]_vars, Undisturbed', SectionDone', ~ SectionDone
  PROVE  \E t \in Section : /\ status'[t] = "completed" /\ steps'[t] = {}
                            /\ \A p \in Process : proc'[p].task = t => proc'[p].pc = "task"
<1>1. {"reset", "fail", "gh"} \intersect disturbed' = {} BY DEF Undisturbed
<1>2. "reset" \notin disturbed BY <1>1, HistoryGrows
<1>3. PICK t \in Section : status[t] # "completed" /\ status'[t] = "completed"
  <2>1. PICK u \in Section : status'[u] = "completed" BY DEF SectionDone
  <2>2. CASE status[u] # "completed" BY <2>1, <2>2
  <2>3. CASE status[u] = "completed"
    <3>1. PICK v \in Section : status[v] = "active" BY <2>3 DEF SectionDone
    <3>2. status'[v] # "active" BY DEF SectionDone
    <3>3. status'[v] = "completed" BY <1>1, <3>1, <3>2, StatusMoves
    <3> QED BY <3>1, <3>3
  <2> QED BY <2>2, <2>3
<1>4. steps[t] = {} /\ \A p \in Process : proc[p].task # t /\ t \notin proc[p].todo
  BY <1>2, <1>3 DEF FreshInv
<1>5. steps'[t] = {} BY <1>4, NewOnRecord
<1>6. \A p \in Process : proc'[p].task = t => proc'[p].pc = "task" BY <1>4, AtTask
<1> QED BY <1>3, <1>5, <1>6

LEMMA AnnounceNext ==
  ASSUME Base, SectionInv, [Next]_vars
  PROVE  AnnounceInv'
<1> SUFFICES ASSUME Undisturbed', SectionDone', "section" \notin announced'
             PROVE  \E t \in Section : status'[t] = "completed" /\ ~ Looked(t)'
  BY DEF AnnounceInv, Undisturbed, SectionDone
<1>1. {"reset", "fail", "gh"} \intersect disturbed' = {} BY DEF Undisturbed
<1>2. Undisturbed /\ "section" \notin announced BY <1>1, HistoryGrows DEF Undisturbed
<1>3. CASE ~ SectionDone BY <1>3, GetsFinished DEF SectionInv, Looked
<1>4. CASE SectionDone
  <2>1. PICK t \in Section : status[t] = "completed" /\ ~ Looked(t)
    BY <1>2, <1>4 DEF SectionInv, AnnounceInv
  <2>2. status'[t] = "completed" BY <1>1, <2>1, StatusMoves
  <2>3. "section_completion" \notin steps'[t] BY <2>1, NewOnRecord DEF Looked
  <2>4. ASSUME NEW p \in Process, proc'[p].task = t,
               proc'[p].pc \in {"section_fired", "pr", "pr_created", "pr_done"}
        PROVE  FALSE
    <3>1. proc[p].task = t /\ (proc'[p].pc = proc[p].pc \/ Within(p)) BY <2>4, RunGoesOn
    <3>2. proc[p].pc \notin {"section_fired", "pr", "pr_created", "pr_done"}
      BY <2>1, <3>1 DEF Looked
    <3>3. Within(p) BY <2>4, <3>1, <3>2
    <3>4. Skips(p, "section_completed_hook") BY <1>4, <2>4, <3>2, <3>3, Edges
    <3>5. proc[p].pc \notin {"idle", "next"}
      BY <3>3 DEF Within, Fire, Fired, Intakes, Create, IntakeDone, SectionStep, SectionFired, PullRequest,
                  RecordPr, SectionOver, ProjectStep, At
    <3>6. "section_completed_hook" \in steps[t]
      BY <3>1, <3>4, <3>5, RunTask, Parts DEF Base, Skips
    <3> QED BY <1>2, <3>6 DEF SectionInv, HookInv
  <2> QED BY <2>2, <2>3, <2>4 DEF Looked
<1> QED BY <1>3, <1>4

LEMMA PrNext ==
  ASSUME Base, SectionInv, [Next]_vars
  PROVE  PrInv'
<1> SUFFICES ASSUME Undisturbed', SectionDone', pr' # "recorded"
             PROVE  \E t \in Section : status'[t] = "completed" /\ ~ PrSettled(t)'
  BY DEF PrInv, Undisturbed, SectionDone
<1>1. {"reset", "fail", "gh"} \intersect disturbed' = {} BY DEF Undisturbed
<1>2. Undisturbed /\ pr # "recorded" BY <1>1, HistoryGrows DEF Undisturbed
<1>3. CASE ~ SectionDone BY <1>3, GetsFinished DEF SectionInv, PrSettled
<1>4. CASE SectionDone
  <2>1. PICK t \in Section : status[t] = "completed" /\ ~ PrSettled(t)
    BY <1>2, <1>4 DEF SectionInv, PrInv
  <2>2. status'[t] = "completed" BY <1>1, <2>1, StatusMoves
  <2>3. "section_completion" \notin steps'[t] BY <2>1, NewOnRecord DEF PrSettled
  <2>4. ASSUME NEW p \in Process, proc'[p].task = t, proc'[p].pc = "pr_done" PROVE FALSE
    <3>1. proc[p].task = t /\ (proc'[p].pc = proc[p].pc \/ Within(p)) BY <2>4, RunGoesOn
    <3>2. Within(p) BY <2>1, <2>4, <3>1 DEF PrSettled
    <3> QED BY <1>1, <1>4, <2>4, <3>2, Edges
  <2> QED BY <2>2, <2>3, <2>4 DEF PrSettled
<1> QED BY <1>3, <1>4

LEMMA SectionNext == Base /\ SectionInv /\ [Next]_vars => SectionInv'
BY OverNext, HookNext, FreshNext, AnnounceNext, PrNext DEF SectionInv

(***************************************************************************)
(* When a section is finished and nothing is left to be done for its       *)
(* tasks, its hook has been fired and its pull request is on record, in    *)
(* whatever order its tasks were completed, with any number of processes   *)
(* and crashes, unless a task was reset, failed, or gh failed              *)
(* (maybeTriggerSectionCompletion, checkSectionCompletionAndPR).           *)
(***************************************************************************)
THEOREM FinishedIsAnnounced == Spec => []SectionAnnounced
<1>1. Init => SectionInv
  <2> SUFFICES ASSUME Init PROVE SectionInv OBVIOUS
  <2>1. \A p \in Process : proc[p] = Idle BY DEF Init
  <2>2. \A t \in Task : steps[t] = {} /\ queue[t] = "none" /\ status[t] # "completed" BY DEF Init
  <2>3. Idle.pc = "idle" /\ Idle.task = None /\ Idle.todo = {} BY DEF Idle
  <2>4. ~ SectionDone BY <2>2 DEF SectionDone
  <2> QED BY <2>1, <2>2, <2>3, <2>4
          DEF SectionInv, OverInv, HookInv, FreshInv, AnnounceInv, PrInv
<1>2. Base /\ SectionInv => SectionAnnounced
  <2> SUFFICES ASSUME Base, SectionInv, Undisturbed, SectionDone, Settled(Section)
               PROVE  "section" \in announced /\ pr = "recorded"
    BY DEF SectionAnnounced, SectionIsAnnounced, Undisturbed
  <2>1. \A t \in Section : status[t] = "completed" => "section_completion" \in steps[t]
    BY DEF Settled, SectionInv, OverInv
  <2> QED BY <2>1 DEF SectionInv, AnnounceInv, PrInv, Looked, PrSettled
<1>3. Base /\ SectionInv /\ [Next]_vars => SectionInv' BY SectionNext
<1> QED BY <1>1, <1>2, <1>3, InitBase, BaseNext, PTL DEF Spec


-------------------------------------------------------------------------------
(* Successors that are made once *)

\* A task comes into being only by the statement that creates it.
LEMMA OnlyCreate ==
  ASSUME Base, [Next]_vars
  PROVE  \/ UNCHANGED created /\ \A t \in Task : status[t] = "absent" => status'[t] = "absent"
         \/ \E p \in Process : Create(p)
<1>1. StatusType BY Parts DEF Base
<1>2. \/ UNCHANGED created
      \/ \E p \in Process : Create(p)
  BY DEF Next, vars, Effects, Wakeup, Fire, Fired, Intakes, IntakeDone, SectionStep, SectionFired,
         PullRequest, RecordPr, SectionOver, ProjectStep, Finish, Wake, Replay, ListLegacy,
         Backfill, Sleep, Crash, Complete, CompleteOnly, Fail, Reset
<1>3. \/ UNCHANGED status
      \/ \E p \in Process : Create(p)
      \/ \E u \in Task, new \in {"completed", "failed", "active"} :
            status[u] # "absent" /\ status' = [status EXCEPT ![u] = new]
  BY DEF Next, vars, Effects, Wakeup, Fire, Fired, Intakes, IntakeDone, SectionStep, SectionFired,
         PullRequest, RecordPr, SectionOver, ProjectStep, Finish, Wake, Replay, ListLegacy,
         Backfill, Sleep, Crash, Complete, CompleteOnly, Fail, Reset
<1> QED BY <1>1, <1>2, <1>3 DEF StatusType

LEMMA OnceNext ==
  ASSUME \A t, u \in Intake : NextOf[t] = NextOf[u] => t = u,
         Base, SuccessorInv, OverlapInv, OnceInv, [Next]_vars, Base'
  PROVE  OnceInv'
<1>1. MemType /\ StatusType /\ CountType /\ RunInv BY Parts DEF Base
<1>2. MemType' /\ RunInv' BY DEF Base, TypeOK, MemType, Mem
<1>3. ASSUME NEW p \in Process, proc'[p].pc = "intake_new"
      PROVE  /\ proc'[p].task = proc[p].task
             /\ \/ proc[p].pc = "intake_new"
                \/ /\ proc[p].task \in Intake /\ status'[NextOf[proc[p].task]] = "absent"
                   /\ UNCHANGED created
  <2>1. proc'[p].task \in Task /\ InRun(p)' BY <1>2, <1>3 DEF RunInv, InRun, MemType, Mem
  <2>2. \/ proc[p].task = proc'[p].task /\ proc'[p].pc = proc[p].pc
        \/ proc[p].task = proc'[p].task /\ Within(p)
    BY <1>3, <2>1, AtTask
  <2> QED BY <1>3, <2>2, Edges DEF Missing
<1>4. \A p \in Process : proc'[p].pc = "intake_new" => proc'[p].task \in Intake
  BY <1>3 DEF OnceInv
<1>5. ASSUME "overlap" \notin disturbed'
      PROVE  /\ \A t \in Intake : created'[t] <= 1
             /\ \A p \in Process : proc'[p].pc = "intake_new" => status'[NextOf[proc'[p].task]] = "absent"
  <2>1. "overlap" \notin disturbed BY <1>5, HistoryGrows
  <2>2. CASE UNCHANGED created /\ \A t \in Task : status[t] = "absent" => status'[t] = "absent"
    <3>1. \A t \in Intake : NextOf[t] \in Task OBVIOUS
    <3> QED BY <1>3, <2>1, <2>2, <3>1 DEF OnceInv
  <2>3. ASSUME NEW q \in Process, Create(q)
        PROVE  /\ \A t \in Intake : created'[t] <= 1
               /\ \A p \in Process : proc'[p].pc = "intake_new" => status'[NextOf[proc'[p].task]] = "absent"
    <3> DEFINE u == proc[q].task
    <3>1. proc[q].pc = "intake_new" /\ Goto(q, "intake_done") /\ u \in Intake
      BY <2>3 DEF Create, At, OnceInv
    <3>2. status[NextOf[u]] = "absent" /\ created[u] = 0
      BY <2>1, <3>1 DEF OnceInv, SuccessorInv
    <3>3. status' = [status EXCEPT ![NextOf[u]] = IF @ = "absent" THEN "active" ELSE @] BY <2>3 DEF Create
    <3>4. created' = [created EXCEPT ![u] = IF @ < 2 THEN @ + 1 ELSE 2] BY <2>3 DEF Create
    <3> HIDE DEF u
    <3>5. \A t \in Intake : created'[t] = IF t = u THEN 1 ELSE created[t]
      BY <1>1, <3>1, <3>2, <3>4 DEF CountType
    <3>6. \A t \in Intake : created'[t] <= 1 BY <2>1, <3>5 DEF OnceInv
    <3>7. created'[u] = 1 /\ created[u] = 0 BY <3>1, <3>2, <3>5
    <3>8. ASSUME NEW p \in Process, proc'[p].pc = "intake_new"
          PROVE  status'[NextOf[proc'[p].task]] = "absent"
      <4>1. p # q BY <1>1, <3>1, <3>8, GotoMem DEF Labels
      <4>2. proc'[p].task = proc[p].task /\ proc[p].pc = "intake_new" BY <1>3, <3>7, <3>8
      <4>3. InRun(p) /\ InRun(q) BY <1>1, <3>1, <4>2 DEF RunInv
      <4>4. proc[p].task \in Intake /\ proc[p].task # u
        BY <2>1, <4>1, <4>2, <4>3 DEF OnceInv, OverlapInv, u
      <4>5. NextOf[proc[p].task] # NextOf[u] BY <3>1, <4>4
      <4>6. NextOf[proc[p].task] \in Task BY <4>4
      <4> QED BY <1>1, <2>1, <3>3, <4>2, <4>5, <4>6 DEF OnceInv, StatusType
    <3> QED BY <3>6, <3>8
  <2> QED BY <2>2, <2>3, OnlyCreate
<1> QED BY <1>4, <1>5 DEF OnceInv

(***************************************************************************)
(* Whatever is replayed, an intake task has a successor when its effects   *)
(* are through, and more than one only after two processes were at these   *)
(* effects at once, if no two tasks have the same (handleIntakeTaskApproval*)
(* looks for it and creates it in two statements).                         *)
(***************************************************************************)
THEOREM OneSuccessor ==
  ASSUME \A t, u \in Intake : NextOf[t] = NextOf[u] => t = u
  PROVE  Spec => []FollowUpOnce
<1>1. Init => SuccessorInv /\ OverlapInv /\ OnceInv
  <2> SUFFICES ASSUME Init PROVE SuccessorInv /\ OverlapInv /\ OnceInv OBVIOUS
  <2>1. \A t \in Intake : NextOf[t] \in Task /\ status[NextOf[t]] = "absent" /\ created[t] = 0
    BY DEF Init
  <2>2. \A t \in Intake : steps[t] = {} /\ queue[t] = "none" BY DEF Init
  <2>3. \A p \in Process : proc[p] = Idle BY DEF Init
  <2> QED BY <2>1, <2>2, <2>3 DEF SuccessorInv, OverlapInv, OnceInv, InRun, Idle
<1>2. Base /\ SuccessorInv /\ OnceInv => FollowUpOnce
  <2>1. Base => created \in [Intake -> 0..2] BY Parts DEF Base, CountType
  <2> QED BY <2>1 DEF SuccessorInv, OnceInv, FollowUpOnce
<1>3. Base /\ SuccessorInv /\ OnceInv /\ [Next]_vars => SuccessorInv' BY SuccessorNext
<1>4. Base /\ SuccessorInv /\ OverlapInv /\ OnceInv /\ [Next]_vars /\ Base' => OnceInv' BY OnceNext
<1>5. QED BY <1>1, <1>2, <1>3, <1>4, OverlapNext, InitBase, BaseNext, PTL DEF Spec
===============================================================================
