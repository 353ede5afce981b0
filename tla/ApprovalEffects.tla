--------------------------- MODULE ApprovalEffects ---------------------------
(***************************************************************************)
(* What follows when a task is completed: its hook, the next task of the   *)
(* intake pipeline, the hook and the pull request of its section, the hook *)
(* of the project (src/orchestrator/automated-approval-effects.ts,         *)
(* section-completion.ts, src/intake/reviewer-approval.ts,                 *)
(* src/git/section-pr.ts).  The steps are recorded in the audit trail, and *)
(* the wakeup replays what was left unfinished.                            *)
(*                                                                         *)
(* The tasks of Section are in one section, with auto_pr and a branch;     *)
(* NextOf names the task that the approval of an intake task creates.      *)
(* Under "disturbed" is on record what happened besides completions: a     *)
(* crash, a completed task that was reset, a pull request that could not   *)
(* be created ("gh"), a task that failed, two processes at the effects of  *)
(* one task at once ("overlap").                                           *)
(***************************************************************************)
EXTENDS Integers, FiniteSets

CONSTANTS
    Process,       \* runners, the CLI, wakeups
    Wakeups,       \* those among them that replay
    Task,
    Section,       \* the tasks of the section
    Intake,        \* the tasks whose approval creates another one
    NextOf,        \* [Intake -> Task]: that other one
    None,
    Disturbances,  \* the kinds that may happen, each once
    MaxDisturbed   \* bound: how many of them happen

ASSUME EffectsAssumption ==
    /\ Wakeups \subseteq Process /\ None \notin Process \union Task
    /\ Section \subseteq Task /\ Intake \subseteq Task
    /\ NextOf \in [Intake -> Task]
    /\ Disturbances \subseteq {"crash", "reset", "gh", "fail"}
    /\ MaxDisturbed \in Nat

VARIABLES
    status,     \* tasks.status; "absent": not created yet
    queue,      \* the latest of a task's approval_effects_* rows
    steps,      \* the steps that are on record as applied
    proc,       \* what each process has in memory
    taskHook,   \* how often task.completed was fired for a task, up to 2
    announced,  \* the other hooks that were fired
    pr,         \* the pull request: none, open, or open and on record
    created,    \* tasks that were created, up to 2
    disturbed   \* history

vars == <<status, queue, steps, proc, taskHook, announced, pr, created, disturbed>>

Step   == {"task_completed_hook", "intake", "section_completed_hook", "section_completion",
           "project_completion"}
Idle   == [pc |-> "idle", task |-> None, seen |-> {}, todo |-> {}, legacy |-> FALSE]
Labels == {"idle", "next", "task", "task_fired", "intake", "intake_new", "intake_done", "section",
           "section_fired", "pr", "pr_created", "pr_done", "project", "project_done"}

TypeOK ==
    /\ status \in [Task -> {"absent", "active", "completed", "failed"}]
    /\ queue \in [Task -> {"none", "pending", "applied", "again", "anomaly"}]
    /\ steps \in [Task -> SUBSET Step]
    /\ proc \in [Process -> [pc : Labels, task : Task \union {None}, seen : SUBSET Step,
                             todo : SUBSET Task, legacy : BOOLEAN]]
    /\ taskHook \in [Task -> 0..2]
    /\ announced \subseteq {"section", "project"}
    /\ pr \in {"none", "open", "recorded"}
    /\ created \in [Intake -> 0..2]
    /\ disturbed \subseteq Disturbances \union {"overlap"}
    \* What is on record as applied was pending, and what is applied has all its steps.
    /\ \A t \in Task : steps[t] # {} => queue[t] \in {"pending", "applied", "again"}
    /\ \A t \in Task : queue[t] \in {"applied", "again"} =>
          {"task_completed_hook", "project_completion"} \subseteq steps[t]

Init ==
    /\ status = [t \in Task |-> IF \E i \in Intake : NextOf[i] = t THEN "absent" ELSE "active"]
    /\ queue = [t \in Task |-> "none"]
    /\ steps = [t \in Task |-> {}]
    /\ proc = [p \in Process |-> Idle]
    /\ taskHook = [t \in Task |-> 0]
    /\ announced = {} /\ pr = "none"
    /\ created = [t \in Intake |-> 0]
    /\ disturbed = {}

At(p, label) == proc[p].pc = label

Goto(p, label) == proc' = [proc EXCEPT ![p].pc = label]

Disturb(kind) ==
    /\ kind \in Disturbances \ disturbed
    /\ Cardinality(disturbed \ {"overlap"}) < MaxDisturbed
    /\ disturbed' = disturbed \union {kind}

-------------------------------------------------------------------------------
(* What a run of the effects looks at                                      *)

Existing == {t \in Task : status[t] # "absent"}

\* getSectionCompletionState
SectionDone ==
    /\ \A t \in Section : status[t] # "active"
    /\ \E t \in Section : status[t] = "completed"

\* allProjectTasksCompleted
ProjectDone == \A t \in Existing : status[t] = "completed"

\* Faulty variant: the steps of a task are taken to be done if they are for another.
SeenAnywhere(t) == UNION {steps[x] : x \in Task}

\* Faulty variant: every run does every step.
NothingSeen(t) == {}

\* getAppliedEffectSteps, once per run
Seen(t) == steps[t]

\* Process p begins with the effects of t, rows being the latest of the tasks.
Begin(p, t, rows) ==
    /\ queue' = rows
    /\ proc' = [proc EXCEPT ![p].pc = "task", ![p].task = t, ![p].seen = Seen(t),
                            ![p].todo = @ \ {t}]
    /\ disturbed' = IF \E q \in Process : proc[q].task = t
                    THEN disturbed \union {"overlap"} ELSE disturbed

-------------------------------------------------------------------------------
(* Completion                                                              *)

\* Faulty variant: the pending row is left to the run of the effects.
NoPendingRow(t) == queue

\* A task that has a pending row, of whatever age, gets no other.
WithPendingRow(t) ==
    IF queue[t] \in {"none", "anomaly"} THEN [queue EXCEPT ![t] = "pending"] ELSE queue

\* completeTaskWithApprovalEffects: status and row in one transaction.
Complete(p, t) ==
    /\ At(p, "idle") /\ p \notin Wakeups
    /\ status[t] = "active"
    /\ status' = [status EXCEPT ![t] = "completed"]
    /\ Begin(p, t, WithPendingRow(t))
    /\ UNCHANGED <<steps, taskHook, announced, pr, created>>

\* A dispute that is resolved for the coder completes the task without effects.
CompleteOnly(t) ==
    /\ status[t] = "active"
    /\ status' = [status EXCEPT ![t] = "completed"]
    /\ UNCHANGED <<queue, steps, proc, taskHook, announced, pr, created, disturbed>>

Fail(t) ==
    /\ status[t] = "active"
    /\ Disturb("fail")
    /\ status' = [status EXCEPT ![t] = "failed"]
    /\ UNCHANGED <<queue, steps, proc, taskHook, announced, pr, created>>

\* The audit trail stays as it is.
Reset(t) ==
    /\ status[t] = "completed"
    /\ Disturb("reset")
    /\ status' = [status EXCEPT ![t] = "active"]
    /\ UNCHANGED <<queue, steps, proc, taskHook, announced, pr, created>>

-------------------------------------------------------------------------------
(* runPendingApprovalEffects                                               *)

Applied(p, step) == steps' = [steps EXCEPT ![proc[p].task] = @ \union {step}]

Skips(p, step) == step \in proc[p].seen

Fire(p) ==
    /\ At(p, "task")
    /\ IF Skips(p, "task_completed_hook")
       THEN Goto(p, "intake") /\ UNCHANGED taskHook
       ELSE /\ Goto(p, "task_fired")
            /\ taskHook' = [taskHook EXCEPT ![proc[p].task] = IF @ < 2 THEN @ + 1 ELSE 2]
    /\ UNCHANGED <<status, queue, steps, announced, pr, created, disturbed>>

Fired(p) ==
    /\ At(p, "task_fired")
    /\ Applied(p, "task_completed_hook")
    /\ Goto(p, "intake")
    /\ UNCHANGED <<status, queue, taskHook, announced, pr, created, disturbed>>

\* Faulty variant: the task is created whether there is one or not.
AlwaysMissing(t) == TRUE

\* findExistingNextTaskId
Missing(t) == status[NextOf[t]] = "absent"

\* handleIntakeTaskApproval looks for the successor.  A legacy run has no replay input for it.
Intakes(p) ==
    LET t == proc[p].task IN
    /\ At(p, "intake")
    /\ Goto(p, IF t \notin Intake \/ Skips(p, "intake") THEN "section"
               ELSE IF Missing(t) THEN "intake_new" ELSE "intake_done")
    /\ UNCHANGED <<status, queue, steps, taskHook, announced, pr, created, disturbed>>

\* It creates the one that it did not find, in a statement of its own.
Create(p) ==
    LET t == proc[p].task IN
    /\ At(p, "intake_new")
    /\ status' = [status EXCEPT ![NextOf[t]] = IF @ = "absent" THEN "active" ELSE @]
    /\ created' = [created EXCEPT ![t] = IF @ < 2 THEN @ + 1 ELSE 2]
    /\ Goto(p, "intake_done")
    /\ UNCHANGED <<queue, steps, taskHook, announced, pr, disturbed>>

IntakeDone(p) ==
    /\ At(p, "intake_done")
    /\ Applied(p, "intake")
    /\ Goto(p, "section")
    /\ UNCHANGED <<status, queue, taskHook, announced, pr, created, disturbed>>

\* maybeTriggerSectionCompletion
SectionStep(p) ==
    /\ At(p, "section")
    /\ \/ /\ proc[p].task \notin Section \/ Skips(p, "section_completion")
          /\ Goto(p, "project")
          /\ UNCHANGED announced
       \/ /\ proc[p].task \in Section /\ ~ Skips(p, "section_completion")
          /\ IF SectionDone /\ ~ Skips(p, "section_completed_hook")
             THEN announced' = announced \union {"section"} /\ Goto(p, "section_fired")
             ELSE Goto(p, "pr") /\ UNCHANGED announced
    /\ UNCHANGED <<status, queue, steps, taskHook, pr, created, disturbed>>

SectionFired(p) ==
    /\ At(p, "section_fired")
    /\ Applied(p, "section_completed_hook")
    /\ Goto(p, "pr")
    /\ UNCHANGED <<status, queue, taskHook, announced, pr, created, disturbed>>

\* checkSectionCompletionAndPR: what is on record, what is found, a new one, or
\* nothing, if gh fails; GitHub has one pull request for a branch.
PullRequest(p) ==
    /\ At(p, "pr")
    /\ \/ /\ pr = "recorded" \/ ~ SectionDone
          /\ Goto(p, "pr_done")
          /\ UNCHANGED <<pr, disturbed>>
       \/ /\ pr = "open" /\ SectionDone
          /\ Goto(p, "pr_done") /\ pr' = "recorded"
          /\ UNCHANGED disturbed
       \/ /\ pr = "none" /\ SectionDone
          /\ Goto(p, "pr_created") /\ pr' = "open"
          /\ UNCHANGED disturbed
       \/ /\ pr = "none" /\ SectionDone
          /\ Disturb("gh")
          /\ Goto(p, "pr_done")
          /\ UNCHANGED pr
    /\ UNCHANGED <<status, queue, steps, taskHook, announced, created>>

RecordPr(p) ==
    /\ At(p, "pr_created")
    /\ pr' = "recorded"
    /\ Goto(p, "pr_done")
    /\ UNCHANGED <<status, queue, steps, taskHook, announced, created, disturbed>>

SectionOver(p) ==
    /\ At(p, "pr_done")
    /\ Applied(p, "section_completion")
    /\ Goto(p, "project")
    /\ UNCHANGED <<status, queue, taskHook, announced, pr, created, disturbed>>

\* maybeTriggerProjectCompletion
ProjectStep(p) ==
    /\ At(p, "project")
    /\ announced' = IF ProjectDone /\ ~ Skips(p, "project_completion")
                    THEN announced \union {"project"} ELSE announced
    /\ Goto(p, "project_done")
    /\ UNCHANGED <<status, queue, steps, taskHook, pr, created, disturbed>>

\* One applied row per task.
Finish(p) ==
    /\ At(p, "project_done")
    /\ Applied(p, "project_completion")
    /\ queue' = [queue EXCEPT ![proc[p].task] = IF @ = "pending" THEN "applied" ELSE @]
    /\ proc' = [proc EXCEPT ![p].pc = IF p \in Wakeups THEN "next" ELSE "idle",
                            ![p].task = None, ![p].seen = {}]
    /\ UNCHANGED <<status, taskHook, announced, pr, created, disturbed>>

-------------------------------------------------------------------------------
(* reconcilePendingApprovalEffects: lists that are read once               *)

\* Faulty variant: a task that has some steps on record counts as done.
UntouchedTasks ==
    {t \in Task : status[t] = "completed" /\ queue[t] \in {"pending", "again"} /\ steps[t] = {}}

PendingTasks == {t \in Task : status[t] = "completed" /\ queue[t] \in {"pending", "again"}}

LegacyTasks == {t \in Task : status[t] = "completed" /\ queue[t] = "none"}

Wake(p) ==
    /\ At(p, "idle") /\ p \in Wakeups
    /\ proc' = [proc EXCEPT ![p].pc = "next", ![p].todo = PendingTasks, ![p].legacy = FALSE]
    /\ UNCHANGED <<status, queue, steps, taskHook, announced, pr, created, disturbed>>

Replay(p) ==
    /\ At(p, "next") /\ ~ proc[p].legacy
    /\ \E t \in proc[p].todo : Begin(p, t, queue)
    /\ UNCHANGED <<status, steps, taskHook, announced, pr, created>>

ListLegacy(p) ==
    /\ At(p, "next") /\ ~ proc[p].legacy /\ proc[p].todo = {}
    /\ proc' = [proc EXCEPT ![p].legacy = TRUE, ![p].todo = LegacyTasks]
    /\ UNCHANGED <<status, queue, steps, taskHook, announced, pr, created, disturbed>>

\* An intake task is only noted; any other is given a pending row of its own.
Backfill(p) ==
    /\ At(p, "next") /\ proc[p].legacy
    /\ \E t \in proc[p].todo :
          IF t \in Intake
          THEN /\ queue' = [queue EXCEPT ![t] = IF @ = "none" THEN "anomaly" ELSE @]
               /\ proc' = [proc EXCEPT ![p].todo = @ \ {t}]
               /\ UNCHANGED disturbed
          ELSE Begin(p, t, [queue EXCEPT ![t] = IF @ = "applied" THEN "again"
                                                ELSE IF @ = "again" THEN "again" ELSE "pending"])
    /\ UNCHANGED <<status, steps, taskHook, announced, pr, created>>

Sleep(p) ==
    /\ At(p, "next") /\ proc[p].legacy /\ proc[p].todo = {}
    /\ proc' = [proc EXCEPT ![p] = Idle]
    /\ UNCHANGED <<status, queue, steps, taskHook, announced, pr, created, disturbed>>

Crash(p) ==
    /\ ~ At(p, "idle")
    /\ Disturb("crash")
    /\ proc' = [proc EXCEPT ![p] = Idle]
    /\ UNCHANGED <<status, queue, steps, taskHook, announced, pr, created>>

-------------------------------------------------------------------------------

Effects(p) ==
    \/ Fire(p) \/ Fired(p)
    \/ Intakes(p) \/ Create(p) \/ IntakeDone(p)
    \/ SectionStep(p) \/ SectionFired(p) \/ PullRequest(p) \/ RecordPr(p) \/ SectionOver(p)
    \/ ProjectStep(p) \/ Finish(p)

Wakeup(p) == Wake(p) \/ Replay(p) \/ ListLegacy(p) \/ Backfill(p) \/ Sleep(p)

Next ==
    \/ \E p \in Process : Effects(p) \/ Wakeup(p) \/ Crash(p) \/ \E t \in Task : Complete(p, t)
    \/ \E t \in Task : CompleteOnly(t) \/ Fail(t) \/ Reset(t)

Spec == Init /\ [][Next]_vars

\* A run goes on (hooks have timeouts), and the wakeup comes again and again.
Fairness == \A p \in Process : WF_vars(Effects(p)) /\ WF_vars(Wakeup(p))

FairSpec == Spec /\ Fairness

-------------------------------------------------------------------------------
(* Properties                                                              *)

\* Nothing of the given tasks is left to be done.
Settled(S) ==
    /\ \A t \in S : status[t] = "completed" => queue[t] = "applied"
    /\ \A p \in Process : proc[p].task \notin S

(***************************************************************************)
(* When the last of a section's tasks is completed, in whatever order      *)
(* their effects run and whichever process dies, its hook has been fired   *)
(* and its pull request is on record by the time nothing is left to do     *)
(* (maybeTriggerSectionCompletion).                                        *)
(***************************************************************************)
SectionIsAnnounced ==
    SectionDone /\ Settled(Section) => "section" \in announced /\ pr = "recorded"

(***************************************************************************)
(* That holds unless a task was reset, the last one failed, or gh failed.  *)
(***************************************************************************)
SectionAnnounced == disturbed \intersect {"reset", "fail", "gh"} = {} => SectionIsAnnounced

(***************************************************************************)
(* The same of the project, whose tasks the intake adds to meanwhile.      *)
(***************************************************************************)
ProjectAnnounced ==
    disturbed \intersect {"reset", "fail"} = {} =>
        (ProjectDone /\ Settled(Existing) => "project" \in announced)

(***************************************************************************)
(* Whatever is replayed, the successor of an intake task is there when its *)
(* effects are through, and it is made twice only after two processes were *)
(* at these effects at once: nothing holds the second back between looking *)
(* for the successor and creating it (handleIntakeTaskApproval).           *)
(***************************************************************************)
FollowUpOnce ==
    \A t \in Intake :
        /\ queue[t] = "applied" => created[t] > 0
        /\ created[t] > 1 => "overlap" \in disturbed

(***************************************************************************)
(* It is never made twice.                                                 *)
(***************************************************************************)
NoDuplicate == \A t \in Intake : created[t] <= 1

(***************************************************************************)
(* A retry never fires the hook of a task again that is on record as       *)
(* applied.                                                                *)
(***************************************************************************)
NoRefire ==
    [][\A t \in Task :
         taskHook'[t] > taskHook[t] => "task_completed_hook" \notin steps[t]]_vars

(***************************************************************************)
(* That holds over crashes, replays and resets, unless the wakeup has at   *)
(* some time replayed what another process was still at.                   *)
(***************************************************************************)
RetriesSpare ==
    [][\A t \in Task :
         /\ taskHook'[t] > taskHook[t]
         /\ "task_completed_hook" \in steps[t]
         => "overlap" \in disturbed]_vars

(***************************************************************************)
(* The effects of a completed task are applied in the end, or an anomaly   *)
(* is on record for it (reconcilePendingApprovalEffects).                  *)
(***************************************************************************)
EffectsSettle ==
    \A t \in Task : status[t] = "completed" ~>
        \/ {"task_completed_hook", "project_completion"} \subseteq steps[t]
        \/ queue[t] = "anomaly" \/ status[t] # "completed"

-------------------------------------------------------------------------------
(* Why it is so: the inductive invariant                                   *)

InRun(p) == proc[p].task # None

Tracked == {"pending", "applied", "again"}

BeforeIntake == {"task", "task_fired", "intake", "intake_new"}

\* A run is at one task, which is tracked, and remembers steps that are on record;
\* so are its own steps, once it is past them.
RunInv ==
    /\ \A p \in Process : InRun(p) <=> proc[p].pc \notin {"idle", "next"}
    /\ \A p \in Process : InRun(p) =>
          /\ queue[proc[p].task] \in Tracked
          /\ proc[p].seen \subseteq steps[proc[p].task]
          /\ proc[p].pc \notin {"task", "task_fired"} =>
                "task_completed_hook" \in steps[proc[p].task]
    /\ \A p \in Process : ~ proc[p].legacy => \A t \in proc[p].todo : queue[t] \in Tracked

\* The successor of an intake task is there once its approval is dealt with, and has
\* been created by that.
SuccessorInv ==
    /\ \A t \in Intake : created[t] = 0 <=> status[NextOf[t]] = "absent"
    /\ \A t \in Intake :
          "intake" \in steps[t] \/ queue[t] \in {"applied", "again"} => status[NextOf[t]] # "absent"
    /\ \A p \in Process :
          proc[p].pc \notin {"idle", "next"} \union BeforeIntake /\ proc[p].task \in Intake =>
              status[NextOf[proc[p].task]] # "absent"

\* Without an overlap what was not found is still not there when it is created.
OnceInv ==
    /\ \A p \in Process : proc[p].pc = "intake_new" => proc[p].task \in Intake
    /\ "overlap" \notin disturbed =>
          /\ \A t \in Intake : created[t] <= 1
          /\ \A p \in Process : proc[p].pc = "intake_new" => status[NextOf[proc[p].task]] = "absent"

\* Without an overlap a task is in one run, which knows all that is on record for it.
OverlapInv ==
    "overlap" \notin disturbed =>
      /\ \A p, q \in Process : InRun(p) /\ proc[p].task = proc[q].task => p = q
      /\ \A p \in Process : proc[p].pc = "task" => proc[p].seen = steps[proc[p].task]

EffectsInv == TypeOK /\ RunInv /\ SuccessorInv /\ OnceInv /\ OverlapInv
===============================================================================
