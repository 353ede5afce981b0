# Steroids: a verification of its core in TLA+

Steroids runs coding agents unattended. Tasks are rows of a project's SQLite
database; *runners* (processes, possibly several on a project) take a task,
have a coder agent work on it in a cloned workspace, have reviewer agents judge
what was submitted, and land what was approved on a branch of a remote
repository. A *wakeup* process, started by cron every minute, restarts runners,
repairs what dead ones left behind, pulls bug reports and sends a monitor's
responders. The parts communicate through tables: nothing is passed from
process to process, and almost every process is at the same time a reader of
rows that another one is about to change.

This directory holds TLA+ models of that core, the TLC configurations that check
them, and proofs checked by TLAPS. `PROJECT.json` maps every definition to the
lines it translates, lists the runs, and records for every hazard the
properties that cover it.

## 1. Inventory

| Component | State | Operations | Modelled in |
|---|---|---|---|
| Task locks (`src/locking/`) | `task_locks`: owner, expiry | acquire, claim, extend, release, forced release, two clean-ups | `TaskLocks`, `Lease` |
| Task life cycle (`runners/orchestrator-loop.ts`, `orchestrator/task-selector.ts`, `commands/loop-phases-*.ts`) | row of `tasks`, `audit`, `task_invocations`, the loop of each runner | select, coder phase, decision, submission, reviewer phase, approval, rejection, caps | `TaskLifecycle`, `AuditTrail` |
| Merge queue (`orchestrator/merge-queue*.ts`, `workspace/merge-lock.ts`) | merge columns of `tasks`, `workspace_merge_locks`, branches of the remote | fetch, rebase, push with retries, completion, rebase by an agent and its review | `MergeQueue`, `ReviewedTrunk` |
| Recovery (`runners/abandoned-runners.ts`, `wakeup-sanitise*.ts`) | all of the above | clean up a dead runner, settle orphaned invocations, delete orphaned locks, revive disputed, failed and skipped tasks (S3, S4, S4b) | partly, in `TaskLocks`, `TaskLifecycle`, `MergeQueue`, `StuckTasks` |
| Workspace pool (`workspace/pool.ts`, `git-lifecycle.ts`, `reconcile.ts`, `git/submission-*.ts`) | slots, their clones and branches, branches at the remote | claim, prepare, push, partial and full release, reset of stale slots, pruning | `WorkspacePool` |
| Approval effects (`orchestrator/automated-approval-effects.ts`, `intake/reviewer-approval.ts`, `git/section-pr.ts`) | markers in `audit`, hooks fired, pull request | hook, next intake task, section, project; replay and backfill | `ApprovalEffects` |
| Parallel sessions (`commands/runners-parallel.ts`, `runners/wakeup-project*.ts`, `wakeup-reconcile.ts`) | sessions, workstreams, leases, `runners` | launch, heartbeat, fence, restart, give up, reset | `ParallelSessions` |
| Runner registry, daemon, wakeup schedule | `runners`, heartbeats | register, restart, removal, order of a cycle | partly, in `ParallelSessions`, `StuckTasks` |
| Intake (`intake/`, `database/intake-queries.ts`, `API/src/routes/intake*.ts`) | issues, cursor, `intake_reports`, approval issues | sweep, ask for approval, act on it, webhooks, edits | `Intake` |
| Stuck-task health (`health/`, `runners/abandoned-runners.ts`) | ages of rows, `incidents` | clean up abandoned runners; detect and recover, with a limit per hour | `StuckTasks` |
| Monitor (`monitor/loop.ts`, `commands/monitor-respond.ts`, `API/src/routes/monitor.ts`) | `monitor_runs`, attempts, alerts, responders | scan, compare, cool down, break the circuit, send, follow up | `Monitor` |
| Edits by others (`commands/tasks*.ts`, `commands/project-reset.ts`, `disputes/`, `monitor/investigator-actions.ts`, `API/src/routes/tasks.ts`) | row of `tasks`, `audit`, `disputes`, `task_invocations`, locks | update, approve, reject, skip, restart, dispute and resolve, the responder's actions, resets | partly, in `TaskEdits`; forced release in `TaskLocks` |
| Everything else: batch mode, section locks, credit pauses, hooks, providers, prompts and parsing, configuration, migrations, the rest of the commands and of the API, web UI | | | no (section 9) |

What is hard here: a runner goes on with the copy of a task that it read before
it had the lock; updates name a task by its id alone, whatever its status has
become; every cap is counted from an audit trail that several paths write; the
repair reads a list and works it off row by row while runners go on; a push may
reach the remote and be reported as failed; a runner may die between any two
statements, and one that lives may lose its lock, since nothing prolongs it;
slots, leases and locks have timeouts of their own, none of which knows how long
the work it protects takes.

What makes the parts correct:

* *Task locks*: two runners are never told that they hold one task; what is
  written never takes a live lock from another; a dead owner's lock is freed.
* *Merge queue*: only what a reviewer approved lands, once; the target branch
  loses nothing; completed means landed; the queue drains.
* *Life cycle*: what is approved is what was reviewed, by all of its reviewers;
  all restarts together are bounded; the task comes to rest. None of this is undone by
  one edit, dispute or reset that comes while a runner works.
* *Recovery*: it repairs only what is dead, counts a failure for a failure, and
  makes none of the above false.
* *Pool*: a runner works in a clone that is its own, on the branch of its own
  task; what waits for review or merge can be had from any slot; no slot is lost.
* *Approval effects*: every effect happens, at most once where it must, as long as no two
  processes are at the effects of one task.
* *Parallel sessions*: the workstreams that run are of one session; nobody is
  given up while at work and on record; every section with work is served.
* *Intake*: every report arrives, gets one triage task, and a person's decision is
  acted upon.
* *Monitor*: one responder at a time; what stays broken is taken up or reported.

## 2. The modules

```
Lease  <--implemented by--  TaskLocks  --  TaskLocksProofs
ReviewedTrunk  <--implemented by--  MergeQueue
AuditTrail  <--EXTENDS--  TaskLifecycle  --(its merge is one outcome of)-->  MergeQueue  --  MergeQueueProofs
TaskEdits    --EXTENDS-->  TaskLifecycle      (what others do to the task meanwhile)  --  TaskLifecycleProofs
WorkspacePool       (the slots TaskLifecycle's phases and MergeQueue's merges work in)  --  WorkspacePoolProofs
ApprovalEffects     (what follows TaskLifecycle's "completed")   --  ApprovalEffectsProofs
Intake              (makes the first task of the chain ApprovalEffects goes on with)  --  IntakeProofs
ParallelSessions    (starts and stops the runners of all of these)  --  ParallelSessionsProofs
StuckTasks          (acts on runners, tasks and locks that do not move)  --  WatchProofs
Monitor             (watches all projects)                       --  WatchProofs
MC<module>: the instances for TLC; TaskLocks, WorkspacePool, Intake, StuckTasks and Monitor are run as they are
```

The modules are separate because the product of their states is out of reach.
Where one relies on another, it has the other's promise as one step: the lock of
`TaskLifecycle` and `StuckTasks` is taken in one step (`TaskLocks` shows that the
statements together are no worse), the merge of `TaskLifecycle`, `WorkspacePool` and
`StuckTasks` is one outcome of what `MergeQueue` has in detail, and
`MergeHasOneOutcome` (section 5) proves that it has just one.

In most modules a history variable `disturbed` (in `StuckTasks` `faults`) records
what went wrong so far: a crash, a late heartbeat, a failed call, an act of a
person. A run gives the kinds that may happen and how many. A property says
under which of them it holds, and that is the finding: which single mishap the
code survives and which it does not.

**`Lease`** is the abstract specification of a lock table: at most one owner, for a
limited time, ended only by its owner or by time.

**`TaskLocks`** has the table of `locking/queries.ts` and `locking/task-lock.ts`
with one action per SQL statement: the insert, the read after a conflict, and
the three branches that follow are separate steps of the same `acquireTaskLock`,
and anything may happen between them. A release is a read and a delete. Time is
relative: a row stores what it has left, and `Lapsed` is past the expiry, because
the code compares strictly in one place and not in another (`SanitiseExpired`).
`grant` is a history variable: the time the caller was last told it has.
`unbacked` marks grants for which no row was written (section 4, *ExclusiveGrant*).

**`MergeQueue`** has `handleMergeAttempt`, `handleRebaseCoder` and
`handleRebaseReview` from the selection of a `merge_pending` task to its release.
A runner's `pc` is its place between two calls of git, of a provider or of the
database. A commit is the content of one version of a task on a prefix of the
target branch, which is the sequence of what landed; a rebase without conflict
changes the prefix, an edit makes a new version, and git drops what is upstream
already. Approve, Reject, Resubmit and LatePush stand for the rest of the loop,
including a coder that should have stopped and pushes late; `DevPush` for other
users of the remote.

**`ReviewedTrunk`** is the abstract specification of a guarded branch: it grows by one
commit a step; what lands of a task is an approved version that is not there yet; a
task is done only when some version of it is there. In `MergeQueue` the trunk is
`target`, and a task is done while its status is completed. Done is not for ever, as
the code's writes do not look at the status they replace (*CompletedIsFinal*, section 4).

**`AuditTrail`** has the scans of the audit trail (consecutive retries, unclear
reviews, broken contracts, commit recoveries, revivals since progress, the
submissions of the current attempt) as the code does them, walking back from the
last row, and `Note`, which keeps their results up to date row by row. So
`TaskLifecycle` carries a summary in place of a trail that never ends. That both
agree is `SummaryIsExact`: TLC evaluates it, as an assumption of
`MCTaskLifecycle`, for every trail of up to four of fifteen kinds of rows. Four
rows exceed every window the scans look at with the caps the run uses.

**`TaskLifecycle`** has one task, all of its statuses, the coder and reviewer
phases, and the wakeup. One action is one stretch of the loop between awaits:
`Select` (the read), `Denied`/`SkipAtCap`/`Admit` (the lock, then the cap),
`StartCoder`, `CoderSucceeds`, `Decide` and so on. What an agent says is a free
choice; what the program does with it is not. The audit rows, with status,
actor and marker, are those that the code writes, including the status it copies
from a stale task. `sanitiser` is the list of orphans and the status read with it,
worked off one row at a time. `endorsed` and `recovered` are history: what all
reviewers of a round (or their arbiter) approved, and whether the latest approval
was read from the log of a dead runner.

**`TaskEdits`** adds to `TaskLifecycle` what others do to the task while a runner works
on a copy of it: the commands of a person, disputes, the restart of the web interface
and three actions of the monitor's responder, each a write of the row by its id with
the audit row that its path writes (or does not: `ResponderUpdates`,
`ResponderResetsProject`). A reset has two steps, because the runners are killed
before the transaction and another one may begin in between (`ResetBegins`,
`ResetEnds`): that one loses its rows of `task_invocations`, and what it then writes to
them has no effect (`erased`). `StartRunner` is the wakeup's replacement of runners
that were killed. An edit counts as one of the rare events of `TaskLifecycle`. A task
that a responder sets to merge_pending was not approved by the loop, and counts as
`recovered`.

**`WorkspacePool`** has the rows of `workspace_pool_slots`, the clone behind each and
the task branches at the remote. A branch is the set of commits on top of the
base; rebased commits count as the same. A runner claims a slot (`claimSlot`:
its own, an idle one, a new row), prepares the clone for a coder or a reviewer,
codes, pushes for durability, submits and releases in part; a merge claims a
slot of its own beside the one the loop has claimed (`inner`). The wakeup resets
slots whose heartbeat has stopped and prunes idle ones, from a list (`doomed`).
A new row takes the id of the last one deleted, since the ids are not
AUTOINCREMENT: so id and index are one number.

**`ApprovalEffects`** has `completeTaskWithApprovalEffects` and the run of the effects
step by step: fire the hook, put it on record; look for the next intake task
(`Intakes`), create it if there was none (`Create`), put it on record; the section's hook and pull request; the project's. Between any
two the process may die, and the wakeup may replay (`Wake`, `Replay`, the backfill
of tasks without a pending row). `seen` is the set of applied steps as read once at
the beginning of a run. Counters of what was fired and created, up to 2, are
history.

**`ParallelSessions`** has sessions, workstreams with lease and attempts, the runner
processes with their rows, launches by a person and by the wakeup, and the wakeup's
cycle for one project in its order: close sessions nobody works for, restart lost
workstreams (which counts attempts and blocks the session at the cap), remove
abandoned runners, launch. A runner holds a lease by its id, checks it between
tasks and serves the sections it sees. The recovery has a step for each of its
statements, since nothing makes them one transaction: it reads the candidates
(`Candidates`), looks for the runner of each (`Probe`), writes what it concluded by
the workstream's id alone (`Decide`), counts what is left of the session (`Count`) and
ends it (`EndSession`). `wakeup.overtaken` is history: a runner said that it is there
between the look for it and the write. A launch inserts the session, makes its
clones one by one and inserts the workstreams (`Insert`, `Place`), and the wakeup may
come at any time in between; that it ends the session then is the disturbance "early".

**`Intake`** has the sweep of changed issues page by page, its watermark, the rows,
the approval issue of each report with its labels, the decisions of people on
them and the other writers of a row: approved intake tasks, pull requests,
webhooks, edits over the API. A version of an issue is the time of its last update,
and time is the number of updates, so that "changed since" is a comparison.

**`StuckTasks`** has `detectStuckTasks` and `recoverStuckTasks` beside runners that take
tasks through coder, review and merge by priority (merge_pending, then review,
in_progress, pending; a pending task that was coded goes to review, "again").
Providers hang any number of times. The wakeup begins with the clean-up of abandoned
runners, whose heartbeat is as late as that of a zombie or whose process is gone
(`Sweep`, `Clean`): it resets a task in progress, sends SIGTERM and deletes the row
without a wait, also when the project's database cannot be written. A process that is
stuck has the signal to handle from then on (`told`): it may go on and even end its
phase, and exits when it comes back to its event loop (`Obey`, `Begin`). What is a zombie or
dead to the pass that follows has become so since the clean-up, or the pass is that of
the command `health`. A pass reads all signals (zombie, dead,
orphaned task, hanging invocation, dead owner), then works them off one by one, with
an await around each kill (`Kill`, `Recover`), up to the limit of incidents. Around
it: S4's revival of skipped tasks, the start of runners by the wakeup, the
removal of lapsed locks. `owed` counts attempts begun less failures counted.

**`Monitor`** has the cycle `monitorCheck` → scan → skip, record or dispatch, of the
wakeup, of a person and of a responder at its end. `present` is what the latest
scan found: projects change as they please between scans. What the code asks
before it sends a responder is one operator each: the active one with its timeout
(`TimesOut`), the comparison with the last run (`Duplicate`), the cooldown, the
circuit breaker (`Capped`). Minutes pass only when no scan is under way (`Quiet`):
scans take seconds, cooldown and interval minutes.

## 3. What is checked

| Run | Instance | States | Properties |
|---|---|---|---|
| `task_locks` | 3 runners, 1 task, timeout 2, crashes | 42,595 | TypeOK, ExclusiveLease; implements `Lease`; CrashedLockIsFreed |
| `merge_queue` | 2 runners, 1 task, 3 versions, 1 foreign push with conflict, 1 crash, 1 failure, 2 rebase attempts | 1,362,700 | TypeOK, OnlyReviewedLands, LandsOnce; implements `ReviewedTrunk` |
| `merge_queue_two` | 2 runners, 2 tasks without conflicts, 1 crash | 197,056 | QueueDrains |
| `task_lifecycle` | 2 runners, 1 reviewer, 2 versions, 3 invocations, 1 rare event; where that is an edit, 1 runner | 1,888,336 | EditsTypeOK, LoopApprovesWhatWasReviewed, InvocationsBounded, SettlesForGood |
| `workspace_pool` | 2 runners, 2 tasks, 3 slots (1 idle one kept), 1 commit, 4 claims, one of crash, late heartbeat, process in a gap, long merge | 957,221 | TypeOK, SlotExclusive, RowMatchesClone, SubmissionDurable, SlotsComeBack |
| `approval_effects` | a runner and a wakeup, a section of 2 tasks, 1 of them of the intake, its successor; one of crash, reset, failed task, failed `gh` | 1,517,890 | TypeOK, SectionAnnounced, FollowUpOnce, RetriesSpare, EffectsSettle |
| `parallel_sessions` | 3 sections (one waits for another), 2 runners, 1 launcher, 4 sessions, 2 clones, cap 2; one of launch by hand, crash, late heartbeat, failed launch, resets, session ended while its clones are made | 674,558 | TypeOK, OneSessionRuns, NotGivenUpUnderWork, WorkIsServed |
| `intake` | 2 issues, pages of 1, 1 wakeup, 4 updates; one of failed pull, failed gate, lost answer, crash, webhook, edit | 227,316 | TypeOK, NothingSkipped, OneTriageTask, ReportsArrive, DecisionActed |
| `stuck_tasks` | 2 tasks, 2 runners, 2 failures, 1 revival, 1 incident an hour, 1 fault, any number of hangs | 915,870 | HealthTypeOK, FailuresAreAttempts, WorkersAreKnown, TasksEnd |
| `monitor` | 2 anomalies, 1 wakeup, 2 responders, 1 attempt; one of crash, failed start, timeout outlived, run by hand, investigation, cleared list | 398,497 | TypeOK, OneResponder, TakenUp, RunsSettle |
| `task_lifecycle_reviewers` | two reviewers | violated | ApprovedByEveryReviewer |
| `workspace_pool_resume` | 1 runner, 1 task, 1 slot, nothing fails | violated | CoderContinues |

Each property of a passing run has a mutant in `PROJECT.json`: a variant of one
definition, as a plausible slip would make it, under which TLC finds the property
violated. The variants stand in the modules as "faulty variant".

What they show:

* *ExclusiveLease*, *ImplementsLease*: under all interleavings of the statements of
  acquire, extend, release and both clean-ups the table is a lease; what a runner
  read before it writes does no harm, because every write repeats its condition.
* *OnlyReviewedLands*, *LandsOnce*: stale copies of a task, late pushes, a push
  reported as failed, a merge lock taken over, rebases and recovered rebases
  never land a version that no reviewer approved, nor one twice.
* *ImplementsTrunk*: two runners inside the merge lock at once lose nothing, as a push
  that is not a fast-forward is refused, and what is completed has landed.
  *QueueDrains*: the queue drains after a crash, too.
* *LoopApprovesWhatWasReviewed*: a reviewer phase approves the commit that its
  preflight chose, although a second runner may submit another one meanwhile.
* *InvocationsBounded*: the cap of invocations is exceeded only by what runners
  that passed the check together start.
* *SettlesForGood*: retries, rejections, disputes, revivals and recoveries come
  to an end. This rests on the cap of invocations. The caps of single loops do
  not suffice: the retry count is reset by rows of other paths (a failed gate
  and the wait for an explicit commit never reach their cap; the coordinator's
  override resets it), the periodic revival of disputed tasks has no cap, and
  that of failed tasks counts anew after any progress. One edit, dispute or reset
  does not change that: a reset clears the invocations, but of one attempt only.
* These three hold, too, when a person, a dispute or a responder rewrites the task
  in the middle of a phase: a reviewer's approval then takes a task that was skipped,
  completed or reset to merge_pending, but with the commit that was reviewed.
* *SlotExclusive*, *RowMatchesClone*: neither a crash nor the slots that merges leak
  bring two runners into one clone; a heartbeat ten minutes late, a merge longer
  than that, or another process between two adjacent statements does.
  *SubmissionDurable*: what is submitted can be fetched by any slot, also when its
  slot went to another task, as long as nothing is disturbed: a crash, a late heartbeat,
  a process in a gap and a long merge each break it. *SlotsComeBack*: leaks are reclaimed.
* *SectionAnnounced*: whichever of the last two tasks of a section is completed
  first, and whichever process dies, the section's hook and pull request come;
  a reset, a task that failed last, or a failed `gh` makes them fail to.
  *FollowUpOnce*: replays lose no successor, and make a second one only if the wakeup
  replays what another process is still at. *RetriesSpare*: a hook on record is fired
  again with the same exception only. *EffectsSettle*: all is applied in the end, or the anomaly recorded.
* *OneSessionRuns*, *NotGivenUpUnderWork*, *WorkIsServed*: launches by hand and by
  the wakeup, resets, dead and late runners leave one session at work on a
  project, unless a session is ended while its clones are made, which any tick of the
  wakeup in this time does. No workstream is given up under a runner that is there for
  it, unless it says so only between what the recovery reads and what it writes.
  Sections with work are served as long as no session is blocked.
* *NothingSkipped*, *ReportsArrive*: whatever page, process or call fails, the
  watermark passes no change that has no row, as long as no issue is touched between two
  pages of one sweep: then the listing shifts, and the sweep may pass over another. *OneTriageTask*, *DecisionActed*:
  one triage task and the person's decision carried out, with one wakeup.
* *TasksEnd*, *FailuresAreAttempts*, *WorkersAreKnown*: hangs are found, counted once
  and lead to an end. That is, no attempt is counted twice; some are not counted at
  all, as when the clean-up resets the task of a dead runner. A process that works
  without a row, by which checks would find it, has a SIGTERM to handle: recovery, which
  waits for the end of what it kills, leaves no other behind. The clean-up does
  not wait (*NobodyWorksUnseen*, section 4).
* *OneResponder*, *TakenUp*, *RunsSettle*: the checks of the monitor, each of which
  holds responders back, never let two act nor let an anomaly fall through for good,
  though processes die or fail to start.

### Bounds

Two runners are enough for every race between a stale copy and a second worker;
locks have three because a claim races a claim while the old owner is still
there. Two tasks matter only where they share something: the merge lock and the
target branch, the pool, the section, the limit of incidents. Three versions of a
task are an approved one, its rebase and a resubmission; with conflicts
`merge_queue` uses 2 of the 3 rebase attempts, so that both "one more" and "used up"
happen. In `task_lifecycle` all caps are 2 (the code has 3, and 15 rejections),
revivals 1, `MaxRecovery` is 3 as in the code. The last matters: with as many
runners as recoveries allowed, runners whose locks are deleted under them can take
a task round review, in_progress and disputed without any invocation, for ever. TLC
finds this loop for two runners and a cap of 2. The code's 3 thus guards two runners
and no more. `MaxFaults = 1` counts crashes, locks that lapse under a live
runner, tasks pulled back because of another one and failures of git that are
retried without a cap, and edits; deletions of orphaned locks are not counted. An edit
comes when `Amid = 1` runner is there: with two the instance is too large for a run. A minor dispute may be open at the start
there; while one is open, the edit is its resolution (`AnEdit`). `Cap = 3`
lets a rejected task be coded again before the cap strikes. One reviewer
suffices for these properties except for what only several do; that is the
subject of `task_lifecycle_reviewers`.

Three slots are the two of two runners and the one a merge takes besides; four
claims let each task be taken up again after a release. The section of two tasks
has both "last" and "not yet". Four sessions and a cap of 2 let a session be given
up, and succeeded by two more. Pages of one issue with two issues make every sweep
have a page to be interrupted at. In `stuck_tasks` two coincidences at once (a lock
that lapses early and a crash, say) break *TasksEnd* and *FailuresAreAttempts*: two
runners on one task are two hanging rows and count twice. The bound of one is
therefore part of the claim, here as for each `MaxDisturbed = 1`. A process that is
stuck for ever keeps its place in `Runner`, where the wakeup would start another one:
with one fault there is a second runner. The safety
properties of `approval_effects` and of `monitor` were also checked with two
disturbances (9.9 and 5.6 million states), and are proved for any number.

### Fairness

`TaskLocks`: the clock advances, and cron runs the sanitiser again and again.
`MergeQueue` and `TaskLifecycle`: a live runner goes on, because every provider
and git call has a timeout and the loop has no other wait; the sanitiser and the
clean-up of dead runners run again and again; a stale merge lock, or the task
lock of a runner that is gone, expires. `WorkspacePool`, `ApprovalEffects`,
`ParallelSessions`, `Intake`: processes go on for the same reason, and the wakeup
comes again. `StuckTasks`: a runner that is well goes on, an age threshold
passes for what does not move, the periodic pass runs again and again; a provider
that is silent owes nothing. `Monitor`: weak fairness for the wakeup, responders and
a decision of a person that was begun; strong fairness for time (interval, cooldown,
the age of dead responders), because time passes although scans begin again and
again. Nothing is assumed of crashes, of locks that are deleted, of revivals of
failed tasks, of foreign pushes, of people or of any single answer of an agent. A
runner that died is replaced by wakeup: that another runner goes on is the fairness
of the second one.

## 4. Where the code disagrees with its documents

Two runs have one property each, which a document states and which TLC violates by
what the code does.

* `task_lifecycle_reviewers` (*ApprovedByEveryReviewer*): a runner is stopped while two
  reviewers work; the sanitiser applies the approval of one, whatever the other
  said.
* `workspace_pool_resume` (*CoderContinues*): one runner, one task and one slot. A
  rejected review leaves the tree dirty and the task branch checked out. When the slot is
  prepared for the next coder, the checkout of the base fails and is let pass, and the
  `reset --hard` to the base that follows (`git-lifecycle.ts:217`) moves the branch that is
  checked out, the task's. The coder goes on without a commit of what was submitted, and
  its push, whose lease the fetch has just brought up to date, drops it at the remote.
  The comment at `:282` promises to "preserve existing commits".

Each of the following has a configuration as well, which TLC violates, without
being among the runs.

| Configuration | Property | What happens | What it contradicts |
|---|---|---|---|
| `TaskLocksGrant` | *ExclusiveGrant* | `task-lock.ts:104` ignores that the UPDATE of a renewal matched no row and answers "acquired" | `task-lock.ts:3`, `docs/cli/LOCKING.md:114` |
| `TaskLifecycleOneRunner` | *OneRunnerPerTask* | a runner waits for the system's pressure to go down between taking the lock and reporting the task as its own; the sanitiser (`wakeup-sanitise-runtime.ts:124`) takes the lock for orphaned, and a second runner starts | `task-lock.ts:3` |
| `MergeQueueFinal` | *CompletedIsFinal* | a stale copy takes a completed task back to review or to blocked (`merge-queue.ts:121`) | `docs/cli/STORAGE.md:212` |
| `MergeQueueBlocked` | *LandedIsNotBlocked* | the remote task branch is deleted (`merge-queue.ts:379`) before the task is completed; after a crash in between the next fetch finds no ref, and a task that has landed is blocked | `docs/done/merge-queue.md:590` ("Idempotency check in `fetchAndPrepare` ... skip to `markCompleted`") |
| `MergeQueueRebaseStart` | *RebaseStartsFromApproved* | after a rejected rebase the next one starts from the rejected commit (`merge-queue-rebase.ts:174`) | comment at `:163`, `docs/done/merge-queue.md:597` |
| `MergeQueueFence` | *FenceSparesTheRest* | the diff fence (`merge-queue-rebase.ts:95`) compares with the commit before the rebase, so that changes of the target count as the coder's | `docs/done/merge-queue.md:313`, `:316` |
| `WorkspacePoolMerge` | *MergeSlotReady* | a merge works in the slot it claims itself, which nobody prepared for its task | `docs/done/merge-queue-implementation.md:261`, comment at `orchestrator-loop.ts:383` |
| `WorkspacePoolExclusive` | *OneRunnerPerSlot* | a merge beats no heart for its slot; after ten minutes the slot is another runner's | `docs/landing-verification-design.md:241` |
| `ApprovalEffectsRefire` | *NoRefire* | a wakeup that replays while a runner is at the effects of a task fires its hook again | `docs/done/2026-03-26-reviewer-approval-outcome-unification.md:316` |
| `ApprovalEffectsTwice` | *NoDuplicate* | a wakeup and a runner are at the effects of one intake task: both look for its successor and find none (`reviewer-approval.ts:209`), and both create one (`:225`) | the same, `:311` ("must not create duplicate successor tasks") |
| `ApprovalEffectsReset` | *SectionIsAnnounced* | a task that is reset and completed again counts its steps as applied, so that the section it finishes is not announced | the same, `:83` |
| `ParallelSessionsRestart` | *RestartedRunnersSee* | a restarted runner of a workstream gets no section filter, finds nothing to do, and is restarted up to the cap | `docs/parallelism.md` §4.7, `wakeup-runner.ts` |
| `ParallelSessionsLaunch` | *OneSessionAtOnce* | the wakeup comes while a launch makes its clones (`runners-parallel.ts:199` to `:239`), sees a session without workstreams and closes it (`parallel-session-state.ts:54`); the launch goes on, and the next wakeup launches a second session | `docs/parallelism.md:56` |
| `ParallelSessionsOvertaken` | *LivingAreNotRestarted* | the recovery writes what it concluded by the workstream's id, and starts a runner beside one that has shown up since (`wakeup-reconcile.ts:52` to `:81`) | comment at `:64` |
| `IntakeUnnamed` | *OneTriageTask* | a webhook or PATCH without `linkedTaskId` clears the link; the next sweep asks and triages anew (`API/src/routes/intake.ts:274`, `intake-webhooks.ts:246`) | `docs/plans/bug-intake/config.md` ("preserve an existing `linked_task_id` unless a new explicit `linkedTaskId` is passed") |
| `IntakeTwo` | *OneTriageTask* | two wakeups at once, whose lock is in memory (`wakeup.ts:39`), each make the task | `tests/github-gate.test.ts:131` ("exactly once") |
| `IntakeHeard` | *ApprovalIsHeard* | an issue that changed is written back without what was known of its approval issue (`intake-queries.ts:151`), and a new one is opened; the approval on the old is not heard | `github-gate-api.ts:136` |
| `StuckTasksReviewers` | *HangsAreKilledOnce* | one review by several reviewers that hangs is one signal per row, and as many failures | `docs/stuck-task-detection.md:155`, `:311` |
| `StuckTasksUnseen` | *NobodyWorksUnseen* | the clean-up of abandoned runners sends SIGTERM, never SIGKILL, and deletes the row at once (`abandoned-runners.ts:132`): a process that is stuck works on, by no check to be found, while its task is given to another | `docs/cli/RUNNERS.md:154` ("Runners with stale heartbeats (>5 min) are killed"), `docs/stuck-task-detection.md:195` ("SIGTERM, then SIGKILL after 10s") |
| `StuckTasksSpared` | *HealthyWorkIsSpared* | a signal read before an await resets a task that a healthy runner has taken since | `stuck-task-recovery.ts` ("conservative set of actions") |
| `MonitorEscalated` | *PersistentIsEscalated* | after a responder that reports "complete" and fixed nothing, identical scans are suppressed for ever: no retry, no breaker, no alert | `monitor/response-mode.ts` ("Attempt safe corrective actions, then keep monitoring"), `docs/plans/monitor-issues.md:159` |

Seen while modelling, and stated here without a run of their own:

* With one reviewer, too, a recovered approval applies to the latest submission,
  which need not be the reviewed one (therefore the proviso of
  *LoopApprovesWhatWasReviewed*). The decision row of a review hides the submission
  of no change that it judged, so that its approval is queued for merge
  (`orchestrator/submission-context.ts:110`). The gate after the coder counts commits
  since the base, so an attempt that adds nothing to an earlier one counts as work.
* `merge-lock.ts:10` goes stale after 90 s, less than the 120 s of a synchronous git
  call. `wakeup-sanitise-recovery.ts:263` raises `rebase_attempts` without its cap, and
  a recovered rejection is not compared with the cap of 15.
  `wakeup-sanitise-runtime.ts:69` parses a number as a date, so a merge lock is never
  seen as active.
* The failure count that a successful coder should clear is left to a `finally` block
  that does not do it (`loop-phases-coder.ts:187`). S4's guard (`wakeup-sanitise.ts:180`,
  "stop after 3 attempts") is reset by every start, so that a task that hangs at
  every start is revived until the cap of invocations. An invocation older than the
  task row is never seen as hanging.
* A task that has waited ten minutes for its merge is taken for an orphan, reset and
  counted as a failure (`stuck-task-detector.ts:202`; `docs/stuck-task-detection.md:155`).
* A task is coded in slot 1, goes on in slot 2 and then gets slot 1 again: `prepareForTask`
  takes the local branch there as it is (`git-lifecycle.ts:283`), and the forced push
  replaces what was submitted from slot 2.
* A rejected report that changes is asked about again, as in *ApprovalIsHeard*
  (`github-gate-api.ts:137`). The gate writes all labels back from what it read (`:237`),
  and so takes off one that a person has put on meanwhile ("race" in `Intake`; `:136`).
* `reconcile.ts:23` says that a slot is stale after 5 minutes; the TTL at `:11` is 10.
* A workstream that is done stays "running" (`docs/parallelism.md` §4.7) and is
  restarted until its fifth attempt blocks the session. A reset of the project touches
  neither blocked sessions nor the runners of sessions. Two single runners started at
  once both see none active and both register (`daemon.ts:182`).
* The whole scan, projects at the cap of the circuit breaker included, is handed to the
  responder (`docs/plans/monitor-issues.md:79`).
* A person who runs the monitor while a responder is at work sends a second one (only
  the wakeup asks). An investigation of an old run counts as timed out at once, since
  its age is that of the run; a responder that is given up is not ended. With the
  monitor disabled while a run is dispatched, the API refuses every start.

## 5. What is proved

TLAPS checks these for any set of runners, tasks, slots, processes, issues or anomalies,
any timeout, cap and page size, and any number of attempts, versions, crashes and
disturbances, from the named assumptions of the modules alone (a positive timeout; the
"no" values are none of the values they stand for; the kinds of disturbances are the
known ones; runners that share a cap are finitely many). Where a theorem has a
hypothesis of its own, it is named below. Each strengthened invariant was checked by
TLC on the instances of section 3, or on smaller ones, before it was proved.

`TaskLocksProofs`:

* `LeaseInvariant`, `LeaseIsExclusive`: *ExclusiveLease* is not inductive: it says
  nothing of the table. `LeaseInv` adds that what a runner was told is what its row
  says (*GrantMatchesRow*), and that a runner between the read and the delete of a
  release no longer counts on the lock.
* `ForeignLocksSafe`: no statement of a runner changes another's live lock, even with
  forced releases, from types alone: every write repeats its condition.
* `TaskLocksImplementLease`: each statement is a step of `Lease` or a stutter.

`MergeQueueProofs`: `MergeInvariant`, and from it `OnlyReviewed`, `LandedOnce`,
`CompletedLanded`, `PendingApproved`, `TargetGrows`. A landing is decided many steps
before, from copies. `MergeInv` therefore says for each place of a runner what the
copy it relies on is worth (*Hands*: before a push the commit in hand is reviewed and
is not among the commits of the target that were seen). It may be stale but not
unsound, and since the target only grows and approvals stay, each of these facts
survives the steps of others. The proof has a lemma for each kind of frame (what
survives when a runner moves, a row changes, the target grows) and one case per
action.

* `MergeQueueImplementsTrunk` (*ImplementsTrunk*) is the sum of it: every step of the
  queue is a step of `ReviewedTrunk` or a stutter. Five actions approve, land or push.
  Every other one writes one row at most, and one row is always a step of the trunk
  (completion or reopening), because in the state after it, by `MergeInv`, what is
  completed has landed (`RowStep`).
* `MergeHasOneOutcome` (*OneOutcome*; TLC agrees on the instance of `merge_queue`): one
  iteration writes the status of its own task at most once, as one of completed, review,
  blocked_error and disputed, and then only cleans up. So `MergeEnds` of
  `TaskLifecycle`, which chooses one of these or leaves the status alone, has every
  outcome that a merge can have.

`TaskLifecycleProofs`, for the life cycle together with all edits of `TaskEdits`:

* `ApprovesReviewed` (*LoopApprovesWhatWasReviewed*): nearly every step queues nothing for
  the merge and takes back no endorsement. The rest follows from the copy a runner
  decides on: what it approves is what its own reviewers saw. No fact about other
  runners is needed, which is why edits, disputes and resets do no harm.
* `InvocationsStayBounded` (*InvocationsBounded*): the count alone is not inductive, since
  comparison and use are steps apart. `CapInv` charges every runner that has passed the
  comparison, and has not used it yet, with one round of reviewers. A runner is
  admitted below the cap only, and a round begun pays for itself.

`WorkspacePoolProofs`:

* `OneRunnerInASlot` (*SlotExclusive*) and `RowsTellTheTruth` (*RowMatchesClone*): `HoldInv`
  says that as long as no time limit is overrun and nobody gets into a gap, each slot a
  runner works in names it in its row. No step of a runner reaches a slot other than
  its own or one in which nobody works (`Moved`); so the facts of the others stay. Rows
  that leak, and crashes, are no exception.
* `SubmissionsAreDurable` (*SubmissionDurable*): what is submitted is what the push for
  durability has just brought to the remote; until it is merged nobody else pushes
  that branch, since a task has one runner (`Alone`), whose act agrees with the task's
  status (`Doing`). It holds, as the property says, as long as nothing is disturbed.

`ParallelSessionsProofs`:

* `OneAtATime` (*OneActiveSession*, the part of *OneSessionRuns* that is about the rows of
  sessions) holds under any disturbance: a session becomes active only in a statement
  that looks for another active one.
* `OneSessionAtWork` (*OneSessionRuns*), without a hypothesis of its own: as long as no
  session is ended while its clones are made, which the property names, a workstream that
  runs, and a launch that makes its clones, belong to a session that is not over
  (`SessionInv`). The recovery ends a session some statements after it has counted its
  workstreams. `EndsEmpty` says that what was counted as none is none still, because
  workstreams come only from a launch, and none is at this session.
* `WorkGoesOn` (*NotGivenUpUnderWork*): what a workstream is given up for was read a
  statement earlier. `WakeInv` says that the workstream the recovery is about to write is
  without a runner on record, unless one has shown up since (`overtaken`), which is the
  exception that the property names beside a reset by a person. The owner of a
  lease serves what it owns (`OwnsOne`, part of the types).

`IntakeProofs`:

* `OneTask` (*OneTriageTask*): a report that has a task is linked to it, and is on no list
  of a wakeup (`LinkInv`). Hypotheses: one wakeup, and no writer that clears the link
  ("unnamed"). TLC refutes it without either (`IntakeTwo`, `IntakeUnnamed`).
* `WatermarkIsSafe` (*NothingSkipped*): `SweepInv` says that a change which is in no row,
  nor in the hands of the wakeup, is newer than the watermark and is listed on the
  cursor's page or a later one. It needs what the paging is worth: ranks in the order of
  updates number the changed issues from 0 without a gap (`Ranks`), and a page that has
  a successor is full (`FullPage`), so that going to the next page passes nothing.
  Hypotheses: one wakeup, and nothing that makes the listing shift under the sweep
  (an issue updated between two of its pages, approval issues among what is listed). TLC refutes it without each of the three.

`ApprovalEffectsProofs`:

* `FinishedIsAnnounced` (*SectionAnnounced*): `SectionInv` says that as long as a finished
  section is not announced, some completed task has its look at the section still before
  it: the one that was completed last, since an earlier one may have looked in vain.
  The same for the pull request. Whoever dies, the pending row brings the look back.
* `OneSuccessor` (*FollowUpOnce*): `SuccessorInv` says that a successor is there once its
  approval is dealt with by any run that is past the intake step, and that it was
  created by that. `OnceInv` says that what a run has not found is still not there when it
  creates it, as long as no two runs are at one task; the look and the creation are
  two statements without a transaction. Assumed: no two intake tasks have the same
  successor.
* `RetriesSpareHooks` (*RetriesSpare*): a run knows the steps on record as they were when
  it began. `OverlapInv`: as long as no two runs are at one task, this is what
  is on record now. That a task that is being replayed may be taken up by a second
  process is the one way to fire a hook again.
* Both rest on `RunInv`: a run is at a task whose pending row exists, remembers steps that
  are on record, and, once past its hook, has that on record.

`WatchProofs`, for the two watches of the wakeup. Of `StuckTasks`:

* `NobodyWorksUnknown` (*WorkersAreKnown*) and `TypesOfHealth` (*HealthTypeOK*), under any
  number of mishaps. `KnownInv` says that a process that lives has its row or a SIGTERM to
  handle, and adds what a signal is worth while the pass works it off: a runner that was
  found dead, or killed for its signal, is dead until the pass is over, because the
  wakeup starts others only afterwards. So recovery deletes the rows of the dead only;
  the clean-up, which does not wait, has told those it deletes.
* `AttemptsAreFailures` (*FailuresAreAttempts*) needs two invariants. `OrderInv` is what holds
  until something goes wrong (`OrderInvariant`): one runner at a task, with its lock; each
  running invocation its own, or signalled. `PaidInv` counts from then on. What may still
  be counted against a task is bounded in three ways: by the signals of the pass, the
  runners the next pass finds and a healthy one no signal knows (`PassDue`); by the rows a
  pass would find, and a worker without one (`RowsDue`); by the status, and rows that a
  finished phase left behind (`StatusDue`). A pass turns one of the three into signals,
  and a recovery voids the others; so each of them, rather than their sum, is covered by
  what is owed and the mishaps but the first. The first costs nothing as `OrderInv` still
  held when it struck: a runner that is lost was alone, and is owed already.
  Hypotheses: one reviewer (the run `StuckTasksReviewers` shows why), one mishap at most
  (two break it), that a process that was told to end does not end its phase
  first (*Complies*: the proof does not follow those processes; TLC checks the property
  without this), and that the bound of the history variable `owed` is not reached, which
  every finite behaviour meets for some bound. `MishapsPay` is the same for any number
  of mishaps: each but the first costs one failure at most.
* `SparedInOrder`: without mishaps *HealthyWorkIsSpared* holds, which `StuckTasksSpared` refutes
  with one.

Of `Monitor`: `OneResponderOnly` (*OneResponder*), for a single wakeup. `CalmInv`: a
responder at work has its run on record and not overdue; from its end until its
follow-up scan is over the cooldown lasts; a wakeup whose scan is under way outside a
cooldown has found nobody on record. So the check before the scan and the decision
after it cannot be split by another start, although nothing locks them.

`TypeCorrect` in all eight (`TypesOfHealth` for `StuckTasks`); where the type invariant has a part that is no type (the
steps of what is applied, the latest run), that part is proved with it.

Only model-checked: liveness (*CrashedLockIsFreed*, *QueueDrains*, *SettlesForGood*,
*SlotsComeBack*, *EffectsSettle*, *WorkIsServed*, *ReportsArrive*, *DecisionActed*,
*TasksEnd*, *TakenUp*, *RunsSettle*), which the prover does not reach, and `SummaryIsExact`,
a property of recursive scans over sequences.

## 6. Plan

What remains, in this order:

1. Composition: that `TaskLifecycle`'s lock (taken in one step) is what `TaskLocks`
   gives, by refinement of one product of the two.
2. Safety halves of the liveness properties: that a step which ends a recovery leaves
   nothing behind (no slot that no reset finds, no run that no timeout ends).

## 7. How to run

In this directory, `tlc -config X.cfg MCModule` for each row of "runs" in
`PROJECT.json` and for each configuration of section 4 (its module is the one whose
name it begins with; `TaskLocks`, `WorkspacePool`, `Intake`, `StuckTasks` and `Monitor` have no MC module
and are run themselves), and `tlapm` on each of the eight modules of proofs. The longest run takes about three minutes
with two workers. Deadlock is not checked where everything may come to rest: a settled
task, an empty queue, a runner without work.

## 8. Reading the code beside the models

Names of functions are kept where an action is one (`fetchAndPrepare`,
`markCompleted`, `cleanupTaskBranch`, the scans of `AuditTrail`). Where a function is
several steps, the actions are named after what happens (`AcquireInsert`,
`ReadLock`, `ClaimExpired` for `acquireTaskLock`; `StartReview`, `ReviewersAnswer`,
`Judge` for `runReviewerPhase`; `Fire`, `Fired`, `Intakes` for
`runPendingApprovalEffects`; `Check`, `Skip`, `Record`, `Dispatch` for `monitorCheck`).
Statements that commute with everything (a log, a refresh of a heartbeat) are not
steps. An age that the code compares with a threshold is a flag that an action of its
own sets (`MergeLockGoesStale`, `Overdue`, `LockLapses`), when the code lets that much time pass.

## 9. Not modelled, and why

* Projects without a remote, and runs without a pool: there the approval completes
  the task. Batch mode works on several tasks without locks and is off by default.
* Of what a person, the API or the responder does to a task: deletion of tasks and
  sections, promotion, feedback, and what resets do to branches and slots; the API's
  reset of tasks in progress while no runner is active (`project-reset-runtime.ts:46`);
  that a responder kills a runner, which is a crash. Of disputes: positions, stale alerts and the file. Seen
  while modelling: resolving a dispute updates the task whatever it has become, and S3
  leaves the dispute open, so that a resolution that comes later completes or reopens a
  task that has gone on. Elsewhere acts of people are taken in where they meet the
  component: resets in effects and sessions, launches and monitor runs by hand.
* Text: what an agent says is a free choice, so that the parsing of decisions is not
  examined. Ages (30 minutes for revivals, 2 and 30 minutes for orphans) are "may
  happen"; a live runner's task is spared as the code does it, by its current task.
* `WorkspacePool`: slots that a task reset or the monitor releases
  (`task-runtime-cleanup.ts:145`, `tasks-reset.ts:169`, `monitor/investigator-helpers.ts:15`),
  the search for a submission in other slots (`submission-resolution.ts:89`), re-cloning.
* `ApprovalEffects`: several sections, a report that is missing (the list of replays is
  then given up), the pull request of a whole issue, which `Intake` has.
* `ParallelSessions`: recycling of idle runners and changes of the mode
  (`wakeup-project-parallel.ts:53`), standalone runners, `workspaces clean`, backoff of
  providers, two wakeups at once. Runner ids are never reused (`Disown`).
* `Intake`: deletion of rows and tasks, new rows by POST, the Sentry connector (the same
  sweep, without a gate), hooks, two updates in the same second. Only the newest approval
  issue of a report is decided on.
* `StuckTasks`: a healer that dies between two databases, workstreams of abandoned runners
  (in `ParallelSessions`), the sanitiser (in
  `TaskLifecycle`), merges have no invocation, the cap of invocations, pauses for
  pressure or credits, `health` run beside the wakeup. The window of incidents ages
  one by one.
* `Monitor`: the rules by which a scan finds and rates, modes other than
  fix_and_monitor, suppressions, pruning of rows, what the agent does to tasks and
  runners, the status over the API, an investigation while a responder that was given
  up still works.
* Hooks, providers, configuration, migrations, the rest of the API and user interfaces are I/O around
  the core; section locks have no user in the loop, and the file lock of
  `runners/lock.ts` has no caller.
