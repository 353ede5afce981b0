---------------------------- MODULE MergeQueue ----------------------------
(***************************************************************************)
(* How an approved task lands on the target branch of the remote           *)
(* repository: the merge queue (src/orchestrator/merge-queue.ts), its      *)
(* rebase phases (merge-queue-rebase.ts), the merge lock                   *)
(* (src/workspace/merge-lock.ts) and the recovery of runners that died in  *)
(* the middle (src/runners/wakeup-sanitise-runtime.ts, -recovery.ts).      *)
(*                                                                         *)
(* A commit is the content of one version of one task, on top of the first *)
(* "base" commits of the target branch.  The target branch is the sequence *)
(* of what landed on it.  A rebase that meets no conflict keeps the        *)
(* version and changes the base; a conflict resolved by the rebase coder,  *)
(* like any other edit, makes a new version.  Git drops a commit whose     *)
(* patch is already upstream.                                              *)
(*                                                                         *)
(* A remote is configured, and the slot a runner claims is on the branch   *)
(* of its own task.  The statuses pending and in_progress are one here:    *)
(* a coder is to work.                                                     *)
(***************************************************************************)
EXTENDS Integers, Sequences, FiniteSets

CONSTANTS
  Runner,      \* runner processes
  Task,        \* tasks that were submitted for review
  Dev,         \* whoever pushes to the target branch from outside
  Conflicts,   \* pairs <<a, t>>: t conflicts with what a landed before it
  NoTask, NoCommit, NoRunner,
  Gone,        \* the owner of what a runner that died left behind
  MaxAttempts, \* MAX_REBASE_ATTEMPTS
  MaxVersion,  \* bound: versions of a task's content
  MaxDev,      \* bound: pushes from outside
  MaxCrash,    \* bound: crashes
  MaxFault     \* bound: failures of a git command or of a provider

ASSUME MaxAttemptsAssumption == MaxAttempts \in Nat
ASSUME NoCommitAssumption == NoCommit \notin [task: Task, ver: Nat, base: Nat]
ASSUME DevAssumption == Dev \notin Task

VARIABLES
  tasks,       \* the merge columns of the tasks table
  submission,  \* the commit of the latest transition to review
  taskLock,    \* owner of the row in task_locks
  mergeLock,   \* the project's row in workspace_merge_locks
  orphan,      \* a running task_invocations row whose runner is dead
  branch,      \* remote task branches
  target,      \* remote target branch
  runner,      \* each runner's place in the loop, and what it has read
  version,     \* the last version made of each task's content
  reviewed,    \* history: <<t, v>> some reviewer approved
  faults,      \* failures so far
  crashes      \* crashes so far

db == <<tasks, submission, reviewed>>
locks == <<taskLock, mergeLock, orphan>>
remote == <<branch, target, version>>
vars == <<tasks, submission, taskLock, mergeLock, orphan, branch, target,
          runner, version, reviewed, faults, crashes>>

Status == {"in_progress", "review", "merge_pending", "completed", "disputed",
           "blocked_error"}
Phase == {"none", "queued", "rebasing", "rebase_review"}
PC == {"idle", "selected", "locked", "merge_lock", "fetch", "integrate", "push",
       "cleanup", "complete", "already", "late_cleanup", "release",
       "rebase", "rebase_llm", "rebase_push", "rebase_record",
       "rebase_review", "review_llm", "unlock"}

Commit == [task: Task, ver: Nat, base: Nat]
Landed == [task: Task \cup {Dev}, ver: Nat, base: Nat]
Row == [status: Status, phase: Phase, approved: Commit \cup {NoCommit},
        attempts: Nat]
RunnerState == [pc: PC, task: Task \cup {NoTask},
                phase: Phase, approved: Commit \cup {NoCommit},
                tip: Commit \cup {NoCommit}, seen: Nat,
                work: Commit \cup {NoCommit}]

TypeOK ==
  /\ tasks \in [Task -> Row]
  /\ submission \in [Task -> Commit]
  /\ taskLock \in [Task -> Runner \cup {Gone, NoRunner}]
  /\ mergeLock \in [owner: Runner \cup {Gone, NoRunner}, stale: BOOLEAN]
  /\ orphan \in [Task -> {"none", "rebase_coder", "rebase_reviewer"}]
  /\ branch \in [Task -> Commit \cup {NoCommit}]
  /\ target \in Seq(Landed)
  /\ runner \in [Runner -> RunnerState]
  /\ \A r \in Runner : runner[r].pc # "idle" => runner[r].task \in Task
  /\ version \in [Task -> Nat]
  /\ reviewed \in SUBSET (Task \X Nat)
  /\ faults \in Nat /\ crashes \in Nat

----------------------------------------------------------------------------
(* Commits *)

IsAncestor(c) == \E i \in 1..Len(target) : target[i] = c

\* The patch of c is among the first n commits of the target branch.
PatchLanded(c, n) ==
  \E i \in 1..n : target[i].task = c.task /\ target[i].ver = c.ver

\* Rebasing c onto the first n commits of the target meets a conflict.
RebaseConflicts(c, n) ==
  \E i \in (c.base + 1)..n : <<target[i].task, c.task>> \in Conflicts

NewVersion(t, base) == [task |-> t, ver |-> version[t] + 1, base |-> base]

CanEdit(t) == version[t] < MaxVersion

Edited(t) == version' = [version EXCEPT ![t] = @ + 1]

----------------------------------------------------------------------------

Idle == [pc |-> "idle", task |-> NoTask, phase |-> "none",
         approved |-> NoCommit, tip |-> NoCommit, seen |-> 0,
         work |-> NoCommit]

Init ==
  /\ tasks = [t \in Task |-> [status |-> "review", phase |-> "none",
                              approved |-> NoCommit, attempts |-> 0]]
  /\ submission = [t \in Task |-> [task |-> t, ver |-> 1, base |-> 0]]
  /\ branch = submission
  /\ version = [t \in Task |-> 1]
  /\ target = <<>>
  /\ taskLock = [t \in Task |-> NoRunner]
  /\ mergeLock = [owner |-> NoRunner, stale |-> FALSE]
  /\ orphan = [t \in Task |-> "none"]
  /\ runner = [r \in Runner |-> Idle]
  /\ reviewed = {}
  /\ faults = 0 /\ crashes = 0

Goto(r, label) == runner' = [runner EXCEPT ![r].pc = label]

At(r, label) == runner[r].pc = label

\* Both branches were fetched: the runner goes on with the head of its
\* task's branch and the target branch as they are now.
Fetched(r, label) ==
  runner' = [runner EXCEPT ![r] =
               [@ EXCEPT !.pc = label, !.tip = branch[runner[r].task],
                         !.seen = Len(target)]]

\* The runner has made a commit in its slot.
Made(r, label, c) ==
  runner' = [runner EXCEPT ![r] = [@ EXCEPT !.pc = label, !.work = c]]

\* A git command or a provider fails.
Fault == faults < MaxFault /\ faults' = faults + 1

----------------------------------------------------------------------------
(* The tasks table.  Every UPDATE names the task by its id alone: none of  *)
(* them looks at the status it replaces.                                   *)

SetStatus(t, s) == tasks' = [tasks EXCEPT ![t].status = s]

SetPhase(t, p) == tasks' = [tasks EXCEPT ![t].phase = p]

\* Faulty variant: handlePrepFailure clears the columns, not the status.
StillQueued(s) == [status |-> "merge_pending", phase |-> "queued",
                   approved |-> NoCommit, attempts |-> 0]

\* Back to review, or to disputed, with the merge columns cleared.
Cleared(s) ==
  [status |-> s, phase |-> "none", approved |-> NoCommit, attempts |-> 0]

ClearTo(t, s) == tasks' = [tasks EXCEPT ![t] = Cleared(s)]

\* One more attempt to rebase.
Attempted(row) == [row EXCEPT !.phase = "rebasing", !.attempts = @ + 1]

Rebasing(row) ==
  IF row.attempts + 1 > MaxAttempts
  THEN [row EXCEPT !.status = "disputed", !.phase = "none"]
  ELSE Attempted(row)

transitionToRebasing(t) == tasks' = [tasks EXCEPT ![t] = Rebasing(@)]

----------------------------------------------------------------------------
(* Review: the reviewer and coder phases, each under the task's lock *)

\* The reviewer approves the latest submission: applyApprovedOutcome records
\* the submitted commit, whatever the head of the task branch is by now.
Approve(t) ==
  /\ tasks[t].status = "review"
  /\ taskLock[t] = NoRunner
  /\ tasks' = [tasks EXCEPT ![t] =
                 [@ EXCEPT !.status = "merge_pending", !.phase = "queued",
                           !.approved = submission[t]]]
  /\ reviewed' = reviewed \cup {<<t, submission[t].ver>>}
  /\ UNCHANGED <<submission, locks, remote, runner, faults, crashes>>

Reject(t) ==
  /\ tasks[t].status = "review"
  /\ taskLock[t] = NoRunner
  /\ SetStatus(t, "in_progress")
  /\ UNCHANGED <<submission, reviewed, locks, remote, runner, faults, crashes>>

\* The coder works on the task branch if there is one, pushes, and submits.
Resubmit(t) ==
  /\ tasks[t].status = "in_progress"
  /\ taskLock[t] = NoRunner
  /\ CanEdit(t)
  /\ LET c == NewVersion(t, IF branch[t] = NoCommit THEN Len(target)
                            ELSE branch[t].base)
     IN /\ branch' = [branch EXCEPT ![t] = c]
        /\ submission' = [submission EXCEPT ![t] = c]
  /\ Edited(t)
  /\ SetStatus(t, "review")
  /\ UNCHANGED <<reviewed, locks, target, runner, faults, crashes>>

\* A coder that should have stopped (its lock lapsed, its runner was killed)
\* still pushes its branch.
LatePush(t) ==
  /\ CanEdit(t)
  /\ faults < MaxFault
  /\ branch' = [branch EXCEPT ![t] = NewVersion(t, submission[t].base)]
  /\ Edited(t)
  /\ faults' = faults + 1
  /\ UNCHANGED <<db, locks, target, runner, crashes>>

\* Somebody else pushes to the target branch.
DevPush ==
  /\ Cardinality({i \in 1..Len(target) : target[i].task = Dev}) < MaxDev
  /\ target' = Append(target, [task |-> Dev, ver |-> Len(target) + 1,
                               base |-> Len(target)])
  /\ UNCHANGED <<db, locks, branch, version, runner, faults, crashes>>

----------------------------------------------------------------------------
(* The loop of a runner: select, lock, dispatch, unlock *)

\* selectNextTaskWithLock reads the task before it asks for its lock, and
\* the copy it read is what the merge queue works with.
Select(r, t) ==
  /\ At(r, "idle")
  /\ tasks[t].status = "merge_pending"
  /\ taskLock[t] = NoRunner
  /\ runner' = [runner EXCEPT ![r] =
                  [@ EXCEPT !.pc = "selected", !.task = t,
                            !.phase = tasks[t].phase,
                            !.approved = tasks[t].approved]]
  /\ UNCHANGED <<db, locks, remote, faults, crashes>>

\* Faulty variant: the phase itself, for a handler's name.
PhaseAsEntry(phase) == phase

\* processMergeQueue
Entry(phase) ==
  CASE phase = "queued" -> "merge_lock"
    [] phase = "rebasing" -> "rebase"
    [] OTHER -> "rebase_review"

AcquireTaskLock(r) ==
  LET s == runner[r] IN
  /\ At(r, "selected")
  /\ IF taskLock[s.task] = NoRunner
     THEN /\ taskLock' = [taskLock EXCEPT ![s.task] = r]
          /\ Goto(r, "locked")
     ELSE Goto(r, "idle") /\ UNCHANGED taskLock
  /\ UNCHANGED <<db, mergeLock, orphan, remote, faults, crashes>>

\* The loop waits for the system's pressure to go down and for a workspace,
\* reports the task as the runner's current one, and calls the merge queue.
Dispatch(r) ==
  /\ At(r, "locked")
  /\ Goto(r, Entry(runner[r].phase))
  /\ UNCHANGED <<db, locks, remote, faults, crashes>>

\* What the runner read is forgotten with the iteration.
ReleaseTaskLock(r) ==
  LET t == runner[r].task IN
  /\ At(r, "unlock")
  /\ taskLock' = [taskLock EXCEPT ![t] = IF @ = r THEN NoRunner ELSE @]
  /\ runner' = [runner EXCEPT ![r] = Idle]
  /\ UNCHANGED <<db, mergeLock, orphan, remote, faults, crashes>>

----------------------------------------------------------------------------
(* handleMergeAttempt *)

\* Faulty variant: a stale lock is never reclaimed.
MergeLockAbsent == mergeLock.owner = NoRunner

MergeLockFree == mergeLock.owner = NoRunner \/ mergeLock.stale

StartMerge(r) ==
  LET s == runner[r] IN
  /\ At(r, "merge_lock")
  /\ IF s.approved = NoCommit
     THEN SetStatus(s.task, "blocked_error") /\ Goto(r, "unlock")
          /\ UNCHANGED mergeLock
     ELSE /\ UNCHANGED tasks
          /\ IF MergeLockFree
             THEN /\ mergeLock' = [owner |-> r, stale |-> FALSE]
                  /\ Goto(r, "fetch")
             ELSE Goto(r, "unlock") /\ UNCHANGED mergeLock
  /\ UNCHANGED <<submission, reviewed, taskLock, orphan, remote, faults,
                 crashes>>

\* Faulty variant: no comparison with the approved commit.
AnyHead(c, t) == TRUE

\* SHA verification: the head of the task branch is what was approved.
HeadApproved(c, t) == c = branch[t]

\* git fetch of both branches fails.
FetchFails(r) ==
  LET t == runner[r].task IN
  /\ At(r, "fetch")
  /\ \/ Fault /\ UNCHANGED tasks
     \/ Fault /\ SetStatus(t, "blocked_error")
     \/ /\ branch[t] = NoCommit      \* couldn't find remote ref
        /\ SetStatus(t, "blocked_error")
        /\ UNCHANGED faults
  /\ Goto(r, "release")
  /\ UNCHANGED <<submission, reviewed, locks, remote, crashes>>

\* fetchAndPrepare: already merged, modified since it was approved, or ready.
fetchAndPrepare(r) ==
  LET s == runner[r]
      t == s.task
  IN
  /\ At(r, "fetch")
  /\ branch[t] # NoCommit
  /\ IF IsAncestor(s.approved)
     THEN Goto(r, "already") /\ UNCHANGED tasks
     ELSE IF HeadApproved(s.approved, t)
     THEN Fetched(r, "integrate") /\ UNCHANGED tasks
     ELSE ClearTo(t, "review") /\ Goto(r, "release")
  /\ UNCHANGED <<submission, reviewed, locks, remote, faults, crashes>>

\* Faulty variant: git rebase --reapply-cherry-picks.
Reapplied(c, n) == [c EXCEPT !.base = n]

\* Rebase and fast-forward in the slot: what is left to push.
Integrated(c, n) ==
  IF PatchLanded(c, n) THEN NoCommit ELSE [c EXCEPT !.base = n]

attemptRebaseAndFastForward(r) ==
  LET s == runner[r] IN
  /\ At(r, "integrate")
  /\ IF RebaseConflicts(s.tip, s.seen) /\ ~PatchLanded(s.tip, s.seen)
     THEN transitionToRebasing(s.task) /\ Goto(r, "release")
     ELSE Made(r, "push", Integrated(s.tip, s.seen)) /\ UNCHANGED tasks
  /\ UNCHANGED <<submission, reviewed, locks, remote, faults, crashes>>

\* Another git failure passes for a conflict; a checkout that fails throws.
IntegrationFails(r) ==
  /\ At(r, "integrate")
  /\ Fault
  /\ transitionToRebasing(runner[r].task) \/ UNCHANGED tasks
  /\ Goto(r, "release")
  /\ UNCHANGED <<submission, reviewed, locks, remote, crashes>>

\* The remote takes a push when it is a fast-forward of what it has.
FastForward(n) == Len(target) = n

Land(s) == target' = IF s.work = NoCommit THEN SubSeq(target, 1, s.seen)
                     ELSE Append(SubSeq(target, 1, s.seen), s.work)

\* pushTargetBranch: the push, or one of its retries, goes through.
PushOk(r) ==
  LET s == runner[r] IN
  /\ At(r, "push")
  /\ FastForward(s.seen)
  /\ Land(s)
  /\ Goto(r, "cleanup")
  /\ UNCHANGED <<db, locks, branch, version, faults, crashes>>

\* Faulty variant: a rejected push goes on to complete the task.
AfterRaceLost == "cleanup"

\* Another push won the race: the task is retried in a later iteration.
AfterRaceLoss == "release"

PushRaceLoss(r) ==
  LET s == runner[r] IN
  /\ At(r, "push")
  /\ ~FastForward(s.seen)
  /\ Goto(r, AfterRaceLoss)
  /\ UNCHANGED <<db, locks, remote, faults, crashes>>

\* All attempts fail, for a transient reason or not; the last one may have
\* reached the remote all the same.
PushFails(r) ==
  LET s == runner[r] IN
  /\ At(r, "push")
  /\ Fault
  /\ \/ UNCHANGED target
     \/ FastForward(s.seen) /\ Land(s)
  /\ \/ UNCHANGED tasks
     \/ SetStatus(s.task, "blocked_error")
  /\ Goto(r, "release")
  /\ UNCHANGED <<submission, reviewed, locks, branch, version, crashes>>

\* cleanupTaskBranch: a failure to delete the branch is ignored.
cleanupTaskBranch(r) ==
  LET t == runner[r].task IN
  /\ \/ At(r, "cleanup") /\ Goto(r, "complete")
     \/ At(r, "late_cleanup") /\ Goto(r, "release")
  /\ \/ branch' = [branch EXCEPT ![t] = NoCommit] /\ UNCHANGED faults
     \/ Fault /\ UNCHANGED branch
  /\ UNCHANGED <<db, locks, target, version, crashes>>

markCompleted(r) ==
  /\ \/ At(r, "complete") /\ Goto(r, "release")
     \/ At(r, "already") /\ Goto(r, "late_cleanup")
  /\ ClearTo(runner[r].task, "completed")
  /\ UNCHANGED <<submission, reviewed, locks, remote, faults, crashes>>

\* The finally block: whoever's merge lock it is by now.
ReleaseMergeLock(r) ==
  /\ At(r, "release")
  /\ mergeLock' = [owner |-> NoRunner, stale |-> FALSE]
  /\ Goto(r, "unlock")
  /\ UNCHANGED <<db, taskLock, orphan, remote, faults, crashes>>

\* No heartbeat for STALE_LOCK_TTL_MS: the owner is dead, or it is in the
\* synchronous git commands of fetchAndPrepare and of the rebase, which may
\* take longer than that and block its timers.
MergeLockGoesStale ==
  LET o == mergeLock.owner IN
  /\ o # NoRunner /\ ~mergeLock.stale
  /\ \/ o = Gone
     \/ o \in Runner /\ runner[o].pc \in {"fetch", "integrate"}
  /\ mergeLock' = [mergeLock EXCEPT !.stale = TRUE]
  /\ UNCHANGED <<db, taskLock, orphan, remote, runner, faults, crashes>>

\* The heartbeat timer of the loop, during an asynchronous push.
MergeLockHeartbeat(r) ==
  /\ At(r, "push")
  /\ mergeLock.owner = r /\ mergeLock.stale
  /\ mergeLock' = [mergeLock EXCEPT !.stale = FALSE]
  /\ UNCHANGED <<db, taskLock, orphan, remote, runner, faults, crashes>>

----------------------------------------------------------------------------
(* handleRebasePhase: under the task's lock alone *)

\* The attempt ends for good: its provider failed or broke the fence.
Dispute(r) == ClearTo(runner[r].task, "disputed") /\ Goto(r, "unlock")

\* There is no provider to ask, or git does not name the commit.
Block(r) == SetStatus(runner[r].task, "blocked_error") /\ Goto(r, "unlock")

\* The fetch of either phase fails, for ever when the branch is gone; the
\* task is left as it is.
RebaseFetchFails(r) ==
  /\ \/ At(r, "rebase") /\ runner[r].approved # NoCommit
     \/ At(r, "rebase_review")
  /\ \/ Fault
     \/ branch[runner[r].task] = NoCommit /\ UNCHANGED faults
  /\ Goto(r, "unlock")
  /\ UNCHANGED <<db, locks, remote, crashes>>

\* handleRebaseCoder up to the prompt: the slot is reset to the fetched task
\* branch; a rebase that meets no conflict goes back to the queue, unpushed.
handleRebaseCoder(r) ==
  LET s == runner[r]
      t == s.task
      c == branch[t]
      n == Len(target)
  IN
  /\ At(r, "rebase")
  /\ s.approved = NoCommit \/ branch[t] # NoCommit
  /\ IF s.approved = NoCommit
     THEN Block(r)
     ELSE IF RebaseConflicts(c, n) /\ ~PatchLanded(c, n)
     THEN Fetched(r, "rebase_llm") /\ UNCHANGED tasks
     ELSE SetPhase(t, "queued") /\ Goto(r, "unlock")
  /\ UNCHANGED <<submission, reviewed, locks, remote, faults, crashes>>

\* validateDiffFence compares the tree with the one before the rebase: what
\* other commits brought into it counts as the coder's doing.
DiffFence(c, n) ==
  \A i \in (c.base + 1)..n : <<target[i].task, c.task>> \in Conflicts

\* The conflict files could not be listed, or the coder failed, or it
\* touched other files, or the fence took it that it did.
RebaseCoderFails(r) ==
  LET s == runner[r] IN
  /\ At(r, "rebase_llm")
  /\ \/ Fault /\ (Dispute(r) \/ Block(r))
     \/ ~DiffFence(s.tip, s.seen) /\ Dispute(r) /\ UNCHANGED faults
  /\ UNCHANGED <<submission, reviewed, locks, remote, crashes>>

RebaseCoderDone(r) ==
  LET s == runner[r]
      t == s.task
  IN
  /\ At(r, "rebase_llm")
  /\ CanEdit(t)
  /\ DiffFence(s.tip, s.seen)
  /\ Made(r, "rebase_push", NewVersion(t, s.seen))
  /\ Edited(t)
  /\ UNCHANGED <<db, locks, branch, target, faults, crashes>>

\* git push --force-with-lease
RebasePush(r) ==
  LET s == runner[r]
      t == s.task
  IN
  /\ At(r, "rebase_push")
  /\ \/ /\ branch[t] = s.tip
        /\ branch' = [branch EXCEPT ![t] = s.work]
        /\ Goto(r, "rebase_record")
        /\ UNCHANGED <<tasks, faults>>
     \/ /\ Fault \/ (branch[t] # s.tip /\ UNCHANGED faults)
        /\ Block(r)
        /\ UNCHANGED branch
  /\ UNCHANGED <<submission, reviewed, locks, target, version, crashes>>

RebaseRecord(r) ==
  /\ At(r, "rebase_record")
  /\ SetPhase(runner[r].task, "rebase_review")
  /\ Goto(r, "unlock")
  /\ UNCHANGED <<submission, reviewed, locks, remote, faults, crashes>>

handleRebaseReview(r) ==
  /\ At(r, "rebase_review")
  /\ branch[runner[r].task] # NoCommit
  /\ Fetched(r, "review_llm")
  /\ UNCHANGED <<db, locks, remote, faults, crashes>>

\* The commit fetched before the review is the one that is approved.
RebaseApprove(r) ==
  LET s == runner[r]
      t == s.task
  IN
  /\ At(r, "review_llm")
  /\ tasks' = [tasks EXCEPT ![t] =
                 [@ EXCEPT !.phase = "queued", !.approved = s.tip]]
  /\ reviewed' = reviewed \cup {<<t, s.tip.ver>>}
  /\ Goto(r, "unlock")
  /\ UNCHANGED <<submission, locks, remote, faults, crashes>>

RebaseReject(r) ==
  /\ At(r, "review_llm")
  /\ transitionToRebasing(runner[r].task)
  /\ Goto(r, "unlock")
  /\ UNCHANGED <<submission, reviewed, locks, remote, faults, crashes>>

RebaseReviewFails(r) ==
  /\ At(r, "review_llm")
  /\ Fault
  /\ Dispute(r) \/ Block(r)
  /\ UNCHANGED <<submission, reviewed, locks, remote, crashes>>

----------------------------------------------------------------------------
(* Runners that die, and what the sanitise of the wakeup process does *)

\* A new process takes the place of the one that died, with a new id.
Crash(r) ==
  LET s == runner[r] IN
  /\ ~At(r, "idle")
  /\ crashes < MaxCrash
  /\ crashes' = crashes + 1
  /\ taskLock' = [t \in Task |-> IF taskLock[t] = r THEN Gone ELSE taskLock[t]]
  /\ mergeLock' = [mergeLock EXCEPT !.owner = IF @ = r THEN Gone ELSE @]
  /\ orphan' = IF s.pc = "rebase_llm"
               THEN [orphan EXCEPT ![s.task] = "rebase_coder"]
               ELSE IF s.pc = "review_llm"
               THEN [orphan EXCEPT ![s.task] = "rebase_reviewer"]
               ELSE orphan
  /\ runner' = [runner EXCEPT ![r] = Idle]
  /\ UNCHANGED <<db, remote, faults>>

\* recoverOrphanedInvocation.  An approval found in the log of a dead rebase
\* reviewer re-queues the task; the approved commit stays what it was.  A
\* task that is back with its coder only loses its lock.
RecoverInvocation(t) ==
  LET status == tasks[t].status IN
  /\ orphan[t] # "none"
  /\ orphan' = [orphan EXCEPT ![t] = "none"]
  /\ taskLock' = [taskLock EXCEPT ![t] = IF status = "in_progress" THEN NoRunner
                                         ELSE @]
  /\ IF status # "merge_pending" THEN UNCHANGED tasks
     ELSE \/ SetPhase(t, "queued")
          \/ /\ orphan[t] = "rebase_reviewer"
             /\ tasks' = [tasks EXCEPT ![t] = Attempted(@)]
  /\ UNCHANGED <<submission, reviewed, mergeLock, remote, runner, faults,
                 crashes>>

\* A lock with no invocation under way, of a task no live runner reports as
\* its current one: the owner is dead, or has not come to report it yet.
RunnerUnknown(t) ==
  LET o == taskLock[t] IN
  \/ o = Gone
  \/ o \in Runner /\ At(o, "locked")

DeleteOrphanLock(t) ==
  /\ orphan[t] = "none"
  /\ RunnerUnknown(t)
  /\ taskLock' = [taskLock EXCEPT ![t] = NoRunner]
  /\ UNCHANGED <<db, mergeLock, orphan, remote, runner, faults, crashes>>

----------------------------------------------------------------------------

MergeStep(r) ==
  \/ StartMerge(r) \/ FetchFails(r) \/ fetchAndPrepare(r)
  \/ attemptRebaseAndFastForward(r) \/ IntegrationFails(r) \/ PushOk(r) \/ PushRaceLoss(r)
  \/ PushFails(r) \/ cleanupTaskBranch(r) \/ markCompleted(r)
  \/ ReleaseMergeLock(r)

RebaseStep(r) ==
  \/ RebaseFetchFails(r) \/ handleRebaseCoder(r) \/ RebaseCoderFails(r)
  \/ RebaseCoderDone(r) \/ RebasePush(r) \/ RebaseRecord(r)
  \/ handleRebaseReview(r) \/ RebaseApprove(r) \/ RebaseReject(r)
  \/ RebaseReviewFails(r)

Step(r) ==
  \/ \E t \in Task : Select(r, t)
  \/ AcquireTaskLock(r) \/ Dispatch(r) \/ ReleaseTaskLock(r)
  \/ MergeStep(r) \/ RebaseStep(r)

Sanitise(t) == RecoverInvocation(t) \/ DeleteOrphanLock(t)

Next ==
  \/ \E t \in Task : Approve(t) \/ Reject(t) \/ Resubmit(t) \/ LatePush(t)
  \/ DevPush
  \/ \E r \in Runner : Step(r) \/ MergeLockHeartbeat(r) \/ Crash(r)
  \/ \E t \in Task : Sanitise(t)
  \/ MergeLockGoesStale

Spec == Init /\ [][Next]_vars

\* Runners, reviewers, the wakeup process and the clock go on.
FairSpec ==
  /\ Spec
  /\ \A r \in Runner : WF_vars(Step(r))
  /\ \A t \in Task : WF_vars(Sanitise(t)) /\ WF_vars(Approve(t))
  /\ WF_vars(MergeLockGoesStale)

----------------------------------------------------------------------------
(* Properties *)

\* Whatever the races, crashes and late pushes, nothing lands on the target
\* branch that no reviewer approved in that very version.
OnlyReviewedLands ==
  \A i \in 1..Len(target) :
    target[i].task \in Task => <<target[i].task, target[i].ver>> \in reviewed

\* No version of a task lands twice, though a runner may die, or be told
\* that the push failed, after it landed.
LandsOnce ==
  \A i, j \in 1..Len(target) :
    /\ target[i].task \in Task
    /\ target[i].task = target[j].task
    /\ target[i].ver = target[j].ver
    => i = j

\* Even with two runners in the merge queue at once, no push takes away
\* what is on the target branch.
TargetOnlyGrows ==
  [][SubSeq(target', 1, Len(target)) = target]_vars

HasLanded(t) == \E i \in 1..Len(target) : target[i].task = t

\* A task is completed only after some version of it has landed.
CompletedHasLanded ==
  \A t \in Task : tasks[t].status = "completed" => HasLanded(t)

\* All that the target branch promises: it is a trunk of reviewed versions
\* that only grows, and what is completed is on it.
Trunk ==
  INSTANCE ReviewedTrunk WITH
    approved <- reviewed,
    trunk <- target,
    done <- {t \in Task : tasks[t].status = "completed"},
    Outsider <- Dev

\* Stale copies, late pushes, races, crashes and failures notwithstanding,
\* every step of the queue is one that the trunk allows, or none.
ImplementsTrunk == Trunk!Spec

\* The merge queue never takes a task without its approved commit.
MergePendingHasApproval ==
  \A t \in Task :
    tasks[t].status = "merge_pending" =>
      /\ tasks[t].approved # NoCommit
      /\ <<t, tasks[t].approved.ver>> \in reviewed

\* A commit of task t that some reviewer approved.
Sound(c, t) == c \in Commit /\ c.task = t /\ <<t, c.ver>> \in reviewed

\* What a runner has in its hands, at every place where the next step relies
\* on it: the copies it made earlier may be stale, but not unsound.
Hands(s) ==
  /\ s.approved # NoCommit => Sound(s.approved, s.task)
  /\ s.pc = "fetch" => s.approved # NoCommit
  /\ s.pc = "integrate" => Sound(s.tip, s.task) /\ s.seen <= Len(target)
  /\ s.pc = "push" =>
       /\ s.seen <= Len(target)
       /\ s.work = NoCommit => HasLanded(s.task)
       /\ s.work # NoCommit => Sound(s.work, s.task)
                              /\ ~PatchLanded(s.work, s.seen)
  /\ s.pc \in {"cleanup", "complete", "already"} => HasLanded(s.task)
  /\ s.pc = "review_llm" => s.tip \in Commit /\ s.tip.task = s.task
  /\ s.pc = "rebase_push" => s.work # NoCommit /\ s.work.task = s.task

RunnerInv == \A r \in Runner : Hands(runner[r])

\* The rows, the submissions and the branches belong to their tasks.
RowInv ==
  \A t \in Task :
    /\ tasks[t].approved # NoCommit => Sound(tasks[t].approved, t)
    /\ tasks[t].status = "merge_pending" => tasks[t].approved # NoCommit
    /\ tasks[t].status = "completed" => HasLanded(t)

BranchInv ==
  \A t \in Task :
    /\ submission[t].task = t
    /\ branch[t] # NoCommit => branch[t].task = t

\* The inductive invariant behind the properties above.
MergeInv ==
  TypeOK /\ RunnerInv /\ RowInv /\ BranchInv /\ OnlyReviewedLands /\ LandsOnce

\* The places of a runner that has settled what becomes of its task.
Over == {"release", "late_cleanup", "unlock", "idle"}

\* One iteration of the queue, however many steps it takes and whatever it
\* runs into, has one outcome: it writes the status of its own task at most
\* once, as one of four, and then only cleans up.  Where another model has
\* the merge as one step, this is what it relies on.
OneOutcome ==
  [][\A r \in Runner : Step(r) =>
       /\ \A t \in Task :
            tasks'[t].status # tasks[t].status =>
              /\ t = runner[r].task
              /\ tasks'[t].status
                   \in {"completed", "review", "blocked_error", "disputed"}
              /\ runner'[r].pc \in Over
       /\ runner[r].pc \in Over \ {"idle"} =>
            runner'[r].pc \in Over /\ UNCHANGED tasks]_vars

\* docs/done/merge-queue.md:195-198: a task whose push succeeded is found to
\* be merged and completed, whatever happened to the runner.
LandedIsNotBlocked ==
  \A t \in Task :
    tasks[t].status = "blocked_error" => ~HasLanded(t)

\* docs/cli/STORAGE.md:212: completed is a terminal state.
CompletedIsFinal ==
  [][\A t \in Task : tasks[t].status = "completed"
                       => tasks'[t].status = "completed"]_vars

\* merge-queue-rebase.ts:163: a rebase starts from the approved commit.
RebaseStartsFromApproved ==
  \A r \in Runner :
    runner[r].pc = "rebase_llm" => runner[r].tip = runner[r].approved

\* docs/done/merge-queue.md:313-316: the fence is against unrelated changes
\* of the coder; without a failure no rebase is given up because of it.
FenceSparesTheRest ==
  [][\A r \in Runner :
       /\ runner[r].pc = "rebase_llm"
       /\ tasks[runner[r].task].status # "disputed"
       /\ tasks'[runner[r].task].status = "disputed"
       => faults' # faults]_vars

\* Without conflicts, an approved task leaves the merge queue in the end.
QueueDrains ==
  \A t \in Task :
    tasks[t].status = "merge_pending"
      ~> tasks[t].status \in {"completed", "blocked_error"}

============================================================================
