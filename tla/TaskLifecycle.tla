---------------------------- MODULE TaskLifecycle ----------------------------
(***************************************************************************)
(* The life of one task under the runners' loop                            *)
(* (src/runners/orchestrator-loop.ts): selection, the coder phase and its  *)
(* decision (src/commands/loop-phases-coder*.ts), submission, the reviewer *)
(* phase (loop-phases-reviewer.ts), and what the periodic wakeup repairs   *)
(* behind runners that died (src/runners/abandoned-runners.ts,             *)
(* wakeup-sanitise*.ts).  MergeQueue has the merge in detail; here it is   *)
(* one outcome.  TaskLocks has the task lock in detail; here it is taken   *)
(* and released in one step.                                               *)
(*                                                                         *)
(* Runners work in pool mode.  A runner reads the task when it selects it, *)
(* and goes on with that copy.  Every UPDATE of the task names it by its   *)
(* id alone, whatever its status is by then, unless an action says so.     *)
(***************************************************************************)
EXTENDS AuditTrail

CONSTANTS
    Runner,
    Nobody,        \* no runner holds the lock
    Reviewers,     \* how many reviewers are configured
    Cap,           \* maxInvocationsPerTask
    MaxFailures,   \* MAX_PROVIDER_NONZERO_FAILURES
    MaxRejections, \* the 15 of rejectTask
    Thresholds,    \* rejections at which the coordinator is asked
    MaxCommits,    \* bound: versions the coder makes
    MaxFaults      \* bound: rare events (see Fault)

ASSUME CapsAssumption ==
    /\ {Reviewers, MaxFailures, MaxRejections, MaxRetries, MaxUnclear,
        MaxContract, MaxRecovery, MaxRevivals} \subseteq Nat \ {0}
    /\ {Cap, MaxCommits, MaxFaults} \subseteq Nat
    /\ NoSha \notin Nat
    /\ Nobody \notin Runner

\* The runners of a project are processes that have been started.
ASSUME RunnersAssumption == IsFiniteSet(Runner) /\ Runner # {}

VARIABLES
    task,       \* the row of the tasks table
    trail,      \* summary of the task's audit rows
    invocations,\* rows of task_invocations so far
    coded,      \* a successful coder invocation is among them
    running,    \* those still marked running
    lock,       \* owner of the row in task_locks
    runner,     \* each runner's place in the loop, and what it has read
    commits,    \* the latest version of the task made so far, at first the base commit
    sanitiser,  \* rows the periodic sanitise has still to look at, and the status it read
    endorsed,   \* history: submissions that every reviewer of a round, or their arbiter, approved
    recovered,  \* history: the latest approval was read from a dead runner's log
    faults      \* rare events so far

vars == <<task, trail, invocations, coded, running, lock, runner, commits,
          sanitiser, endorsed, recovered, faults>>

\* What a step of a runner that writes the task leaves alone.
aside == <<sanitiser, endorsed, recovered, faults>>

Status == {"pending", "in_progress", "review", "merge_pending", "completed",
           "failed", "skipped", "partial", "disputed", "blocked_error"}
Open    == {"pending", "in_progress", "review", "merge_pending"}
Settled == {"completed", "failed", "skipped", "partial", "blocked_error"}
Base    == 0
Sha     == Base..MaxCommits
Verdict == {"none", "approve", "reject"}
OnTask  == {"coding", "deciding", "reviewing", "judging", "merging"}
PC      == {"idle", "chosen", "admitted", "dead", "lost"} \union OnTask
Invocation ==
    [runner : Runner, role : {"coder", "reviewer"}, n : 1..Reviewers, verdict : Verdict]

Idle == [pc |-> "idle", act |-> "none", status |-> "pending", rejections |-> 0,
         sub |-> NoSha, explicit |-> FALSE, erased |-> FALSE]

TypeOK ==
    /\ task \in [status : Status, failures : 0..MaxFailures, rejections : Nat,
                 approved : Sha \union {NoSha}]
    /\ trail \in Summary(Sha)
    /\ invocations \in Nat /\ coded \in BOOLEAN
    /\ running \subseteq Invocation
    /\ lock \in Runner \union {Nobody}
    /\ runner \in [Runner ->
          [pc : PC, act : {"none", "start", "resume", "review", "merge"}, status : Status,
           rejections : Nat, sub : Sha \union {NoSha}, explicit : BOOLEAN, erased : BOOLEAN]]
    /\ commits \in Sha
    /\ sanitiser \in [todo : SUBSET Invocation, seen : Status]
    /\ endorsed \subseteq Sha
    /\ recovered \in BOOLEAN
    /\ faults \in 0..MaxFaults

Begin ==
    /\ task = [status |-> "pending", failures |-> 0, rejections |-> 0, approved |-> NoSha]
    /\ trail = EmptySummary
    /\ invocations = 0 /\ coded = FALSE /\ running = {}
    /\ lock = Nobody
    /\ commits = Base
    /\ sanitiser = [todo |-> {}, seen |-> "pending"]
    /\ endorsed = {} /\ recovered = FALSE
    /\ faults = 0

Init == Begin /\ runner = [r \in Runner |-> Idle]

-------------------------------------------------------------------------------
(* Writing the task and its audit trail.                                   *)

By(to, tag, sha) == Row(task.status, to, "orchestrator", tag, sha)

\* An audit row that changes no status: it repeats the status of the
\* runner's copy of the task.
Remark(s, tag) == Row(s.status, s.status, "orchestrator", tag, NoSha)

\* updateTaskStatus, after the rows that are in sum already.
Becomes(sum, to, tag, sha) ==
    /\ task' = IF to = "completed"
               THEN [status |-> to, failures |-> 0, rejections |-> 0, approved |-> NoSha]
               ELSE [task EXCEPT !.status = to]
    /\ trail' = Note(sum, By(to, tag, sha))

Fails(sum, tag) == Becomes(sum, "failed", tag, NoSha)

\* Faulty variant: the failure is counted, but the cap does not stop the task.
ProviderFailsOn ==
    /\ task' = [task EXCEPT !.failures = @ + 1]
    /\ UNCHANGED trail

\* handleProviderInvocationFailure
ProviderFails ==
    LET n == task.failures + 1
    IN  IF n >= MaxFailures
        THEN /\ task' = [task EXCEPT !.status = "failed", !.failures = MaxFailures]
             /\ trail' = Note(trail, By("failed", "plain", NoSha))
        ELSE task' = [task EXCEPT !.failures = n] /\ UNCHANGED trail

\* A crash, a lock that lapses under a working runner, a task pulled back
\* because of another one, a failure of git that will be retried.
Fault == faults < MaxFaults /\ faults' = faults + 1

At(r, label) == runner[r].pc = label

Alive == {r \in Runner : runner[r].pc \notin {"dead", "lost"}}

\* Some row of runners names the task as its current one.  The row of a runner
\* that died is cleaned up before the wakeup sanitises, or its heartbeat is
\* still fresh.
Protected == \E r \in Runner : runner[r].pc \in OnTask \union {"dead"}

\* The end of an iteration: releaseTaskLock deletes the runner's own row only.
Finish(r) ==
    /\ runner' = [runner EXCEPT ![r] = Idle]
    /\ lock' = IF lock = r THEN Nobody ELSE lock

\* logInvocation starts a row of the task for each of n providers.
Invoke(r, role, n) ==
    /\ invocations' = invocations + n
    /\ running' = running \union
         [runner : {r}, role : {role}, n : 1..n, verdict : {"none"}]

Answered(r) == running' = {x \in running : x.runner # r}

-------------------------------------------------------------------------------
(* Selection                                                               *)

\* findNextTaskSkippingLocked: S7 sends a pending task that was coded before
\* to its review.
Action ==
    CASE task.status = "merge_pending" -> "merge"
      [] task.status = "review"        -> "review"
      [] task.status = "in_progress"   -> "resume"
      [] OTHER                         -> IF coded THEN "review" ELSE "start"

Select(r) ==
    /\ At(r, "idle")
    /\ task.status \in Open
    /\ lock \in {Nobody, r}
    /\ runner' = [runner EXCEPT ![r] =
                    [Idle EXCEPT !.pc = "chosen", !.act = Action,
                                 !.status = task.status, !.rejections = task.rejections]]
    /\ UNCHANGED <<task, trail, invocations, coded, running, lock, commits, aside>>

Denied(r) ==
    /\ At(r, "chosen")
    /\ lock \notin {Nobody, r}
    /\ runner' = [runner EXCEPT ![r] = Idle]
    /\ UNCHANGED <<task, trail, invocations, coded, running, lock, commits, aside>>

\* Faulty variant: the cap is compared too late.
CapReachedLate == invocations > Cap

CapReached == invocations >= Cap

SkipAtCap(r) ==
    /\ At(r, "chosen")
    /\ lock \in {Nobody, r}
    /\ CapReached
    /\ Becomes(trail, "skipped", "plain", NoSha)
    /\ runner' = [runner EXCEPT ![r] = Idle]
    /\ lock' = Nobody
    /\ UNCHANGED <<invocations, coded, running, commits, aside>>

\* The task is locked.  While the runner waits for the system's pressure to
\* go down it is not yet the runner's current task.
Admit(r) ==
    /\ At(r, "chosen")
    /\ lock \in {Nobody, r}
    /\ ~ CapReached
    /\ lock' = r
    /\ runner' = [runner EXCEPT ![r].pc = "admitted"]
    /\ UNCHANGED <<task, trail, invocations, coded, running, commits, aside>>

-------------------------------------------------------------------------------
(* The coder phase                                                         *)

\* markTaskInProgress looks at the task again.
Marks(r) == runner[r].act = "start" /\ task.status = "pending"

Marked(r) == IF Marks(r) THEN Note(trail, By("in_progress", "plain", NoSha)) ELSE trail

Working(r) == [task EXCEPT !.status = IF Marks(r) THEN "in_progress" ELSE @]

CoordinatorRow(s) == Row(s.status, s.status, "coordinator", "plain", NoSha)

\* The workspace is prepared, the coordinator is asked at its thresholds and
\* may fail, and the coder is invoked.  It starts on the task branch as the
\* slot, or the remote, has it, which need not be its latest version.
StartCoder(r) ==
    /\ At(r, "admitted")
    /\ runner[r].act \in {"start", "resume"}
    /\ task' = Working(r)
    /\ trail' \in {Marked(r)} \union
         (IF runner[r].rejections \in Thresholds
          THEN {Note(Marked(r), CoordinatorRow(runner[r]))} ELSE {})
    /\ Invoke(r, "coder", 1)
    /\ \E head \in Base..commits :
          runner' = [runner EXCEPT ![r] = [@ EXCEPT !.pc = "coding", !.sub = head]]
    /\ UNCHANGED <<coded, lock, commits, aside>>

\* prepareForTask fails: blocked for good, or to be tried again.
PrepFails(r) ==
    /\ At(r, "admitted")
    /\ runner[r].act \in {"start", "resume"}
    /\ \/ /\ task' = [Working(r) EXCEPT !.status = "blocked_error"]
          /\ trail' = Note(Marked(r), Row(Working(r).status, "blocked_error",
                                          "orchestrator", "plain", NoSha))
          /\ UNCHANGED faults
       \/ task' = Working(r) /\ trail' = Marked(r) /\ Fault
    /\ Finish(r)
    /\ UNCHANGED <<invocations, coded, running, commits, sanitiser, endorsed, recovered>>

\* The coder failed, or all of several reviewers did.  A single reviewer that
\* fails is judged like one that answered, by what it said.
InvocationFails(r) ==
    /\ At(r, "coding") \/ (At(r, "reviewing") /\ Reviewers > 1)
    /\ ProviderFails
    /\ Answered(r)
    /\ Finish(r)
    /\ UNCHANGED <<invocations, coded, commits, aside>>

\* Credits, a rate limit or a login: the loop pauses outside the task.
ProviderPauses(r) ==
    /\ \/ At(r, "coding")
       \/ At(r, "reviewing")
    /\ Answered(r)
    /\ Finish(r)
    /\ UNCHANGED <<task, trail, invocations, coded, commits, aside>>

\* The coder answered, with or without a new commit; the latest rejection is
\* read here, before the orchestrator is asked.  A row of the invocation that
\* was deleted meanwhile is not written again (see TaskEdits).
CoderSucceeds(r) ==
    /\ At(r, "coding")
    /\ Answered(r)
    /\ coded' = (coded \/ ~ runner[r].erased)
    /\ \E head \in {runner[r].sub} \union (1..MaxCommits \intersect {commits + 1}) :
          /\ commits' = IF head > commits THEN head ELSE commits
          /\ runner' = [runner EXCEPT ![r] =
               [@ EXCEPT !.pc = "deciding", !.sub = head,
                         !.explicit = trail.explicit /\ runner[r].rejections > 0]]
    /\ UNCHANGED <<task, trail, invocations, lock, aside>>

\* postCoderGate: a failure of git.
GateFails(r) ==
    /\ At(r, "deciding")
    /\ trail' = Note(trail, Remark(runner[r], "retry"))
    /\ Finish(r)
    /\ UNCHANGED <<task, invocations, coded, running, commits, aside>>

\* The task branch is pushed, the durable ref is written and the task goes to
\* review; the first two may fail.
Submits(sum, sha, tag) ==
    \/ Becomes(sum, "review", tag, sha)
    \/ Becomes(sum, "blocked_error", "plain", NoSha)
    \/ Fails(sum, "plain")

\* The gate counts the commits since the base, those of earlier attempts
\* included.  Without any, handleNoOpSubmissionInPool submits the base; only
\* some of several submissions may be reachable from this workspace.
NoChange(r) ==
    /\ At(r, "deciding")
    /\ runner[r].sub = Base
    /\ \/ Submits(trail, Base, "noop")
       \/ /\ trail.several
          /\ Becomes(trail, IF trail.recovery + 1 >= MaxRecovery THEN "disputed" ELSE "in_progress",
                     "recovery", NoSha)
    /\ Finish(r)
    /\ UNCHANGED <<invocations, coded, running, commits, aside>>

(***************************************************************************)
(* The orchestrator's decision d.  A broken contract is sent back as often *)
(* as its cap allows.  An override of the coder's WONT_FIX sends the coder *)
(* back whatever was decided before.  Then the cap on all retries applies. *)
(***************************************************************************)
CoderDecisions == {"submit", "retry", "error"} \union Contracts

\* The rows so far: the override is put on record before the retries are counted.
Heard(s, overridden) == IF overridden THEN Note(trail, CoordinatorRow(s)) ELSE trail

ByContract(sum, d) ==
    IF d \in Contracts /\ sum.contracts[d] + 1 >= MaxContract THEN "contract_error" ELSE d

ByRetries(sum, d) ==
    IF d \in {"retry"} \union Contracts /\ sum.retries + 1 >= MaxRetries THEN "error" ELSE d

Decision(s, d, overridden) ==
    ByRetries(Heard(s, overridden), IF overridden THEN "retry" ELSE ByContract(trail, d))

DecisionTag(d, decision) ==
    CASE decision = "contract_error"  -> d
      [] decision = "retry"           -> "retry_decision"
      [] decision \in Contracts       -> decision
      [] OTHER                        -> "decision"

\* executeCoderDecision.  The head of the branch is submitted, or any commit
\* that the coder names; it must name one after a commit could not be found.
Execute(s, sum, d, decision) ==
    CASE decision \in {"retry"} \union Contracts ->
            trail' = sum /\ UNCHANGED task
      [] decision = "contract_error" -> Fails(sum, d)
      [] decision = "error" -> Fails(sum, "plain")
      [] decision = "submit" ->
            \/ Fails(sum, "plain")
            \/ \E sha \in Base..commits : Submits(sum, sha, "plain")
            \/ /\ s.explicit
               /\ trail' = Note(sum, Remark(s, "retry"))
               /\ UNCHANGED task

Decide(r) ==
    LET s == runner[r] IN
    /\ At(r, "deciding")
    /\ s.sub # Base
    /\ Finish(r)
    /\ \E d \in CoderDecisions, overridden \in BOOLEAN :
          LET decision == Decision(s, d, overridden)
              tag      == DecisionTag(d, decision)
          IN  Execute(s, Note(Heard(s, overridden), Remark(s, tag)), d, decision)
    /\ UNCHANGED <<invocations, coded, running, commits, aside>>

-------------------------------------------------------------------------------
(* The reviewer phase                                                      *)

\* handleUnsafeApprovalSubmission
Resubmission(sum) ==
    Becomes(sum, IF sum.recovery + 1 >= MaxRecovery THEN "disputed" ELSE "in_progress",
            "recovery", NoSha)

\* S7 moves a pending task to review first.  Preflight finds that the latest
\* submission is not there or cannot be reached, or the reviewers start on it.
StartReview(r) ==
    LET s      == runner[r]
        routed == s.status = "pending"
        opened == IF routed THEN Note(trail, By("review", "plain", NoSha)) ELSE trail
        copy   == [s EXCEPT !.status = IF routed THEN "review" ELSE @]
        seen   == {opened} \union (IF opened.newest = "other" THEN {}
                                   ELSE {Note(opened, Remark(copy, "plain"))})
        from   == IF routed THEN "review" ELSE task.status
    IN
    /\ At(r, "admitted")
    /\ s.act = "review"
    /\ \E sum \in seen :
         \/ LET to == IF sum.recovery + 1 >= MaxRecovery THEN "disputed" ELSE "in_progress"
            IN  /\ task' = [task EXCEPT !.status = to]
                /\ trail' = Note(sum, Row(from, to, "orchestrator", "recovery", NoSha))
                /\ Finish(r)
                /\ UNCHANGED <<invocations, running>>
         \/ /\ sum.latest # NoSha
            /\ task' = [task EXCEPT !.status = from]
            /\ trail' = sum
            /\ Invoke(r, "reviewer", Reviewers)
            /\ runner' = [runner EXCEPT ![r] = [copy EXCEPT !.pc = "reviewing", !.sub = sum.latest]]
            /\ UNCHANGED lock
    /\ UNCHANGED <<coded, commits, aside>>

ReviewersAnswer(r) ==
    /\ At(r, "reviewing")
    /\ Answered(r)
    /\ task' \in {[task EXCEPT !.failures = 0]} \union (IF Reviewers = 1 THEN {task} ELSE {})
    /\ runner' = [runner EXCEPT ![r].pc = "judging"]
    /\ UNCHANGED <<trail, invocations, coded, lock, commits, aside>>

\* deriveApprovedOutcome and applyApprovedOutcome
Approves(sum, sha) ==
    IF sum.newest = "noop"
    THEN Becomes(sum, "completed", "plain", sha)
    ELSE /\ task' = [task EXCEPT !.status = "merge_pending", !.approved = sha]
         /\ trail' = Note(sum, By("merge_pending", "plain", sha))

\* rejectTask
Rejects(sum, sha) ==
    LET n  == task.rejections + 1
        to == IF n >= MaxRejections THEN "failed" ELSE "in_progress"
    IN  /\ task' = [task EXCEPT !.status = to, !.rejections = n]
        /\ trail' = Note(sum, Row(task.status, to, "model", "plain", sha))

ReviewerDecisions == {"approve", "reject", "dispute", "skip", "unclear"}

\* Faulty variant: what is approved is the submission that is the latest by now.
ReviewedLatest(s) == trail.latest

\* The commit preflight chose, which is what the reviewers were shown.
Reviewed(s) == s.sub

Judge(r) ==
    LET s == runner[r] IN
    /\ At(r, "judging")
    /\ Finish(r)
    /\ \E d \in ReviewerDecisions :
          LET capped  == d = "unclear" /\ trail.unclear + 1 >= MaxUnclear
              verdict == IF capped THEN "dispute" ELSE d
              sum     == Note(trail, Remark(s, IF verdict = "unclear" THEN "unclear" ELSE "decision"))
          IN  /\ CASE verdict = "approve" -> Approves(sum, Reviewed(s))
                   [] verdict = "reject"  -> Rejects(sum, Reviewed(s))
                   [] verdict = "dispute" -> Becomes(sum, "disputed", "plain", Reviewed(s))
                   [] verdict = "skip"    -> Becomes(sum, "skipped", "plain", Reviewed(s))
                   [] verdict = "unclear" -> trail' = sum /\ UNCHANGED task
              /\ endorsed' = IF verdict = "approve" THEN endorsed \union {s.sub} ELSE endorsed
              /\ recovered' = (recovered /\ verdict # "approve")
    /\ UNCHANGED <<invocations, coded, running, commits, sanitiser, faults>>

-------------------------------------------------------------------------------
(* The merge (see MergeQueue)                                              *)

StartMerge(r) ==
    /\ At(r, "admitted")
    /\ runner[r].act = "merge"
    /\ runner' = [runner EXCEPT ![r].pc = "merging"]
    /\ UNCHANGED <<task, trail, invocations, coded, running, lock, commits, aside>>

\* It landed, the branch was changed since the approval, the remote cannot be
\* used, or the rebases were used up.  An attempt to rebase, and the review of
\* one, invoke a provider, and may end in the last two ways as well.
MergeEnds(r) ==
    /\ At(r, "merging")
    /\ \/ Becomes(trail, "completed", "plain", NoSha) /\ UNCHANGED <<invocations, faults>>
       \/ /\ task' = [task EXCEPT !.status = "review", !.approved = NoSha]
          /\ trail' = Note(trail, Row("merge_pending", "review", "orchestrator", "plain", NoSha))
          /\ UNCHANGED <<invocations, faults>>
       \/ /\ Becomes(trail, "blocked_error", "plain", NoSha)
          /\ invocations' \in {invocations, invocations + 1}
          /\ UNCHANGED faults
       \/ /\ task' = [task EXCEPT !.status = "disputed"]
          /\ trail' = Note(trail, Row("merge_pending", "disputed", "orchestrator", "plain", NoSha))
          /\ invocations' \in {invocations, invocations + 1}
          /\ UNCHANGED faults
       \/ /\ invocations' = invocations + 1
          /\ trail' = Note(trail, Row("merge_pending", "merge_pending", "orchestrator", "plain", NoSha))
          /\ UNCHANGED <<task, faults>>
       \/ Fault /\ UNCHANGED <<task, trail, invocations>>
    /\ Finish(r)
    /\ UNCHANGED <<coded, running, commits, sanitiser, endorsed, recovered>>

-------------------------------------------------------------------------------
(* What happens to runners and locks                                       *)

\* The runner's process ends: killed, its row in runners names the task
\* ("dead"); stopped by a signal, by the pressure on the system or before the
\* task was its current one, no row does ("lost").  Its lock stays behind, and
\* so do its invocations: of the reviewers at work any number had logged a
\* verdict, and some may have completed.
Crash(r) ==
    /\ runner[r].pc \in {"chosen", "admitted"} \union OnTask
    /\ Fault
    /\ runner' \in {[runner EXCEPT ![r] = [Idle EXCEPT !.pc = label]] :
                      label \in IF runner[r].pc \in OnTask THEN {"dead", "lost"} ELSE {"lost"}}
    /\ IF ~ At(r, "reviewing") THEN UNCHANGED <<running, endorsed>>
       ELSE \E logged \in [1..Reviewers -> Verdict], left \in SUBSET (1..Reviewers) :
              /\ running' = {x \in running : x.runner # r} \union
                   {[runner |-> r, role |-> "reviewer", n |-> i, verdict |-> logged[i]] :
                      i \in {j \in left : \E x \in running : x.runner = r}}
              /\ endorsed' = IF \A i \in 1..Reviewers : logged[i] = "approve"
                             THEN endorsed \union {runner[r].sub} ELSE endorsed
    /\ UNCHANGED <<task, trail, invocations, coded, lock, commits, sanitiser, recovered>>

\* Nothing prolongs a task lock: an hour after it was taken it is free.
LockLapses ==
    /\ lock # Nobody
    /\ lock' = Nobody
    /\ IF lock \in Alive THEN Fault ELSE UNCHANGED faults
    /\ UNCHANGED <<task, trail, invocations, coded, running, runner, commits,
                   sanitiser, endorsed, recovered>>

-------------------------------------------------------------------------------
(* The periodic wakeup                                                     *)

Reopened == [task EXCEPT !.status = IF @ = "in_progress" THEN "pending" ELSE @]

\* cleanupStaleRunnerTaskState, for a runner whose process is gone: every
\* running invocation of its task is closed, whoever runs it.
CleanupAbandoned(r) ==
    /\ At(r, "dead")
    /\ running' = {}
    /\ task' = Reopened
    /\ lock' = Nobody
    /\ runner' = [runner EXCEPT ![r].pc = "lost"]
    /\ UNCHANGED <<trail, invocations, coded, commits, aside>>

\* reconcileInvocationRuntimeState reads the running invocations that no live
\* runner's current task accounts for, with the status of the task.
SanitiseLists ==
    /\ sanitiser.todo = {} /\ running # {}
    /\ ~ Protected
    /\ sanitiser' = [todo |-> running, seen |-> task.status]
    /\ UNCHANGED <<task, trail, invocations, coded, running, lock, runner, commits,
                   endorsed, recovered, faults>>

\* recoverOrphanedInvocation
RecoverApproval(x) ==
    /\ x.verdict = "approve" /\ sanitiser.seen = "review"
    /\ \/ Resubmission(trail) /\ UNCHANGED recovered
       \/ trail.latest # NoSha /\ Approves(trail, trail.latest) /\ recovered' = TRUE
    /\ UNCHANGED lock

RecoverReject(x) ==
    /\ x.verdict = "reject" /\ sanitiser.seen = "review"
    /\ IF task.status = "review"
       THEN /\ task' = [task EXCEPT !.status = "in_progress", !.rejections = @ + 1]
            /\ trail' = Note(trail, By("in_progress", "plain", NoSha))
            /\ lock' = Nobody
       ELSE UNCHANGED <<task, trail, lock>>
    /\ UNCHANGED recovered

CloseOrphan(x) ==
    /\ x.verdict = "none" \/ sanitiser.seen # "review"
    /\ task' = Reopened
    /\ lock' = IF task.status = "in_progress" THEN Nobody ELSE lock
    /\ UNCHANGED <<trail, recovered>>

\* The list, and the status read with it, are gone when it is worked off.
SanitiseNext ==
    /\ \E x \in sanitiser.todo :
          /\ RecoverApproval(x) \/ RecoverReject(x) \/ CloseOrphan(x)
          /\ running' = running \ {x}
          /\ sanitiser' = [sanitiser EXCEPT !.todo = @ \ {x},
                              !.seen = IF sanitiser.todo = {x} THEN "pending" ELSE @]
    /\ UNCHANGED <<invocations, coded, runner, commits, endorsed, faults>>

\* A lock without a running invocation and without a current task that
\* explains it.
DeleteOrphanLock ==
    /\ lock # Nobody
    /\ running = {} /\ ~ Protected
    /\ lock' = Nobody
    /\ UNCHANGED <<task, trail, invocations, coded, running, runner, commits, aside>>

\* S3
RecoverDisputed ==
    /\ task.status = "disputed"
    /\ task' = [task EXCEPT !.status = "pending", !.approved = NoSha]
    /\ trail' = Note(trail, By("pending", "plain", NoSha))
    /\ lock' = Nobody
    /\ UNCHANGED <<invocations, coded, running, runner, commits, aside>>

\* Faulty variant: every failed or skipped task is revived.
ReviveAlways == TRUE

Revivable == trail.revivals < MaxRevivals

\* S4
ReviveFailed ==
    /\ task.status \in {"failed", "skipped"}
    /\ Revivable
    /\ task' = [status |-> "pending", failures |-> 0, rejections |-> 0, approved |-> NoSha]
    /\ trail' = Note(trail, By("pending", "revival", NoSha))
    /\ lock' = Nobody
    /\ UNCHANGED <<invocations, coded, running, runner, commits, aside>>

\* S4b: a task of a section this one depends on was revived.
PullBack ==
    /\ task.status \in {"in_progress", "review", "merge_pending"}
    /\ Fault
    /\ task' = [task EXCEPT !.status = "pending", !.approved = NoSha]
    /\ trail' = Note(trail, By("pending", "plain", NoSha))
    /\ lock' = Nobody
    /\ UNCHANGED <<invocations, coded, running, runner, commits, sanitiser, endorsed, recovered>>

-------------------------------------------------------------------------------

Steps(r) ==
    \/ Select(r) \/ Denied(r) \/ SkipAtCap(r) \/ Admit(r)
    \/ StartCoder(r) \/ PrepFails(r) \/ InvocationFails(r) \/ ProviderPauses(r) \/ CoderSucceeds(r)
    \/ GateFails(r) \/ NoChange(r) \/ Decide(r)
    \/ StartReview(r) \/ ReviewersAnswer(r) \/ Judge(r)
    \/ StartMerge(r) \/ MergeEnds(r)

Wakeup == SanitiseLists \/ SanitiseNext

Next ==
    \/ \E r \in Runner : Steps(r) \/ Crash(r) \/ CleanupAbandoned(r)
    \/ LockLapses \/ Wakeup \/ DeleteOrphanLock
    \/ RecoverDisputed \/ ReviveFailed \/ PullBack

Spec == Init /\ [][Next]_vars

\* A runner that lives goes on, providers and git end in time (every call has
\* a timeout), the wakeup runs again and again, and the lock of a runner that
\* is gone lapses.
Fairness ==
    /\ \A r \in Runner : WF_vars(r \in Alive /\ Steps(r)) /\ WF_vars(CleanupAbandoned(r))
    /\ WF_vars(Wakeup)
    /\ WF_vars(RecoverDisputed)
    /\ WF_vars(lock \notin Alive /\ LockLapses)

FairSpec == Spec /\ Fairness

-------------------------------------------------------------------------------
(* Properties                                                              *)

(***************************************************************************)
(* What the loop queues for the merge is a submission that its reviewers   *)
(* were shown and approved, although others may submit while they work     *)
(* (runReviewerPhase keeps the commit that preflight chose).               *)
(***************************************************************************)
LoopApprovesWhatWasReviewed ==
    task.status = "merge_pending" /\ ~ recovered => task.approved \in endorsed

(***************************************************************************)
(* The same of every approval, those read from the logs of dead runners    *)
(* included: no commit is queued that a reviewer of its round rejected or  *)
(* did not answer about.                                                   *)
(***************************************************************************)
ApprovedByEveryReviewer ==
    task.status = "merge_pending" => task.approved \in endorsed

(***************************************************************************)
(* The invocation cap holds for all the restarts, revivals and recoveries  *)
(* of a task together: it is exceeded by no more than what runners that    *)
(* passed the check at the same time start.                                *)
(***************************************************************************)
InvocationsBounded ==
    invocations <= Cap - 1 + Cardinality(Runner) * Reviewers

(***************************************************************************)
(* Two runners never work on the task at the same time (task_locks).       *)
(***************************************************************************)
OneRunnerPerTask ==
    Cardinality({r \in Runner : runner[r].pc \in OnTask}) <= 1

(***************************************************************************)
(* However often it is sent back, revived or recovered, the task comes to  *)
(* rest: it is completed, failed, skipped or blocked from some moment on.  *)
(***************************************************************************)
SettlesForGood == <>[](task.status \in Settled)
===============================================================================
