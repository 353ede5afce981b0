---------------------------- MODULE WorkspacePool ----------------------------
(***************************************************************************)
(* The pool of workspaces of a project: its rows in workspace_pool_slots   *)
(* (src/workspace/pool.ts), the clones behind them                         *)
(* (src/workspace/git-lifecycle.ts), their use by the runners' loop        *)
(* (src/runners/orchestrator-loop.ts) and what the wakeup does to them     *)
(* (src/workspace/reconcile.ts, src/runners/wakeup-global-cleanup.ts).     *)
(*                                                                         *)
(* A branch is the set of the commits on top of the base branch; a commit  *)
(* that has been rebased counts as the same.  Which objects a clone has    *)
(* besides its branches is left open.  Row ids are not AUTOINCREMENT: a    *)
(* new row takes the id of the last one deleted, so that a slot's id and   *)
(* its index are one number here.                                          *)
(* Under "disturbed" is on record what went wrong so far: a crash, a late  *)
(* heartbeat, another process that got in between two statements that      *)
(* follow each other at once ("gap"), a merge that took longer than the    *)
(* TTL of a slot ("long") or had the branch of another task ("stray").     *)
(***************************************************************************)
EXTENDS Integers, FiniteSets

CONSTANTS
    Runner,
    Task,
    None,
    MaxIdle,      \* MAX_POOL_SLOTS_PER_PROJECT
    Slots,        \* bound: slots of the pool
    MaxCommits,   \* bound: commits the coders make
    MaxClaims,    \* bound: tasks the runners take up, retries included
    Disturbances, \* the kinds that may happen, each once
    MaxDisturbed  \* bound: how many of them happen

ASSUME PoolAssumption ==
    /\ {MaxIdle, Slots, MaxCommits, MaxClaims, MaxDisturbed} \subseteq Nat
    /\ None \notin Runner \union Task
    /\ \A commits \in SUBSET (1..MaxCommits) : None # commits
    /\ Disturbances \subseteq {"crash", "late", "gap", "long"}

VARIABLES
    row,       \* workspace_pool_slots, by slot
    dir,       \* the clone of each slot
    remote,    \* the task branches at the remote
    task,      \* status of each task, and the commits of its latest submission
    runner,    \* each runner's place in the loop, and what it has in memory
    made,      \* commits made so far
    claims,    \* tasks taken up so far
    doomed,    \* slots the prune has listed and still has to delete
    disturbed  \* history: what went wrong so far

vars == <<row, dir, remote, task, runner, made, claims, doomed, disturbed>>

Slot    == 1..Slots
Commits == SUBSET (1..MaxCommits)
Branch  == Commits \union {None}
Status  == {"open", "review", "merge", "over"}    \* over: completed, failed or blocked
Act     == {"code", "review", "merge"}
Working == {"coding", "gated", "reviewing", "merging"}

NoRow == [status |-> "absent", runner |-> None, task |-> None, branch |-> None]
Free  == [NoRow EXCEPT !.status = "idle"]
NoDir == [there |-> FALSE, head |-> None, dirty |-> FALSE,
          local |-> [t \in Task |-> None]]
Idle  == [pc |-> "idle", task |-> None, act |-> "code", slot |-> 0, inner |-> 0,
          branch |-> None, lease |-> None]

TypeOK ==
    /\ row \in [Slot -> [status : {"absent", "idle", "coder", "awaiting", "reviewing"},
                         runner : Runner \union {None}, task : Task \union {None},
                         branch : Task \union {None}]]
    /\ dir \in [Slot -> [there : BOOLEAN, head : Task \union {None}, dirty : BOOLEAN,
                         local : [Task -> Branch]]]
    /\ remote \in [Task -> Branch]
    /\ task \in [Task -> [status : Status, sub : Branch]]
    /\ runner \in [Runner -> [pc : Working \union {"idle", "claimed", "ending"},
                              task : Task \union {None}, act : Act,
                              slot : 0..Slots, inner : 0..Slots,
                              branch : Task \union {None}, lease : Branch]]
    /\ made \in 0..MaxCommits /\ claims \in 0..MaxClaims
    /\ doomed \subseteq Slot
    /\ disturbed \subseteq Disturbances \union {"stray"}
    \* A row that nobody holds names no runner.
    /\ \A s \in Slot : row[s].status \in {"absent", "idle"} => row[s].runner = None

Init ==
    /\ row = [s \in Slot |-> NoRow]
    /\ dir = [s \in Slot |-> NoDir]
    /\ remote = [t \in Task |-> None]
    /\ task = [t \in Task |-> [status |-> "open", sub |-> None]]
    /\ runner = [r \in Runner |-> Idle]
    /\ made = 0 /\ claims = 0 /\ doomed = {} /\ disturbed = {}

At(r, label) == runner[r].pc = label

Goto(r, label) == runner' = [runner EXCEPT ![r].pc = label]

Disturb(kind) ==
    /\ kind \in Disturbances \ disturbed
    /\ Cardinality(disturbed) < MaxDisturbed
    /\ disturbed' = disturbed \union {kind}

-------------------------------------------------------------------------------
(* Rows.  Every UPDATE names the slot by its id alone.                      *)

Write(rows, s, new) ==
    IF rows[s].status = "absent" THEN rows ELSE [rows EXCEPT ![s] = new]

releaseSlot(rows, s) == Write(rows, s, Free)

\* Faulty variant: only the status is reset.
KeepRunner(rows, s) == Write(rows, s, [rows[s] EXCEPT !.status = "idle"])

\* task_id and task_branch stay.
partialReleaseSlot(rows, s) ==
    Write(rows, s, [rows[s] EXCEPT !.status = "idle", !.runner = None])

updateSlotStatus(rows, s, status) == Write(rows, s, [rows[s] EXCEPT !.status = status])

IdleSlots(rows) == {s \in Slot : rows[s].status = "idle"}

Lowest(S) == CHOOSE s \in S : \A x \in S : s <= x

\* The idle slot that was last used for the task, another idle one, or a new
\* row behind all others.
ClaimTarget(rows, t) ==
    LET affine == {s \in IdleSlots(rows) : rows[s].task = t}
        used   == {s \in Slot : rows[s].status # "absent"}
        last   == IF used = {} THEN 0 ELSE CHOOSE s \in used : \A x \in used : x <= s
    IN  IF affine # {} THEN Lowest(affine)
        ELSE IF IdleSlots(rows) # {} THEN Lowest(IdleSlots(rows))
        ELSE last + 1

claimSlot(rows, s, r, t) ==
    [rows EXCEPT ![s] = [status |-> "coder", runner |-> r, task |-> t,
                         branch |-> rows[s].branch]]

\* cleanupPoolSlot
Cleaned(rows, s) ==
    IF rows[s].status = "awaiting" THEN partialReleaseSlot(rows, s) ELSE releaseSlot(rows, s)

\* The phase of r is over, with these rows: the loop cleans up its slot, at
\* once unless another process gets in between.
Ends(r, rows) ==
    \/ /\ row' = Cleaned(rows, runner[r].slot)
       /\ runner' = [runner EXCEPT ![r] = Idle]
       /\ UNCHANGED disturbed
    \/ /\ Disturb("gap")
       /\ row' = rows
       /\ Goto(r, "ending")

-------------------------------------------------------------------------------
(* The loop                                                                *)

\* A task that was taken from a dead runner, and coded before, is reviewed (S7).
ActFor(t) ==
    CASE task[t].status = "merge"  -> {"merge"}
      [] task[t].status = "review" -> {"review"}
      [] OTHER -> {"code"} \union (IF "crash" \in disturbed THEN {"review"} ELSE {})

\* The task is locked: no other runner that lives has it.
Claim(r, t) ==
    LET s == ClaimTarget(row, t) IN
    /\ At(r, "idle")
    /\ task[t].status \in {"open", "review", "merge"}
    /\ \A q \in Runner : runner[q].task # t
    /\ s <= Slots /\ claims < MaxClaims
    /\ claims' = claims + 1
    /\ row' = claimSlot(row, s, r, t)
    /\ \E act \in ActFor(t) :
          runner' = [runner EXCEPT ![r] =
            [Idle EXCEPT !.pc = "claimed", !.task = t, !.act = act, !.slot = s,
                         !.branch = row[s].branch]]
    /\ UNCHANGED <<dir, remote, task, made, doomed, disturbed>>

CleanUp(r) ==
    /\ At(r, "ending")
    /\ row' = Cleaned(row, runner[r].slot)
    /\ runner' = [runner EXCEPT ![r] = Idle]
    /\ UNCHANGED <<dir, remote, task, made, claims, doomed, disturbed>>

-------------------------------------------------------------------------------
(* prepareForTask                                                          *)

\* The checkout of the base branch fails in a dirty tree: git reset --hard
\* then moves the branch that is checked out.
ResetToBase(d) ==
    {[d EXCEPT !.dirty = FALSE]} \union
    (IF d.dirty /\ d.head # None
     THEN {[d EXCEPT !.dirty = FALSE, !.local[d.head] = {}]} ELSE {})

\* The local branch, the remote one, or a new one.
Checkout(d, t) ==
    LET content == CASE d.local[t] # None -> d.local[t]
                     [] d.local[t] = None /\ remote[t] # None -> remote[t]
                     [] OTHER -> {}
    IN  [d EXCEPT !.local[t] = content, !.head = t]

Prepared(d, t) == {Checkout(x, t) : x \in ResetToBase([d EXCEPT !.there = TRUE])}

\* Faulty variant: a slot that has a branch keeps it in its row.
BoundOnce(rows, s, t) ==
    Write(rows, s, [rows[s] EXCEPT !.status = "coder", !.task = t,
                                   !.branch = IF @ = None THEN t ELSE @])

Bound(rows, s, t) ==
    Write(rows, s, [rows[s] EXCEPT !.status = "coder", !.task = t, !.branch = t])

\* A coder is prepared; it begins to work.  The lease of its push is what
\* git fetch saw of the task's branch.
StartCoder(r) ==
    LET s == runner[r].slot
        t == runner[r].task
    IN
    /\ At(r, "claimed") /\ runner[r].act = "code"
    /\ \E d \in Prepared(dir[s], t) : dir' = [dir EXCEPT ![s] = d]
    /\ row' = Bound(row, s, t)
    /\ runner' = [runner EXCEPT ![r] = [@ EXCEPT !.pc = "coding", !.branch = t, !.lease = remote[t]]]
    /\ UNCHANGED <<remote, task, made, claims, doomed, disturbed>>

\* Blocked or to be tried again: the phase releases the slot, and the loop
\* releases it again.
PrepareFails(r) ==
    /\ At(r, "claimed") /\ runner[r].act = "code"
    /\ \/ task' = [task EXCEPT ![runner[r].task].status = "over"]
       \/ UNCHANGED task
    /\ Ends(r, releaseSlot(row, runner[r].slot))
    /\ UNCHANGED <<dir, remote, made, claims, doomed>>

-------------------------------------------------------------------------------
(* The coder phase                                                         *)

\* The provider fails, and leaves the tree as it is: dirty, if it likes.
CoderFails(r) ==
    /\ At(r, "coding")
    /\ dir' = [dir EXCEPT ![runner[r].slot].dirty = TRUE]
    /\ Ends(r, row)
    /\ UNCHANGED <<remote, task, made, claims, doomed>>

\* postCoderGate commits what is left on the branch that is checked out, and
\* the slot awaits its review.
CoderSucceeds(r) ==
    LET s == runner[r].slot
        h == dir[s].head
    IN
    /\ At(r, "coding")
    /\ \/ /\ made < MaxCommits /\ h # None
          /\ made' = made + 1
          /\ dir' = [dir EXCEPT ![s].local[h] = @ \union {made + 1}, ![s].dirty = FALSE]
       \/ UNCHANGED <<dir, made>>
    /\ row' = updateSlotStatus(row, s, "awaiting")
    /\ Goto(r, "gated")
    /\ UNCHANGED <<remote, task, claims, doomed, disturbed>>

\* The orchestrator sends the coder back, or fails the task, or the push fails.
NotSubmitted(r) ==
    /\ At(r, "gated")
    /\ \/ task' = [task EXCEPT ![runner[r].task].status = "over"]
       \/ UNCHANGED task
    /\ Ends(r, row)
    /\ UNCHANGED <<dir, remote, made, claims, doomed>>

\* Faulty variant: the submission is recorded without a push.
PushNothing(d, t) == remote[t]

\* git push --force-with-lease of the task branch.
PushedBranch(d, t) == d.local[t]

\* pushTaskBranchForDurability.  Without a lease the push is a failed one.
CanPush(r) ==
    LET t == runner[r].task IN
    dir[runner[r].slot].local[t] # None /\ runner[r].lease = remote[t]

Pushed(r) ==
    LET t == runner[r].task
    IN  [remote EXCEPT ![t] = PushedBranch(dir[runner[r].slot], t)]

\* submitForReviewWithDurableRef, after the push: the commit that is checked out.
Submit(r) ==
    LET d == dir[runner[r].slot] IN
    /\ At(r, "gated") /\ CanPush(r)
    /\ remote' = Pushed(r)
    /\ task' = [task EXCEPT ![runner[r].task] =
         [status |-> "review",
          sub |-> IF d.head = None \/ d.local[d.head] = None THEN {} ELSE d.local[d.head]]]
    /\ Ends(r, row)
    /\ UNCHANGED <<dir, made, claims, doomed>>

-------------------------------------------------------------------------------
(* The reviewer phase                                                      *)

\* Preflight looks for the submission in the clone, and fetches if it is not
\* there; a commit on no branch may be among the clone's objects or not.
Found(d, t) ==
    IF ~ d.there \/ task[t].sub = None THEN {FALSE}
    ELSE IF d.local[t] # None /\ task[t].sub \subseteq d.local[t] THEN {TRUE} ELSE BOOLEAN

\* A slot that has a branch, of whatever task, is taken as it is; one without
\* is prepared, if that can be done.  If the submission cannot be found, the
\* task goes back to its coder.
StartReview(r) ==
    LET s     == runner[r].slot
        t     == runner[r].task
        fresh == runner[r].branch = None
    IN
    /\ At(r, "claimed") /\ runner[r].act = "review"
    /\ \E prepare \in {FALSE, fresh} :
       \E d \in IF prepare THEN Prepared(dir[s], t) ELSE {dir[s]} :
       \E found \in Found(d, t) :
          LET rows == updateSlotStatus(IF prepare THEN Bound(row, s, t) ELSE row, s, "reviewing")
          IN  /\ dir' = [dir EXCEPT ![s] = d]
              /\ IF found
                 THEN row' = rows /\ Goto(r, "reviewing") /\ UNCHANGED <<task, disturbed>>
                 ELSE Ends(r, rows) /\ task' = [task EXCEPT ![t].status = "open"]
    /\ UNCHANGED <<remote, made, claims, doomed>>

\* Only an approval discards what the reviewers left in the tree; without a
\* commit of its own the task is complete, and its slot is released twice.
Judge(r) ==
    LET s == runner[r].slot
        t == runner[r].task
    IN
    /\ At(r, "reviewing")
    /\ \/ /\ task[t].sub # {}
          /\ task' = [task EXCEPT ![t].status = "merge"]
          /\ Ends(r, row)
          /\ UNCHANGED dir
       \/ /\ task[t].sub = {}
          /\ task' = [task EXCEPT ![t].status = "over"]
          /\ Ends(r, releaseSlot(row, s))
          /\ UNCHANGED dir
       \/ /\ task' \in {[task EXCEPT ![t].status = st] : st \in {"open", "review"}}
          /\ dir' = [dir EXCEPT ![s].dirty = TRUE]
          /\ Ends(r, row)
    /\ UNCHANGED <<remote, made, claims, doomed>>

-------------------------------------------------------------------------------
(* The merge claims a slot of its own.  MergeQueue has what it does there.  *)

ClaimForMerge(r) ==
    LET t == runner[r].task
        s == ClaimTarget(row, t)
    IN
    /\ At(r, "claimed") /\ runner[r].act = "merge"
    /\ s <= Slots
    /\ row' = claimSlot(row, s, r, t)
    /\ runner' = [runner EXCEPT ![r] =
         [@ EXCEPT !.pc = "merging", !.inner = s,
                   !.branch = IF row[s].branch = None THEN t ELSE row[s].branch]]
    /\ UNCHANGED <<dir, remote, task, made, claims, doomed, disturbed>>

\* Git is left on the base branch or, if the rebase has conflicts, on the branch.
Merges(d, b) ==
    {[d EXCEPT !.head = None], [d EXCEPT !.head = None, !.local[b] = remote[b]],
     [d EXCEPT !.head = b, !.local[b] = remote[b]]}

\* The slot that the loop has claimed stays as it is; nothing beats for it now.
MergeEnds(r) ==
    LET s == runner[r].inner
        t == runner[r].task
        b == runner[r].branch
        Becomes(statuses) == task' \in {[task EXCEPT ![t].status = st] : st \in statuses}
    IN
    /\ At(r, "merging")
    /\ \/ /\ ~ dir[s].there \/ remote[b] = None        \* git fails
          /\ Becomes({"over"})
          /\ UNCHANGED <<dir, remote, disturbed>>
       \/ /\ dir[s].there /\ b = t /\ remote[t] # None
          /\ \/ Becomes({"review", "merge", "over"}) /\ UNCHANGED remote
             \/ Becomes({"over"}) /\ remote' = [remote EXCEPT ![t] = None]
          /\ \E d \in {dir[s]} \union Merges(dir[s], t) : dir' = [dir EXCEPT ![s] = d]
          /\ UNCHANGED disturbed
       \/ /\ dir[s].there /\ b # t /\ remote[b] # None
          \* The branch is not the approved commit, or is rebased; or the commit
          \* has been merged before a crash, and the branch is deleted.
          /\ \/ Becomes({"review", "merge"}) /\ UNCHANGED remote
             \/ "crash" \in disturbed /\ Becomes({"over"}) /\ remote' = [remote EXCEPT ![b] = None]
          /\ \E d \in {dir[s]} \union Merges(dir[s], b) : dir' = [dir EXCEPT ![s] = d]
          /\ disturbed' = disturbed \union {"stray"}
    /\ row' = releaseSlot(row, s)
    /\ runner' = [runner EXCEPT ![r] = Idle]
    /\ UNCHANGED <<made, claims, doomed>>

-------------------------------------------------------------------------------
(* Crashes and heartbeats                                                  *)

\* The runner's process ends, maybe between its push and the submission; its
\* task lock lapses, and a new runner is started in its place.
Crash(r) ==
    /\ ~ At(r, "idle")
    /\ Disturb("crash")
    /\ IF At(r, "coding")
       THEN dir' = [dir EXCEPT ![runner[r].slot].dirty = TRUE]
       ELSE UNCHANGED dir
    /\ remote' \in {remote} \union (IF At(r, "gated") /\ CanPush(r) THEN {Pushed(r)} ELSE {})
    /\ runner' = [runner EXCEPT ![r] = Idle]
    /\ UNCHANGED <<row, task, made, claims, doomed>>

\* The loop's timer beats for the slot that the loop has claimed, not for the
\* one that a merge has.
Beaten(s) == \E r \in Runner : runner[r].slot = s
Merged(s) == \E r \in Runner : At(r, "merging") /\ runner[r].inner = s

-------------------------------------------------------------------------------
(* The wakeup                                                              *)

\* Faulty variant: a slot that is not idle is taken for a leftover.
AnyInUse(s) == row[s].status \notin {"absent", "idle"}

\* Faulty variant: a slot that awaits a review is not taken for a leftover.
WithoutAwaiting(s) ==
    /\ row[s].status \in {"coder", "reviewing"}
    /\ ~ Beaten(s) /\ ~ Merged(s)

\* A slot that is in use and for which nobody beats any more.
Abandoned(s) ==
    /\ row[s].status \notin {"absent", "idle"}
    /\ ~ Beaten(s) /\ ~ Merged(s)

Reset(s) == row' = [row EXCEPT ![s] = Free] /\ UNCHANGED <<dir, remote, task, runner, made, claims, doomed>>

\* reconcileStaleWorkspaces: the last heartbeat of the slot is ten minutes old.
Reconcile(s) == Abandoned(s) /\ Reset(s) /\ UNCHANGED disturbed

\* It is that old although a runner works in the slot.
ReconcileInUse(s) ==
    /\ row[s].status \notin {"absent", "idle"}
    /\ \/ Beaten(s) /\ Disturb("late")
       \/ ~ Beaten(s) /\ Merged(s) /\ Disturb("long")
    /\ Reset(s)

\* Faulty variant: every slot counts, whatever its status.
EveryRow == {s \in Slot : row[s].status # "absent"}

\* The idle slots behind the first MaxIdle of them.
Excess ==
    {s \in IdleSlots(row) : Cardinality({x \in IdleSlots(row) : x < s}) >= MaxIdle}

Deleted(S) ==
    /\ row' = [s \in Slot |-> IF s \in S THEN NoRow ELSE row[s]]
    /\ dir' = [s \in Slot |-> IF s \in S THEN NoDir ELSE dir[s]]

\* pruneCompletedWorkspaces lists the slots, then deletes them one by one.
Prune ==
    /\ doomed = {} /\ Excess # {}
    /\ \/ Deleted(Excess) /\ UNCHANGED <<doomed, disturbed>>
       \/ Disturb("gap") /\ doomed' = Excess /\ UNCHANGED <<row, dir>>
    /\ UNCHANGED <<remote, task, runner, made, claims>>

PruneNext(s) ==
    /\ s \in doomed
    /\ Deleted({s})
    /\ doomed' = doomed \ {s}
    /\ UNCHANGED <<remote, task, runner, made, claims, disturbed>>

-------------------------------------------------------------------------------

Steps(r) ==
    \/ \E t \in Task : Claim(r, t)
    \/ StartCoder(r) \/ PrepareFails(r)
    \/ CoderFails(r) \/ CoderSucceeds(r) \/ NotSubmitted(r)
    \/ Submit(r)
    \/ StartReview(r) \/ Judge(r)
    \/ ClaimForMerge(r) \/ MergeEnds(r)
    \/ CleanUp(r)

Next ==
    \/ \E r \in Runner : Steps(r) \/ Crash(r)
    \/ \E s \in Slot : Reconcile(s) \/ ReconcileInUse(s) \/ PruneNext(s)
    \/ Prune

Spec == Init /\ [][Next]_vars

\* A runner goes on (every call has a timeout), and the wakeup runs again and
\* again: a slot for which nobody beats is reset, a listed one deleted.
Fairness ==
    /\ \A r \in Runner : WF_vars(Steps(r))
    /\ \A s \in Slot : WF_vars(Reconcile(s)) /\ WF_vars(PruneNext(s))

FairSpec == Spec /\ Fairness

-------------------------------------------------------------------------------
(* Properties                                                              *)

\* The directories that r works in, or is about to.
Uses(r) ==
    CASE runner[r].pc \in {"idle", "ending"} -> {}
      [] At(r, "merging") -> {runner[r].inner}
      [] OTHER -> {runner[r].slot}

(***************************************************************************)
(* No two runners work in one directory (claimSlot).                       *)
(***************************************************************************)
OneRunnerPerSlot == \A q, r \in Runner : q # r => Uses(q) \intersect Uses(r) = {}

(***************************************************************************)
(* Crashes, slots that merges leak and their reuse after the reset never   *)
(* bring two runners into one directory: it takes a heartbeat that is ten  *)
(* minutes late, a merge longer than that, or another process between two  *)
(* statements (reconcileStaleWorkspaces, cleanupPoolSlot).                 *)
(***************************************************************************)
SlotExclusive == disturbed \intersect {"late", "gap", "long"} = {} => OneRunnerPerSlot

(***************************************************************************)
(* As long as a coder works, the row of its slot names it, its task and    *)
(* the branch that is checked out in the clone (prepareForTask), whatever  *)
(* the slot was last used for: recovery and monitor read the row only.     *)
(***************************************************************************)
RowMatchesClone ==
    disturbed \intersect {"late", "gap", "long"} = {} =>
        \A r \in Runner : runner[r].pc \in {"coding", "gated"} =>
            LET s == runner[r].slot IN
            /\ row[s].runner = r /\ row[s].task = runner[r].task
            /\ row[s].branch = dir[s].head /\ dir[s].head = runner[r].task

(***************************************************************************)
(* What waits for a reviewer or for its merge can be fetched from the      *)
(* remote by any slot, also when the slot it was made in went to another   *)
(* task (pushTaskBranchForDurability).  Only as long as nothing went wrong:*)
(* a crash, a late heartbeat, a gap or a long merge each make it fail.     *)
(***************************************************************************)
SubmissionDurable ==
    disturbed = {} =>
        \A t \in Task : task[t].status \in {"review", "merge"} =>
            task[t].sub # None /\ remote[t] # None /\ task[t].sub \subseteq remote[t]

(***************************************************************************)
(* A coder that goes on with a task has the commits of its last submission *)
(* on the branch (prepareForTask, steps 5 and 9).                          *)
(***************************************************************************)
CoderContinues ==
    \A r \in Runner : At(r, "coding") =>
        LET t == runner[r].task
        IN  task[t].sub # None => task[t].sub \subseteq dir[runner[r].slot].local[t]

(***************************************************************************)
(* A merge works in a clone, on the branch of its own task.                *)
(***************************************************************************)
MergeSlotReady ==
    \A r \in Runner : At(r, "merging") =>
        dir[runner[r].inner].there /\ runner[r].branch = runner[r].task

(***************************************************************************)
(* No slot is lost for good: crashes and leaks are reclaimed.              *)
(***************************************************************************)
SlotsComeBack == \A s \in Slot : []<>(row[s].status \in {"absent", "idle"})
===============================================================================
