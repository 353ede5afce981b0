----------------------------- MODULE TaskLocks -----------------------------
(***************************************************************************)
(* The task_locks table of a project database and the procedures of        *)
(* src/locking/task-lock.ts over it, called by several runner processes.   *)
(* Every SQL statement is atomic (SQLite), nothing wider is: between two   *)
(* statements of one acquireTaskLock any other process may run, and time   *)
(* may pass.                                                               *)
(*                                                                         *)
(* expires_at is kept as the time left until it: a row is expired when the *)
(* clock is strictly past expires_at, that is when left = Lapsed, and      *)
(* left = 0 is the instant expires_at itself.  heartbeat_at is left out:   *)
(* no statement of the locking code reads it.                              *)
(***************************************************************************)
EXTENDS Integers

CONSTANTS
  Runner,     \* runner ids: a process that crashed never reuses its id
  Task,       \* task ids
  Timeout,    \* DEFAULT_LOCK_TIMEOUT_MINUTES, in units of the clock
  NoLock,     \* no row for the task
  NoTask      \* no call in progress

Lapsed == -1

TaskLock == [owner: Runner, left: Lapsed..Timeout]

ASSUME TimeoutAssumption == Timeout \in Nat \ {0}
ASSUME NoLockAssumption == NoLock \notin TaskLock
ASSUME NoTaskAssumption == NoTask \notin Task

VARIABLES
  locks,      \* task_locks: one row per task at most (task_id is the key)
  pc,         \* where each runner is in acquireTaskLock or releaseTaskLock
  target,     \* the task of the call in progress
  grant,      \* what each runner was told: the time left of the lock it got
  unbacked    \* <<r, t>> that were told "acquired" by an UPDATE of no row

vars == <<locks, pc, target, grant, unbacked>>

PC == {"idle", "read", "reinsert", "extend", "claim", "delete", "crashed"}

\* A runner that was told nothing, or whose lock has run out, has no time left.
NoGrant == Lapsed

TypeOK ==
  /\ locks \in [Task -> TaskLock \cup {NoLock}]
  /\ pc \in [Runner -> PC]
  /\ target \in [Runner -> Task \cup {NoTask}]
  /\ \A r \in Runner : pc[r] \notin {"idle", "crashed"} => target[r] \in Task
  /\ grant \in [Runner -> [Task -> Lapsed..Timeout]]
  /\ unbacked \in SUBSET (Runner \X Task)

----------------------------------------------------------------------------
(* The statements of src/locking/queries.ts *)

Locked(t) == locks[t] # NoLock

OwnedBy(t, r) == Locked(t) /\ locks[t].owner = r

isTaskLockExpired(t) == locks[t].left = Lapsed

\* Faulty variant: expires_at computed one unit too far.
LongerLock(r) == [owner |-> r, left |-> Timeout + 1]

NewLock(r) == [owner |-> r, left |-> Timeout]

WriteLock(r, t) == locks' = [locks EXCEPT ![t] = NewLock(r)]

Older(n) == IF n = Lapsed THEN Lapsed ELSE n - 1

----------------------------------------------------------------------------

Init ==
  /\ locks = [t \in Task |-> NoLock]
  /\ pc = [r \in Runner |-> "idle"]
  /\ target = [r \in Runner |-> NoTask]
  /\ grant = [r \in Runner |-> [t \in Task |-> NoGrant]]
  /\ unbacked = {}

Goto(r, label, t) ==
  /\ pc' = [pc EXCEPT ![r] = label]
  /\ target' = [target EXCEPT ![r] = t]

Return(r) == Goto(r, "idle", NoTask)

\* acquireTaskLock returns acquired: true, and the lock row is the runner's.
Granted(r, t) ==
  /\ grant' = [grant EXCEPT ![r][t] = Timeout]
  /\ unbacked' = unbacked \ {<<r, t>>}
  /\ Return(r)

\* acquireTaskLock returns acquired: false (TASK_LOCKED).
Denied(r) ==
  /\ Return(r)
  /\ UNCHANGED <<locks, grant, unbacked>>

\* Step 1: tryInsertTaskLock.
AcquireInsert(r, t) ==
  /\ pc[r] = "idle"
  /\ ~Locked(t)
  /\ WriteLock(r, t)
  /\ Granted(r, t)

\* Step 1 fails on the UNIQUE constraint; the row is read next.
AcquireConflict(r, t) ==
  /\ pc[r] = "idle"
  /\ Locked(t)
  /\ Goto(r, "read", t)
  /\ UNCHANGED <<locks, grant, unbacked>>

\* Step 2: getTaskLock, and the branch it selects.
ReadLock(r) ==
  /\ pc[r] = "read"
  /\ LET t == target[r] IN
       \/ ~Locked(t) /\ Goto(r, "reinsert", t)
       \/ OwnedBy(t, r) /\ Goto(r, "extend", t)
       \/ /\ Locked(t) /\ ~OwnedBy(t, r)
          /\ \/ isTaskLockExpired(t) /\ Goto(r, "claim", t)
             \/ ~isTaskLockExpired(t) /\ Return(r)
  /\ UNCHANGED <<locks, grant, unbacked>>

\* The row was deleted since the insert failed: one more tryInsertTaskLock.
Reinsert(r) ==
  /\ pc[r] = "reinsert"
  /\ LET t == target[r] IN
       \/ ~Locked(t) /\ WriteLock(r, t) /\ Granted(r, t)
       \/ Locked(t) /\ Denied(r)

\* Step 3: the lock is ours; extendTaskLock updates the row if it still is.
\* The result of the UPDATE is not looked at: the caller is told "acquired"
\* in both cases.
ExtendOwn(r) ==
  /\ pc[r] = "extend"
  /\ LET t == target[r] IN
       \/ OwnedBy(t, r) /\ WriteLock(r, t) /\ Granted(r, t)
       \/ /\ ~OwnedBy(t, r)
          /\ grant' = [grant EXCEPT ![r][t] = Timeout]
          /\ unbacked' = unbacked \cup {<<r, t>>}
          /\ Return(r)
          /\ UNCHANGED locks

\* Faulty variant: the WHERE clause without its expires_at condition.
ClaimAnyLock(t) == Locked(t)

\* Step 4: claimExpiredTaskLock, guarded by expires_at in its WHERE.
ClaimGuard(t) == Locked(t) /\ isTaskLockExpired(t)

ClaimExpired(r) ==
  /\ pc[r] = "claim"
  /\ LET t == target[r] IN
       \/ ClaimGuard(t) /\ WriteLock(r, t) /\ Granted(r, t)
       \/ ~ClaimGuard(t) /\ Denied(r)

\* releaseTaskLock, first statement: the caller is done with the task, and
\* nothing is deleted unless the row read is its own.
ReleaseRead(r, t) ==
  /\ pc[r] = "idle"
  /\ IF OwnedBy(t, r) THEN Goto(r, "delete", t) ELSE UNCHANGED <<pc, target>>
  /\ grant' = [grant EXCEPT ![r][t] = NoGrant]
  /\ unbacked' = unbacked \ {<<r, t>>}
  /\ UNCHANGED locks

\* Faulty variant: the DELETE trusts the row read by the first statement.
DeleteByTask(t, r) == Locked(t)

\* releaseTaskLock, second statement: DELETE ... WHERE runner_id = ?
DeleteGuard(t, r) == OwnedBy(t, r)

ReleaseDelete(r) ==
  /\ pc[r] = "delete"
  /\ LET t == target[r] IN
       locks' = [locks EXCEPT ![t] = IF DeleteGuard(t, r) THEN NoLock ELSE @]
  /\ Return(r)
  /\ UNCHANGED <<grant, unbacked>>

\* TaskLockManager.extend by a runner between two calls: true when the row
\* is still its own, and then it knows the lock is prolonged.
Extend(r, t) ==
  /\ pc[r] = "idle"
  /\ OwnedBy(t, r)
  /\ WriteLock(r, t)
  /\ Granted(r, t)

\* The runner's process dies; its rows stay behind.
Crash(r) ==
  /\ pc[r] # "crashed"
  /\ Goto(r, "crashed", NoTask)
  /\ grant' = [grant EXCEPT ![r] = [t \in Task |-> NoGrant]]
  /\ unbacked' = unbacked \ ({r} \X Task)
  /\ UNCHANGED locks

RunnerStep(r) ==
  \/ \E t \in Task : \/ AcquireInsert(r, t) \/ AcquireConflict(r, t)
                     \/ ReleaseRead(r, t) \/ Extend(r, t)
  \/ ReadLock(r) \/ Reinsert(r) \/ ExtendOwn(r) \/ ClaimExpired(r)
  \/ ReleaseDelete(r)
  \/ Crash(r)

----------------------------------------------------------------------------
(* The rest of the system *)

\* cleanupExpiredTaskLocks (steroids locks cleanup): expires_at < now.
CleanupExpired ==
  /\ \E t \in Task : Locked(t) /\ locks[t].left < 0
  /\ locks' = [t \in Task |->
                 IF Locked(t) /\ locks[t].left < 0 THEN NoLock ELSE locks[t]]
  /\ UNCHANGED <<pc, target, grant, unbacked>>

\* Faulty variants: a DELETE that runs ahead of the expiry, and one that
\* joins the runners table and so skips the rows of runners that are gone.
SanitisedEarly(t) == Locked(t) /\ locks[t].left <= 1
SanitisedIfAlive(t) ==
  Locked(t) /\ locks[t].left <= 0 /\ pc[locks[t].owner] # "crashed"

\* The rows the periodic sanitise of the wakeup process deletes:
\* expires_at <= now, one instant earlier than every other test of expiry.
Sanitised(t) == Locked(t) /\ locks[t].left <= 0

SanitiseExpired ==
  /\ \E t \in Task : Sanitised(t)
  /\ locks' = [t \in Task |-> IF Sanitised(t) THEN NoLock ELSE locks[t]]
  /\ UNCHANGED <<pc, target, grant, unbacked>>

\* forceRelease: steroids locks release --force, and every recovery that
\* deletes a task's lock without asking who owns it.
ForceRelease(t) ==
  /\ Locked(t)
  /\ locks' = [locks EXCEPT ![t] = NoLock]
  /\ UNCHANGED <<pc, target, grant, unbacked>>

Tick ==
  /\ locks' = [t \in Task |->
                 IF Locked(t) THEN [locks[t] EXCEPT !.left = Older(@)]
                 ELSE NoLock]
  /\ grant' = [r \in Runner |-> [t \in Task |-> Older(grant[r][t])]]
  /\ UNCHANGED <<pc, target, unbacked>>

Next ==
  \/ \E r \in Runner : RunnerStep(r)
  \/ CleanupExpired
  \/ SanitiseExpired
  \/ Tick

Spec == Init /\ [][Next]_vars

\* With an operator, or a recovery, that releases locks by force.
ForcedSpec == Init /\ [][Next \/ \E t \in Task : ForceRelease(t)]_vars

\* The clock advances, and cron runs the wakeup process every minute.
FairSpec == Spec /\ WF_vars(Tick) /\ WF_vars(SanitiseExpired)

----------------------------------------------------------------------------
(* Properties *)

\* A runner that was given time on a task and has some of it left.
Holds(r, t) == grant[r][t] > 0

\* No two runners hold an unexpired lock on one task, as long as each was
\* told "acquired" for a row that was written: the interleavings of insert,
\* read, claim, extend, release and both cleanups never give a task away
\* twice.
ExclusiveLease ==
  \A r, s \in Runner, t \in Task :
    /\ Holds(r, t) /\ <<r, t>> \notin unbacked
    /\ Holds(s, t) /\ <<s, t>> \notin unbacked
    => r = s

\* The claim of task-lock.ts, without that proviso.
ExclusiveGrant ==
  \A r, s \in Runner, t \in Task : Holds(r, t) /\ Holds(s, t) => r = s

\* Why leases are exclusive: what the runner was told is what the table says.
GrantMatchesRow ==
  \A r \in Runner, t \in Task :
    Holds(r, t) /\ <<r, t>> \notin unbacked
      => OwnedBy(t, r) /\ locks[t].left = grant[r][t]

\* A runner between the two statements of a release no longer counts on the
\* lock it is about to delete.
ReleasedBeforeDelete ==
  \A r \in Runner : pc[r] = "delete" => ~Holds(r, target[r])

\* The inductive invariant.
LeaseInv == TypeOK /\ GrantMatchesRow /\ ReleasedBeforeDelete

\* Whatever was read before, and even when locks are released by force, no
\* statement of a runner changes the unexpired lock of another runner: not a
\* late claim of a lock somebody else has claimed since, not a late delete.
ForeignLockUntouched ==
  [][\A r, s \in Runner, t \in Task :
       RunnerStep(r) /\ s # r /\ OwnedBy(t, s) /\ ~isTaskLockExpired(t)
         => locks'[t] = locks[t]]_vars

\* The table is a lease on every task: it changes owner only when free or
\* past its expiry, and only its owner or its expiry ends it.
AbstractLease == INSTANCE Lease
  WITH Client <- Runner, Resource <- Task, Free <- NoLock, lease <- locks

ImplementsLease == AbstractLease!Spec

\* The lock of a runner that died does not keep its task for ever.
CrashedLockIsFreed ==
  \A r \in Runner, t \in Task :
    pc[r] = "crashed" /\ OwnedBy(t, r) ~> ~OwnedBy(t, r)

============================================================================
