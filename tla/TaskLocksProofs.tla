-------------------------- MODULE TaskLocksProofs --------------------------
(* What TLC checks of TaskLocks on small instances, proved for any sets of  *)
(* runners and tasks and any timeout.                                       *)
EXTENDS TaskLocks, TLAPS

USE TimeoutAssumption, NoLockAssumption, NoTaskAssumption

----------------------------------------------------------------------------
(* Rows and clocks *)

\* A new row is a row, and it can be told from "no row".
LEMMA NewLockType ==
  ASSUME NEW r \in Runner
  PROVE  /\ NewLock(r) \in TaskLock
         /\ NewLock(r) # NoLock
         /\ NewLock(r).owner = r /\ NewLock(r).left = Timeout
BY DEF NewLock, TaskLock, Lapsed

\* Time left stays in its range as time passes, and only shrinks.
LEMMA OlderType ==
  ASSUME NEW n \in Lapsed..Timeout
  PROVE  /\ Older(n) \in Lapsed..Timeout
         /\ Older(n) <= n
         /\ n > 0 => Older(n) = n - 1
         /\ Older(n) > 0 => n > 0
BY DEF Older, Lapsed

\* A row that ages is a row of the same owner.
LEMMA AgedLockType ==
  ASSUME NEW l \in TaskLock
  PROVE  /\ [l EXCEPT !.left = Older(@)] \in TaskLock
         /\ [l EXCEPT !.left = Older(@)] # NoLock
         /\ [l EXCEPT !.left = Older(@)].owner = l.owner
         /\ [l EXCEPT !.left = Older(@)].left = Older(l.left)
<1>1. l.left \in Lapsed..Timeout BY DEF TaskLock
<1>2. Older(l.left) \in Lapsed..Timeout BY <1>1, OlderType
<1>3. [l EXCEPT !.left = Older(@)] \in TaskLock BY <1>2 DEF TaskLock
<1>4. QED BY <1>3 DEF TaskLock

----------------------------------------------------------------------------
(* Type correctness, with and without forced releases *)

\* The initial state is well typed.
LEMMA InitType == Init => TypeOK
BY DEF Init, TypeOK, NoGrant, Lapsed, PC

\* So is every state a runner, a cleanup, the clock or a forced release makes.
LEMMA StepType ==
  TypeOK /\ [Next \/ \E t \in Task : ForceRelease(t)]_vars => TypeOK'
<1> SUFFICES ASSUME TypeOK, [Next \/ \E t \in Task : ForceRelease(t)]_vars
             PROVE  TypeOK'
  OBVIOUS
<1> USE DEF TypeOK, PC, Goto, Return, Granted, Denied, WriteLock, NoGrant, Lapsed
<1>1. ASSUME NEW r \in Runner, NEW t \in Task, AcquireInsert(r, t) PROVE TypeOK'
  BY <1>1, NewLockType DEF AcquireInsert
<1>2. ASSUME NEW r \in Runner, NEW t \in Task, AcquireConflict(r, t) PROVE TypeOK'
  BY <1>2 DEF AcquireConflict
<1>3. ASSUME NEW r \in Runner, NEW t \in Task, ReleaseRead(r, t) PROVE TypeOK'
  BY <1>3 DEF ReleaseRead
<1>4. ASSUME NEW r \in Runner, NEW t \in Task, Extend(r, t) PROVE TypeOK'
  BY <1>4, NewLockType DEF Extend
<1>5. ASSUME NEW r \in Runner, ReadLock(r) PROVE TypeOK'
  BY <1>5 DEF ReadLock
<1>6. ASSUME NEW r \in Runner, Reinsert(r) PROVE TypeOK'
  <2>1. PICK t \in Task : t = target[r]
    BY <1>6 DEF Reinsert
  <2>2. \/ WriteLock(r, t) /\ Granted(r, t)
        \/ Denied(r)
    BY ONLY <1>6, <2>1 DEF Reinsert
  <2>3. CASE WriteLock(r, t) /\ Granted(r, t)
    BY <2>3, NewLockType
  <2>4. CASE Denied(r)
    BY <2>4
  <2>5. QED BY <2>2, <2>3, <2>4
<1>7. ASSUME NEW r \in Runner, ExtendOwn(r) PROVE TypeOK'
  <2>1. PICK t \in Task : t = target[r]
    BY <1>7 DEF ExtendOwn
  <2>2. \/ WriteLock(r, t) /\ Granted(r, t)
        \/ /\ grant' = [grant EXCEPT ![r][t] = Timeout]
           /\ unbacked' = unbacked \cup {<<r, t>>}
           /\ Return(r)
           /\ UNCHANGED locks
    BY ONLY <1>7, <2>1 DEF ExtendOwn
  <2>3. CASE WriteLock(r, t) /\ Granted(r, t)
    BY <2>3, NewLockType
  <2>4. CASE /\ grant' = [grant EXCEPT ![r][t] = Timeout]
             /\ unbacked' = unbacked \cup {<<r, t>>}
             /\ Return(r)
             /\ UNCHANGED locks
    BY <2>4
  <2>5. QED BY <2>2, <2>3, <2>4
<1>8. ASSUME NEW r \in Runner, ClaimExpired(r) PROVE TypeOK'
  <2>1. PICK t \in Task : t = target[r]
    BY <1>8 DEF ClaimExpired
  <2>2. \/ WriteLock(r, t) /\ Granted(r, t)
        \/ Denied(r)
    BY ONLY <1>8, <2>1 DEF ClaimExpired
  <2>3. CASE WriteLock(r, t) /\ Granted(r, t)
    BY <2>3, NewLockType
  <2>4. CASE Denied(r)
    BY <2>4
  <2>5. QED BY <2>2, <2>3, <2>4
<1>9. ASSUME NEW r \in Runner, ReleaseDelete(r) PROVE TypeOK'
  BY <1>9 DEF ReleaseDelete
<1>10. ASSUME NEW r \in Runner, Crash(r) PROVE TypeOK'
  BY <1>10 DEF Crash
<1>11. CASE CleanupExpired
  BY <1>11 DEF CleanupExpired
<1>12. CASE SanitiseExpired
  BY <1>12 DEF SanitiseExpired
<1>13. CASE Tick
  <2>1. locks' \in [Task -> TaskLock \cup {NoLock}]
    BY <1>13, AgedLockType DEF Tick, Locked
  <2>2. grant' \in [Runner -> [Task -> Lapsed..Timeout]]
    BY <1>13, OlderType DEF Tick
  <2>3. QED BY <1>13, <2>1, <2>2 DEF Tick
<1>14. ASSUME NEW t \in Task, ForceRelease(t) PROVE TypeOK'
  BY <1>14 DEF ForceRelease
<1>15. CASE UNCHANGED vars
  BY <1>15 DEF vars
<1>16. QED
  BY <1>1, <1>2, <1>3, <1>4, <1>5, <1>6, <1>7, <1>8, <1>9, <1>10, <1>11,
     <1>12, <1>13, <1>14, <1>15 DEF Next, RunnerStep

\* Every reachable state is well typed.
THEOREM TypeCorrect == Spec => []TypeOK
<1>1. TypeOK /\ [Next]_vars => TypeOK'
  BY StepType
<1>2. QED BY InitType, <1>1, PTL DEF Spec

\* Forced releases included.
THEOREM ForcedTypeCorrect == ForcedSpec => []TypeOK
BY InitType, StepType, PTL DEF ForcedSpec

----------------------------------------------------------------------------
(* Exclusive leases *)

\* What GrantMatchesRow says of one runner and one task.
GrantOK(s, u) ==
  Holds(s, u) /\ <<s, u>> \notin unbacked
    => OwnedBy(u, s) /\ locks[u].left = grant[s][u]

\* Writing its own row and telling the runner so keeps grants and rows equal,
\* provided nobody else had time left on that task.
LEMMA WriteKeepsGrants ==
  ASSUME TypeOK, GrantMatchesRow, NEW r \in Runner, NEW t \in Task,
         WriteLock(r, t), Granted(r, t),
         ~Locked(t) \/ OwnedBy(t, r) \/ isTaskLockExpired(t)
  PROVE  GrantMatchesRow'
<1> SUFFICES ASSUME NEW s \in Runner, NEW u \in Task PROVE GrantOK(s, u)'
  BY DEF GrantMatchesRow, GrantOK
<1>1. CASE u # t
  BY <1>1 DEF TypeOK, GrantMatchesRow, GrantOK, Holds, OwnedBy, Locked,
    WriteLock, Granted, NewLock
<1>2. CASE u = t /\ s = r
  BY <1>2, NewLockType DEF TypeOK, GrantOK, Holds, OwnedBy, Locked, WriteLock,
    Granted
<1>3. CASE u = t /\ s # r
  <2>1. ~(Holds(s, u) /\ <<s, u>> \notin unbacked)
    BY <1>3 DEF GrantMatchesRow, Holds, OwnedBy, Locked, isTaskLockExpired,
      Lapsed
  <2>2. grant'[s][u] = grant[s][u] /\ (<<s, u>> \in unbacked' <=> <<s, u>> \in unbacked)
    BY <1>3 DEF TypeOK, Granted
  <2>3. QED BY <2>1, <2>2 DEF GrantOK, Holds
<1>4. QED BY <1>1, <1>2, <1>3

\* Deleting rows that have no time left disturbs no grant.
LEMMA CleanupKeepsGrants ==
  ASSUME TypeOK, GrantMatchesRow, UNCHANGED <<grant, unbacked>>,
         NEW X \in SUBSET Task,
         \A t \in X : Locked(t) /\ locks[t].left <= 0,
         locks' = [t \in Task |-> IF t \in X THEN NoLock ELSE locks[t]]
  PROVE  GrantMatchesRow'
<1> SUFFICES ASSUME NEW s \in Runner, NEW u \in Task PROVE GrantOK(s, u)'
  BY DEF GrantMatchesRow, GrantOK
<1>1. CASE u \in X
  BY <1>1 DEF TypeOK, TaskLock, GrantMatchesRow, GrantOK, Holds, OwnedBy, Locked, Lapsed
<1>2. CASE u \notin X
  BY <1>2 DEF TypeOK, GrantMatchesRow, GrantOK, Holds, OwnedBy, Locked
<1>3. QED BY <1>1, <1>2

\* One step of the system keeps what runners were told equal to the table.
LEMMA StepGrants ==
  ASSUME LeaseInv, [Next]_vars
  PROVE  GrantMatchesRow'
<1> SUFFICES ASSUME TypeOK, GrantMatchesRow PROVE GrantMatchesRow'
  BY DEF LeaseInv
<1>1. ASSUME NEW r \in Runner, NEW t \in Task, AcquireInsert(r, t)
      PROVE  GrantMatchesRow'
  BY <1>1, WriteKeepsGrants DEF AcquireInsert
<1>2. ASSUME NEW r \in Runner, NEW t \in Task, Extend(r, t)
      PROVE  GrantMatchesRow'
  BY <1>2, WriteKeepsGrants DEF Extend
<1>3. ASSUME NEW r \in Runner, Reinsert(r) PROVE GrantMatchesRow'
  <2>1. target[r] \in Task
    BY <1>3 DEF Reinsert, TypeOK
  <2>2. CASE ~Locked(target[r])
    BY <1>3, <2>1, <2>2, WriteKeepsGrants DEF Reinsert
  <2>3. CASE Locked(target[r])
    BY <1>3, <2>3 DEF Reinsert, Denied, GrantMatchesRow, Holds, OwnedBy, Locked
  <2>4. QED BY <2>2, <2>3
<1>4. ASSUME NEW r \in Runner, ExtendOwn(r) PROVE GrantMatchesRow'
  <2>1. PICK t \in Task : t = target[r]
    BY <1>4 DEF ExtendOwn, TypeOK
  <2>2. CASE OwnedBy(t, r)
    BY <1>4, <2>1, <2>2, WriteKeepsGrants DEF ExtendOwn
  <2>3. CASE ~OwnedBy(t, r)
    <3>1. /\ UNCHANGED locks
          /\ grant' = [grant EXCEPT ![r][t] = Timeout]
          /\ unbacked' = unbacked \cup {<<r, t>>}
      BY <1>4, <2>1, <2>3 DEF ExtendOwn
    <3> SUFFICES ASSUME NEW s \in Runner, NEW u \in Task PROVE GrantOK(s, u)'
      BY DEF GrantMatchesRow, GrantOK
    <3>2. CASE s = r /\ u = t
      BY <3>1, <3>2 DEF GrantOK
    <3>3. CASE ~(s = r /\ u = t)
      <4>1. grant'[s][u] = grant[s][u] /\ (<<s, u>> \in unbacked' <=> <<s, u>> \in unbacked)
        BY <3>1, <3>3 DEF TypeOK
      <4>2. QED BY <3>1, <4>1 DEF GrantMatchesRow, GrantOK, Holds, OwnedBy, Locked
    <3>4. QED BY <3>2, <3>3
  <2>4. QED BY <2>2, <2>3
<1>5. ASSUME NEW r \in Runner, ClaimExpired(r) PROVE GrantMatchesRow'
  <2>1. target[r] \in Task
    BY <1>5 DEF ClaimExpired, TypeOK
  <2>2. CASE ClaimGuard(target[r])
    BY <1>5, <2>1, <2>2, WriteKeepsGrants DEF ClaimExpired, ClaimGuard
  <2>3. CASE ~ClaimGuard(target[r])
    BY <1>5, <2>3 DEF ClaimExpired, Denied, GrantMatchesRow, Holds, OwnedBy, Locked
  <2>4. QED BY <2>2, <2>3
<1>6. ASSUME NEW r \in Runner, NEW t \in Task, ReleaseRead(r, t)
      PROVE  GrantMatchesRow'
  <2> SUFFICES ASSUME NEW s \in Runner, NEW u \in Task PROVE GrantOK(s, u)'
    BY DEF GrantMatchesRow, GrantOK
  <2>1. UNCHANGED locks /\ grant' = [grant EXCEPT ![r][t] = NoGrant]
        /\ unbacked' = unbacked \ {<<r, t>>}
    BY <1>6 DEF ReleaseRead
  <2>2. CASE s = r /\ u = t
    BY <2>1, <2>2 DEF TypeOK, GrantOK, Holds, NoGrant, Lapsed
  <2>3. CASE ~(s = r /\ u = t)
    <3>1. grant'[s][u] = grant[s][u] /\ (<<s, u>> \in unbacked' <=> <<s, u>> \in unbacked)
      BY <2>1, <2>3 DEF TypeOK
    <3>2. QED BY <2>1, <3>1 DEF GrantMatchesRow, GrantOK, Holds, OwnedBy, Locked
  <2>4. QED BY <2>2, <2>3
<1>7. ASSUME NEW r \in Runner, ReleaseDelete(r) PROVE GrantMatchesRow'
  <2>1. PICK t \in Task : t = target[r]
    BY <1>7 DEF ReleaseDelete, TypeOK
  <2>2. /\ locks' = [locks EXCEPT ![t] = IF DeleteGuard(t, r) THEN NoLock ELSE @]
        /\ UNCHANGED <<grant, unbacked>>
    BY <1>7, <2>1 DEF ReleaseDelete
  <2>3. ~Holds(r, t)
    BY <1>7, <2>1 DEF ReleaseDelete, LeaseInv, ReleasedBeforeDelete
  <2> SUFFICES ASSUME NEW s \in Runner, NEW u \in Task PROVE GrantOK(s, u)'
    BY DEF GrantMatchesRow, GrantOK
  <2>4. CASE u = t /\ DeleteGuard(t, r)
    \* Whoever holds t owns its row, which is r's: nobody else, and not r.
    BY <2>2, <2>3, <2>4 DEF DeleteGuard, GrantMatchesRow, GrantOK, Holds,
      OwnedBy, Locked
  <2>5. CASE ~(u = t /\ DeleteGuard(t, r))
    <3>1. locks'[u] = locks[u]
      BY <2>2, <2>5 DEF TypeOK
    <3>2. QED BY <2>2, <3>1 DEF GrantMatchesRow, GrantOK, Holds, OwnedBy, Locked
  <2>6. QED BY <2>4, <2>5
<1>8. ASSUME NEW r \in Runner, Crash(r) PROVE GrantMatchesRow'
  <2> SUFFICES ASSUME NEW s \in Runner, NEW u \in Task PROVE GrantOK(s, u)'
    BY DEF GrantMatchesRow, GrantOK
  <2>1. CASE s = r
    BY <1>8, <2>1 DEF Crash, TypeOK, GrantOK, Holds, NoGrant, Lapsed
  <2>2. CASE s # r
    BY <1>8, <2>2 DEF Crash, TypeOK, GrantMatchesRow, GrantOK, Holds, OwnedBy, Locked
  <2>3. QED BY <2>1, <2>2
<1>9. CASE CleanupExpired
  <2> DEFINE X == {t \in Task : Locked(t) /\ locks[t].left < 0}
  <2>1. locks' = [t \in Task |-> IF t \in X THEN NoLock ELSE locks[t]]
    BY <1>9 DEF CleanupExpired
  <2>2. \A t \in X : Locked(t) /\ locks[t].left <= 0
    BY DEF TypeOK, TaskLock, Locked, Lapsed
  <2> HIDE DEF X
  <2>3. QED BY <1>9, <2>1, <2>2, CleanupKeepsGrants DEF CleanupExpired, X
<1>10. CASE SanitiseExpired
  <2> DEFINE X == {t \in Task : Sanitised(t)}
  <2>1. locks' = [t \in Task |-> IF t \in X THEN NoLock ELSE locks[t]]
    BY <1>10 DEF SanitiseExpired
  <2>2. \A t \in X : Locked(t) /\ locks[t].left <= 0
    BY DEF Sanitised
  <2>3. QED BY <1>10, <2>1, <2>2, CleanupKeepsGrants DEF SanitiseExpired
<1>11. CASE Tick
  <2> SUFFICES ASSUME NEW s \in Runner, NEW u \in Task,
                      Holds(s, u)', (<<s, u>> \notin unbacked)'
               PROVE  OwnedBy(u, s)' /\ (locks[u].left = grant[s][u])'
    BY DEF GrantMatchesRow
  <2>1. grant'[s][u] = Older(grant[s][u]) /\ UNCHANGED unbacked
    BY <1>11 DEF Tick
  <2>2. Holds(s, u) /\ <<s, u>> \notin unbacked
    BY <2>1, OlderType DEF Holds, TypeOK
  <2>3. OwnedBy(u, s) /\ locks[u].left = grant[s][u]
    BY <2>2 DEF GrantMatchesRow
  <2>4. locks[u] \in TaskLock
    BY <2>3 DEF OwnedBy, Locked, TypeOK
  <2>5. locks'[u] = [locks[u] EXCEPT !.left = Older(@)]
    BY <1>11, <2>3 DEF Tick, OwnedBy
  <2>6. QED BY <2>1, <2>3, <2>4, <2>5, AgedLockType DEF OwnedBy, Locked
<1>12. ASSUME NEW r \in Runner, NEW t \in Task, AcquireConflict(r, t)
       PROVE  GrantMatchesRow'
  BY <1>12 DEF AcquireConflict, GrantMatchesRow, Holds, OwnedBy, Locked
<1>13. ASSUME NEW r \in Runner, ReadLock(r) PROVE GrantMatchesRow'
  BY <1>13 DEF ReadLock, GrantMatchesRow, Holds, OwnedBy, Locked
<1>14. CASE UNCHANGED vars
  BY <1>14 DEF vars, GrantMatchesRow, Holds, OwnedBy, Locked
<1>15. QED
  BY <1>1, <1>2, <1>3, <1>4, <1>5, <1>6, <1>7, <1>8, <1>9, <1>10, <1>11,
     <1>12, <1>13, <1>14 DEF Next, RunnerStep

\* Nor does a step make a releasing runner count on its lock again.
LEMMA StepReleased ==
  ASSUME LeaseInv, [Next]_vars
  PROVE  ReleasedBeforeDelete'
<1> SUFFICES ASSUME NEW s \in Runner, (pc[s] = "delete")'
             PROVE  ~Holds(s, target[s])'
  BY DEF ReleasedBeforeDelete
<1> USE DEF LeaseInv, TypeOK, ReleasedBeforeDelete, Holds, Goto, Return
<1>1. ASSUME NEW r \in Runner, NEW t \in Task,
             AcquireInsert(r, t) \/ AcquireConflict(r, t) \/ Extend(r, t)
      PROVE  ~Holds(s, target[s])'
  BY <1>1 DEF AcquireInsert, AcquireConflict, Extend, Granted
<1>2. ASSUME NEW r \in Runner, NEW t \in Task, ReleaseRead(r, t)
      PROVE  ~Holds(s, target[s])'
  BY <1>2 DEF ReleaseRead, NoGrant, Lapsed
<1>3. ASSUME NEW r \in Runner, ReadLock(r) \/ ReleaseDelete(r) \/ Crash(r)
      PROVE  ~Holds(s, target[s])'
  BY <1>3 DEF ReadLock, ReleaseDelete, Crash
<1>4. ASSUME NEW r \in Runner, Reinsert(r) \/ ExtendOwn(r) \/ ClaimExpired(r)
      PROVE  ~Holds(s, target[s])'
  <2>1. pc' = [pc EXCEPT ![r] = "idle"] /\ target' = [target EXCEPT ![r] = NoTask]
    BY <1>4 DEF Reinsert, ExtendOwn, ClaimExpired, Granted, Denied
  <2>2. \/ UNCHANGED grant
        \/ grant' = [grant EXCEPT ![r][target[r]] = Timeout]
    BY <1>4 DEF Reinsert, ExtendOwn, ClaimExpired, Granted, Denied
  <2>3. QED BY <2>1, <2>2
<1>5. CASE CleanupExpired \/ SanitiseExpired \/ UNCHANGED vars
  BY <1>5 DEF CleanupExpired, SanitiseExpired, vars
<1>6. CASE Tick
  BY <1>6, OlderType DEF Tick
<1>7. QED
  BY <1>1, <1>2, <1>3, <1>4, <1>5, <1>6 DEF Next, RunnerStep

\* The inductive invariant holds.
THEOREM LeaseInvariant == Spec => []LeaseInv
<1>1. Init => LeaseInv
  BY InitType DEF Init, LeaseInv, GrantMatchesRow, ReleasedBeforeDelete, Holds,
    NoGrant, Lapsed
<1>2. LeaseInv /\ [Next]_vars => LeaseInv'
  BY StepType, StepGrants, StepReleased DEF LeaseInv
<1>3. QED BY <1>1, <1>2, PTL DEF Spec

\* What a runner was told about a lock is what the table says of it.
THEOREM GrantsMatch == Spec => []GrantMatchesRow
BY LeaseInvariant, PTL DEF LeaseInv

\* At most one runner holds an unexpired lock on a task.
THEOREM LeaseIsExclusive == Spec => []ExclusiveLease
<1>1. LeaseInv => ExclusiveLease
  BY DEF LeaseInv, GrantMatchesRow, ExclusiveLease, OwnedBy
<1>2. QED BY <1>1, LeaseInvariant, PTL

----------------------------------------------------------------------------
(* No runner touches the unexpired lock of another one *)

\* Even with locks released by force at any time.
THEOREM ForeignLocksSafe == ForcedSpec => ForeignLockUntouched
<1> DEFINE Untouched ==
      \A r, s \in Runner, t \in Task :
        RunnerStep(r) /\ s # r /\ OwnedBy(t, s) /\ ~isTaskLockExpired(t)
          => locks'[t] = locks[t]
<1>1. TypeOK => Untouched
  <2> SUFFICES ASSUME TypeOK, NEW r \in Runner, NEW s \in Runner, NEW t \in Task,
                      RunnerStep(r), s # r, OwnedBy(t, s), ~isTaskLockExpired(t)
               PROVE  locks'[t] = locks[t]
    OBVIOUS
  <2>1. ASSUME NEW u \in Task, AcquireInsert(r, u) \/ AcquireConflict(r, u)
                                \/ ReleaseRead(r, u) \/ Extend(r, u)
        PROVE  locks'[t] = locks[t]
    BY <2>1 DEF AcquireInsert, AcquireConflict, ReleaseRead, Extend, WriteLock,
      OwnedBy, TypeOK
  <2>2. CASE ReadLock(r) \/ Crash(r)
    BY <2>2 DEF ReadLock, Crash
  <2>3. CASE Reinsert(r) \/ ExtendOwn(r) \/ ClaimExpired(r) \/ ReleaseDelete(r)
    <3>1. PICK u \in Task : u = target[r]
      BY <2>3 DEF Reinsert, ExtendOwn, ClaimExpired, ReleaseDelete, TypeOK
    <3>2. CASE u = t
      BY <2>3, <3>1, <3>2 DEF Reinsert, ExtendOwn, ClaimExpired, ReleaseDelete,
        Denied, ClaimGuard, DeleteGuard, OwnedBy, TypeOK
    <3>3. CASE u # t
      BY <2>3, <3>1, <3>3 DEF Reinsert, ExtendOwn, ClaimExpired, ReleaseDelete,
        Denied, WriteLock, TypeOK
    <3>4. QED BY <3>2, <3>3
  <2>4. QED BY <2>1, <2>2, <2>3 DEF RunnerStep
<1>2. QED BY <1>1, ForcedTypeCorrect, PTL DEF ForeignLockUntouched

----------------------------------------------------------------------------
(* The table implements a lease on every task *)

\* Each statement of the code is one step of the abstract lease, or changes no
\* row at all.
THEOREM TaskLocksImplementLease == Spec => ImplementsLease
<1> USE DEF AbstractLease!Lapsed, Lapsed
<1>1. Init => AbstractLease!Init
  BY DEF Init, AbstractLease!Init
<1>2. TypeOK /\ [Next]_vars => [AbstractLease!Next]_locks
  <2> SUFFICES ASSUME TypeOK, [Next]_vars PROVE [AbstractLease!Next]_locks
    OBVIOUS
  <2>1. ASSUME NEW r \in Runner, NEW t \in Task,
               ~Locked(t) \/ isTaskLockExpired(t), WriteLock(r, t)
        PROVE  AbstractLease!Next
    <3>1. AbstractLease!Acquire(r, t)
      BY <2>1 DEF AbstractLease!Acquire, Locked, isTaskLockExpired, WriteLock,
        NewLock
    <3>2. QED BY <3>1 DEF AbstractLease!Next
  <2>2. ASSUME NEW r \in Runner, NEW t \in Task, OwnedBy(t, r), WriteLock(r, t)
        PROVE  AbstractLease!Next
    <3>1. [locks[t] EXCEPT !.left = Timeout] = NewLock(r)
      BY <2>2 DEF OwnedBy, Locked, NewLock, TypeOK, TaskLock
    <3>2. AbstractLease!Renew(r, t)
      BY <2>2, <3>1 DEF AbstractLease!Renew, OwnedBy, Locked, WriteLock, TypeOK
    <3>3. QED BY <3>2 DEF AbstractLease!Next
  <2>3. ASSUME NEW r \in Runner, ReleaseDelete(r)
        PROVE  AbstractLease!Next \/ UNCHANGED locks
    <3>1. PICK t \in Task : t = target[r]
      BY <2>3 DEF ReleaseDelete, TypeOK
    <3>2. CASE OwnedBy(t, r)
      <4>1. AbstractLease!Release(r, t)
        BY <2>3, <3>1, <3>2 DEF ReleaseDelete, DeleteGuard,
          AbstractLease!Release, OwnedBy, Locked, TypeOK
      <4>2. QED BY <4>1 DEF AbstractLease!Next
    <3>3. CASE ~OwnedBy(t, r)
      BY <2>3, <3>1, <3>3 DEF ReleaseDelete, DeleteGuard, TypeOK
    <3>4. QED BY <3>2, <3>3
  <2>4. ASSUME NEW X \in SUBSET Task,
               \A t \in X : Locked(t) /\ locks[t].left <= 0,
               locks' = [t \in Task |-> IF t \in X THEN NoLock ELSE locks[t]]
        PROVE  AbstractLease!Next
    <3>1. AbstractLease!Drop(X)
      BY <2>4 DEF AbstractLease!Drop, Locked
    <3>2. QED BY <3>1 DEF AbstractLease!Next
  <2>5. ASSUME NEW r \in Runner, RunnerStep(r)
        PROVE  AbstractLease!Next \/ UNCHANGED locks
    <3>1. ASSUME NEW t \in Task, AcquireInsert(r, t) \/ Extend(r, t)
          PROVE  AbstractLease!Next
      BY <3>1, <2>1, <2>2 DEF AcquireInsert, Extend
    <3>2. ASSUME NEW t \in Task, AcquireConflict(r, t) \/ ReleaseRead(r, t)
          PROVE  UNCHANGED locks
      BY <3>2 DEF AcquireConflict, ReleaseRead
    <3>3. CASE ReadLock(r) \/ Crash(r)
      BY <3>3 DEF ReadLock, Crash
    <3>4. CASE Reinsert(r) \/ ExtendOwn(r) \/ ClaimExpired(r)
      <4>1. PICK t \in Task : t = target[r]
        BY <3>4 DEF Reinsert, ExtendOwn, ClaimExpired, TypeOK
      <4>2. \/ UNCHANGED locks
            \/ /\ WriteLock(r, t)
               /\ ~Locked(t) \/ isTaskLockExpired(t) \/ OwnedBy(t, r)
        BY <3>4, <4>1 DEF Reinsert, ExtendOwn, ClaimExpired, Denied, ClaimGuard
      <4>3. QED BY <4>2, <2>1, <2>2
    <3>5. QED BY <2>3, <2>5, <3>1, <3>2, <3>3, <3>4 DEF RunnerStep
  <2>6. CASE CleanupExpired
    <3> DEFINE X == {t \in Task : Locked(t) /\ locks[t].left < 0}
    <3>1. locks' = [t \in Task |-> IF t \in X THEN NoLock ELSE locks[t]]
      BY <2>6 DEF CleanupExpired
    <3>2. \A t \in X : Locked(t) /\ locks[t].left <= 0
      BY DEF TypeOK, TaskLock, Locked
    <3> HIDE DEF X
    <3>3. QED BY <2>4, <3>1, <3>2 DEF X
  <2>7. CASE SanitiseExpired
    <3> DEFINE X == {t \in Task : Sanitised(t)}
    <3>1. locks' = [t \in Task |-> IF t \in X THEN NoLock ELSE locks[t]]
      BY <2>7 DEF SanitiseExpired
    <3>2. \A t \in X : Locked(t) /\ locks[t].left <= 0
      BY DEF Sanitised
    <3>3. QED BY <2>4, <3>1, <3>2
  <2>8. CASE Tick
    <3>1. AbstractLease!Tick
      BY <2>8 DEF Tick, AbstractLease!Tick, Locked, Older, AbstractLease!Older
    <3>2. QED BY <3>1 DEF AbstractLease!Next
  <2>9. CASE UNCHANGED vars
    BY <2>9 DEF vars
  <2>10. QED BY <2>5, <2>6, <2>7, <2>8, <2>9 DEF Next
<1>3. QED
  BY <1>1, <1>2, TypeCorrect, PTL DEF Spec, ImplementsLease, AbstractLease!Spec

============================================================================
