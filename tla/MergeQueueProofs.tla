-------------------------- MODULE MergeQueueProofs --------------------------
(* What TLC checks of MergeQueue on small instances, proved for any sets of *)
(* runners and tasks, any conflicts, and any number of versions, outside    *)
(* pushes, crashes and failures.                                            *)
EXTENDS MergeQueue, SequenceTheorems, TLAPS

USE MaxAttemptsAssumption, NoCommitAssumption, DevAssumption

\* "No commit" is none.
LEMMA NoCommitIsNone == NoCommit \notin Commit
BY DEF Commit

----------------------------------------------------------------------------
(* The invariant by the state it is about *)

RunnersOK ==
  /\ runner \in [Runner -> RunnerState]
  /\ \A r \in Runner : runner[r].pc # "idle" => runner[r].task \in Task
  /\ RunnerInv

RowsOK == tasks \in [Task -> Row] /\ RowInv

BranchesOK ==
  /\ submission \in [Task -> Commit]
  /\ branch \in [Task -> Commit \cup {NoCommit}]
  /\ version \in [Task -> Nat]
  /\ BranchInv

LocksOK ==
  /\ taskLock \in [Task -> Runner \cup {Gone, NoRunner}]
  /\ mergeLock \in [owner : Runner \cup {Gone, NoRunner}, stale : BOOLEAN]
  /\ orphan \in [Task -> {"none", "rebase_coder", "rebase_reviewer"}]
  /\ faults \in Nat /\ crashes \in Nat

LandedOK ==
  /\ target \in Seq(Landed)
  /\ reviewed \in SUBSET (Task \X Nat)
  /\ OnlyReviewedLands
  /\ LandsOnce

\* The five parts make the invariant.
LEMMA Parts ==
  MergeInv <=> RunnersOK /\ RowsOK /\ BranchesOK /\ LocksOK /\ LandedOK
BY DEF MergeInv, TypeOK, RunnersOK, RowsOK, BranchesOK, LocksOK, LandedOK

\* What every step does to the target branch and to the approvals.
Grows ==
  /\ reviewed \subseteq reviewed'
  /\ target' \in Seq(Landed)
  /\ Len(target) <= Len(target')
  /\ \A i \in 1..Len(target) : target'[i] = target[i]

\* A step that leaves both alone lets them grow.
LEMMA Unmoved ==
  ASSUME LandedOK, target' = target, reviewed \subseteq reviewed',
         reviewed' \in SUBSET (Task \X Nat)
  PROVE  Grows /\ LandedOK'
BY DEF Grows, LandedOK, OnlyReviewedLands, LandsOnce

\* What landed stays landed, what was approved stays approved, and what was
\* not among the first commits does not come to be.
LEMMA Stable ==
  ASSUME LandedOK, Grows
  PROVE  /\ \A t \in Task : HasLanded(t) => HasLanded(t)'
         /\ \A t \in Task, c \in Commit : Sound(c, t) => Sound(c, t)'
         /\ \A c \in Commit, n \in 0..Len(target) :
              PatchLanded(c, n)' <=> PatchLanded(c, n)
<1>1. Len(target) \in Nat /\ Len(target') \in Nat
  BY DEF LandedOK, Grows
<1>2. 1..Len(target) \subseteq 1..Len(target') BY <1>1 DEF Grows
<1>3. \A t \in Task : HasLanded(t) => HasLanded(t)'
  BY <1>2 DEF HasLanded, Grows
<1>4. \A t \in Task, c \in Commit : Sound(c, t) => Sound(c, t)'
  BY DEF Sound, Grows
<1>5. ASSUME NEW c \in Commit, NEW n \in 0..Len(target)
      PROVE  PatchLanded(c, n)' <=> PatchLanded(c, n)
  <2>1. \A i \in 1..n : target'[i] = target[i]
    BY <1>1 DEF Grows
  <2>2. QED BY <2>1 DEF PatchLanded
<1>6. QED BY <1>3, <1>4, <1>5

----------------------------------------------------------------------------
(* What the helpers do to well-typed state *)

\* A record keeps its type, and its other fields, when a field changes.
LEMMA RunnerFields ==
  ASSUME NEW s \in RunnerState, NEW label \in PC
  PROVE  /\ [s EXCEPT !.pc = label] \in RunnerState
         /\ [s EXCEPT !.pc = label].pc = label
         /\ [s EXCEPT !.pc = label].task = s.task
         /\ [s EXCEPT !.pc = label].approved = s.approved
         /\ [s EXCEPT !.pc = label].tip = s.tip
         /\ [s EXCEPT !.pc = label].seen = s.seen
         /\ [s EXCEPT !.pc = label].work = s.work
BY DEF RunnerState

LEMMA RowFields ==
  ASSUME NEW row \in Row
  PROVE  /\ \A s \in Status : LET new == [row EXCEPT !.status = s] IN
              new \in Row /\ new.status = s /\ new.approved = row.approved
         /\ \A p \in Phase : LET new == [row EXCEPT !.phase = p] IN
              new \in Row /\ new.status = row.status
                /\ new.approved = row.approved
         /\ \A n \in Nat : LET new == [row EXCEPT !.attempts = n] IN
              new \in Row /\ new.status = row.status
                /\ new.approved = row.approved
BY DEF Row

\* A row that is to be rebased keeps its approval, and its status unless the
\* cap is reached.
LEMMA RebasingRow ==
  ASSUME NEW row \in Row
  PROVE  /\ Rebasing(row) \in Row
         /\ Rebasing(row).approved = row.approved
         /\ Rebasing(row).status \in {row.status, "disputed"}
<1>1. PICK d : d = [row EXCEPT !.status = "disputed"] BY Zenon
<1>2. PICK p : p = [row EXCEPT !.phase = "rebasing"] BY Zenon
<1>3. PICK n : n = row.attempts + 1 BY Zenon
<1>4. n \in Nat BY <1>3 DEF Row
<1>5. d \in Row /\ d.status = "disputed" /\ d.approved = row.approved
  BY <1>1 DEF Row, Status
<1>6. p \in Row /\ p.status = row.status /\ p.approved = row.approved
  BY <1>2 DEF Row, Phase
<1>7. PICK e : e = [d EXCEPT !.phase = "none"] BY Zenon
<1>8. PICK q : q = [p EXCEPT !.attempts = n] BY Zenon
<1>9. e \in Row /\ e.status = "disputed" /\ e.approved = row.approved
  BY <1>5, <1>7 DEF Row, Phase
<1>10. q \in Row /\ q.status = row.status /\ q.approved = row.approved
  BY <1>4, <1>6, <1>8 DEF Row
<1>11. p.attempts = row.attempts BY <1>2 DEF Row
<1>12. Rebasing(row) = IF n > MaxAttempts THEN e ELSE q
  BY <1>1, <1>2, <1>3, <1>7, <1>8, <1>11, Zenon DEF Rebasing, Attempted
<1>13. QED BY <1>9, <1>10, <1>12, Zenon

\* A runner that goes to another label keeps everything else.
LEMMA GotoType ==
  ASSUME runner \in [Runner -> RunnerState],
         NEW r \in Runner, NEW label \in PC, Goto(r, label)
  PROVE  /\ runner' \in [Runner -> RunnerState]
         /\ runner' = [runner EXCEPT ![r] = runner'[r]]
         /\ runner'[r].pc = label
         /\ runner'[r].task = runner[r].task
         /\ runner'[r].approved = runner[r].approved
         /\ runner'[r].tip = runner[r].tip
         /\ runner'[r].seen = runner[r].seen
         /\ runner'[r].work = runner[r].work
<1>1. runner[r] \in RunnerState OBVIOUS
<1>2. PICK n : n = [runner[r] EXCEPT !.pc = label] BY Zenon
<1>3. runner' = [runner EXCEPT ![r] = n] BY <1>2, Zenon DEF Goto
<1>4. n \in RunnerState /\ n.pc = label
  BY <1>1, <1>2, RunnerFields, Zenon
<1>5. /\ n.task = runner[r].task /\ n.approved = runner[r].approved
      /\ n.tip = runner[r].tip /\ n.seen = runner[r].seen
      /\ n.work = runner[r].work
  BY <1>1, <1>2, RunnerFields, Zenon
<1>6. QED BY <1>3, <1>4, <1>5

\* A task whose new row keeps what was promised of it.
LEMMA NewRow ==
  ASSUME RowsOK, LandedOK, Grows, NEW t \in Task, NEW new \in Row,
         tasks' = [tasks EXCEPT ![t] = new],
         new.approved # NoCommit => Sound(new.approved, t)',
         new.status = "merge_pending" => new.approved # NoCommit,
         new.status = "completed" => HasLanded(t)'
  PROVE  RowsOK'
<1>1. tasks' \in [Task -> Row] BY DEF RowsOK
<1>2. ASSUME NEW u \in Task
      PROVE  (/\ tasks[u].approved # NoCommit => Sound(tasks[u].approved, u)
              /\ tasks[u].status = "merge_pending"
                   => tasks[u].approved # NoCommit
              /\ tasks[u].status = "completed" => HasLanded(u))'
  <2>1. CASE u = t BY <2>1 DEF RowsOK, Sound
  <2>2. CASE u # t
    <3>1. tasks'[u] = tasks[u] BY <2>2 DEF RowsOK
    <3>2. tasks[u].approved \in Commit \cup {NoCommit}
      BY DEF RowsOK, Row
    <3>3. /\ tasks[u].approved # NoCommit => Sound(tasks[u].approved, u)
          /\ tasks[u].status = "merge_pending" => tasks[u].approved # NoCommit
          /\ tasks[u].status = "completed" => HasLanded(u)
      BY DEF RowsOK, RowInv
    <3>4. HasLanded(u) => HasLanded(u)' BY Stable
    <3>5. QED BY <3>1, <3>2, <3>3, <3>4 DEF Sound, Grows
  <2>3. QED BY <2>1, <2>2
<1>3. QED BY <1>1, <1>2 DEF RowsOK, RowInv

\* Rows that no step touches.
LEMMA RowsKept ==
  ASSUME RowsOK, LandedOK, Grows, tasks' = tasks
  PROVE  RowsOK'
<1>1. \A u \in Task : tasks[u].approved \in Commit \cup {NoCommit}
  BY DEF RowsOK, Row
<1>2. QED BY <1>1, Stable DEF RowsOK, RowInv

\* The four ways of the code to change a row.
LEMMA RowsChanged ==
  ASSUME RowsOK, LandedOK, Grows, NEW t \in Task,
         \/ \E s \in Status \ {"merge_pending", "completed"} : SetStatus(t, s)
         \/ \E p \in Phase : SetPhase(t, p)
         \/ \E s \in Status \ {"merge_pending"} :
              ClearTo(t, s) /\ (s = "completed" => HasLanded(t)')
         \/ transitionToRebasing(t)
  PROVE  RowsOK'
<1>1. /\ tasks[t] \in Row
      /\ tasks[t].approved \in Commit \cup {NoCommit}
      /\ tasks[t].approved # NoCommit => Sound(tasks[t].approved, t)
      /\ tasks[t].status = "merge_pending" => tasks[t].approved # NoCommit
      /\ tasks[t].status = "completed" => HasLanded(t)
  BY DEF RowsOK, RowInv, Row
<1>2. PICK a : a = tasks[t].approved BY Zenon
<1>20. a # NoCommit => Sound(a, t)'
  BY <1>1, <1>2 DEF Sound, Grows
<1>3. tasks[t].status = "completed" => HasLanded(t)'
  BY <1>1, Stable
<1>4. ASSUME NEW s \in Status \ {"merge_pending", "completed"}, SetStatus(t, s)
      PROVE  RowsOK'
  <2>1. PICK n : n = [tasks[t] EXCEPT !.status = s] BY Zenon
  <2>2. n \in Row /\ n.status = s /\ n.approved = tasks[t].approved
    BY <1>1, <2>1, RowFields, Zenon
  <2>3. tasks' = [tasks EXCEPT ![t] = n] BY <1>4, <2>1, Zenon DEF SetStatus
  <2>4. QED BY <1>2, <1>20, <2>2, <2>3, NewRow
<1>5. ASSUME NEW p \in Phase, SetPhase(t, p) PROVE RowsOK'
  <2>1. PICK n : n = [tasks[t] EXCEPT !.phase = p] BY Zenon
  <2>2. n \in Row /\ n.status = tasks[t].status
          /\ n.approved = tasks[t].approved
    BY <1>1, <2>1, RowFields, Zenon
  <2>3. tasks' = [tasks EXCEPT ![t] = n] BY <1>5, <2>1, Zenon DEF SetPhase
  <2>4. QED BY <1>1, <1>2, <1>20, <1>3, <2>2, <2>3, NewRow
<1>6. ASSUME NEW s \in Status \ {"merge_pending"}, ClearTo(t, s),
             s = "completed" => HasLanded(t)'
      PROVE  RowsOK'
  <2>1. Cleared(s) \in Row /\ Cleared(s).status = s
          /\ Cleared(s).approved = NoCommit
    BY DEF Cleared, Row, Phase
  <2>2. tasks' = [tasks EXCEPT ![t] = Cleared(s)] BY <1>6 DEF ClearTo
  <2>3. QED BY <1>6, <2>1, <2>2, NewRow
<1>7. ASSUME transitionToRebasing(t) PROVE RowsOK'
  <2>1. tasks' = [tasks EXCEPT ![t] = Rebasing(tasks[t])]
    BY <1>7 DEF transitionToRebasing
  <2>2. QED BY <1>1, <1>2, <1>20, <1>3, <2>1, RebasingRow, NewRow
<1>8. QED BY <1>4, <1>5, <1>6, <1>7

\* What a runner has in its hands stays good while it does nothing.
LEMMA HandsKept ==
  ASSUME LandedOK, Grows, NEW s \in RunnerState,
         s.pc # "idle" => s.task \in Task, Hands(s)
  PROVE  Hands(s)'
<1>1. /\ s.approved \in Commit \cup {NoCommit}
      /\ s.tip \in Commit \cup {NoCommit}
      /\ s.work \in Commit \cup {NoCommit}
      /\ s.seen \in Nat
  BY DEF RunnerState
<1>2. s.approved # NoCommit => Sound(s.approved, s.task)'
  BY DEF Hands, Sound, Grows
<1>3. s.pc = "fetch" => s.approved # NoCommit
  BY DEF Hands
<1>4. s.pc = "integrate" => (Sound(s.tip, s.task) /\ s.seen <= Len(target))'
  BY <1>1, LenProperties DEF Hands, Sound, Grows, LandedOK
<1>5. s.pc = "push" =>
        (/\ s.seen <= Len(target)
         /\ s.work = NoCommit => HasLanded(s.task)
         /\ s.work # NoCommit => Sound(s.work, s.task)
                                /\ ~PatchLanded(s.work, s.seen))'
  <2> SUFFICES ASSUME s.pc = "push"
               PROVE  (/\ s.seen <= Len(target)
                       /\ s.work = NoCommit => HasLanded(s.task)
                       /\ s.work # NoCommit => Sound(s.work, s.task)
                                              /\ ~PatchLanded(s.work, s.seen))'
    OBVIOUS
  <2>1. s.seen <= Len(target) /\ s.seen \in 0..Len(target)
    BY <1>1, LenProperties DEF Hands, LandedOK
  <2>2. s.seen <= Len(target')
    BY <1>1, <2>1, LenProperties DEF Grows, LandedOK
  <2>3. s.work = NoCommit => HasLanded(s.task)' BY Stable DEF Hands
  <2>4. s.work # NoCommit => Sound(s.work, s.task)'
    BY DEF Hands, Sound, Grows
  <2>5. s.work # NoCommit => ~PatchLanded(s.work, s.seen)'
    BY <1>1, <2>1, Stable DEF Hands
  <2>6. QED BY <2>2, <2>3, <2>4, <2>5
<1>6. s.pc \in {"cleanup", "complete", "already"} => HasLanded(s.task)'
  BY Stable DEF Hands
<1>7. /\ s.pc = "review_llm" => s.tip \in Commit /\ s.tip.task = s.task
      /\ s.pc = "rebase_push" => s.work # NoCommit /\ s.work.task = s.task
  BY DEF Hands
<1>8. QED BY <1>2, <1>3, <1>4, <1>5, <1>6, <1>7 DEF Hands

\* A step that moves one runner, or none.
LEMMA OneMoved ==
  ASSUME RunnersOK, LandedOK, Grows, NEW r \in Runner, NEW new \in RunnerState,
         runner' = [runner EXCEPT ![r] = new],
         new.pc # "idle" => new.task \in Task, Hands(new)'
  PROVE  RunnersOK'
<1>1. runner' \in [Runner -> RunnerState] BY DEF RunnersOK
<1>2. ASSUME NEW q \in Runner
      PROVE  /\ runner'[q].pc # "idle" => runner'[q].task \in Task
             /\ Hands(runner[q])'
  <2>1. CASE q = r
    <3>1. runner'[q] = new BY <2>1 DEF RunnersOK
    <3>2. QED BY <3>1 DEF Hands, Sound
  <2>2. CASE q # r
    <3>1. PICK s \in RunnerState : s = runner[q] BY DEF RunnersOK
    <3>2. runner'[q] = s BY <2>2, <3>1 DEF RunnersOK
    <3>3. (s.pc # "idle" => s.task \in Task) /\ Hands(s)
      BY <3>1 DEF RunnersOK, RunnerInv
    <3>4. Hands(s)' BY <3>3, HandsKept
    <3>5. QED BY <3>2, <3>3, <3>4 DEF Hands, Sound
  <2>3. QED BY <2>1, <2>2
<1>3. QED BY <1>1, <1>2 DEF RunnersOK, RunnerInv

LEMMA RunnersKept ==
  ASSUME RunnersOK, LandedOK, Grows, runner' = runner
  PROVE  RunnersOK'
<1>1. ASSUME NEW q \in Runner PROVE Hands(runner[q])'
  <2>1. PICK s \in RunnerState : s = runner[q] BY DEF RunnersOK
  <2>2. (s.pc # "idle" => s.task \in Task) /\ Hands(s)
    BY <2>1 DEF RunnersOK, RunnerInv
  <2>3. Hands(s)' BY <2>2, HandsKept
  <2>4. QED BY <2>1, <2>3 DEF Hands, Sound
<1>2. QED BY <1>1 DEF RunnersOK, RunnerInv

\* A runner that is done with its iteration, or dead, has nothing in hands.
LEMMA Forgets ==
  ASSUME RunnersOK, LandedOK, Grows, NEW r \in Runner,
         runner' = [runner EXCEPT ![r] = Idle]
  PROVE  RunnersOK'
<1>1. Idle \in RunnerState /\ Idle.pc = "idle" /\ Idle.approved = NoCommit
  BY DEF Idle, RunnerState, PC, Phase
<1>2. PICK i \in RunnerState : i = Idle BY <1>1
<1>3. Hands(i)' BY <1>1, <1>2 DEF Hands
<1>4. QED BY <1>1, <1>2, <1>3, OneMoved

\* A runner that goes where nothing is asked of its work in the slot.
LEMMA MovesOn ==
  ASSUME RunnersOK, LandedOK, Grows, NEW r \in Runner, runner[r].pc # "idle",
         NEW label \in PC \ {"integrate", "push", "review_llm", "rebase_push"},
         Goto(r, label),
         label = "fetch" => runner[r].approved # NoCommit,
         NEW t \in Task, runner[r].task = t,
         label \in {"cleanup", "complete", "already"} => HasLanded(t)'
  PROVE  RunnersOK'
<1>1. PICK s \in RunnerState : s = runner[r] BY DEF RunnersOK
<1>2. /\ runner' \in [Runner -> RunnerState]
      /\ runner' = [runner EXCEPT ![r] = runner'[r]]
      /\ runner'[r].pc = label
      /\ runner'[r].task = s.task
      /\ runner'[r].approved = s.approved
  BY <1>1, GotoType DEF RunnersOK
<1>3. PICK n \in RunnerState : n = runner'[r] BY <1>2
<1>4. s.task \in Task /\ Hands(s) BY <1>1 DEF RunnersOK, RunnerInv
<1>5. s.approved # NoCommit => Sound(s.approved, s.task)'
  BY <1>4 DEF Hands, Sound, Grows
<1>6. Hands(n)' BY <1>1, <1>2, <1>3, <1>5 DEF Hands, Sound, HasLanded
<1>7. QED BY <1>2, <1>3, <1>4, <1>6, OneMoved

\* A push that the remote takes appends at most one commit.
LEMMA Landing ==
  ASSUME LandedOK, NEW s \in RunnerState, FastForward(s.seen), Land(s)
  PROVE  /\ target' = IF s.work = NoCommit THEN target
                      ELSE Append(target, s.work)
         /\ target' \in Seq(Landed)
         /\ reviewed' = reviewed => Grows
<1>1. target \in Seq(Landed) BY DEF LandedOK
<1>2. SubSeq(target, 1, s.seen) = target
  BY <1>1, SubSeqFull DEF FastForward
<1>3. target' = IF s.work = NoCommit THEN target ELSE Append(target, s.work)
  BY <1>2 DEF Land
<1>4. s.work # NoCommit => s.work \in Landed
  BY DEF RunnerState, Commit, Landed
<1>5. QED BY <1>1, <1>3, <1>4, AppendProperties DEF Grows

\* What lands was approved, and lands once.
LEMMA LandingIsSound ==
  ASSUME LandedOK, NEW s \in RunnerState, s.task \in Task, s.pc = "push",
         Hands(s), FastForward(s.seen), Land(s), reviewed' = reviewed
  PROVE  LandedOK' /\ HasLanded(s.task)'
<1>1. /\ target \in Seq(Landed) /\ target' \in Seq(Landed)
      /\ target' = IF s.work = NoCommit THEN target ELSE Append(target, s.work)
  BY Landing DEF LandedOK
<1>2. CASE s.work = NoCommit
  BY <1>1, <1>2 DEF LandedOK, OnlyReviewedLands, LandsOnce, Hands, HasLanded
<1>3. CASE s.work # NoCommit
  <2>1. /\ s.work \in Commit /\ s.work.task = s.task
        /\ <<s.task, s.work.ver>> \in reviewed
        /\ ~PatchLanded(s.work, Len(target))
    BY <1>3 DEF Hands, Sound, FastForward
  <2>2. /\ Len(target) \in Nat /\ Len(target') = Len(target) + 1
        /\ \A i \in 1..Len(target) : target'[i] = target[i]
        /\ target'[Len(target) + 1] = s.work
    BY <1>1, <1>3, LenProperties, AppendProperties, <2>1
       DEF Commit, Landed
  <2>3. \A i \in 1..Len(target') :
          i \in 1..Len(target) \/ (i = Len(target) + 1 /\ target'[i] = s.work)
    BY <2>2
  <2>4. HasLanded(s.task)'
    BY <2>1, <2>2 DEF HasLanded
  <2>5. OnlyReviewedLands'
    BY <2>1, <2>2, <2>3 DEF LandedOK, OnlyReviewedLands
  <2>6. LandsOnce'
    BY <2>1, <2>2, <2>3 DEF LandedOK, LandsOnce, PatchLanded
  <2>7. QED BY <1>1, <2>4, <2>5, <2>6 DEF LandedOK
<1>4. QED BY <1>2, <1>3


\* A commit made of a new version is a commit of that task.
LEMMA NewVersionType ==
  ASSUME BranchesOK, NEW t \in Task, NEW n \in Nat
  PROVE  NewVersion(t, n) \in Commit /\ NewVersion(t, n).task = t
BY DEF BranchesOK, NewVersion, Commit

----------------------------------------------------------------------------
(* The initial state *)

\* The invariant holds when every task is in its first review.
LEMMA InitInv == Init => MergeInv
<1> SUFFICES ASSUME Init PROVE MergeInv OBVIOUS
<1> USE DEF Init
<1>1. RunnersOK
  BY DEF RunnersOK, RunnerInv, Hands, Idle, RunnerState, PC, Phase
<1>2. RowsOK BY DEF RowsOK, RowInv, Row, Status, Phase
<1>3. submission \in [Task -> Commit] BY DEF Commit
<1>4. BranchesOK BY <1>3 DEF BranchesOK, BranchInv
<1>5. LocksOK BY DEF LocksOK
<1>6. LandedOK BY DEF LandedOK, OnlyReviewedLands, LandsOnce
<1>7. QED BY <1>1, <1>2, <1>4, <1>5, <1>6, Parts

----------------------------------------------------------------------------
(* The steps, from any state of the invariant *)

InvParts == RunnersOK /\ RowsOK /\ BranchesOK /\ LocksOK /\ LandedOK

Preserved == Grows /\ InvParts'

\* A failure, or none, leaves the rest of what this part of the invariant is
\* about alone.
LEMMA LocksKept ==
  ASSUME LocksOK, locks' = locks, crashes' = crashes,
         Fault \/ faults' = faults
  PROVE  LocksOK'
BY DEF LocksOK, locks, Fault

\* A step that lands nothing and approves nothing.
LEMMA Quiet ==
  ASSUME LandedOK, target' = target, reviewed' = reviewed
  PROVE  Grows /\ LandedOK'
BY Unmoved DEF LandedOK

\* A branch, and perhaps a submission, that moves to a commit of its task, or
\* a branch that is deleted.
LEMMA BranchMoved ==
  ASSUME BranchesOK, NEW t \in Task, NEW c \in Commit \cup {NoCommit},
         c # NoCommit => c.task = t,
         branch' = [branch EXCEPT ![t] = c],
         \/ submission' = submission
         \/ c # NoCommit /\ submission' = [submission EXCEPT ![t] = c],
         version' \in [Task -> Nat]
  PROVE  BranchesOK'
<1>1. branch' \in [Task -> Commit \cup {NoCommit}] BY DEF BranchesOK
<1>2. submission' \in [Task -> Commit] BY DEF BranchesOK
<1>3. ASSUME NEW u \in Task
      PROVE  /\ submission'[u].task = u
             /\ branch'[u] # NoCommit => branch'[u].task = u
  <2>1. /\ submission[u].task = u
        /\ branch[u] # NoCommit => branch[u].task = u
    BY DEF BranchesOK, BranchInv
  <2>2. CASE u = t BY <2>1, <2>2 DEF BranchesOK
  <2>3. CASE u # t BY <2>1, <2>3 DEF BranchesOK
  <2>4. QED BY <2>2, <2>3
<1>4. QED BY <1>1, <1>2, <1>3 DEF BranchesOK, BranchInv

\* The reviewer, the coder and the outside world.
LEMMA ReviewSteps ==
  ASSUME InvParts,
         \/ \E t \in Task : Approve(t) \/ Reject(t) \/ Resubmit(t) \/ LatePush(t)
         \/ DevPush
  PROVE  Preserved
<1> USE DEF InvParts
<1>1. ASSUME NEW t \in Task, Approve(t) PROVE Preserved
  <2> USE <1>1 DEF Approve
  <2>1. submission[t] \in Commit /\ submission[t].task = t
          /\ submission[t].ver \in Nat
    BY DEF BranchesOK, BranchInv, Commit
  <2>2. Grows /\ LandedOK'
    <3>1. <<t, submission[t].ver>> \in Task \X Nat BY <2>1
    <3>2. reviewed' \in SUBSET (Task \X Nat) /\ reviewed \subseteq reviewed'
      BY <3>1 DEF LandedOK
    <3>3. QED BY <3>2, Unmoved DEF remote
  <2>3. PICK n : n = [tasks[t] EXCEPT !.status = "merge_pending",
                                      !.phase = "queued",
                                      !.approved = submission[t]]
    BY Zenon
  <2>4. tasks[t] \in Row BY DEF RowsOK
  <2>5. n \in Row /\ n.approved = submission[t] /\ n.status = "merge_pending"
    BY <2>1, <2>3, <2>4 DEF Row, Status, Phase
  <2>6. tasks' = [tasks EXCEPT ![t] = n] BY <2>3, Zenon
  <2>7. Sound(n.approved, t)' BY <2>1, <2>5 DEF Sound
  <2>8. RowsOK'
    BY <2>1, <2>2, <2>5, <2>6, <2>7, NewRow, NoCommitIsNone
  <2>9. RunnersOK' BY <2>2, RunnersKept
  <2>10. BranchesOK' BY DEF BranchesOK, BranchInv, remote
  <2>11. LocksOK' BY DEF LocksOK, locks
  <2>12. QED BY <2>2, <2>8, <2>9, <2>10, <2>11 DEF Preserved
<1>2. ASSUME NEW t \in Task, Reject(t) PROVE Preserved
  <2> USE <1>2 DEF Reject
  <2>1. Grows /\ LandedOK' BY Quiet DEF remote
  <2>2. RowsOK' BY <2>1, RowsChanged DEF Status
  <2>3. RunnersOK' BY <2>1, RunnersKept
  <2>4. BranchesOK' BY DEF BranchesOK, BranchInv, remote
  <2>5. LocksOK' BY DEF LocksOK, locks
  <2>6. QED BY <2>1, <2>2, <2>3, <2>4, <2>5 DEF Preserved
<1>3. ASSUME NEW t \in Task, Resubmit(t) PROVE Preserved
  <2> USE <1>3 DEF Resubmit
  <2>1. Grows /\ LandedOK' BY Quiet
  <2>2. RowsOK' BY <2>1, RowsChanged DEF Status
  <2>3. RunnersOK' BY <2>1, RunnersKept
  <2>4. PICK n : n = IF branch[t] = NoCommit THEN Len(target)
                     ELSE branch[t].base
    BY Zenon
  <2>5. n \in Nat
    BY <2>4, LenProperties DEF BranchesOK, Commit, LandedOK
  <2>6. PICK c : c = NewVersion(t, n) BY Zenon
  <2>7. c \in Commit /\ c.task = t BY <2>5, <2>6, NewVersionType
  <2>8. branch' = [branch EXCEPT ![t] = c]
          /\ submission' = [submission EXCEPT ![t] = c]
    BY <2>4, <2>6
  <2>9. version' \in [Task -> Nat] BY DEF Edited, BranchesOK
  <2>10. BranchesOK' BY <2>7, <2>8, <2>9, BranchMoved, NoCommitIsNone
  <2>11. LocksOK' BY DEF LocksOK, locks
  <2>12. QED BY <2>1, <2>2, <2>3, <2>10, <2>11 DEF Preserved
<1>4. ASSUME NEW t \in Task, LatePush(t) PROVE Preserved
  <2> USE <1>4 DEF LatePush
  <2>1. Grows /\ LandedOK' BY Quiet DEF db
  <2>2. RowsOK' BY <2>1, RowsKept DEF db
  <2>3. RunnersOK' BY <2>1, RunnersKept
  <2>4. PICK c : c = NewVersion(t, submission[t].base) BY Zenon
  <2>5. submission[t].base \in Nat BY DEF BranchesOK, Commit
  <2>6. c \in Commit /\ c.task = t BY <2>4, <2>5, NewVersionType
  <2>7. branch' = [branch EXCEPT ![t] = c] BY <2>4
  <2>8. version' \in [Task -> Nat] BY DEF Edited, BranchesOK
  <2>9. BranchesOK' BY <2>6, <2>7, <2>8, BranchMoved DEF db
  <2>10. LocksOK' BY DEF LocksOK, locks
  <2>11. QED BY <2>1, <2>2, <2>3, <2>9, <2>10 DEF Preserved
<1>5. ASSUME DevPush PROVE Preserved
  <2> USE <1>5 DEF DevPush
  <2>1. PICK c : c = [task |-> Dev, ver |-> Len(target) + 1,
                      base |-> Len(target)]
    BY Zenon
  <2>2. Len(target) \in Nat BY LenProperties DEF LandedOK
  <2>3. c \in Landed /\ c.task = Dev BY <2>1, <2>2 DEF Landed
  <2>4. target' = Append(target, c) BY <2>1
  <2>5. /\ target' \in Seq(Landed) /\ Len(target') = Len(target) + 1
        /\ \A i \in 1..Len(target) : target'[i] = target[i]
        /\ target'[Len(target) + 1] = c
    BY <2>2, <2>3, <2>4, AppendProperties DEF LandedOK
  <2>6. Grows BY <2>2, <2>5 DEF Grows, db
  <2>7. \A i \in 1..Len(target') :
          i \in 1..Len(target) \/ target'[i].task = Dev
    BY <2>2, <2>3, <2>5
  <2>8. LandedOK'
    BY <2>5, <2>7 DEF LandedOK, OnlyReviewedLands, LandsOnce, db
  <2>9. RowsOK' BY <2>6, RowsKept DEF db
  <2>10. RunnersOK' BY <2>6, RunnersKept
  <2>11. BranchesOK' BY DEF BranchesOK, BranchInv, db
  <2>12. LocksOK' BY DEF LocksOK, locks
  <2>13. QED BY <2>6, <2>8, <2>9, <2>10, <2>11, <2>12 DEF Preserved
<1>6. QED BY <1>1, <1>2, <1>3, <1>4, <1>5

\* What a runner that is somewhere in its iteration has.
LEMMA AtTask ==
  ASSUME RunnersOK, NEW r \in Runner, runner[r].pc # "idle"
  PROVE  /\ runner[r] \in RunnerState
         /\ runner[r].task \in Task
         /\ Hands(runner[r])
BY DEF RunnersOK, RunnerInv

\* The locks, while the runner of one lock changes.
LEMMA LocksChanged ==
  ASSUME LocksOK, NEW t \in Task, NEW o \in Runner \cup {Gone, NoRunner},
         taskLock' = [taskLock EXCEPT ![t] = o] \/ taskLock' = taskLock,
         mergeLock' = mergeLock, orphan' = orphan, faults' = faults,
         crashes' = crashes
  PROVE  LocksOK'
BY DEF LocksOK

\* The loop of a runner.
LEMMA LoopSteps ==
  ASSUME InvParts, NEW r \in Runner,
         \/ \E t \in Task : Select(r, t)
         \/ AcquireTaskLock(r) \/ Dispatch(r) \/ ReleaseTaskLock(r)
  PROVE  Preserved
<1> USE DEF InvParts
<1>1. ASSUME NEW t \in Task, Select(r, t) PROVE Preserved
  <2> USE <1>1 DEF Select
  <2>1. Grows /\ LandedOK' BY Quiet DEF db, remote
  <2>2. RowsOK' BY <2>1, RowsKept DEF db
  <2>3. PICK s \in RunnerState : s = runner[r] BY DEF RunnersOK
  <2>4. PICK a : a = tasks[t].approved BY Zenon
  <2>5. PICK p : p = tasks[t].phase BY Zenon
  <2>6. PICK n : n = [s EXCEPT !.pc = "selected", !.task = t, !.phase = p,
                               !.approved = a]
    BY Zenon
  <2>7. /\ a \in Commit \cup {NoCommit} /\ p \in Phase
        /\ a # NoCommit => Sound(a, t)
    BY <2>4, <2>5 DEF RowsOK, RowInv, Row
  <2>8. n \in RunnerState /\ n.pc = "selected" /\ n.task = t /\ n.approved = a
    BY <2>6, <2>7 DEF RunnerState, PC
  <2>9. runner' = [runner EXCEPT ![r] = n]
    BY <2>3, <2>4, <2>5, <2>6, Zenon
  <2>10. Hands(n)' BY <2>1, <2>7, <2>8 DEF Hands, Sound, Grows
  <2>11. RunnersOK' BY <2>1, <2>8, <2>9, <2>10, OneMoved
  <2>12. BranchesOK' BY DEF BranchesOK, BranchInv, db, remote
  <2>13. LocksOK' BY DEF LocksOK, locks
  <2>14. QED BY <2>1, <2>2, <2>11, <2>12, <2>13 DEF Preserved
<1>2. ASSUME AcquireTaskLock(r) PROVE Preserved
  <2> USE <1>2 DEF AcquireTaskLock, At
  <2>1. Grows /\ LandedOK' BY Quiet DEF db, remote
  <2>2. RowsOK' BY <2>1, RowsKept DEF db
  <2>3. PICK t \in Task : runner[r].task = t BY AtTask
  <2>4. Goto(r, "locked") \/ Goto(r, "idle") BY Zenon
  <2>5. RunnersOK' BY <2>1, <2>3, <2>4, MovesOn DEF PC
  <2>6. BranchesOK' BY DEF BranchesOK, BranchInv, db, remote
  <2>7. taskLock' = [taskLock EXCEPT ![t] = r] \/ taskLock' = taskLock
    BY <2>3
  <2>8. LocksOK' BY <2>7, LocksChanged
  <2>9. QED BY <2>1, <2>2, <2>5, <2>6, <2>8 DEF Preserved
<1>3. ASSUME Dispatch(r) PROVE Preserved
  <2> USE <1>3 DEF Dispatch, At
  <2>1. Grows /\ LandedOK' BY Quiet DEF db, remote
  <2>2. RowsOK' BY <2>1, RowsKept DEF db
  <2>3. PICK t \in Task : runner[r].task = t BY AtTask
  <2>4. PICK l \in {"merge_lock", "rebase", "rebase_review"} : Goto(r, l)
    BY DEF Entry
  <2>5. RunnersOK' BY <2>1, <2>3, <2>4, MovesOn DEF PC
  <2>6. BranchesOK' BY DEF BranchesOK, BranchInv, db, remote
  <2>7. LocksOK' BY DEF LocksOK, locks
  <2>8. QED BY <2>1, <2>2, <2>5, <2>6, <2>7 DEF Preserved
<1>4. ASSUME ReleaseTaskLock(r) PROVE Preserved
  <2> USE <1>4 DEF ReleaseTaskLock, At
  <2>1. Grows /\ LandedOK' BY Quiet DEF db, remote
  <2>2. RowsOK' BY <2>1, RowsKept DEF db
  <2>3. RunnersOK' BY <2>1, Forgets
  <2>4. BranchesOK' BY DEF BranchesOK, BranchInv, db, remote
  <2>5. LocksOK' BY DEF LocksOK
  <2>6. QED BY <2>1, <2>2, <2>3, <2>4, <2>5 DEF Preserved
<1>5. QED BY <1>1, <1>2, <1>3, <1>4

\* What Fetched and Made do to the record of a runner.
LEMMA FetchedType ==
  ASSUME RunnersOK, BranchesOK, LandedOK, NEW r \in Runner,
         NEW label \in PC, runner[r].task \in Task, Fetched(r, label)
  PROVE  \E n \in RunnerState :
           /\ runner' = [runner EXCEPT ![r] = n]
           /\ n.pc = label /\ n.task = runner[r].task
           /\ n.approved = runner[r].approved
           /\ n.tip = branch[runner[r].task] /\ n.seen = Len(target)
<1>1. PICK s \in RunnerState : s = runner[r] BY DEF RunnersOK
<1>2. PICK c : c = branch[runner[r].task] BY Zenon
<1>3. PICK k : k = Len(target) BY Zenon
<1>4. c \in Commit \cup {NoCommit} BY <1>2 DEF BranchesOK
<1>5. k \in Nat BY <1>3, LenProperties DEF LandedOK
<1>6. PICK n : n = [s EXCEPT !.pc = label, !.tip = c, !.seen = k] BY Zenon
<1>7. /\ n \in RunnerState /\ n.pc = label /\ n.task = s.task
      /\ n.approved = s.approved /\ n.tip = c /\ n.seen = k
  BY <1>4, <1>5, <1>6 DEF RunnerState
<1>8. runner' = [runner EXCEPT ![r] = n]
  BY <1>1, <1>2, <1>3, <1>6, Zenon DEF Fetched
<1>9. QED BY <1>1, <1>2, <1>3, <1>7, <1>8

LEMMA MadeType ==
  ASSUME RunnersOK, NEW r \in Runner, NEW label \in PC,
         NEW c \in Commit \cup {NoCommit}, Made(r, label, c)
  PROVE  \E n \in RunnerState :
           /\ runner' = [runner EXCEPT ![r] = n]
           /\ n.pc = label /\ n.task = runner[r].task
           /\ n.approved = runner[r].approved
           /\ n.work = c /\ n.seen = runner[r].seen
<1>1. PICK s \in RunnerState : s = runner[r] BY DEF RunnersOK
<1>2. PICK n : n = [s EXCEPT !.pc = label, !.work = c] BY Zenon
<1>3. /\ n \in RunnerState /\ n.pc = label /\ n.task = s.task
      /\ n.approved = s.approved /\ n.work = c /\ n.seen = s.seen
  BY <1>2 DEF RunnerState
<1>4. runner' = [runner EXCEPT ![r] = n] BY <1>1, <1>2, Zenon DEF Made
<1>5. QED BY <1>1, <1>3, <1>4

\* handleMergeAttempt up to the push.
LEMMA MergeSteps ==
  ASSUME InvParts, NEW r \in Runner,
         \/ StartMerge(r) \/ FetchFails(r) \/ fetchAndPrepare(r)
         \/ attemptRebaseAndFastForward(r) \/ IntegrationFails(r)
  PROVE  Preserved
<1> USE DEF InvParts
<1>1. ASSUME StartMerge(r) PROVE Preserved
  <2> USE <1>1 DEF StartMerge, At
  <2>1. Grows /\ LandedOK' BY Quiet DEF remote
  <2>2. PICK t \in Task : runner[r].task = t BY AtTask
  <2>3. tasks' = tasks \/ SetStatus(t, "blocked_error") BY <2>2
  <2>4. RowsOK' BY <2>1, <2>3, RowsKept, RowsChanged DEF Status
  <2>5. \/ Goto(r, "unlock")
        \/ Goto(r, "fetch") /\ runner[r].approved # NoCommit
    BY Zenon
  <2>6. RunnersOK' BY <2>1, <2>2, <2>5, MovesOn DEF PC
  <2>7. BranchesOK' BY DEF BranchesOK, BranchInv, remote
  <2>8. LocksOK'
    <3>1. mergeLock' = mergeLock \/ mergeLock' = [owner |-> r, stale |-> FALSE]
      BY Zenon
    <3>2. [owner |-> r, stale |-> FALSE]
            \in [owner : Runner \cup {Gone, NoRunner}, stale : BOOLEAN]
      OBVIOUS
    <3>3. mergeLock' \in [owner : Runner \cup {Gone, NoRunner},
                          stale : BOOLEAN]
      BY <3>1, <3>2, Zenon DEF LocksOK
    <3>4. QED BY <3>3 DEF LocksOK
  <2>9. QED BY <2>1, <2>4, <2>6, <2>7, <2>8 DEF Preserved
<1>2. ASSUME FetchFails(r) PROVE Preserved
  <2> USE <1>2 DEF FetchFails, At
  <2>1. Grows /\ LandedOK' BY Quiet DEF remote
  <2>2. PICK t \in Task : runner[r].task = t BY AtTask
  <2>3. tasks' = tasks \/ SetStatus(t, "blocked_error") BY <2>2
  <2>4. RowsOK' BY <2>1, <2>3, RowsKept, RowsChanged DEF Status
  <2>5. RunnersOK' BY <2>1, <2>2, MovesOn DEF PC
  <2>6. BranchesOK' BY DEF BranchesOK, BranchInv, remote
  <2>7. LocksOK' BY LocksKept DEF locks
  <2>8. QED BY <2>1, <2>4, <2>5, <2>6, <2>7 DEF Preserved
<1>3. ASSUME fetchAndPrepare(r) PROVE Preserved
  <2> USE <1>3 DEF fetchAndPrepare, At
  <2>1. Grows /\ LandedOK' BY Quiet DEF remote
  <2>2. PICK t \in Task : runner[r].task = t BY AtTask
  <2>3. PICK s \in RunnerState : s = runner[r] BY DEF RunnersOK
  <2>4. s.approved # NoCommit /\ Sound(s.approved, t)
    BY <2>2, <2>3, AtTask DEF Hands
  <2>5. tasks' = tasks \/ ClearTo(t, "review") BY <2>2
  <2>6. RowsOK' BY <2>1, <2>5, RowsKept, RowsChanged DEF Status
  <2>7. BranchesOK' BY DEF BranchesOK, BranchInv, remote
  <2>8. LocksOK' BY DEF LocksOK, locks
  <2>9. CASE IsAncestor(runner[r].approved)
    <3>1. HasLanded(t)' BY <2>1, <2>3, <2>4, <2>9, Stable
      DEF IsAncestor, HasLanded, Sound
    <3>2. RunnersOK' BY <2>1, <2>2, <2>9, <3>1, MovesOn DEF PC
    <3>3. QED BY <2>1, <2>6, <2>7, <2>8, <3>2 DEF Preserved
  <2>10. CASE ~IsAncestor(runner[r].approved)
              /\ HeadApproved(runner[r].approved, t)
    <3>1. Fetched(r, "integrate") BY <2>2, <2>10
    <3>2. PICK n \in RunnerState :
            /\ runner' = [runner EXCEPT ![r] = n]
            /\ n.pc = "integrate" /\ n.task = t
            /\ n.approved = s.approved
            /\ n.tip = branch[t] /\ n.seen = Len(target)
      BY <2>2, <2>3, <3>1, FetchedType DEF PC
    <3>3. n.tip = s.approved BY <2>3, <2>10, <3>2 DEF HeadApproved
    <3>4. target' = target /\ reviewed' = reviewed BY DEF remote
    <3>5. n.seen <= Len(target') BY <3>2, <3>4
    <3>6. Hands(n)' BY <2>4, <3>2, <3>3, <3>4, <3>5 DEF Hands, Sound
    <3>7. RunnersOK' BY <2>1, <3>2, <3>6, OneMoved
    <3>8. QED BY <2>1, <2>6, <2>7, <2>8, <3>7 DEF Preserved
  <2>11. CASE ~IsAncestor(runner[r].approved)
              /\ ~HeadApproved(runner[r].approved, t)
    <3>1. RunnersOK' BY <2>1, <2>2, <2>11, MovesOn DEF PC
    <3>2. QED BY <2>1, <2>6, <2>7, <2>8, <3>1 DEF Preserved
  <2>12. QED BY <2>9, <2>10, <2>11
<1>4. ASSUME attemptRebaseAndFastForward(r) PROVE Preserved
  <2> USE <1>4 DEF attemptRebaseAndFastForward, At
  <2>1. Grows /\ LandedOK' BY Quiet DEF remote
  <2>2. PICK t \in Task : runner[r].task = t BY AtTask
  <2>3. PICK s \in RunnerState : s = runner[r] BY DEF RunnersOK
  <2>4. /\ Sound(s.tip, t) /\ s.seen <= Len(target) /\ Hands(s)
        /\ s.task = t /\ s.seen \in Nat
    BY <2>2, <2>3, AtTask DEF Hands, RunnerState
  <2>5. tasks' = tasks \/ transitionToRebasing(t) BY <2>2
  <2>6. RowsOK' BY <2>1, <2>5, RowsKept, RowsChanged
  <2>7. BranchesOK' BY DEF BranchesOK, BranchInv, remote
  <2>8. LocksOK' BY DEF LocksOK, locks
  <2>9. CASE Goto(r, "release")
    <3>1. RunnersOK' BY <2>1, <2>2, <2>9, MovesOn DEF PC
    <3>2. QED BY <2>1, <2>6, <2>7, <2>8, <3>1 DEF Preserved
  <2>10. CASE Made(r, "push", Integrated(runner[r].tip, runner[r].seen))
    <3>1. PICK c : c = Integrated(s.tip, s.seen) BY Zenon
    <3>2. /\ c \in Commit \cup {NoCommit}
          /\ c = NoCommit => PatchLanded(s.tip, s.seen)
          /\ c # NoCommit => /\ c.task = s.tip.task /\ c.ver = s.tip.ver
                             /\ ~PatchLanded(s.tip, s.seen)
      <4>1. PICK tip \in Commit : tip = s.tip BY <2>4 DEF Sound
      <4>2. PICK m : m = [tip EXCEPT !.base = s.seen] BY Zenon
      <4>3. m \in Commit /\ m.task = tip.task /\ m.ver = tip.ver
        BY <2>4, <4>2 DEF Commit
      <4>4. c = IF PatchLanded(s.tip, s.seen) THEN NoCommit ELSE m
        BY <3>1, <4>1, <4>2, Zenon DEF Integrated
      <4>5. QED BY <4>1, <4>3, <4>4, NoCommitIsNone
    <3>3. Made(r, "push", c) BY <2>3, <2>10, <3>1
    <3>4. PICK n \in RunnerState :
            /\ runner' = [runner EXCEPT ![r] = n]
            /\ n.pc = "push" /\ n.task = t /\ n.approved = s.approved
            /\ n.work = c /\ n.seen = s.seen
      BY <2>2, <2>3, <3>2, <3>3, MadeType DEF PC
    <3>5. Len(target) \in Nat BY LenProperties DEF LandedOK
    <3>6. c = NoCommit => HasLanded(t)
      BY <2>4, <3>2, <3>5 DEF PatchLanded, HasLanded, Sound
    <3>7. c # NoCommit => Sound(c, t) /\ ~PatchLanded(c, s.seen)
      BY <2>4, <3>2 DEF PatchLanded, Sound
    <3>8. Hands(n)
      BY <2>4, <3>4, <3>6, <3>7 DEF Hands
    <3>9. Hands(n)' BY <2>1, <3>4, <3>8, HandsKept
    <3>10. RunnersOK' BY <2>1, <3>4, <3>9, OneMoved
    <3>11. QED BY <2>1, <2>6, <2>7, <2>8, <3>10 DEF Preserved
  <2>11. QED BY <2>9, <2>10, Zenon
<1>5. ASSUME IntegrationFails(r) PROVE Preserved
  <2> USE <1>5 DEF IntegrationFails, At
  <2>1. Grows /\ LandedOK' BY Quiet DEF remote
  <2>2. PICK t \in Task : runner[r].task = t BY AtTask
  <2>3. tasks' = tasks \/ transitionToRebasing(t) BY <2>2
  <2>4. RowsOK' BY <2>1, <2>3, RowsKept, RowsChanged
  <2>5. RunnersOK' BY <2>1, <2>2, MovesOn DEF PC
  <2>6. BranchesOK' BY DEF BranchesOK, BranchInv, remote
  <2>7. LocksOK' BY LocksKept
  <2>8. QED BY <2>1, <2>4, <2>5, <2>6, <2>7 DEF Preserved
<1>6. QED BY <1>1, <1>2, <1>3, <1>4, <1>5

\* handleMergeAttempt from the push on, and its finally block.
LEMMA PushSteps ==
  ASSUME InvParts, NEW r \in Runner,
         \/ PushOk(r) \/ PushRaceLoss(r) \/ PushFails(r)
         \/ cleanupTaskBranch(r) \/ markCompleted(r) \/ ReleaseMergeLock(r)
  PROVE  Preserved
<1> USE DEF InvParts
<1>1. ASSUME PushOk(r) PROVE Preserved
  <2> USE <1>1 DEF PushOk, At
  <2>1. PICK t \in Task : runner[r].task = t BY AtTask
  <2>2. PICK s \in RunnerState : s = runner[r] BY DEF RunnersOK
  <2>3. s.task = t /\ s.pc = "push" /\ Hands(s) BY <2>1, <2>2, AtTask
  <2>4. FastForward(s.seen) /\ Land(s) /\ reviewed' = reviewed
    BY <2>2 DEF db
  <2>5. LandedOK' /\ HasLanded(s.task)' BY <2>3, <2>4, LandingIsSound
  <2>6. Grows BY <2>4, Landing
  <2>7. HasLanded(t)' BY <2>3, <2>5
  <2>8. RowsOK' BY <2>6, RowsKept DEF db
  <2>9. RunnersOK' BY <2>1, <2>6, <2>7, MovesOn DEF PC
  <2>10. BranchesOK' BY DEF BranchesOK, BranchInv, db
  <2>11. LocksOK' BY DEF LocksOK, locks
  <2>12. QED BY <2>5, <2>6, <2>8, <2>9, <2>10, <2>11 DEF Preserved
<1>2. ASSUME PushRaceLoss(r) PROVE Preserved
  <2> USE <1>2 DEF PushRaceLoss, At, AfterRaceLoss
  <2>1. Grows /\ LandedOK' BY Quiet DEF db, remote
  <2>2. PICK t \in Task : runner[r].task = t BY AtTask
  <2>3. RowsOK' BY <2>1, RowsKept DEF db
  <2>4. RunnersOK' BY <2>1, <2>2, MovesOn DEF PC
  <2>5. BranchesOK' BY DEF BranchesOK, BranchInv, db, remote
  <2>6. LocksOK' BY DEF LocksOK, locks
  <2>7. QED BY <2>1, <2>3, <2>4, <2>5, <2>6 DEF Preserved
<1>3. ASSUME PushFails(r) PROVE Preserved
  <2> USE <1>3 DEF PushFails, At
  <2>1. PICK t \in Task : runner[r].task = t BY AtTask
  <2>2. PICK s \in RunnerState : s = runner[r] BY DEF RunnersOK
  <2>3. s.task = t /\ s.pc = "push" /\ Hands(s) BY <2>1, <2>2, AtTask
  <2>4. Grows /\ LandedOK'
    <3>1. CASE target' = target BY <3>1, Quiet
    <3>2. CASE FastForward(s.seen) /\ Land(s)
      BY <2>3, <3>2, Landing, LandingIsSound
    <3>3. QED BY <2>2, <3>1, <3>2
  <2>5. tasks' = tasks \/ SetStatus(t, "blocked_error") BY <2>1
  <2>6. RowsOK' BY <2>4, <2>5, RowsKept, RowsChanged DEF Status
  <2>7. RunnersOK' BY <2>1, <2>4, MovesOn DEF PC
  <2>8. BranchesOK' BY DEF BranchesOK, BranchInv
  <2>9. LocksOK' BY LocksKept
  <2>10. QED BY <2>4, <2>6, <2>7, <2>8, <2>9 DEF Preserved
<1>4. ASSUME cleanupTaskBranch(r) PROVE Preserved
  <2> USE <1>4 DEF cleanupTaskBranch, At
  <2>1. Grows /\ LandedOK' BY Quiet DEF db
  <2>2. PICK t \in Task : runner[r].task = t BY AtTask
  <2>3. RowsOK' BY <2>1, RowsKept DEF db
  <2>4. runner[r].pc = "cleanup" => HasLanded(t)
    BY <2>2, AtTask DEF Hands
  <2>5. \/ runner[r].pc = "cleanup" /\ Goto(r, "complete") /\ HasLanded(t)'
        \/ runner[r].pc = "late_cleanup" /\ Goto(r, "release")
    BY <2>1, <2>4, Stable
  <2>6. RunnersOK' BY <2>1, <2>2, <2>5, MovesOn DEF PC
  <2>7. BranchesOK'
    <3>1. CASE branch' = [branch EXCEPT ![t] = NoCommit]
      BY <3>1, BranchMoved DEF BranchesOK, db
    <3>2. CASE branch' = branch BY <3>2 DEF BranchesOK, BranchInv, db
    <3>3. QED BY <2>2, <3>1, <3>2
  <2>8. LocksOK' BY LocksKept
  <2>9. QED BY <2>1, <2>3, <2>6, <2>7, <2>8 DEF Preserved
<1>5. ASSUME markCompleted(r) PROVE Preserved
  <2> USE <1>5 DEF markCompleted, At
  <2>1. Grows /\ LandedOK' BY Quiet DEF remote
  <2>2. PICK t \in Task : runner[r].task = t BY AtTask
  <2>3. HasLanded(t)'
    <3>1. HasLanded(t) BY <2>2, AtTask DEF Hands
    <3>2. QED BY <2>1, <3>1, Stable
  <2>4. ClearTo(t, "completed") BY <2>2
  <2>5. RowsOK' BY <2>1, <2>3, <2>4, RowsChanged DEF Status
  <2>6. RunnersOK' BY <2>1, <2>2, MovesOn DEF PC
  <2>7. BranchesOK' BY DEF BranchesOK, BranchInv, remote
  <2>8. LocksOK' BY DEF LocksOK, locks
  <2>9. QED BY <2>1, <2>5, <2>6, <2>7, <2>8 DEF Preserved
<1>6. ASSUME ReleaseMergeLock(r) PROVE Preserved
  <2> USE <1>6 DEF ReleaseMergeLock, At
  <2>1. Grows /\ LandedOK' BY Quiet DEF db, remote
  <2>2. PICK t \in Task : runner[r].task = t BY AtTask
  <2>3. RowsOK' BY <2>1, RowsKept DEF db
  <2>4. RunnersOK' BY <2>1, <2>2, MovesOn DEF PC
  <2>5. BranchesOK' BY DEF BranchesOK, BranchInv, db, remote
  <2>6. LocksOK' BY DEF LocksOK
  <2>7. QED BY <2>1, <2>3, <2>4, <2>5, <2>6 DEF Preserved
<1>7. QED BY <1>1, <1>2, <1>3, <1>4, <1>5, <1>6

\* The rebase phase up to the coder's commit.
LEMMA RebaseCoderSteps ==
  ASSUME InvParts, NEW r \in Runner,
         \/ RebaseFetchFails(r) \/ handleRebaseCoder(r)
         \/ RebaseCoderFails(r) \/ RebaseCoderDone(r)
  PROVE  Preserved
<1> USE DEF InvParts
<1>1. ASSUME RebaseFetchFails(r) PROVE Preserved
  <2> USE <1>1 DEF RebaseFetchFails, At
  <2>1. Grows /\ LandedOK' BY Quiet DEF db, remote
  <2>2. PICK t \in Task : runner[r].task = t BY AtTask
  <2>3. RowsOK' BY <2>1, RowsKept DEF db
  <2>4. RunnersOK' BY <2>1, <2>2, MovesOn DEF PC
  <2>5. BranchesOK' BY DEF BranchesOK, BranchInv, db, remote
  <2>6. LocksOK' BY LocksKept
  <2>7. QED BY <2>1, <2>3, <2>4, <2>5, <2>6 DEF Preserved
<1>2. ASSUME handleRebaseCoder(r) PROVE Preserved
  <2> USE <1>2 DEF handleRebaseCoder, At, Block
  <2>1. Grows /\ LandedOK' BY Quiet DEF remote
  <2>2. PICK t \in Task : runner[r].task = t BY AtTask
  <2>3. \/ tasks' = tasks \/ SetStatus(t, "blocked_error")
        \/ SetPhase(t, "queued")
    BY <2>2
  <2>4. RowsOK' BY <2>1, <2>3, RowsKept, RowsChanged DEF Status, Phase
  <2>5. BranchesOK' BY DEF BranchesOK, BranchInv, remote
  <2>6. LocksOK' BY DEF LocksOK, locks
  <2>7. CASE Goto(r, "unlock")
    <3>1. RunnersOK' BY <2>1, <2>2, <2>7, MovesOn DEF PC
    <3>2. QED BY <2>1, <2>4, <2>5, <2>6, <3>1 DEF Preserved
  <2>8. CASE Fetched(r, "rebase_llm")
    <3>1. PICK n \in RunnerState :
            /\ runner' = [runner EXCEPT ![r] = n]
            /\ n.pc = "rebase_llm" /\ n.task = t
            /\ n.approved = runner[r].approved
      BY <2>2, <2>8, FetchedType DEF PC
    <3>2. n.approved # NoCommit => Sound(n.approved, t)
      BY <2>2, <3>1, AtTask DEF Hands
    <3>3. Hands(n)' BY <2>1, <3>1, <3>2 DEF Hands, Sound, Grows
    <3>4. RunnersOK' BY <2>1, <3>1, <3>3, OneMoved
    <3>5. QED BY <2>1, <2>4, <2>5, <2>6, <3>4 DEF Preserved
  <2>9. QED BY <2>7, <2>8, Zenon
<1>3. ASSUME RebaseCoderFails(r) PROVE Preserved
  <2> USE <1>3 DEF RebaseCoderFails, At, Dispute, Block
  <2>1. Grows /\ LandedOK' BY Quiet DEF remote
  <2>2. PICK t \in Task : runner[r].task = t BY AtTask
  <2>3. ClearTo(t, "disputed") \/ SetStatus(t, "blocked_error") BY <2>2
  <2>4. RowsOK' BY <2>1, <2>3, RowsChanged DEF Status
  <2>5. RunnersOK' BY <2>1, <2>2, MovesOn DEF PC
  <2>6. BranchesOK' BY DEF BranchesOK, BranchInv, remote
  <2>7. LocksOK' BY LocksKept
  <2>8. QED BY <2>1, <2>4, <2>5, <2>6, <2>7 DEF Preserved
<1>4. ASSUME RebaseCoderDone(r) PROVE Preserved
  <2> USE <1>4 DEF RebaseCoderDone, At
  <2>1. Grows /\ LandedOK' BY Quiet DEF db
  <2>2. PICK t \in Task : runner[r].task = t BY AtTask
  <2>3. PICK s \in RunnerState : s = runner[r] BY DEF RunnersOK
  <2>4. RowsOK' BY <2>1, RowsKept DEF db
  <2>5. PICK c : c = NewVersion(t, s.seen) BY Zenon
  <2>6. s.seen \in Nat BY DEF RunnerState
  <2>7. c \in Commit /\ c.task = t BY <2>5, <2>6, NewVersionType
  <2>8. Made(r, "rebase_push", c) BY <2>2, <2>3, <2>5
  <2>9. PICK n \in RunnerState :
          /\ runner' = [runner EXCEPT ![r] = n]
          /\ n.pc = "rebase_push" /\ n.task = t
          /\ n.approved = runner[r].approved /\ n.work = c
    BY <2>2, <2>7, <2>8, MadeType DEF PC
  <2>10. n.approved # NoCommit => Sound(n.approved, t)
    BY <2>2, <2>9, AtTask DEF Hands
  <2>11. Hands(n)'
    BY <2>1, <2>7, <2>9, <2>10, NoCommitIsNone DEF Hands, Sound, Grows
  <2>12. RunnersOK' BY <2>1, <2>9, <2>11, OneMoved
  <2>13. BranchesOK' BY <2>2 DEF BranchesOK, BranchInv, Edited, db
  <2>14. LocksOK' BY DEF LocksOK, locks
  <2>15. QED BY <2>1, <2>4, <2>12, <2>13, <2>14 DEF Preserved
<1>5. QED BY <1>1, <1>2, <1>3, <1>4

\* The push of the rebased branch, and the review of it.
LEMMA RebaseReviewSteps ==
  ASSUME InvParts, NEW r \in Runner,
         \/ RebasePush(r) \/ RebaseRecord(r) \/ handleRebaseReview(r)
         \/ RebaseApprove(r) \/ RebaseReject(r) \/ RebaseReviewFails(r)
  PROVE  Preserved
<1> USE DEF InvParts
<1>1. ASSUME RebasePush(r) PROVE Preserved
  <2> USE <1>1 DEF RebasePush, At, Block
  <2>1. Grows /\ LandedOK' BY Quiet
  <2>2. PICK t \in Task : runner[r].task = t BY AtTask
  <2>3. PICK s \in RunnerState : s = runner[r] BY DEF RunnersOK
  <2>4. tasks' = tasks \/ SetStatus(t, "blocked_error") BY <2>2
  <2>5. RowsOK' BY <2>1, <2>4, RowsKept, RowsChanged DEF Status
  <2>6. Goto(r, "rebase_record") \/ Goto(r, "unlock") BY Zenon
  <2>7. RunnersOK' BY <2>1, <2>2, <2>6, MovesOn DEF PC
  <2>8. s.work \in Commit /\ s.work.task = t
    BY <2>2, <2>3, AtTask DEF Hands, RunnerState
  <2>9. BranchesOK'
    <3>1. CASE branch' = [branch EXCEPT ![t] = s.work]
      BY <2>8, <3>1, BranchMoved DEF BranchesOK
    <3>2. CASE branch' = branch BY <3>2 DEF BranchesOK, BranchInv
    <3>3. QED BY <2>2, <2>3, <3>1, <3>2
  <2>10. LocksOK' BY LocksKept
  <2>11. QED BY <2>1, <2>5, <2>7, <2>9, <2>10 DEF Preserved
<1>2. ASSUME RebaseRecord(r) PROVE Preserved
  <2> USE <1>2 DEF RebaseRecord, At
  <2>1. Grows /\ LandedOK' BY Quiet DEF remote
  <2>2. PICK t \in Task : runner[r].task = t BY AtTask
  <2>3. SetPhase(t, "rebase_review") BY <2>2
  <2>4. RowsOK' BY <2>1, <2>3, RowsChanged DEF Phase
  <2>5. RunnersOK' BY <2>1, <2>2, MovesOn DEF PC
  <2>6. BranchesOK' BY DEF BranchesOK, BranchInv, remote
  <2>7. LocksOK' BY DEF LocksOK, locks
  <2>8. QED BY <2>1, <2>4, <2>5, <2>6, <2>7 DEF Preserved
<1>3. ASSUME handleRebaseReview(r) PROVE Preserved
  <2> USE <1>3 DEF handleRebaseReview, At
  <2>1. Grows /\ LandedOK' BY Quiet DEF db, remote
  <2>2. PICK t \in Task : runner[r].task = t BY AtTask
  <2>3. RowsOK' BY <2>1, RowsKept DEF db
  <2>4. branch[t] \in Commit /\ branch[t].task = t
    BY <2>2 DEF BranchesOK, BranchInv
  <2>5. PICK n \in RunnerState :
          /\ runner' = [runner EXCEPT ![r] = n]
          /\ n.pc = "review_llm" /\ n.task = t
          /\ n.approved = runner[r].approved /\ n.tip = branch[t]
    BY <2>2, FetchedType DEF PC
  <2>6. n.approved # NoCommit => Sound(n.approved, t)
    BY <2>2, <2>5, AtTask DEF Hands
  <2>7. Hands(n)' BY <2>1, <2>4, <2>5, <2>6 DEF Hands, Sound, Grows
  <2>8. RunnersOK' BY <2>1, <2>5, <2>7, OneMoved
  <2>9. BranchesOK' BY DEF BranchesOK, BranchInv, db, remote
  <2>10. LocksOK' BY DEF LocksOK, locks
  <2>11. QED BY <2>1, <2>3, <2>8, <2>9, <2>10 DEF Preserved
<1>4. ASSUME RebaseApprove(r) PROVE Preserved
  <2> USE <1>4 DEF RebaseApprove, At
  <2>1. PICK t \in Task : runner[r].task = t BY AtTask
  <2>2. PICK c : c = runner[r].tip BY Zenon
  <2>3. c \in Commit /\ c.task = t /\ c.ver \in Nat
    BY <2>1, <2>2, AtTask DEF Hands, Commit
  <2>4. reviewed' = reviewed \cup {<<t, c.ver>>} BY <2>1, <2>2
  <2>5. Grows /\ LandedOK'
    <3>1. <<t, c.ver>> \in Task \X Nat BY <2>3
    <3>2. reviewed' \in SUBSET (Task \X Nat) /\ reviewed \subseteq reviewed'
      BY <2>4, <3>1 DEF LandedOK
    <3>3. QED BY <3>2, Unmoved DEF remote
  <2>6. PICK row \in Row : row = tasks[t] BY DEF RowsOK
  <2>7. PICK n : n = [row EXCEPT !.phase = "queued", !.approved = c] BY Zenon
  <2>8. n \in Row /\ n.approved = c /\ n.status = row.status
    BY <2>3, <2>7 DEF Row, Phase
  <2>9. tasks' = [tasks EXCEPT ![t] = n] BY <2>1, <2>2, <2>6, <2>7, Zenon
  <2>10. Sound(n.approved, t)' BY <2>3, <2>4, <2>8 DEF Sound
  <2>11. row.status = "completed" => HasLanded(t)'
    BY <2>5, <2>6, Stable DEF RowsOK, RowInv
  <2>12. RowsOK'
    BY <2>3, <2>5, <2>8, <2>9, <2>10, <2>11, NewRow, NoCommitIsNone
  <2>13. RunnersOK' BY <2>1, <2>5, MovesOn DEF PC
  <2>14. BranchesOK' BY DEF BranchesOK, BranchInv, remote
  <2>15. LocksOK' BY DEF LocksOK, locks
  <2>16. QED BY <2>5, <2>12, <2>13, <2>14, <2>15 DEF Preserved
<1>5. ASSUME RebaseReject(r) PROVE Preserved
  <2> USE <1>5 DEF RebaseReject, At
  <2>1. Grows /\ LandedOK' BY Quiet DEF remote
  <2>2. PICK t \in Task : runner[r].task = t BY AtTask
  <2>3. transitionToRebasing(t) BY <2>2
  <2>4. RowsOK' BY <2>1, <2>3, RowsChanged
  <2>5. RunnersOK' BY <2>1, <2>2, MovesOn DEF PC
  <2>6. BranchesOK' BY DEF BranchesOK, BranchInv, remote
  <2>7. LocksOK' BY DEF LocksOK, locks
  <2>8. QED BY <2>1, <2>4, <2>5, <2>6, <2>7 DEF Preserved
<1>6. ASSUME RebaseReviewFails(r) PROVE Preserved
  <2> USE <1>6 DEF RebaseReviewFails, At, Dispute, Block
  <2>1. Grows /\ LandedOK' BY Quiet DEF remote
  <2>2. PICK t \in Task : runner[r].task = t BY AtTask
  <2>3. ClearTo(t, "disputed") \/ SetStatus(t, "blocked_error") BY <2>2
  <2>4. RowsOK' BY <2>1, <2>3, RowsChanged DEF Status
  <2>5. RunnersOK' BY <2>1, <2>2, MovesOn DEF PC
  <2>6. BranchesOK' BY DEF BranchesOK, BranchInv, remote
  <2>7. LocksOK' BY LocksKept
  <2>8. QED BY <2>1, <2>4, <2>5, <2>6, <2>7 DEF Preserved
<1>7. QED BY <1>1, <1>2, <1>3, <1>4, <1>5, <1>6

\* Time, crashes and what the wakeup process does after them.
LEMMA RecoverySteps ==
  ASSUME InvParts,
         \/ \E r \in Runner : MergeLockHeartbeat(r) \/ Crash(r)
         \/ \E t \in Task : Sanitise(t)
         \/ MergeLockGoesStale
  PROVE  Preserved
<1> USE DEF InvParts
<1>1. ASSUME NEW r \in Runner, MergeLockHeartbeat(r) PROVE Preserved
  <2> USE <1>1 DEF MergeLockHeartbeat
  <2>1. Grows /\ LandedOK' BY Quiet DEF db, remote
  <2>2. RowsOK' BY <2>1, RowsKept DEF db
  <2>3. RunnersOK' BY <2>1, RunnersKept
  <2>4. BranchesOK' BY DEF BranchesOK, BranchInv, db, remote
  <2>5. LocksOK' BY DEF LocksOK
  <2>6. QED BY <2>1, <2>2, <2>3, <2>4, <2>5 DEF Preserved
<1>2. ASSUME NEW r \in Runner, Crash(r) PROVE Preserved
  <2> USE <1>2 DEF Crash, At
  <2>1. Grows /\ LandedOK' BY Quiet DEF db, remote
  <2>2. RowsOK' BY <2>1, RowsKept DEF db
  <2>3. RunnersOK' BY <2>1, Forgets
  <2>4. BranchesOK' BY DEF BranchesOK, BranchInv, db, remote
  <2>5. taskLock' \in [Task -> Runner \cup {Gone, NoRunner}] BY DEF LocksOK
  <2>6. PICK t \in Task : runner[r].task = t BY AtTask
  <2>7. orphan' \in [Task -> {"none", "rebase_coder", "rebase_reviewer"}]
    BY <2>6 DEF LocksOK
  <2>8. mergeLock' \in [owner : Runner \cup {Gone, NoRunner},
                        stale : BOOLEAN]
    BY DEF LocksOK
  <2>9. LocksOK' BY <2>5, <2>7, <2>8 DEF LocksOK
  <2>10. QED BY <2>1, <2>2, <2>3, <2>4, <2>9 DEF Preserved
<1>3. ASSUME NEW t \in Task, RecoverInvocation(t) PROVE Preserved
  <2> USE <1>3 DEF RecoverInvocation
  <2>1. Grows /\ LandedOK' BY Quiet DEF remote
  <2>2. RunnersOK' BY <2>1, RunnersKept
  <2>3. BranchesOK' BY DEF BranchesOK, BranchInv, remote
  <2>4. LocksOK' BY DEF LocksOK
  <2>5. RowsOK'
    <3>1. CASE tasks' = tasks BY <2>1, <3>1, RowsKept
    <3>2. CASE SetPhase(t, "queued") BY <2>1, <3>2, RowsChanged DEF Phase
    <3>3. CASE tasks' = [tasks EXCEPT ![t] = Attempted(@)]
      <4>1. PICK row \in Row : row = tasks[t] BY DEF RowsOK
      <4>2. PICK n : n = Attempted(row) BY Zenon
      <4>3. row.attempts + 1 \in Nat BY DEF Row
      <4>4. n \in Row /\ n.status = row.status /\ n.approved = row.approved
        BY <4>2, <4>3 DEF Row, Phase, Attempted
      <4>6. tasks' = [tasks EXCEPT ![t] = n] BY <3>3, <4>1, <4>2, Zenon
      <4>7. PICK a : a = row.approved BY Zenon
      <4>8. a # NoCommit => Sound(a, t)'
        BY <2>1, <4>1, <4>7 DEF RowsOK, RowInv, Sound, Grows
      <4>9. row.status = "completed" => HasLanded(t)'
        BY <2>1, <4>1, Stable DEF RowsOK, RowInv
      <4>10. row.status = "merge_pending" => a # NoCommit
        BY <4>1, <4>7 DEF RowsOK, RowInv
      <4>11. QED BY <2>1, <4>4, <4>6, <4>7, <4>8, <4>9, <4>10, NewRow
    <3>4. QED BY <3>1, <3>2, <3>3, Zenon
  <2>6. QED BY <2>1, <2>2, <2>3, <2>4, <2>5 DEF Preserved
<1>4. ASSUME NEW t \in Task, DeleteOrphanLock(t) PROVE Preserved
  <2> USE <1>4 DEF DeleteOrphanLock
  <2>1. Grows /\ LandedOK' BY Quiet DEF db, remote
  <2>2. RowsOK' BY <2>1, RowsKept DEF db
  <2>3. RunnersOK' BY <2>1, RunnersKept
  <2>4. BranchesOK' BY DEF BranchesOK, BranchInv, db, remote
  <2>5. LocksOK' BY LocksChanged
  <2>6. QED BY <2>1, <2>2, <2>3, <2>4, <2>5 DEF Preserved
<1>5. ASSUME MergeLockGoesStale PROVE Preserved
  <2> USE <1>5 DEF MergeLockGoesStale
  <2>1. Grows /\ LandedOK' BY Quiet DEF db, remote
  <2>2. RowsOK' BY <2>1, RowsKept DEF db
  <2>3. RunnersOK' BY <2>1, RunnersKept
  <2>4. BranchesOK' BY DEF BranchesOK, BranchInv, db, remote
  <2>5. LocksOK' BY DEF LocksOK
  <2>6. QED BY <2>1, <2>2, <2>3, <2>4, <2>5 DEF Preserved
<1>6. QED BY <1>1, <1>2, <1>3, <1>4, <1>5 DEF Sanitise

\* A step that changes nothing.
LEMMA Stutters ==
  ASSUME InvParts, UNCHANGED vars
  PROVE  Preserved
<1> USE DEF InvParts, vars
<1>1. Grows /\ LandedOK' BY Quiet
<1>2. RowsOK' BY <1>1, RowsKept
<1>3. RunnersOK' BY <1>1, RunnersKept
<1>4. BranchesOK' BY DEF BranchesOK, BranchInv
<1>5. LocksOK' BY DEF LocksOK
<1>6. QED BY <1>1, <1>2, <1>3, <1>4, <1>5 DEF Preserved

\* Every step lets the target grow, and preserves the invariant.
LEMMA EveryStep ==
  ASSUME MergeInv, [Next]_vars
  PROVE  MergeInv' /\ Grows
<1>1. InvParts BY Parts DEF InvParts
<1>2. Preserved
  BY <1>1, ReviewSteps, LoopSteps, MergeSteps, PushSteps, RebaseCoderSteps,
     RebaseReviewSteps, RecoverySteps, Stutters
     DEF Next, Step, MergeStep, RebaseStep
<1>3. InvParts' => MergeInv'
  BY DEF InvParts, MergeInv, TypeOK, RunnersOK, RowsOK, BranchesOK, LocksOK,
         LandedOK
<1>4. QED BY <1>2, <1>3 DEF Preserved

----------------------------------------------------------------------------
(* The theorems *)

\* The inductive invariant: in every reachable state the rows, the branches
\* and what each runner has in its hands are sound, and so is the target.
THEOREM MergeInvariant == Spec => []MergeInv
<1>1. MergeInv /\ [Next]_vars => MergeInv' BY EveryStep
<1>2. QED BY InitInv, <1>1, PTL DEF Spec

\* Every variable keeps its type.
THEOREM TypeCorrect == Spec => []TypeOK
<1>1. MergeInv => TypeOK BY DEF MergeInv
<1>2. QED BY MergeInvariant, <1>1, PTL

\* Nothing lands that no reviewer approved in that very version.
THEOREM OnlyReviewed == Spec => []OnlyReviewedLands
<1>1. MergeInv => OnlyReviewedLands BY DEF MergeInv
<1>2. QED BY MergeInvariant, <1>1, PTL

\* No version of a task lands twice.
THEOREM LandedOnce == Spec => []LandsOnce
<1>1. MergeInv => LandsOnce BY DEF MergeInv
<1>2. QED BY MergeInvariant, <1>1, PTL

\* A task is completed only after some version of it has landed.
THEOREM CompletedLanded == Spec => []CompletedHasLanded
<1>1. MergeInv => CompletedHasLanded
  BY DEF MergeInv, RowInv, CompletedHasLanded
<1>2. QED BY MergeInvariant, <1>1, PTL

\* A task in the merge queue has a commit that some reviewer approved.
THEOREM PendingApproved == Spec => []MergePendingHasApproval
<1>1. MergeInv => MergePendingHasApproval
  BY DEF MergeInv, RowInv, Sound, MergePendingHasApproval
<1>2. QED BY MergeInvariant, <1>1, PTL

\* No push takes away what is on the target branch.
THEOREM TargetGrows == Spec => TargetOnlyGrows
<1>1. ASSUME MergeInv, [Next]_vars
      PROVE  SubSeq(target', 1, Len(target)) = target
  <2>1. Grows BY <1>1, EveryStep
  <2>2. target \in Seq(Landed) BY <1>1 DEF MergeInv, TypeOK
  <2>3. /\ Len(target) \in Nat /\ Len(target') \in Nat
        /\ Len(target) <= Len(target') /\ target' \in Seq(Landed)
        /\ \A i \in 1..Len(target) : target'[i] = target[i]
    BY <2>1, <2>2, LenProperties DEF Grows
  <2>4. PICK s : s = SubSeq(target', 1, Len(target)) BY Zenon
  <2>5. /\ s \in Seq(Landed) /\ Len(s) = Len(target)
        /\ \A i \in 1..Len(target) : s[i] = target'[i]
    BY <2>3, <2>4, SubSeqProperties
  <2>6. s = target BY <2>2, <2>3, <2>5, SeqEqual
  <2>7. QED BY <2>4, <2>6
<1>2. MergeInv /\ [Next]_vars
        => [SubSeq(target', 1, Len(target)) = target]_vars
  BY <1>1
<1>3. QED BY MergeInvariant, <1>2, PTL DEF Spec, TargetOnlyGrows

----------------------------------------------------------------------------
(* The refinement: the queue keeps what ReviewedTrunk promises *)

Done == {t \in Task : tasks[t].status = "completed"}

TrunkStep == [Trunk!Next]_(Trunk!vars)

\* No row but that of t changes.
Only(t) == \A u \in Task \ {t} : tasks'[u] = tasks[u]

\* A step on one row alone completes its task, which has landed, or takes it
\* up again, or leaves it as done, or not done, as it was.
LEMMA RowStep ==
  ASSUME MergeInv, MergeInv', NEW t \in Task, Only(t),
         target' = target, reviewed' = reviewed
  PROVE  TrunkStep
<1>1. CASE tasks'[t].status = "completed"
  <2>1. HasLanded(t)'
    BY <1>1 DEF MergeInv, RowInv
  <2>2. Trunk!On(t) BY <2>1 DEF HasLanded, Trunk!On
  <2>3. Done' = Done \cup {t} BY <1>1 DEF Done, Only
  <2>4. Trunk!Complete(t) BY <2>2, <2>3 DEF Trunk!Complete, Done
  <2>5. QED BY <2>4 DEF TrunkStep, Trunk!Next
<1>2. CASE tasks'[t].status # "completed"
  <2>1. Done' = Done \ {t} BY <1>2 DEF Done, Only
  <2>2. Trunk!Reopen(t) BY <2>1 DEF Trunk!Reopen, Done
  <2>3. QED BY <2>2 DEF TrunkStep, Trunk!Next
<1>3. QED BY <1>1, <1>2

\* A step that touches neither rows, nor approvals, nor the target.
LEMMA TrunkUnmoved ==
  ASSUME tasks' = tasks, target' = target, reviewed' = reviewed
  PROVE  TrunkStep
BY DEF TrunkStep, Trunk!vars

\* Each way of the code to change a row is a change of one row.
LEMMA ChangesOne ==
  ASSUME MergeInv, NEW t \in Task,
         \/ \E s \in Status : SetStatus(t, s) \/ ClearTo(t, s)
         \/ \E p \in Phase : SetPhase(t, p)
         \/ transitionToRebasing(t)
         \/ tasks' = [tasks EXCEPT ![t] = Attempted(@)]
  PROVE  Only(t)
BY DEF Only, MergeInv, TypeOK, SetStatus, ClearTo, SetPhase,
       transitionToRebasing

\* An approval of one version.
LEMMA ApprovalStep ==
  ASSUME NEW p, reviewed' = reviewed \cup {p}, target' = target, Done' = Done
  PROVE  TrunkStep
<1>1. p \in reviewed' OBVIOUS
<1>2. Trunk!Approve BY <1>1 DEF Trunk!Approve, Done
<1>3. QED BY <1>2 DEF TrunkStep, Trunk!Next

\* What Append puts on top of the target.
LEMMA TopOfTarget ==
  ASSUME target \in Seq(Landed), NEW c \in Landed, target' = Append(target, c)
  PROVE  Trunk!Grown /\ Trunk!Top = c
BY LenProperties, AppendProperties DEF Trunk!Grown, Trunk!Top

\* A push that the remote takes lands what is in hand, which was approved
\* and has not landed, while its task's row may become that of a failure.
LEMMA LandStep ==
  ASSUME MergeInv, MergeInv', NEW r \in Runner, At(r, "push"),
         NEW t \in Task, runner[r].task = t,
         FastForward(runner[r].seen), Land(runner[r]), reviewed' = reviewed,
         tasks' = tasks \/ SetStatus(t, "blocked_error")
  PROVE  TrunkStep
<1>1. PICK s \in RunnerState : s = runner[r] BY DEF MergeInv, TypeOK
<1>2. /\ LandedOK /\ Hands(s) /\ s.task = t /\ s.pc = "push"
      /\ FastForward(s.seen) /\ Land(s)
  BY <1>1, Parts DEF MergeInv, RunnerInv, At
<1>3. target' = IF s.work = NoCommit THEN target ELSE Append(target, s.work)
  BY <1>2, Landing
<1>4. CASE s.work = NoCommit
  <2>1. CASE tasks' = tasks BY <1>3, <1>4, <2>1, TrunkUnmoved
  <2>2. CASE SetStatus(t, "blocked_error")
    BY <1>3, <1>4, <2>2, ChangesOne, RowStep DEF Status
  <2>3. QED BY <2>1, <2>2
<1>5. CASE s.work # NoCommit
  <2>1. PICK c \in Commit : c = s.work BY <1>5 DEF RunnerState
  <2>2. c.task = t /\ <<t, c.ver>> \in reviewed /\ ~PatchLanded(c, Len(target))
    BY <1>2, <1>5, <2>1 DEF Hands, Sound, FastForward
  <2>3. c \in Landed BY DEF Commit, Landed
  <2>4. Trunk!Grown /\ Trunk!Top = c
    BY <1>2, <1>3, <1>5, <2>1, <2>3, TopOfTarget DEF LandedOK
  <2>5. ~Trunk!Carries(t, c.ver)
    BY <2>2 DEF PatchLanded, Trunk!Carries
  <2>6. Done' \in {Done, Done \ {t}}
    <3>1. CASE tasks' = tasks BY <3>1 DEF Done
    <3>2. CASE SetStatus(t, "blocked_error")
      BY <3>2 DEF SetStatus, Done, MergeInv, TypeOK, Row
    <3>3. QED BY <3>1, <3>2
  <2>7. Trunk!Land(t) BY <2>2, <2>4, <2>5, <2>6 DEF Trunk!Land, Done
  <2>8. QED BY <2>7 DEF TrunkStep, Trunk!Next
<1>6. QED BY <1>4, <1>5


\* The steps that are approvals, landings and pushes from outside.
LEMMA VisibleSteps ==
  ASSUME MergeInv, MergeInv',
         \/ \E t \in Task : Approve(t)
         \/ DevPush
         \/ \E r \in Runner : RebaseApprove(r) \/ PushOk(r) \/ PushFails(r)
  PROVE  TrunkStep
<1>0. tasks \in [Task -> Row] /\ RunnersOK /\ target \in Seq(Landed)
  BY Parts DEF MergeInv, TypeOK
<1>1. ASSUME NEW t \in Task, Approve(t) PROVE TrunkStep
  <2>1. Done' = Done BY <1>0, <1>1 DEF Approve, Done, Row
  <2>2. QED BY <1>1, <2>1, ApprovalStep DEF Approve, remote
<1>2. ASSUME DevPush PROVE TrunkStep
  <2>1. PICK c : c = [task |-> Dev, ver |-> Len(target) + 1,
                      base |-> Len(target)]
    BY Zenon
  <2>2. c \in Landed /\ c.task = Dev
    BY <1>0, <2>1, LenProperties DEF Landed
  <2>3. target' = Append(target, c) BY <1>2, <2>1 DEF DevPush
  <2>4. Trunk!Grown /\ Trunk!Top = c BY <1>0, <2>2, <2>3, TopOfTarget
  <2>5. Trunk!PushDirectly
    BY <1>2, <2>2, <2>4 DEF DevPush, db, Trunk!PushDirectly
  <2>6. QED BY <2>5 DEF TrunkStep, Trunk!Next
<1>3. ASSUME NEW r \in Runner, RebaseApprove(r) PROVE TrunkStep
  <2>1. Done' = Done BY <1>0, <1>3 DEF RebaseApprove, Done, Row
  <2>2. QED BY <1>3, <2>1, ApprovalStep DEF RebaseApprove, remote
<1>4. ASSUME NEW r \in Runner, PushOk(r) PROVE TrunkStep
  <2>1. PICK t \in Task : runner[r].task = t
    BY <1>0, <1>4, AtTask DEF PushOk, At
  <2>2. QED BY <1>4, <2>1, LandStep DEF PushOk, db
<1>5. ASSUME NEW r \in Runner, PushFails(r) PROVE TrunkStep
  <2>1. PICK t \in Task : runner[r].task = t
    BY <1>0, <1>5, AtTask DEF PushFails, At
  <2>2. /\ At(r, "push") /\ reviewed' = reviewed
        /\ tasks' = tasks \/ SetStatus(t, "blocked_error")
        /\ \/ target' = target
           \/ FastForward(runner[r].seen) /\ Land(runner[r])
    BY <1>5, <2>1 DEF PushFails
  <2>3. CASE target' = target
    BY <2>2, <2>3, TrunkUnmoved, ChangesOne, RowStep DEF Status
  <2>4. CASE FastForward(runner[r].seen) /\ Land(runner[r])
    BY <2>1, <2>2, <2>4, LandStep
  <2>5. QED BY <2>2, <2>3, <2>4
<1>6. QED BY <1>1, <1>2, <1>3, <1>4, <1>5

\* The steps of a runner that change at most the row of its task.
LEMMA RunnerSteps ==
  ASSUME MergeInv, NEW r \in Runner,
         \/ StartMerge(r) \/ FetchFails(r) \/ fetchAndPrepare(r)
         \/ attemptRebaseAndFastForward(r) \/ IntegrationFails(r)
         \/ markCompleted(r) \/ handleRebaseCoder(r) \/ RebaseCoderFails(r)
         \/ RebasePush(r) \/ RebaseRecord(r) \/ RebaseReject(r)
         \/ RebaseReviewFails(r)
  PROVE  /\ target' = target /\ reviewed' = reviewed
         /\ tasks' = tasks \/ \E t \in Task : Only(t)
<1> DEFINE t == runner[r].task
<1>1. runner[r].pc # "idle"
  BY DEF At, StartMerge, FetchFails, fetchAndPrepare,
         attemptRebaseAndFastForward, IntegrationFails, markCompleted,
         handleRebaseCoder, RebaseCoderFails, RebasePush, RebaseRecord,
         RebaseReject, RebaseReviewFails
<1>2. t \in Task BY <1>1 DEF MergeInv, TypeOK
<1>3. target' = target /\ reviewed' = reviewed
  BY DEF remote, StartMerge, FetchFails, fetchAndPrepare,
         attemptRebaseAndFastForward, IntegrationFails, markCompleted,
         handleRebaseCoder, RebaseCoderFails, RebasePush, RebaseRecord,
         RebaseReject, RebaseReviewFails
<1>4. ASSUME StartMerge(r) \/ FetchFails(r) \/ handleRebaseCoder(r)
               \/ RebasePush(r) \/ RebaseRecord(r)
      PROVE  \/ tasks' = tasks
             \/ SetStatus(t, "blocked_error")
             \/ SetPhase(t, "queued") \/ SetPhase(t, "rebase_review")
  BY <1>4 DEF StartMerge, FetchFails, handleRebaseCoder, RebasePush,
              RebaseRecord, Block
<1>5. ASSUME \/ fetchAndPrepare(r) \/ attemptRebaseAndFastForward(r)
             \/ IntegrationFails(r) \/ RebaseReject(r)
      PROVE  tasks' = tasks \/ ClearTo(t, "review") \/ transitionToRebasing(t)
  BY <1>5 DEF fetchAndPrepare, attemptRebaseAndFastForward, IntegrationFails,
              RebaseReject
<1>6. ASSUME markCompleted(r) \/ RebaseCoderFails(r) \/ RebaseReviewFails(r)
      PROVE  \/ ClearTo(t, "completed") \/ ClearTo(t, "disputed")
             \/ SetStatus(t, "blocked_error")
  BY <1>6 DEF markCompleted, RebaseCoderFails, RebaseReviewFails, Dispute,
              Block
<1>7. tasks' = tasks \/ Only(t)
  BY <1>2, <1>4, <1>5, <1>6, ChangesOne DEF Status, Phase
<1>8. QED BY <1>2, <1>3, <1>7

\* The steps that touch nothing the trunk is about.
LEMMA InvisibleSteps ==
  ASSUME \/ \E t \in Task : LatePush(t) \/ DeleteOrphanLock(t)
         \/ \E r \in Runner :
              \/ \E t \in Task : Select(r, t)
              \/ AcquireTaskLock(r) \/ Dispatch(r) \/ ReleaseTaskLock(r)
              \/ PushRaceLoss(r) \/ cleanupTaskBranch(r)
              \/ ReleaseMergeLock(r) \/ RebaseFetchFails(r)
              \/ RebaseCoderDone(r) \/ handleRebaseReview(r)
              \/ MergeLockHeartbeat(r) \/ Crash(r)
         \/ MergeLockGoesStale
         \/ UNCHANGED vars
  PROVE  TrunkStep
<1>1. tasks' = tasks /\ reviewed' = reviewed /\ target' = target
  BY DEF LatePush, DeleteOrphanLock, Select, AcquireTaskLock, Dispatch,
         ReleaseTaskLock, PushRaceLoss, cleanupTaskBranch, ReleaseMergeLock,
         RebaseFetchFails, RebaseCoderDone, handleRebaseReview,
         MergeLockHeartbeat, Crash, MergeLockGoesStale, vars, db, remote
<1>2. QED BY <1>1, TrunkUnmoved

\* What is left: a rejection, a submission, a recovered invocation.
LEMMA RowSteps ==
  ASSUME MergeInv, NEW t \in Task,
         Reject(t) \/ Resubmit(t) \/ RecoverInvocation(t)
  PROVE  /\ target' = target /\ reviewed' = reviewed
         /\ tasks' = tasks \/ Only(t)
<1>1. target' = target /\ reviewed' = reviewed
  BY DEF Reject, Resubmit, RecoverInvocation, remote
<1>2. \/ tasks' = tasks
      \/ SetStatus(t, "in_progress") \/ SetStatus(t, "review")
      \/ SetPhase(t, "queued")
      \/ tasks' = [tasks EXCEPT ![t] = Attempted(@)]
  BY Zenon DEF Reject, Resubmit, RecoverInvocation
<1>3. QED BY <1>1, <1>2, ChangesOne DEF Status, Phase

\* Every step is one of the trunk, or a stutter.
LEMMA EveryStepOfTheTrunk ==
  ASSUME MergeInv, MergeInv', [Next]_vars
  PROVE  TrunkStep
<1>1. ASSUME tasks' = tasks \/ \E t \in Task : Only(t),
             target' = target, reviewed' = reviewed
      PROVE  TrunkStep
  BY <1>1, TrunkUnmoved, RowStep
<1>2. ASSUME NEW t \in Task,
             Reject(t) \/ Resubmit(t) \/ RecoverInvocation(t)
      PROVE  TrunkStep
  BY <1>1, <1>2, RowSteps
<1>3. ASSUME NEW r \in Runner, Step(r) PROVE TrunkStep
  <2>1. CASE MergeStep(r)
    BY <1>1, <2>1, RunnerSteps, VisibleSteps, InvisibleSteps DEF MergeStep
  <2>2. CASE RebaseStep(r)
    BY <1>1, <2>2, RunnerSteps, VisibleSteps, InvisibleSteps DEF RebaseStep
  <2>3. QED BY <1>3, <2>1, <2>2, InvisibleSteps DEF Step
<1>4. QED BY <1>2, <1>3, VisibleSteps, InvisibleSteps DEF Next, Sanitise

\* The merge queue implements the trunk it guards: the initial states map to
\* the empty trunk, and every step to one of the trunk or to a stutter.
THEOREM MergeQueueImplementsTrunk == Spec => ImplementsTrunk
<1>1. Init => Trunk!Init BY DEF Init, Trunk!Init
<1>2. MergeInv /\ MergeInv' /\ [Next]_vars => [Trunk!Next]_(Trunk!vars)
  BY EveryStepOfTheTrunk DEF TrunkStep
<1>3. QED
  BY MergeInvariant, <1>1, <1>2, PTL DEF Spec, ImplementsTrunk, Trunk!Spec

----------------------------------------------------------------------------
(* One iteration has one outcome *)

Outcomes == {"completed", "review", "blocked_error", "disputed"}

\* No status changes but that of t, and to an outcome.
Settles(t) ==
  \A u \in Task : tasks'[u].status # tasks[u].status
                    => u = t /\ tasks'[u].status \in Outcomes

\* The ways of the queue to change a row, by what they do to the status.
LEMMA OutcomeWritten ==
  ASSUME TypeOK, NEW t \in Task,
         \/ SetStatus(t, "blocked_error")
         \/ \E s \in Outcomes : ClearTo(t, s)
         \/ transitionToRebasing(t)
  PROVE  Settles(t)
<1>1. CASE SetStatus(t, "blocked_error")
  BY <1>1 DEF SetStatus, Settles, Outcomes, TypeOK, Row
<1>2. CASE \E s \in Outcomes : ClearTo(t, s)
  BY <1>2 DEF ClearTo, Cleared, Settles, TypeOK
<1>3. CASE transitionToRebasing(t)
  <2>1. Rebasing(tasks[t]).status \in {tasks[t].status, "disputed"}
    BY RebasingRow DEF TypeOK
  <2>2. QED BY <1>3, <2>1 DEF transitionToRebasing, Settles, Outcomes, TypeOK
<1>4. QED BY <1>1, <1>2, <1>3

\* Writes that leave the status alone.
LEMMA StatusKept ==
  ASSUME TypeOK, NEW t \in Task,
         \/ tasks' = tasks
         \/ \E p \in Phase : SetPhase(t, p)
         \/ \E c : tasks' = [tasks EXCEPT ![t] =
                               [@ EXCEPT !.phase = "queued", !.approved = c]]
  PROVE  Settles(t)
<1>1. CASE tasks' = tasks BY <1>1 DEF Settles
<1>0. PICK old \in Row : old = tasks[t] BY DEF TypeOK
<1>2. ASSUME NEW p \in Phase, SetPhase(t, p) PROVE Settles(t)
  <2>1. PICK row : row = [old EXCEPT !.phase = p] BY Zenon
  <2>2. row.status = old.status BY <2>1, RowFields, Zenon
  <2>3. tasks' = [tasks EXCEPT ![t] = row]
    BY <1>0, <1>2, <2>1, Zenon DEF SetPhase
  <2>4. QED BY <1>0, <2>2, <2>3 DEF Settles, TypeOK
<1>3. ASSUME NEW c, tasks' = [tasks EXCEPT ![t] =
                                [@ EXCEPT !.phase = "queued", !.approved = c]]
      PROVE  Settles(t)
  <2>1. PICK row : row = [old EXCEPT !.phase = "queued", !.approved = c]
    BY Zenon
  <2>2. row.status = old.status BY <2>1 DEF Row
  <2>3. tasks' = [tasks EXCEPT ![t] = row] BY <1>0, <1>3, <2>1, Zenon
  <2>4. QED BY <1>0, <2>2, <2>3 DEF Settles, TypeOK
<1>4. QED BY <1>1, <1>2, <1>3

\* A runner before its outcome: if its step writes a status, that is one.
LEMMA OutcomeSteps ==
  ASSUME TypeOK, NEW r \in Runner, NEW t \in Task, runner[r].task = t,
         \/ StartMerge(r) \/ FetchFails(r) \/ fetchAndPrepare(r)
         \/ attemptRebaseAndFastForward(r) \/ IntegrationFails(r)
         \/ PushFails(r) \/ markCompleted(r)
         \/ handleRebaseCoder(r) \/ RebaseCoderFails(r) \/ RebasePush(r)
         \/ RebaseRecord(r) \/ RebaseApprove(r) \/ RebaseReject(r)
         \/ RebaseReviewFails(r)
  PROVE  /\ runner[r].pc \notin Over
         /\ Settles(t)
         /\ tasks' = tasks \/ runner'[r].pc \in Over
<1>1. runner[r].pc \notin Over
  BY DEF Over, At, StartMerge, FetchFails, fetchAndPrepare,
         attemptRebaseAndFastForward, IntegrationFails, PushFails,
         markCompleted, handleRebaseCoder, RebaseCoderFails, RebasePush,
         RebaseRecord, RebaseApprove, RebaseReject, RebaseReviewFails
<1>2. \/ tasks' = tasks
      \/ /\ \/ SetStatus(t, "blocked_error")
            \/ \E s \in Outcomes : ClearTo(t, s)
            \/ transitionToRebasing(t)
            \/ \E p \in Phase : SetPhase(t, p)
            \/ \E c : tasks' = [tasks EXCEPT ![t] =
                              [@ EXCEPT !.phase = "queued", !.approved = c]]
         /\ \E label \in {"release", "late_cleanup", "unlock"} : Goto(r, label)
  <2>1. CASE StartMerge(r) \/ FetchFails(r) \/ PushFails(r)
    BY <2>1 DEF StartMerge, FetchFails, PushFails
  <2>2. CASE fetchAndPrepare(r) \/ markCompleted(r)
    BY <2>2 DEF fetchAndPrepare, markCompleted, Outcomes
  <2>3. CASE attemptRebaseAndFastForward(r) \/ IntegrationFails(r)
    BY <2>3 DEF attemptRebaseAndFastForward, IntegrationFails
  <2>4. CASE handleRebaseCoder(r) \/ RebasePush(r) \/ RebaseRecord(r)
    BY <2>4 DEF handleRebaseCoder, RebasePush, RebaseRecord, Block, Phase
  <2>5. CASE RebaseCoderFails(r) \/ RebaseReviewFails(r)
    BY <2>5 DEF RebaseCoderFails, RebaseReviewFails, Dispute, Block, Outcomes
  <2>6. CASE RebaseApprove(r) \/ RebaseReject(r)
    BY <2>6 DEF RebaseApprove, RebaseReject
  <2>7. QED BY <2>1, <2>2, <2>3, <2>4, <2>5, <2>6
<1>3. ASSUME NEW label \in {"release", "late_cleanup", "unlock"},
             Goto(r, label)
      PROVE  runner'[r].pc \in Over
  BY <1>3, GotoType DEF TypeOK, PC, Over
<1>4. Settles(t) BY <1>2, OutcomeWritten, StatusKept
<1>5. QED BY <1>1, <1>2, <1>3, <1>4

\* The other steps of a runner write no row; from where the outcome is
\* settled, they lead to the end.
LEMMA OtherSteps ==
  ASSUME TypeOK, NEW r \in Runner,
         \/ \E t \in Task : Select(r, t)
         \/ AcquireTaskLock(r) \/ Dispatch(r) \/ ReleaseTaskLock(r)
         \/ PushOk(r) \/ PushRaceLoss(r) \/ cleanupTaskBranch(r)
         \/ ReleaseMergeLock(r) \/ RebaseFetchFails(r) \/ RebaseCoderDone(r)
         \/ handleRebaseReview(r)
  PROVE  /\ tasks' = tasks
         /\ runner[r].pc \in Over \ {"idle"} => runner'[r].pc \in Over
<1>1. tasks' = tasks
  BY DEF Select, AcquireTaskLock, Dispatch, ReleaseTaskLock, PushOk,
         PushRaceLoss, cleanupTaskBranch, ReleaseMergeLock, RebaseFetchFails,
         RebaseCoderDone, handleRebaseReview, db
<1>2. ASSUME runner[r].pc \in Over \ {"idle"}
      PROVE  runner'[r].pc \in Over
  <2>1. \/ ReleaseTaskLock(r) \/ ReleaseMergeLock(r)
        \/ At(r, "late_cleanup") /\ cleanupTaskBranch(r)
    BY <1>2 DEF Over, At, Select, AcquireTaskLock, Dispatch, PushOk,
                PushRaceLoss, cleanupTaskBranch, RebaseFetchFails,
                RebaseCoderDone, handleRebaseReview
  <2>2. CASE ReleaseTaskLock(r)
    BY <2>2 DEF ReleaseTaskLock, Idle, Over, TypeOK
  <2>3. CASE ReleaseMergeLock(r) \/ (At(r, "late_cleanup") /\ cleanupTaskBranch(r))
    <3>1. Goto(r, "unlock") \/ Goto(r, "release")
      BY <2>3 DEF ReleaseMergeLock, cleanupTaskBranch, At
    <3>2. QED BY <3>1, GotoType DEF TypeOK, PC, Over
  <2>4. QED BY <2>1, <2>2, <2>3
<1>3. QED BY <1>1, <1>2

\* However many steps a merge takes, and whatever it meets, it writes the
\* status of its task at most once, with one of four outcomes, and is over.
THEOREM MergeHasOneOutcome == Spec => OneOutcome
<1> DEFINE Good(r) ==
      /\ \A t \in Task :
           tasks'[t].status # tasks[t].status =>
             /\ t = runner[r].task
             /\ tasks'[t].status
                  \in {"completed", "review", "blocked_error", "disputed"}
             /\ runner'[r].pc \in Over
      /\ runner[r].pc \in Over \ {"idle"} =>
           runner'[r].pc \in Over /\ UNCHANGED tasks
<1>1. ASSUME TypeOK, NEW r \in Runner, Step(r) PROVE Good(r)
  <2> DEFINE t == runner[r].task
      Busy == \/ StartMerge(r) \/ FetchFails(r) \/ fetchAndPrepare(r)
              \/ attemptRebaseAndFastForward(r) \/ IntegrationFails(r)
              \/ PushFails(r) \/ markCompleted(r)
              \/ handleRebaseCoder(r) \/ RebaseCoderFails(r) \/ RebasePush(r)
              \/ RebaseRecord(r) \/ RebaseApprove(r) \/ RebaseReject(r)
              \/ RebaseReviewFails(r)
  <2>1. CASE Busy
    <3>1. runner[r].pc # "idle"
      BY <2>1 DEF At, StartMerge, FetchFails, fetchAndPrepare,
         attemptRebaseAndFastForward, IntegrationFails, PushFails,
         markCompleted, handleRebaseCoder, RebaseCoderFails, RebasePush,
         RebaseRecord, RebaseApprove, RebaseReject, RebaseReviewFails
    <3>2. t \in Task BY <1>1, <3>1 DEF TypeOK
    <3>3. /\ runner[r].pc \notin Over /\ Settles(t)
          /\ tasks' = tasks \/ runner'[r].pc \in Over
      BY <1>1, <2>1, <3>2, OutcomeSteps
    <3>4. QED BY <3>3 DEF Settles, Outcomes
  <2>2. CASE ~Busy
    <3>1. /\ tasks' = tasks
          /\ runner[r].pc \in Over \ {"idle"} => runner'[r].pc \in Over
      BY <1>1, <2>2, OtherSteps DEF Step, MergeStep, RebaseStep
    <3>2. QED BY <3>1
  <2>3. QED BY <2>1, <2>2
<1>2. TypeOK /\ [Next]_vars => [\A r \in Runner : Step(r) => Good(r)]_vars
  BY <1>1
<1>3. QED BY TypeCorrect, <1>2, PTL DEF Spec, OneOutcome

=============================================================================
