-------------------------- MODULE WorkspacePoolProofs --------------------------
(* What TLC checks of WorkspacePool on small instances, proved for any number *)
(* of runners, tasks, slots, commits and claims, and any disturbances.        *)
EXTENDS WorkspacePool, WellFoundedInduction, TLAPS

-------------------------------------------------------------------------------
(* The constants, and the least and the greatest of a set of numbers *)

LEMMA Bounds ==
  /\ MaxIdle \in Nat /\ Slots \in Nat /\ MaxCommits \in Nat /\ MaxClaims \in Nat
  /\ None \notin Runner /\ None \notin Task /\ None \notin Commits
BY PoolAssumption DEF Commits

LEMMA Least ==
  ASSUME NEW S \in SUBSET Nat, S # {}
  PROVE  \E m \in S : \A x \in S : m <= x
<1>1. PICK m \in S : \A x \in S : ~ (<<x, m>> \in OpToRel(<, Nat))
  BY NatLessThanWellFounded, WFMin
<1>2. \A x \in S : m <= x
  <2> SUFFICES ASSUME NEW x \in S PROVE m <= x OBVIOUS
  <2>1. x \in Nat /\ m \in Nat OBVIOUS
  <2>2. ~ (x < m)
    <3> SUFFICES ASSUME x < m PROVE FALSE OBVIOUS
    <3>1. <<x, m>> \in Nat \X Nat BY <2>1
    <3>2. <<x, m>>[1] < <<x, m>>[2] OBVIOUS
    <3>3. <<x, m>> \in OpToRel(<, Nat) BY <3>1, <3>2 DEF OpToRel
    <3> QED BY <1>1, <3>3
  <2> QED BY <2>1, <2>2
<1> QED BY <1>2

\* The lowest slot of some is one of them.
LEMMA LowestIn ==
  ASSUME NEW S \in SUBSET Slot, S # {}
  PROVE  Lowest(S) \in S
<1>1. S \in SUBSET Nat BY Bounds DEF Slot
<1> QED BY <1>1, Least DEF Lowest

LEMMA Greatest ==
  ASSUME NEW S \in SUBSET Slot, S # {}
  PROVE  \E m \in S : \A x \in S : x <= m
<1> DEFINE From == {Slots - x : x \in S}
<1>1. From \in SUBSET Nat
  <2>1. \A x \in S : Slots - x \in Nat BY Bounds DEF Slot
  <2> QED BY <2>1
<1>5. From # {} OBVIOUS
<1>2. PICK m \in From : \A x \in From : m <= x BY <1>1, <1>5, Least
<1>3. PICK s \in S : m = Slots - s BY <1>2
<1>4. \A x \in S : x <= s
  <2> SUFFICES ASSUME NEW x \in S PROVE x <= s OBVIOUS
  <2>1. Slots - x \in From OBVIOUS
  <2> QED BY <1>2, <1>3, <2>1, Bounds DEF Slot
<1> QED BY <1>4

\* The slot to be claimed, if the pool has it, is nobody's.
LEMMA Target ==
  ASSUME NEW rows, NEW t, ClaimTarget(rows, t) <= Slots
  PROVE  /\ ClaimTarget(rows, t) \in Slot
         /\ rows[ClaimTarget(rows, t)].status \in {"absent", "idle"}
<1> DEFINE affine == {s \in IdleSlots(rows) : rows[s].task = t}
           used   == {s \in Slot : rows[s].status # "absent"}
           last   == IF used = {} THEN 0 ELSE CHOOSE s \in used : \A x \in used : x <= s
           target == ClaimTarget(rows, t)
<1>1. target = IF affine # {} THEN Lowest(affine)
               ELSE IF IdleSlots(rows) # {} THEN Lowest(IdleSlots(rows)) ELSE last + 1
  BY DEF ClaimTarget
<1>2. affine \subseteq IdleSlots(rows) /\ IdleSlots(rows) \subseteq Slot /\ used \subseteq Slot
  BY DEF IdleSlots
<1>3. \A s \in IdleSlots(rows) : s \in Slot /\ rows[s].status = "idle" BY DEF IdleSlots
<1>4. CASE affine # {}
  <2>1. target \in affine BY <1>1, <1>2, <1>4, LowestIn
  <2> QED BY <1>2, <1>3, <2>1
<1>5. CASE affine = {} /\ IdleSlots(rows) # {}
  <2>1. target \in IdleSlots(rows) BY <1>1, <1>2, <1>5, LowestIn
  <2> QED BY <1>3, <2>1
<1>6. CASE affine = {} /\ IdleSlots(rows) = {}
  <2>1. target = last + 1 /\ target <= Slots BY <1>1, <1>6
  <2>2. last \in Nat /\ \A x \in used : x <= last
    <3>1. used = {} => last = 0 OBVIOUS
    <3>2. used # {} => last \in used /\ \A x \in used : x <= last BY <1>2, Greatest
    <3> QED BY <1>2, <3>1, <3>2, Bounds DEF Slot
  <2> HIDE DEF last
  <2>3. target \in Slot BY <2>1, <2>2, Bounds DEF Slot
  <2>4. target \notin used BY <2>1, <2>2
  <2> QED BY <2>3, <2>4
<1> QED BY <1>4, <1>5, <1>6

-------------------------------------------------------------------------------
(* Types *)

RowRec   == [status : {"absent", "idle", "coder", "awaiting", "reviewing"},
             runner : Runner \union {None}, task : Task \union {None},
             branch : Task \union {None}]
DirRec   == [there : BOOLEAN, head : Task \union {None}, dirty : BOOLEAN,
             local : [Task -> Branch]]
PlaceRec == [pc : Working \union {"idle", "claimed", "ending"},
             task : Task \union {None}, act : Act, slot : 0..Slots, inner : 0..Slots,
             branch : Task \union {None}, lease : Branch]
TaskRec  == [status : Status, sub : Branch]

\* A row that nobody holds names no runner.
RowGood(new) == new \in RowRec /\ (new.status \in {"absent", "idle"} => new.runner = None)

\* What a clone has checked out is one of its branches.
DirGood(d) == d \in DirRec /\ (d.head # None => d.local[d.head] # None)

\* A runner at work has a task and a slot; one that merges, the merge's slot too.
PlaceGood(place) ==
    /\ place \in PlaceRec
    /\ place.pc = "idle" => place = Idle
    /\ place.pc # "idle" => place.task \in Task /\ place.slot \in Slot
    /\ place.pc = "merging" => place.inner \in Slot /\ place.branch \in Task

IsTable(f, S) == f = [x \in S |-> f[x]]

RowsType(rows)     == IsTable(rows, Slot) /\ \A s \in Slot : RowGood(rows[s])
DirsType(dirs)     == IsTable(dirs, Slot) /\ \A s \in Slot : DirGood(dirs[s])
PlacesType(places) == IsTable(places, Runner) /\ \A r \in Runner : PlaceGood(places[r])
TasksType(tasks)   == IsTable(tasks, Task) /\ \A t \in Task : tasks[t] \in TaskRec
CountsType ==
    /\ made \in 0..MaxCommits /\ claims \in 0..MaxClaims
    /\ doomed \subseteq Slot /\ disturbed \subseteq Disturbances \union {"stray"}

TypeInv ==
    /\ RowsType(row) /\ DirsType(dir) /\ PlacesType(runner) /\ TasksType(task)
    /\ remote \in [Task -> Branch] /\ CountsType

LEMMA Types == TypeInv => TypeOK
<1> SUFFICES ASSUME TypeInv PROVE TypeOK OBVIOUS
<1>1. row \in [Slot -> RowRec] /\ \A s \in Slot : row[s].status \in {"absent", "idle"} => row[s].runner = None
  BY DEF TypeInv, RowsType, IsTable, RowGood
<1>2. dir \in [Slot -> DirRec] BY DEF TypeInv, DirsType, IsTable, DirGood
<1>3. runner \in [Runner -> PlaceRec] BY DEF TypeInv, PlacesType, IsTable, PlaceGood
<1>4. task \in [Task -> TaskRec] BY DEF TypeInv, TasksType, IsTable
<1> QED
  BY <1>1, <1>2, <1>3, <1>4 DEF TypeInv, CountsType, TypeOK, RowRec, DirRec, PlaceRec, TaskRec

LEMMA TypesNext ==
  ASSUME RowsType(row'), DirsType(dir'), PlacesType(runner'), TasksType(task'),
         remote' \in [Task -> Branch], CountsType'
  PROVE  TypeInv'
BY DEF TypeInv, RowsType, DirsType, PlacesType, TasksType, IsTable

\* One entry of a table is replaced.
LEMMA TableSet ==
  ASSUME NEW f, NEW S, IsTable(f, S), NEW x \in S, NEW new
  PROVE  /\ IsTable([f EXCEPT ![x] = new], S)
         /\ [f EXCEPT ![x] = new][x] = new
         /\ \A y \in S \ {x} : [f EXCEPT ![x] = new][y] = f[y]
BY DEF IsTable

LEMMA RowsSet ==
  ASSUME NEW rows, RowsType(rows), NEW s \in Slot, NEW new, RowGood(new)
  PROVE  RowsType([rows EXCEPT ![s] = new])
BY TableSet DEF RowsType

LEMMA DirsSet ==
  ASSUME NEW dirs, DirsType(dirs), NEW s \in Slot, NEW new, DirGood(new)
  PROVE  DirsType([dirs EXCEPT ![s] = new])
BY TableSet DEF DirsType

LEMMA PlacesSet ==
  ASSUME NEW places, PlacesType(places), NEW r \in Runner, NEW new, PlaceGood(new)
  PROVE  PlacesType([places EXCEPT ![r] = new])
BY TableSet DEF PlacesType

LEMMA TasksSet ==
  ASSUME NEW tasks, TasksType(tasks), NEW t \in Task, NEW new \in TaskRec
  PROVE  TasksType([tasks EXCEPT ![t] = new])
BY TableSet DEF TasksType

-------------------------------------------------------------------------------
(* What the operations on rows give, and which row they change *)

\* rows and new differ in the row of s at most.
DifferAt(rows, new, s) == \A x \in Slot \ {s} : new[x] = rows[x]

LEMMA RowForms ==
  ASSUME NEW old, RowGood(old)
  PROVE  /\ RowGood(NoRow) /\ RowGood(Free)
         /\ RowGood([old EXCEPT !.status = "idle", !.runner = None])
         /\ old.status # "absent" =>
               \A status \in {"coder", "awaiting", "reviewing"} :
                  RowGood([old EXCEPT !.status = status])
         /\ \A t \in Task :
               RowGood([old EXCEPT !.status = "coder", !.task = t, !.branch = t])
         /\ \A r \in Runner, t \in Task :
               RowGood([status |-> "coder", runner |-> r, task |-> t, branch |-> old.branch])
BY Bounds DEF RowGood, RowRec, NoRow, Free

LEMMA ReplaceType ==
  ASSUME NEW rows, RowsType(rows), NEW s \in Slot, NEW new
  PROVE  [rows EXCEPT ![s] = new][s] = new /\ DifferAt(rows, [rows EXCEPT ![s] = new], s)
<1>1. IsTable(rows, Slot) BY DEF RowsType
<1>2. /\ [rows EXCEPT ![s] = new][s] = new
      /\ \A x \in Slot \ {s} : [rows EXCEPT ![s] = new][x] = rows[x]
  BY <1>1 DEF IsTable
<1> QED BY <1>2 DEF DifferAt

LEMMA WriteType ==
  ASSUME NEW rows, RowsType(rows), NEW s \in Slot, NEW new,
         rows[s].status # "absent" => RowGood(new)
  PROVE  /\ RowsType(Write(rows, s, new)) /\ DifferAt(rows, Write(rows, s, new), s)
         /\ Write(rows, s, new)[s] = IF rows[s].status = "absent" THEN rows[s] ELSE new
<1>1. CASE rows[s].status = "absent" BY <1>1 DEF Write, DifferAt
<1>2. CASE rows[s].status # "absent"
  <2>1. Write(rows, s, new) = [rows EXCEPT ![s] = new] BY <1>2 DEF Write
  <2>2. RowsType([rows EXCEPT ![s] = new]) BY <1>2, RowsSet
  <2>3. /\ [rows EXCEPT ![s] = new][s] = new
        /\ DifferAt(rows, [rows EXCEPT ![s] = new], s)
    BY ReplaceType
  <2> QED BY <1>2, <2>1, <2>2, <2>3
<1> QED BY <1>1, <1>2

LEMMA ReleaseType ==
  ASSUME NEW rows, RowsType(rows), NEW s \in Slot
  PROVE  /\ RowsType(releaseSlot(rows, s)) /\ DifferAt(rows, releaseSlot(rows, s), s)
         /\ RowsType(Cleaned(rows, s)) /\ DifferAt(rows, Cleaned(rows, s), s)
<1> DEFINE part == [rows[s] EXCEPT !.status = "idle", !.runner = None]
<1>1. RowGood(rows[s]) BY DEF RowsType
<1>2. RowGood(Free) /\ RowGood(part) BY <1>1, RowForms
<1> HIDE DEF part
<1>3. RowsType(Write(rows, s, Free)) /\ DifferAt(rows, Write(rows, s, Free), s)
  BY <1>2, WriteType
<1>4. RowsType(Write(rows, s, part)) /\ DifferAt(rows, Write(rows, s, part), s)
  BY <1>2, WriteType
<1> QED BY <1>3, <1>4 DEF Cleaned, releaseSlot, partialReleaseSlot, part

LEMMA StatusType ==
  ASSUME NEW rows, RowsType(rows), NEW s \in Slot,
         NEW status \in {"coder", "awaiting", "reviewing"}
  PROVE  /\ RowsType(updateSlotStatus(rows, s, status))
         /\ DifferAt(rows, updateSlotStatus(rows, s, status), s)
         /\ rows[s].status # "absent" =>
               LET new == updateSlotStatus(rows, s, status)[s] IN
               /\ new.status = status /\ new.runner = rows[s].runner
               /\ new.task = rows[s].task /\ new.branch = rows[s].branch
<1> DEFINE new == [rows[s] EXCEPT !.status = status]
<1>1. RowGood(rows[s]) BY DEF RowsType
<1>2. rows[s].status # "absent" => RowGood(new) BY <1>1, RowForms
<1>4. /\ new.status = status /\ new.runner = rows[s].runner
      /\ new.task = rows[s].task /\ new.branch = rows[s].branch
  BY <1>1 DEF RowGood, RowRec
<1> HIDE DEF new
<1>3. /\ RowsType(Write(rows, s, new)) /\ DifferAt(rows, Write(rows, s, new), s)
      /\ Write(rows, s, new)[s] = IF rows[s].status = "absent" THEN rows[s] ELSE new
  BY <1>2, WriteType
<1>5. updateSlotStatus(rows, s, status) = Write(rows, s, new) BY DEF updateSlotStatus, new
<1> QED BY <1>3, <1>4, <1>5

LEMMA BoundType ==
  ASSUME NEW rows, RowsType(rows), NEW s \in Slot, NEW t \in Task
  PROVE  /\ RowsType(Bound(rows, s, t)) /\ DifferAt(rows, Bound(rows, s, t), s)
         /\ rows[s].status # "absent" =>
               LET new == Bound(rows, s, t)[s] IN
               /\ new.status = "coder" /\ new.runner = rows[s].runner
               /\ new.task = t /\ new.branch = t
<1> DEFINE new == [rows[s] EXCEPT !.status = "coder", !.task = t, !.branch = t]
<1>1. RowGood(rows[s]) BY DEF RowsType
<1>2. \A u \in Task :
         RowGood([rows[s] EXCEPT !.status = "coder", !.task = u, !.branch = u])
  BY <1>1, RowForms
<1>3. rows[s].status # "absent" => RowGood(new)
  BY <1>2
<1>5. /\ new.status = "coder" /\ new.runner = rows[s].runner
      /\ new.task = t /\ new.branch = t
  BY <1>1 DEF RowGood, RowRec
<1> HIDE DEF new
<1>4. /\ RowsType(Write(rows, s, new)) /\ DifferAt(rows, Write(rows, s, new), s)
      /\ Write(rows, s, new)[s] = IF rows[s].status = "absent" THEN rows[s] ELSE new
  BY <1>3, WriteType
<1>6. Bound(rows, s, t) = Write(rows, s, new) BY DEF Bound, new
<1> QED BY <1>4, <1>5, <1>6

LEMMA ClaimType ==
  ASSUME NEW rows, RowsType(rows), NEW s \in Slot, NEW r \in Runner, NEW t \in Task
  PROVE  /\ RowsType(claimSlot(rows, s, r, t)) /\ DifferAt(rows, claimSlot(rows, s, r, t), s)
         /\ claimSlot(rows, s, r, t)[s]
               = [status |-> "coder", runner |-> r, task |-> t, branch |-> rows[s].branch]
<1> DEFINE new == [status |-> "coder", runner |-> r, task |-> t, branch |-> rows[s].branch]
<1>1. RowGood(rows[s]) BY DEF RowsType
<1>2. RowGood(new) BY <1>1 DEF RowGood, RowRec
<1> HIDE DEF new
<1>3. /\ RowsType([rows EXCEPT ![s] = new])
      /\ [rows EXCEPT ![s] = new][s] = new
      /\ DifferAt(rows, [rows EXCEPT ![s] = new], s)
  BY <1>2, RowsSet, ReplaceType
<1> QED BY <1>3 DEF claimSlot, new

-------------------------------------------------------------------------------
(* What preparation and merge make of a clone *)

LEMMA DirForms ==
  ASSUME NEW d, DirGood(d)
  PROVE  /\ DirGood([d EXCEPT !.there = TRUE])
         /\ DirGood([d EXCEPT !.dirty = TRUE]) /\ DirGood([d EXCEPT !.dirty = FALSE])
         /\ DirGood([d EXCEPT !.head = None])
         /\ d.head # None => d.head \in Task /\ d.local[d.head] \in Commits
BY Bounds DEF DirGood, DirRec, Branch

LEMMA BranchSet ==
  ASSUME NEW d, DirGood(d), NEW t \in Task, NEW c \in Commits
  PROVE  /\ DirGood([d EXCEPT !.local[t] = c]) /\ DirGood([d EXCEPT !.local[t] = c, !.head = t])
         /\ DirGood([d EXCEPT !.head = t, !.local[t] = c])
         /\ DirGood([d EXCEPT !.local[t] = c, !.dirty = FALSE])
         /\ DirGood([d EXCEPT !.dirty = FALSE, !.local[t] = c])
         /\ DirGood([d EXCEPT !.head = None, !.local[t] = c])
<1> DEFINE local == [d.local EXCEPT ![t] = c]
<1>1. local \in [Task -> Branch] BY DEF DirGood, DirRec, Branch
<1>2. local[t] = c /\ c # None BY Bounds DEF DirGood, DirRec
<1>3. d.head # None => local[d.head] # None BY <1>2 DEF DirGood, DirRec
<1>4. /\ [d EXCEPT !.local[t] = c] = [d EXCEPT !.local = local]
      /\ [d EXCEPT !.local[t] = c, !.head = t] = [d EXCEPT !.local = local, !.head = t]
      /\ [d EXCEPT !.head = t, !.local[t] = c] = [d EXCEPT !.local = local, !.head = t]
      /\ [d EXCEPT !.local[t] = c, !.dirty = FALSE] = [d EXCEPT !.local = local, !.dirty = FALSE]
      /\ [d EXCEPT !.dirty = FALSE, !.local[t] = c] = [d EXCEPT !.local = local, !.dirty = FALSE]
      /\ [d EXCEPT !.head = None, !.local[t] = c] = [d EXCEPT !.local = local, !.head = None]
  BY DEF DirGood, DirRec
<1> HIDE DEF local
<1>5. /\ DirGood([d EXCEPT !.local = local]) /\ DirGood([d EXCEPT !.local = local, !.head = t])
      /\ DirGood([d EXCEPT !.local = local, !.dirty = FALSE])
      /\ DirGood([d EXCEPT !.local = local, !.head = None])
  BY <1>1, <1>2, <1>3 DEF DirGood, DirRec
<1> QED BY <1>4, <1>5

LEMMA NoDirGood == DirGood(NoDir)
BY DEF DirGood, DirRec, NoDir, Branch

\* A prepared clone has the branch of the task checked out.
LEMMA PreparedType ==
  ASSUME NEW d, DirGood(d), NEW t \in Task, remote \in [Task -> Branch]
  PROVE  \A x \in Prepared(d, t) : DirGood(x) /\ x.head = t
<1> DEFINE start == [d EXCEPT !.there = TRUE]
           Content(y) == CASE y.local[t] # None -> y.local[t]
                           [] y.local[t] = None /\ remote[t] # None -> remote[t]
                           [] OTHER -> {}
<1>1. DirGood(start) BY DirForms
<1> HIDE DEF start
<1>2. \A y \in ResetToBase(start) : DirGood(y)
  <2>1. DirGood([start EXCEPT !.dirty = FALSE]) BY <1>1, DirForms
  <2>2. start.head # None => DirGood([start EXCEPT !.dirty = FALSE, !.local[start.head] = {}])
    <3>1. start.head # None => start.head \in Task BY <1>1, DirForms
    <3>2. {} \in Commits BY DEF Commits
    <3> QED BY <1>1, <3>1, <3>2, BranchSet
  <2> QED BY <2>1, <2>2 DEF ResetToBase
<1>3. ASSUME NEW y, DirGood(y) PROVE DirGood(Checkout(y, t)) /\ Checkout(y, t).head = t
  <2>1. Content(y) \in Commits
    <3>1. y.local[t] \in Branch /\ remote[t] \in Branch BY <1>3 DEF DirGood, DirRec
    <3>2. {} \in Commits BY DEF Commits
    <3> QED BY <3>1, <3>2 DEF Branch
  <2>2. Checkout(y, t) = [y EXCEPT !.local[t] = Content(y), !.head = t] BY DEF Checkout
  <2> HIDE DEF Content
  <2>3. DirGood([y EXCEPT !.local[t] = Content(y), !.head = t]) BY <1>3, <2>1, BranchSet
  <2>4. [y EXCEPT !.local[t] = Content(y), !.head = t].head = t BY <1>3 DEF DirGood, DirRec
  <2> QED BY <2>2, <2>3, <2>4
<1>4. Prepared(d, t) = {Checkout(x, t) : x \in ResetToBase(start)} BY DEF Prepared, start
<1> QED BY <1>2, <1>3, <1>4

LEMMA MergesType ==
  ASSUME NEW d, DirGood(d), NEW b \in Task, remote \in [Task -> Branch], remote[b] # None
  PROVE  \A x \in Merges(d, b) : DirGood(x)
<1>1. remote[b] \in Commits BY DEF Branch
<1>2. DirGood([d EXCEPT !.head = None]) BY DirForms
<1>3. /\ DirGood([d EXCEPT !.head = None, !.local[b] = remote[b]])
      /\ DirGood([d EXCEPT !.head = b, !.local[b] = remote[b]])
  BY <1>1, BranchSet
<1> QED BY <1>2, <1>3 DEF Merges

-------------------------------------------------------------------------------
(* Where a runner is *)

LEMMA PlaceForms ==
  ASSUME NEW place, PlaceGood(place), place.pc # "idle"
  PROVE  /\ \A label \in {"ending", "gated", "reviewing"} :
               PlaceGood([place EXCEPT !.pc = label])
         /\ \A t \in Task, lease \in Branch :
               PlaceGood([place EXCEPT !.pc = "coding", !.branch = t, !.lease = lease])
         /\ \A s \in Slot, b \in Task :
               PlaceGood([place EXCEPT !.pc = "merging", !.inner = s, !.branch = b])
<1> USE DEF PlaceGood, PlaceRec, Working
<1>1. \A label \in {"ending", "gated", "reviewing"} : PlaceGood([place EXCEPT !.pc = label])
  OBVIOUS
<1>2. \A t \in Task, lease \in Branch :
         PlaceGood([place EXCEPT !.pc = "coding", !.branch = t, !.lease = lease])
  OBVIOUS
<1>3. \A s \in Slot, b \in Task :
         PlaceGood([place EXCEPT !.pc = "merging", !.inner = s, !.branch = b])
  <2>1. \A s \in Slot : s \in 0..Slots BY Bounds DEF Slot
  <2> QED BY <2>1
<1> QED BY <1>1, <1>2, <1>3

LEMMA IdleGood == PlaceGood(Idle)
BY Bounds DEF PlaceGood, PlaceRec, Idle, Working, Act, Branch

LEMMA TakenUp ==
  ASSUME NEW t \in Task, NEW act \in Act, NEW s \in Slot, NEW b \in Task \union {None}
  PROVE  PlaceGood([Idle EXCEPT !.pc = "claimed", !.task = t, !.act = act, !.slot = s,
                                !.branch = b])
<1>1. Idle \in PlaceRec BY IdleGood DEF PlaceGood
<1>2. s \in 0..Slots BY Bounds DEF Slot
<1>3. "claimed" \in Working \union {"idle", "claimed", "ending"} OBVIOUS
<1>4. [Idle EXCEPT !.pc = "claimed", !.task = t, !.act = act, !.slot = s, !.branch = b]
         \in PlaceRec
  BY <1>1, <1>2, <1>3 DEF PlaceRec
<1>5. LET place == [Idle EXCEPT !.pc = "claimed", !.task = t, !.act = act, !.slot = s,
                               !.branch = b]
      IN  place.pc = "claimed" /\ place.task = t /\ place.slot = s
  BY <1>1 DEF PlaceRec
<1> QED BY <1>4, <1>5 DEF PlaceGood

\* A runner that is not idle, and its slot.
LEMMA Busy ==
  ASSUME TypeInv, NEW r \in Runner, runner[r].pc # "idle"
  PROVE  /\ PlaceGood(runner[r]) /\ runner[r].task \in Task /\ runner[r].slot \in Slot
         /\ RowGood(row[runner[r].slot]) /\ DirGood(dir[runner[r].slot])
         /\ task[runner[r].task] \in TaskRec
         /\ RowsType(row) /\ DirsType(dir) /\ PlacesType(runner) /\ TasksType(task)
         /\ remote \in [Task -> Branch] /\ CountsType
<1>1. PlaceGood(runner[r]) BY DEF TypeInv, PlacesType
<1>2. runner[r].task \in Task /\ runner[r].slot \in Slot BY <1>1 DEF PlaceGood
<1> QED BY <1>1, <1>2 DEF TypeInv, RowsType, DirsType, TasksType

\* What happened is not forgotten.
LEMMA DisturbType ==
  ASSUME TypeInv, NEW kind, Disturb(kind)
  PROVE  disturbed' \subseteq Disturbances \union {"stray"} /\ disturbed' = disturbed \union {kind}
BY DEF TypeInv, CountsType, Disturb

LEMMA EndsType ==
  ASSUME TypeInv, NEW r \in Runner, runner[r].pc # "idle", NEW rows, RowsType(rows), Ends(r, rows)
  PROVE  /\ RowsType(row') /\ PlacesType(runner')
         /\ disturbed' \subseteq Disturbances \union {"stray"}
<1>1. ASSUME row' = Cleaned(rows, runner[r].slot), runner' = [runner EXCEPT ![r] = Idle],
             UNCHANGED disturbed
      PROVE  /\ RowsType(row') /\ PlacesType(runner')
             /\ disturbed' \subseteq Disturbances \union {"stray"}
  <2>1. RowsType(row') BY <1>1, Busy, ReleaseType
  <2>2. PlacesType(runner') BY <1>1, Busy, IdleGood, PlacesSet
  <2> QED BY <1>1, <2>1, <2>2 DEF TypeInv, CountsType
<1>2. ASSUME Disturb("gap"), row' = rows, Goto(r, "ending")
      PROVE  /\ RowsType(row') /\ PlacesType(runner')
             /\ disturbed' \subseteq Disturbances \union {"stray"}
  <2>1. PlaceGood([runner[r] EXCEPT !.pc = "ending"]) BY Busy, PlaceForms
  <2>2. runner' = [runner EXCEPT ![r] = [runner[r] EXCEPT !.pc = "ending"]] BY <1>2 DEF Goto
  <2>3. PlacesType(runner') BY <2>1, <2>2, Busy, PlacesSet
  <2> QED BY <1>2, <2>3, DisturbType
<1> QED BY <1>1, <1>2 DEF Ends

-------------------------------------------------------------------------------
(* Every step keeps the types *)

LEMMA InitTypes == Init => TypeInv
<1> SUFFICES ASSUME Init PROVE TypeInv OBVIOUS
<1>1. RowsType(row)
  <2>1. RowGood(NoRow) BY Bounds DEF RowGood, RowRec, NoRow
  <2> QED BY <2>1 DEF Init, RowsType, IsTable
<1>2. DirsType(dir) BY NoDirGood DEF Init, DirsType, IsTable
<1>3. PlacesType(runner) BY IdleGood DEF Init, PlacesType, IsTable
<1>4. TasksType(task) BY DEF Init, TasksType, IsTable, TaskRec, Status, Branch
<1>5. remote \in [Task -> Branch] /\ CountsType BY Bounds DEF Init, CountsType, Branch
<1> QED BY <1>1, <1>2, <1>3, <1>4, <1>5 DEF TypeInv

LEMMA ClaimTypes ==
  ASSUME TypeInv, NEW r \in Runner, NEW t \in Task, Claim(r, t)
  PROVE  TypeInv'
<1> DEFINE s == ClaimTarget(row, t)
<1>1. s \in Slot /\ row' = claimSlot(row, s, r, t) BY Target DEF Claim
<1>2. RowsType(row) /\ PlacesType(runner) BY DEF TypeInv
<1>3. PICK act \in ActFor(t) :
         runner' = [runner EXCEPT ![r] =
            [Idle EXCEPT !.pc = "claimed", !.task = t, !.act = act, !.slot = s,
                         !.branch = row[s].branch]]
  BY DEF Claim
<1> HIDE DEF s
<1>4. RowsType(row') BY <1>1, <1>2, ClaimType
<1>5. ActFor(t) \subseteq Act BY DEF ActFor, Act
<1>6. row[s].branch \in Task \union {None} BY <1>1, <1>2 DEF RowsType, RowGood, RowRec
<1>7. PlaceGood([Idle EXCEPT !.pc = "claimed", !.task = t, !.act = act, !.slot = s,
                             !.branch = row[s].branch])
  BY <1>1, <1>5, <1>6, TakenUp
<1>8. PlacesType(runner') BY <1>2, <1>3, <1>7, PlacesSet
<1>9. CountsType' BY Bounds DEF TypeInv, CountsType, Claim
<1> QED BY <1>4, <1>8, <1>9, TypesNext DEF TypeInv, Claim

LEMMA CleanUpTypes ==
  ASSUME TypeInv, NEW r \in Runner, CleanUp(r)
  PROVE  TypeInv'
<1>1. runner[r].pc # "idle" BY DEF CleanUp, At
<1>2. RowsType(row') BY <1>1, Busy, ReleaseType DEF CleanUp
<1>3. PlacesType(runner') BY <1>1, Busy, IdleGood, PlacesSet DEF CleanUp
<1>4. CountsType' BY DEF TypeInv, CountsType, CleanUp
<1> QED BY <1>2, <1>3, <1>4, TypesNext DEF TypeInv, CleanUp

LEMMA StartCoderTypes ==
  ASSUME TypeInv, NEW r \in Runner, StartCoder(r)
  PROVE  TypeInv'
<1> DEFINE s == runner[r].slot
           t == runner[r].task
<1>1. runner[r].pc # "idle" BY DEF StartCoder, At
<1>2. s \in Slot /\ t \in Task /\ DirGood(dir[s]) /\ remote[t] \in Branch BY <1>1, Busy
<1>3. PICK d \in Prepared(dir[s], t) : dir' = [dir EXCEPT ![s] = d] BY DEF StartCoder
<1>4. row' = Bound(row, s, t) BY DEF StartCoder
<1>5. runner' = [runner EXCEPT ![r] =
         [runner[r] EXCEPT !.pc = "coding", !.branch = t, !.lease = remote[t]]]
  BY DEF StartCoder
<1>6. PlaceGood([runner[r] EXCEPT !.pc = "coding", !.branch = t, !.lease = remote[t]])
  BY <1>1, <1>2, Busy, PlaceForms
<1> HIDE DEF s, t
<1>7. DirsType(dir')
  <2>1. DirGood(d) BY <1>1, <1>2, <1>3, Busy, PreparedType
  <2> QED BY <1>1, <1>2, <1>3, <2>1, Busy, DirsSet
<1>8. RowsType(row') BY <1>1, <1>2, <1>4, Busy, BoundType
<1>9. PlacesType(runner') BY <1>1, <1>5, <1>6, Busy, PlacesSet
<1>10. CountsType' BY DEF TypeInv, CountsType, StartCoder
<1> QED BY <1>7, <1>8, <1>9, <1>10, TypesNext DEF TypeInv, StartCoder

\* A task gets another status and keeps its submission.
LEMMA StatusSet ==
  ASSUME TypeInv, NEW t \in Task, NEW st \in Status
  PROVE  TasksType([task EXCEPT ![t].status = st])
<1>1. TasksType(task) /\ task[t] \in TaskRec BY DEF TypeInv, TasksType
<1>2. [task[t] EXCEPT !.status = st] \in TaskRec BY <1>1 DEF TaskRec
<1>3. [task EXCEPT ![t].status = st] = [task EXCEPT ![t] = [task[t] EXCEPT !.status = st]]
  OBVIOUS
<1> QED BY <1>1, <1>2, <1>3, TasksSet

LEMMA PrepareFailsTypes ==
  ASSUME TypeInv, NEW r \in Runner, PrepareFails(r)
  PROVE  TypeInv'
<1>1. runner[r].pc # "idle" /\ Ends(r, releaseSlot(row, runner[r].slot))
  BY DEF PrepareFails, At
<1>2. RowsType(releaseSlot(row, runner[r].slot)) BY <1>1, Busy, ReleaseType
<1>3. /\ RowsType(row') /\ PlacesType(runner')
      /\ disturbed' \subseteq Disturbances \union {"stray"}
  BY <1>1, <1>2, EndsType
<1>4. TasksType(task') BY <1>1, Busy, StatusSet DEF PrepareFails, Status
<1>5. CountsType' BY <1>3 DEF TypeInv, CountsType, PrepareFails
<1> QED BY <1>3, <1>4, <1>5, TypesNext DEF TypeInv, PrepareFails

LEMMA CoderFailsTypes ==
  ASSUME TypeInv, NEW r \in Runner, CoderFails(r)
  PROVE  TypeInv'
<1>1. runner[r].pc # "idle" /\ Ends(r, row) BY DEF CoderFails, At
<1>2. /\ RowsType(row') /\ PlacesType(runner')
      /\ disturbed' \subseteq Disturbances \union {"stray"}
  BY <1>1, Busy, EndsType
<1>3. DirGood([dir[runner[r].slot] EXCEPT !.dirty = TRUE]) BY <1>1, Busy, DirForms
<1>4. dir' = [dir EXCEPT ![runner[r].slot] = [dir[runner[r].slot] EXCEPT !.dirty = TRUE]]
  BY DEF CoderFails
<1>5. DirsType(dir') BY <1>1, <1>3, <1>4, Busy, DirsSet
<1>6. CountsType' BY <1>2 DEF TypeInv, CountsType, CoderFails
<1> QED BY <1>2, <1>5, <1>6, TypesNext DEF TypeInv, CoderFails

LEMMA CoderSucceedsTypes ==
  ASSUME TypeInv, NEW r \in Runner, CoderSucceeds(r)
  PROVE  TypeInv'
<1> DEFINE s == runner[r].slot
           h == dir[s].head
           new == dir[s].local[h] \union {made + 1}
<1>1. runner[r].pc # "idle" BY DEF CoderSucceeds, At
<1>2. s \in Slot /\ DirGood(dir[s]) /\ DirsType(dir) BY <1>1, Busy
<1>3. DirsType(dir') /\ made' \in 0..MaxCommits
  <2>1. CASE UNCHANGED <<dir, made>> BY <1>2, <2>1 DEF TypeInv, CountsType
  <2>2. CASE /\ made < MaxCommits /\ h # None
             /\ made' = made + 1
             /\ dir' = [dir EXCEPT ![s].local[h] = @ \union {made + 1}, ![s].dirty = FALSE]
    <3>1. h \in Task /\ dir[s].local[h] \in Commits BY <1>2, <2>2, DirForms
    <3>2. made + 1 \in 1..MaxCommits BY <2>2, Bounds DEF TypeInv, CountsType
    <3>3. new \in Commits BY <3>1, <3>2 DEF Commits
    <3>4. dir' = [dir EXCEPT ![s] = [dir[s] EXCEPT !.local[h] = new, !.dirty = FALSE]]
      BY <2>2, <1>2 DEF DirsType, IsTable
    <3> HIDE DEF new, h, s
    <3>5. DirGood([dir[s] EXCEPT !.local[h] = new, !.dirty = FALSE])
      BY <1>2, <3>1, <3>3, BranchSet
    <3>6. DirsType(dir') BY <1>2, <3>4, <3>5, DirsSet
    <3> QED BY <2>2, <3>2, <3>6
  <2> QED BY <2>1, <2>2 DEF CoderSucceeds
<1>4. RowsType(row') BY <1>1, Busy, StatusType DEF CoderSucceeds
<1>5. PlacesType(runner')
  <2>1. PlaceGood([runner[r] EXCEPT !.pc = "gated"]) BY <1>1, Busy, PlaceForms
  <2>2. runner' = [runner EXCEPT ![r] = [runner[r] EXCEPT !.pc = "gated"]]
    BY DEF CoderSucceeds, Goto
  <2> QED BY <1>1, <2>1, <2>2, Busy, PlacesSet
<1>6. CountsType' BY <1>3 DEF TypeInv, CountsType, CoderSucceeds
<1> QED BY <1>3, <1>4, <1>5, <1>6, TypesNext DEF TypeInv, CoderSucceeds

LEMMA NotSubmittedTypes ==
  ASSUME TypeInv, NEW r \in Runner, NotSubmitted(r)
  PROVE  TypeInv'
<1>1. runner[r].pc # "idle" /\ Ends(r, row) BY DEF NotSubmitted, At
<1>2. /\ RowsType(row') /\ PlacesType(runner')
      /\ disturbed' \subseteq Disturbances \union {"stray"}
  BY <1>1, Busy, EndsType
<1>3. TasksType(task') BY <1>1, Busy, StatusSet DEF NotSubmitted, Status
<1>4. CountsType' BY <1>2 DEF TypeInv, CountsType, NotSubmitted
<1> QED BY <1>2, <1>3, <1>4, TypesNext DEF TypeInv, NotSubmitted

LEMMA SubmitTypes ==
  ASSUME TypeInv, NEW r \in Runner, Submit(r)
  PROVE  TypeInv'
<1> DEFINE d == dir[runner[r].slot]
           t == runner[r].task
           sub == IF d.head = None \/ d.local[d.head] = None THEN {} ELSE d.local[d.head]
<1>1. runner[r].pc # "idle" /\ Ends(r, row) BY DEF Submit, At
<1>2. /\ RowsType(row') /\ PlacesType(runner')
      /\ disturbed' \subseteq Disturbances \union {"stray"}
  BY <1>1, Busy, EndsType
<1>3. DirGood(d) /\ t \in Task /\ TasksType(task) BY <1>1, Busy
<1>4. remote' \in [Task -> Branch]
  <2>1. remote' = [remote EXCEPT ![t] = d.local[t]] BY DEF Submit, Pushed, PushedBranch
  <2>2. d.local[t] \in Branch BY <1>3 DEF DirGood, DirRec
  <2> QED BY <2>1, <2>2 DEF TypeInv
<1>5. TasksType(task')
  <2>1. sub \in Branch
    <3>1. {} \in Branch BY DEF Branch, Commits
    <3>2. d.head # None => d.local[d.head] \in Commits BY <1>3, DirForms
    <3> QED BY <3>1, <3>2 DEF Branch
  <2>2. task' = [task EXCEPT ![t] = [status |-> "review", sub |-> sub]] BY DEF Submit
  <2> HIDE DEF sub, t
  <2>3. [status |-> "review", sub |-> sub] \in TaskRec BY <2>1 DEF TaskRec, Status
  <2> QED BY <1>3, <2>2, <2>3, TasksSet
<1>6. CountsType' BY <1>2 DEF TypeInv, CountsType, Submit
<1> QED BY <1>2, <1>4, <1>5, <1>6, TypesNext DEF TypeInv, Submit

\* What the clone and the rows become at the beginning of a review.
LEMMA ReviewBegins ==
  ASSUME TypeInv, NEW r \in Runner, StartReview(r)
  PROVE  \E rows, d :
            /\ RowsType(rows) /\ DifferAt(row, rows, runner[r].slot)
            /\ row[runner[r].slot].status # "absent" =>
                  /\ rows[runner[r].slot].status = "reviewing"
                  /\ rows[runner[r].slot].runner = row[runner[r].slot].runner
            /\ DirGood(d) /\ dir' = [dir EXCEPT ![runner[r].slot] = d]
            /\ \/ row' = rows /\ Goto(r, "reviewing") /\ UNCHANGED <<task, disturbed>>
               \/ Ends(r, rows) /\ task' = [task EXCEPT ![runner[r].task].status = "open"]
<1> DEFINE s == runner[r].slot
           t == runner[r].task
           fresh == runner[r].branch = None
           Base(prepare) == IF prepare THEN Bound(row, s, t) ELSE row
           Rows(prepare) == updateSlotStatus(Base(prepare), s, "reviewing")
<1>1. runner[r].pc # "idle" BY DEF StartReview, At
<1>2. s \in Slot /\ t \in Task /\ RowsType(row) /\ DirGood(dir[s]) /\ remote \in [Task -> Branch]
  BY <1>1, Busy
<1>3. PICK prepare \in {FALSE, fresh} :
        \E d \in IF prepare THEN Prepared(dir[s], t) ELSE {dir[s]} :
        \E found \in Found(d, t) :
           /\ dir' = [dir EXCEPT ![s] = d]
           /\ IF found
              THEN row' = Rows(prepare) /\ Goto(r, "reviewing") /\ UNCHANGED <<task, disturbed>>
              ELSE Ends(r, Rows(prepare)) /\ task' = [task EXCEPT ![t].status = "open"]
  BY DEF StartReview
<1>4. PICK d \in IF prepare THEN Prepared(dir[s], t) ELSE {dir[s]} :
        \E found \in Found(d, t) :
           /\ dir' = [dir EXCEPT ![s] = d]
           /\ IF found
              THEN row' = Rows(prepare) /\ Goto(r, "reviewing") /\ UNCHANGED <<task, disturbed>>
              ELSE Ends(r, Rows(prepare)) /\ task' = [task EXCEPT ![t].status = "open"]
  BY <1>3
<1>5. DirGood(d) BY <1>2, <1>4, PreparedType
<1> HIDE DEF s, t, fresh
<1>6. /\ RowsType(Base(prepare)) /\ DifferAt(row, Base(prepare), s)
      /\ row[s].status # "absent" =>
            Base(prepare)[s].status # "absent" /\ Base(prepare)[s].runner = row[s].runner
  <2>1. CASE prepare
    BY <1>2, <2>1, BoundType
  <2>2. CASE ~ prepare BY <1>2, <2>2 DEF DifferAt
  <2> QED BY <2>1, <2>2
<1> HIDE DEF Base
<1>7. /\ RowsType(Rows(prepare)) /\ DifferAt(Base(prepare), Rows(prepare), s)
      /\ Base(prepare)[s].status # "absent" =>
            /\ Rows(prepare)[s].status = "reviewing"
            /\ Rows(prepare)[s].runner = Base(prepare)[s].runner
  BY <1>2, <1>6, StatusType
<1> HIDE DEF Rows
<1>8. /\ DifferAt(row, Rows(prepare), s)
      /\ row[s].status # "absent" =>
            Rows(prepare)[s].status = "reviewing" /\ Rows(prepare)[s].runner = row[s].runner
  BY <1>6, <1>7 DEF DifferAt
<1>9. \/ /\ row' = Rows(prepare) /\ Goto(r, "reviewing") /\ UNCHANGED <<task, disturbed>>
      \/ Ends(r, Rows(prepare)) /\ task' = [task EXCEPT ![t].status = "open"]
  BY <1>4
<1> QED BY <1>4, <1>5, <1>7, <1>8, <1>9 DEF s, t

LEMMA StartReviewTypes ==
  ASSUME TypeInv, NEW r \in Runner, StartReview(r)
  PROVE  TypeInv'
<1>1. runner[r].pc # "idle" BY DEF StartReview, At
<1>2. PICK rows, d :
        /\ RowsType(rows) /\ DirGood(d) /\ dir' = [dir EXCEPT ![runner[r].slot] = d]
        /\ \/ row' = rows /\ Goto(r, "reviewing") /\ UNCHANGED <<task, disturbed>>
           \/ Ends(r, rows) /\ task' = [task EXCEPT ![runner[r].task].status = "open"]
  BY ReviewBegins
<1>3. DirsType(dir') BY <1>1, <1>2, Busy, DirsSet
<1>4. /\ RowsType(row') /\ PlacesType(runner') /\ TasksType(task')
      /\ disturbed' \subseteq Disturbances \union {"stray"}
  <2>1. CASE row' = rows /\ Goto(r, "reviewing") /\ UNCHANGED <<task, disturbed>>
    <3>1. PlaceGood([runner[r] EXCEPT !.pc = "reviewing"]) BY <1>1, Busy, PlaceForms
    <3>2. runner' = [runner EXCEPT ![r] = [runner[r] EXCEPT !.pc = "reviewing"]]
      BY <2>1 DEF Goto
    <3>3. PlacesType(runner') BY <1>1, <3>1, <3>2, Busy, PlacesSet
    <3> QED BY <1>2, <2>1, <3>3 DEF TypeInv, CountsType
  <2>2. CASE Ends(r, rows) /\ task' = [task EXCEPT ![runner[r].task].status = "open"]
    <3>1. TasksType(task') BY <1>1, <2>2, Busy, StatusSet DEF Status
    <3> QED BY <1>1, <1>2, <2>2, <3>1, EndsType
  <2> QED BY <1>2, <2>1, <2>2
<1>5. CountsType' BY <1>4 DEF TypeInv, CountsType, StartReview
<1> QED BY <1>3, <1>4, <1>5, TypesNext DEF TypeInv, StartReview

LEMMA JudgeTypes ==
  ASSUME TypeInv, NEW r \in Runner, Judge(r)
  PROVE  TypeInv'
<1> DEFINE s == runner[r].slot
           t == runner[r].task
<1>1. runner[r].pc # "idle" BY DEF Judge, At
<1>2. s \in Slot /\ t \in Task /\ DirsType(dir) /\ RowsType(row) BY <1>1, Busy
<1>3. RowsType(releaseSlot(row, s)) BY <1>2, ReleaseType
<1>4. \A st \in {"merge", "over", "open", "review"} : TasksType([task EXCEPT ![t].status = st])
  BY <1>2, StatusSet DEF Status
<1>5. DirsType([dir EXCEPT ![s].dirty = TRUE])
  <2>1. DirGood([dir[s] EXCEPT !.dirty = TRUE]) BY <1>1, Busy, DirForms
  <2>2. [dir EXCEPT ![s].dirty = TRUE] = [dir EXCEPT ![s] = [dir[s] EXCEPT !.dirty = TRUE]]
    OBVIOUS
  <2> HIDE DEF s
  <2> QED BY <1>2, <2>1, <2>2, DirsSet
<1>6. Ends(r, row) \/ Ends(r, releaseSlot(row, s)) BY DEF Judge
<1>7. DirsType(dir') BY <1>2, <1>5 DEF Judge
<1>8. TasksType(task') BY <1>4 DEF Judge
<1> HIDE DEF s, t
<1>9. /\ RowsType(row') /\ PlacesType(runner')
      /\ disturbed' \subseteq Disturbances \union {"stray"}
  BY <1>1, <1>2, <1>3, <1>6, EndsType
<1>10. CountsType' BY <1>9 DEF TypeInv, CountsType, Judge
<1> QED BY <1>7, <1>8, <1>9, <1>10, TypesNext DEF TypeInv, Judge

LEMMA ClaimForMergeTypes ==
  ASSUME TypeInv, NEW r \in Runner, ClaimForMerge(r)
  PROVE  TypeInv'
<1> DEFINE t == runner[r].task
           s == ClaimTarget(row, t)
           b == IF row[s].branch = None THEN t ELSE row[s].branch
<1>1. runner[r].pc # "idle" BY DEF ClaimForMerge, At
<1>2. s \in Slot /\ row' = claimSlot(row, s, r, t) BY Target DEF ClaimForMerge
<1>3. t \in Task /\ RowsType(row) /\ PlacesType(runner) BY <1>1, Busy
<1>4. runner' = [runner EXCEPT ![r] =
         [runner[r] EXCEPT !.pc = "merging", !.inner = s, !.branch = b]]
  BY DEF ClaimForMerge
<1>5. b \in Task BY <1>2, <1>3 DEF RowsType, RowGood, RowRec
<1> HIDE DEF t, s, b
<1>6. PlaceGood([runner[r] EXCEPT !.pc = "merging", !.inner = s, !.branch = b])
  BY <1>1, <1>2, <1>5, Busy, PlaceForms
<1>7. RowsType(row') BY <1>2, <1>3, ClaimType
<1>8. PlacesType(runner') BY <1>3, <1>4, <1>6, PlacesSet
<1>9. CountsType' BY DEF TypeInv, CountsType, ClaimForMerge
<1> QED BY <1>7, <1>8, <1>9, TypesNext DEF TypeInv, ClaimForMerge

LEMMA MergeEndsTypes ==
  ASSUME TypeInv, NEW r \in Runner, MergeEnds(r)
  PROVE  TypeInv'
<1> DEFINE s == runner[r].inner
           t == runner[r].task
           b == runner[r].branch
<1>1. runner[r].pc # "idle" /\ runner[r].pc = "merging" BY DEF MergeEnds, At
<1>2. s \in Slot /\ t \in Task /\ b \in Task BY <1>1, Busy DEF PlaceGood
<1>3. DirsType(dir) /\ DirGood(dir[s]) /\ RowsType(row) /\ PlacesType(runner)
      /\ remote \in [Task -> Branch]
  BY <1>2 DEF TypeInv, DirsType
<1>4. RowsType(row') BY <1>2, <1>3, ReleaseType DEF MergeEnds
<1>5. PlacesType(runner') BY <1>3, IdleGood, PlacesSet DEF MergeEnds
<1>6. TasksType(task')
  <2>1. \A st \in {"review", "merge", "over"} : TasksType([task EXCEPT ![t].status = st])
    BY <1>2, StatusSet DEF Status
  <2> QED BY <2>1 DEF MergeEnds
<1>7. remote' \in [Task -> Branch]
  <2>1. \A x \in Task : [remote EXCEPT ![x] = None] \in [Task -> Branch] BY <1>3 DEF Branch
  <2>2. remote' \in {remote, [remote EXCEPT ![t] = None], [remote EXCEPT ![b] = None]}
    BY DEF MergeEnds
  <2> QED BY <1>2, <1>3, <2>1, <2>2
<1>8. DirsType(dir')
  <2>1. \/ UNCHANGED dir
        \/ /\ remote[b] # None
           /\ \E d \in {dir[s]} \union Merges(dir[s], b) : dir' = [dir EXCEPT ![s] = d]
    BY DEF MergeEnds
  <2>2. ASSUME remote[b] # None, NEW d \in {dir[s]} \union Merges(dir[s], b)
        PROVE  DirGood(d)
    BY <1>2, <1>3, <2>2, MergesType
  <2> HIDE DEF s, b
  <2>3. ASSUME remote[b] # None, NEW d \in {dir[s]} \union Merges(dir[s], b),
               dir' = [dir EXCEPT ![s] = d]
        PROVE  DirsType(dir')
    <3>1. DirGood(d) BY <2>2, <2>3
    <3> QED BY <1>2, <1>3, <2>3, <3>1, DirsSet
  <2> QED BY <1>3, <2>1, <2>3
<1>9. CountsType' BY DEF TypeInv, CountsType, MergeEnds
<1> QED BY <1>4, <1>5, <1>6, <1>7, <1>8, <1>9, TypesNext

LEMMA CrashTypes ==
  ASSUME TypeInv, NEW r \in Runner, Crash(r)
  PROVE  TypeInv'
<1> DEFINE s == runner[r].slot
           t == runner[r].task
<1>1. runner[r].pc # "idle" BY DEF Crash, At
<1>2. s \in Slot /\ t \in Task /\ DirsType(dir) /\ DirGood(dir[s]) /\ remote \in [Task -> Branch]
  BY <1>1, Busy
<1>3. PlacesType(runner') BY <1>1, Busy, IdleGood, PlacesSet DEF Crash
<1>4. DirsType(dir')
  <2>1. DirGood([dir[s] EXCEPT !.dirty = TRUE]) BY <1>2, DirForms
  <2>2. [dir EXCEPT ![s].dirty = TRUE] = [dir EXCEPT ![s] = [dir[s] EXCEPT !.dirty = TRUE]]
    OBVIOUS
  <2>3. dir' = dir \/ dir' = [dir EXCEPT ![s].dirty = TRUE] BY DEF Crash
  <2> HIDE DEF s
  <2>4. DirsType([dir EXCEPT ![s] = [dir[s] EXCEPT !.dirty = TRUE]]) BY <1>2, <2>1, DirsSet
  <2> QED BY <1>2, <2>2, <2>3, <2>4
<1>5. remote' \in [Task -> Branch]
  <2>1. dir[s].local[t] \in Branch BY <1>2 DEF DirGood, DirRec
  <2>2. Pushed(r) = [remote EXCEPT ![t] = dir[s].local[t]] BY DEF Pushed, PushedBranch
  <2>3. remote' \in {remote, Pushed(r)} BY DEF Crash
  <2> QED BY <1>2, <2>1, <2>2, <2>3
<1>6. disturbed' \subseteq Disturbances \union {"stray"} BY DisturbType DEF Crash
<1>7. CountsType' BY <1>6 DEF TypeInv, CountsType, Crash
<1> QED BY <1>3, <1>4, <1>5, <1>7, TypesNext DEF TypeInv, Crash

LEMMA ResetTypes ==
  ASSUME TypeInv, NEW s \in Slot, Reconcile(s) \/ ReconcileInUse(s)
  PROVE  TypeInv'
<1>1. Reset(s) BY DEF Reconcile, ReconcileInUse
<1>2. RowsType(row')
  <2>1. RowGood(Free) BY Bounds DEF RowGood, RowRec, NoRow, Free
  <2> QED BY <1>1, <2>1, RowsSet DEF TypeInv, Reset
<1>3. disturbed' \subseteq Disturbances \union {"stray"}
  <2>1. disturbed \subseteq Disturbances \union {"stray"} BY DEF TypeInv, CountsType
  <2> QED BY <2>1, DisturbType DEF Reconcile, ReconcileInUse
<1>4. CountsType' BY <1>1, <1>3 DEF TypeInv, CountsType, Reset
<1> QED BY <1>1, <1>2, <1>4, TypesNext DEF TypeInv, Reset

LEMMA DeletedType ==
  ASSUME TypeInv, NEW S, Deleted(S)
  PROVE  RowsType(row') /\ DirsType(dir')
<1>1. RowGood(NoRow) BY Bounds DEF RowGood, RowRec, NoRow
<1> QED BY <1>1, NoDirGood DEF TypeInv, RowsType, DirsType, IsTable, Deleted

LEMMA PruneTypes ==
  ASSUME TypeInv, Prune \/ (\E s \in Slot : PruneNext(s))
  PROVE  TypeInv'
<1>1. RowsType(row') /\ DirsType(dir') BY DeletedType DEF TypeInv, Prune, PruneNext
<1>2. doomed' \subseteq Slot
  <2>1. Excess \subseteq Slot BY DEF Excess, IdleSlots
  <2> QED BY <2>1 DEF TypeInv, CountsType, Prune, PruneNext
<1>3. disturbed' \subseteq Disturbances \union {"stray"}
  <2>1. disturbed \subseteq Disturbances \union {"stray"} BY DEF TypeInv, CountsType
  <2> QED BY <2>1, DisturbType DEF Prune, PruneNext
<1>4. CountsType' BY <1>2, <1>3 DEF TypeInv, CountsType, Prune, PruneNext
<1> QED BY <1>1, <1>4, TypesNext DEF TypeInv, Prune, PruneNext

LEMMA TypesKept ==
  ASSUME TypeInv, [Next]_vars
  PROVE  TypeInv'
<1>1. CASE UNCHANGED vars
  BY <1>1 DEF TypeInv, RowsType, DirsType, PlacesType, TasksType, IsTable, CountsType, vars
<1>2. ASSUME NEW r \in Runner, Steps(r) PROVE TypeInv'
  BY <1>2, ClaimTypes, StartCoderTypes, PrepareFailsTypes, CoderFailsTypes, CoderSucceedsTypes,
     NotSubmittedTypes, SubmitTypes, StartReviewTypes, JudgeTypes, ClaimForMergeTypes,
     MergeEndsTypes, CleanUpTypes
  DEF Steps
<1>3. ASSUME NEW r \in Runner, Crash(r) PROVE TypeInv' BY <1>3, CrashTypes
<1>4. ASSUME NEW s \in Slot, Reconcile(s) \/ ReconcileInUse(s) PROVE TypeInv'
  BY <1>4, ResetTypes
<1>5. ASSUME Prune \/ (\E s \in Slot : PruneNext(s)) PROVE TypeInv' BY <1>5, PruneTypes
<1> QED BY <1>1, <1>2, <1>3, <1>4, <1>5 DEF Next

LEMMA TypeInvariant == Spec => []TypeInv
BY InitTypes, TypesKept, PTL DEF Spec

(***************************************************************************)
(* Every variable keeps its type.  What a clone has checked out is one of  *)
(* its branches, so that a commit always has a branch to go to             *)
(* (postCoderGate); a row that nobody holds names no runner (releaseSlot,  *)
(* partialReleaseSlot, reconcileStaleWorkspaces).                          *)
(***************************************************************************)
THEOREM TypeCorrect == Spec => []TypeOK
BY TypeInvariant, Types, PTL

-------------------------------------------------------------------------------
(* Whose a slot is.  As long as no time limit is overrun and nobody gets in   *)
(* between, the row of a slot that a runner works in names that runner; so    *)
(* two runners cannot be in one slot, and no step of a runner reaches another *)
(* slot than its own or one that nobody works in.                             *)

Calm == disturbed \intersect {"late", "gap", "long"} = {}

\* The slots that a runner works in, from its place.
Where(place) ==
    CASE place.pc \in {"idle", "ending"} -> {}
      [] place.pc = "merging" -> {place.inner}
      [] OTHER -> {place.slot}

Spare(s) == row[s].status \in {"absent", "idle"}

Held(rows, s, r) == rows[s].runner = r /\ rows[s].status \notin {"absent", "idle"}

Matches(r, place, rows, dirs) ==
    place.pc \in {"coding", "gated"} =>
        /\ rows[place.slot].runner = r /\ rows[place.slot].task = place.task
        /\ rows[place.slot].branch = dirs[place.slot].head
        /\ dirs[place.slot].head = place.task

Sound(r, place, rows, dirs) ==
    /\ place.pc # "ending"
    /\ \A s \in Where(place) : Held(rows, s, r)
    /\ Matches(r, place, rows, dirs)

HoldInv == Calm => doomed = {} /\ \A r \in Runner : Sound(r, runner[r], row, dir)

\* r moves, and of the slots at most x is another than before.
Reaches(r, x) ==
    /\ \A q \in Runner \ {r} : runner'[q] = runner[q]
    /\ \A s \in Slot \ {x} : row'[s] = row[s] /\ dir'[s] = dir[s]

\* r has moved within what is its own, or has taken what was nobody's.
Moved(r) ==
    /\ doomed' = doomed
    /\ Sound(r, runner'[r], row', dir')
    /\ \E x \in Slot : Reaches(r, x) /\ (Spare(x) \/ x \in Where(runner[r]))

LEMMA IdleSound == \A r, rows, dirs : Sound(r, Idle, rows, dirs)
BY DEF Sound, Where, Matches, Idle

LEMMA WhereSlots ==
  ASSUME TypeInv, NEW r \in Runner
  PROVE  Where(runner[r]) \subseteq Slot
BY DEF TypeInv, PlacesType, PlaceGood, Where

LEMMA ReachesBy ==
  ASSUME TypeInv, NEW r \in Runner, NEW x \in Slot, NEW place, NEW d,
         runner' = [runner EXCEPT ![r] = place], DifferAt(row, row', x),
         dir' = dir \/ dir' = [dir EXCEPT ![x] = d]
  PROVE  Reaches(r, x) /\ runner'[r] = place
<1>1. \A q \in Runner \ {r} : runner'[q] = runner[q] OBVIOUS
<1>2. runner'[r] = place BY DEF TypeInv, PlacesType, IsTable
<1>3. \A s \in Slot \ {x} : dir'[s] = dir[s] BY DEF TypeInv, DirsType, IsTable
<1> QED BY <1>1, <1>2, <1>3 DEF Reaches, DifferAt

\* Without a gap a phase that ends leaves its slot at once.
LEMMA EndsCalm ==
  ASSUME TypeInv, NEW r \in Runner, runner[r].pc # "idle", NEW rows, RowsType(rows),
         DifferAt(row, rows, runner[r].slot), Ends(r, rows), Calm'
  PROVE  runner' = [runner EXCEPT ![r] = Idle] /\ DifferAt(row, row', runner[r].slot)
<1>1. ~ Disturb("gap") BY DEF Disturb, Calm
<1>2. row' = Cleaned(rows, runner[r].slot) /\ runner' = [runner EXCEPT ![r] = Idle]
  BY <1>1 DEF Ends
<1>3. DifferAt(rows, Cleaned(rows, runner[r].slot), runner[r].slot) BY Busy, ReleaseType
<1> QED BY <1>2, <1>3 DEF DifferAt

\* The end of a phase, whose slot is the one that the loop has claimed.
LEMMA EndsMoved ==
  ASSUME TypeInv, NEW r \in Runner, runner[r].pc \notin {"idle", "ending", "merging"},
         NEW rows, RowsType(rows), DifferAt(row, rows, runner[r].slot), Ends(r, rows), Calm',
         NEW d, dir' = dir \/ dir' = [dir EXCEPT ![runner[r].slot] = d], doomed' = doomed
  PROVE  Moved(r)
<1>1. runner[r].pc # "idle" /\ runner[r].slot \in Slot BY Busy
<1>2. runner' = [runner EXCEPT ![r] = Idle] /\ DifferAt(row, row', runner[r].slot)
  BY <1>1, EndsCalm
<1>3. Reaches(r, runner[r].slot) /\ runner'[r] = Idle BY <1>1, <1>2, ReachesBy
<1>4. runner[r].slot \in Where(runner[r]) BY DEF Where
<1> QED BY <1>1, <1>3, <1>4, IdleSound DEF Moved

LEMMA ClaimMoved ==
  ASSUME TypeInv, NEW r \in Runner, NEW t \in Task, Claim(r, t)
  PROVE  Moved(r)
<1> DEFINE s == ClaimTarget(row, t)
<1>1. s \in Slot /\ Spare(s) /\ row' = claimSlot(row, s, r, t)
  BY Target DEF Claim, Spare
<1>2. PICK act \in ActFor(t) :
         runner' = [runner EXCEPT ![r] =
            [Idle EXCEPT !.pc = "claimed", !.task = t, !.act = act, !.slot = s,
                         !.branch = row[s].branch]]
  BY DEF Claim
<1> HIDE DEF s
<1> DEFINE place == [Idle EXCEPT !.pc = "claimed", !.task = t, !.act = act, !.slot = s,
                                 !.branch = row[s].branch]
<1>3. place.pc = "claimed" /\ place.slot = s BY DEF Idle
<1>4. runner' = [runner EXCEPT ![r] = place] BY <1>2
<1> HIDE DEF place
<1>5. /\ DifferAt(row, row', s)
      /\ row'[s] = [status |-> "coder", runner |-> r, task |-> t, branch |-> row[s].branch]
  BY <1>1, ClaimType DEF TypeInv
<1>6. Reaches(r, s) /\ runner'[r] = place
  <2>1. dir' = dir BY DEF Claim
  <2> QED BY <1>1, <1>4, <1>5, <2>1, ReachesBy
<1>7. Sound(r, place, row', dir')
  <2>1. Where(place) = {s} BY <1>3 DEF Where
  <2>2. Held(row', s, r) BY <1>5 DEF Held
  <2> QED BY <1>3, <2>1, <2>2 DEF Sound, Matches
<1> QED BY <1>1, <1>6, <1>7 DEF Moved, Claim

LEMMA StartCoderMoved ==
  ASSUME TypeInv, NEW r \in Runner, Sound(r, runner[r], row, dir), StartCoder(r)
  PROVE  Moved(r)
<1> DEFINE s == runner[r].slot
           t == runner[r].task
           place == [runner[r] EXCEPT !.pc = "coding", !.branch = t, !.lease = remote[t]]
<1>1. runner[r].pc = "claimed" BY DEF StartCoder, At
<1>2. s \in Slot /\ t \in Task /\ DirGood(dir[s]) /\ remote \in [Task -> Branch]
      /\ RowsType(row) /\ DirsType(dir) /\ PlaceGood(runner[r])
  BY <1>1, Busy
<1>3. PICK d \in Prepared(dir[s], t) : dir' = [dir EXCEPT ![s] = d] BY DEF StartCoder
<1>4. runner' = [runner EXCEPT ![r] = place] BY DEF StartCoder
<1>5. row' = Bound(row, s, t) BY DEF StartCoder
<1>6. place.pc = "coding" /\ place.slot = s /\ place.task = t BY <1>2 DEF PlaceGood, PlaceRec
<1>7. s \in Where(runner[r]) /\ Held(row, s, r) BY <1>1 DEF Sound, Where
<1> HIDE DEF place, s, t
<1>8. dir'[s] = d /\ d.head = t
  <2>1. dir'[s] = d BY <1>2, <1>3 DEF DirsType, IsTable
  <2>2. d.head = t BY <1>2, <1>3, PreparedType
  <2> QED BY <2>1, <2>2
<1>9. /\ DifferAt(row, row', s) /\ row'[s].status = "coder" /\ row'[s].runner = r
      /\ row'[s].task = t /\ row'[s].branch = t
  BY <1>2, <1>5, <1>7, BoundType DEF Held
<1>10. Reaches(r, s) /\ runner'[r] = place BY <1>2, <1>3, <1>4, <1>9, ReachesBy
<1>11. Sound(r, place, row', dir')
  <2>1. Where(place) = {s} BY <1>6 DEF Where
  <2>2. Held(row', s, r) BY <1>9 DEF Held
  <2>3. Matches(r, place, row', dir') BY <1>6, <1>8, <1>9 DEF Matches
  <2> QED BY <1>6, <2>1, <2>2, <2>3 DEF Sound
<1> QED BY <1>2, <1>7, <1>10, <1>11 DEF Moved, StartCoder

LEMMA CoderSucceedsMoved ==
  ASSUME TypeInv, NEW r \in Runner, Sound(r, runner[r], row, dir), CoderSucceeds(r)
  PROVE  Moved(r)
<1> DEFINE s == runner[r].slot
           h == dir[s].head
           d == [dir[s] EXCEPT !.local[h] = dir[s].local[h] \union {made + 1}, !.dirty = FALSE]
           place == [runner[r] EXCEPT !.pc = "gated"]
<1>1. runner[r].pc = "coding" BY DEF CoderSucceeds, At
<1>2. s \in Slot /\ RowsType(row) /\ DirsType(dir) /\ PlaceGood(runner[r]) /\ DirGood(dir[s])
  BY <1>1, Busy
<1>3. dir' = dir \/ dir' = [dir EXCEPT ![s] = d]
  BY <1>2 DEF CoderSucceeds, DirsType, IsTable
<1>4. runner' = [runner EXCEPT ![r] = place] BY DEF CoderSucceeds, Goto
<1>5. row' = updateSlotStatus(row, s, "awaiting") BY DEF CoderSucceeds
<1>6. place.pc = "gated" /\ place.slot = s /\ place.task = runner[r].task
  BY <1>2 DEF PlaceGood, PlaceRec
<1>7. s \in Where(runner[r]) /\ Held(row, s, r) /\ Matches(r, runner[r], row, dir)
  BY <1>1 DEF Sound, Where
<1>8. d.head = dir[s].head BY <1>2 DEF DirGood, DirRec
<1> HIDE DEF place, d, s, h
<1>9. dir'[s].head = dir[s].head
  <2>1. [dir EXCEPT ![s] = d][s] = d BY <1>2 DEF DirsType, IsTable
  <2> QED BY <1>3, <1>8, <2>1
<1>10. /\ DifferAt(row, row', s) /\ row'[s].status = "awaiting" /\ row'[s].runner = row[s].runner
       /\ row'[s].task = row[s].task /\ row'[s].branch = row[s].branch
  BY <1>2, <1>5, <1>7, StatusType DEF Held
<1>11. Reaches(r, s) /\ runner'[r] = place BY <1>2, <1>3, <1>4, <1>10, ReachesBy
<1>12. Sound(r, place, row', dir')
  <2>1. Where(place) = {s} BY <1>6 DEF Where
  <2>2. Held(row', s, r) BY <1>7, <1>10 DEF Held
  <2>3. Matches(r, place, row', dir') BY <1>1, <1>6, <1>7, <1>9, <1>10 DEF Matches, s
  <2> QED BY <1>6, <2>1, <2>2, <2>3 DEF Sound
<1> QED BY <1>2, <1>7, <1>11, <1>12 DEF Moved, CoderSucceeds

\* Phases that end: the row may be released before, the tree left dirty.
LEMMA PhaseEndsMoved ==
  ASSUME TypeInv, Calm', NEW r \in Runner,
         PrepareFails(r) \/ CoderFails(r) \/ NotSubmitted(r) \/ Submit(r) \/ Judge(r)
  PROVE  Moved(r)
<1> DEFINE s == runner[r].slot
           d == [dir[s] EXCEPT !.dirty = TRUE]
<1>1. runner[r].pc \notin {"idle", "ending", "merging"}
  BY DEF PrepareFails, CoderFails, NotSubmitted, Submit, Judge, At
<1>2. s \in Slot /\ RowsType(row) BY <1>1, Busy
<1>3. /\ RowsType(releaseSlot(row, s)) /\ DifferAt(row, releaseSlot(row, s), s)
  BY <1>2, ReleaseType
<1>4. DifferAt(row, row, s) BY DEF DifferAt
<1>5. dir' = dir \/ dir' = [dir EXCEPT ![s] = d]
  BY DEF PrepareFails, CoderFails, NotSubmitted, Submit, Judge
<1>6. doomed' = doomed BY DEF PrepareFails, CoderFails, NotSubmitted, Submit, Judge
<1>7. Ends(r, row) \/ Ends(r, releaseSlot(row, s))
  BY DEF PrepareFails, CoderFails, NotSubmitted, Submit, Judge
<1> HIDE DEF d
<1>8. CASE Ends(r, row) BY <1>1, <1>2, <1>4, <1>5, <1>6, <1>8, EndsMoved
<1>9. CASE Ends(r, releaseSlot(row, s)) BY <1>1, <1>3, <1>5, <1>6, <1>9, EndsMoved
<1> QED BY <1>7, <1>8, <1>9

LEMMA StartReviewMoved ==
  ASSUME TypeInv, Calm', NEW r \in Runner, Sound(r, runner[r], row, dir), StartReview(r)
  PROVE  Moved(r)
<1> DEFINE s == runner[r].slot
           place == [runner[r] EXCEPT !.pc = "reviewing"]
<1>1. runner[r].pc = "claimed" BY DEF StartReview, At
<1>2. s \in Slot /\ PlaceGood(runner[r]) BY <1>1, Busy
<1>3. PICK rows, d :
        /\ RowsType(rows) /\ DifferAt(row, rows, s)
        /\ row[s].status # "absent" =>
              rows[s].status = "reviewing" /\ rows[s].runner = row[s].runner
        /\ DirGood(d) /\ dir' = [dir EXCEPT ![s] = d]
        /\ \/ row' = rows /\ Goto(r, "reviewing") /\ UNCHANGED <<task, disturbed>>
           \/ Ends(r, rows) /\ task' = [task EXCEPT ![runner[r].task].status = "open"]
  BY ReviewBegins
<1>4. doomed' = doomed BY DEF StartReview
<1>5. CASE Ends(r, rows) BY <1>1, <1>3, <1>4, <1>5, EndsMoved
<1>6. CASE row' = rows /\ Goto(r, "reviewing")
  <2>1. runner' = [runner EXCEPT ![r] = place] BY <1>6 DEF Goto
  <2>2. place.pc = "reviewing" /\ place.slot = s BY <1>2 DEF PlaceGood, PlaceRec
  <2>3. s \in Where(runner[r]) /\ Held(row, s, r) BY <1>1 DEF Sound, Where
  <2> HIDE DEF place, s
  <2>4. Reaches(r, s) /\ runner'[r] = place BY <1>2, <1>3, <1>6, <2>1, ReachesBy
  <2>5. Sound(r, place, row', dir')
    <3>1. Where(place) = {s} BY <2>2 DEF Where
    <3>2. Held(row', s, r) BY <1>3, <1>6, <2>3 DEF Held
    <3> QED BY <2>2, <3>1, <3>2 DEF Sound, Matches
  <2> QED BY <1>2, <1>4, <2>3, <2>4, <2>5 DEF Moved
<1> QED BY <1>3, <1>5, <1>6

LEMMA ClaimForMergeMoved ==
  ASSUME TypeInv, NEW r \in Runner, ClaimForMerge(r)
  PROVE  Moved(r)
<1> DEFINE t == runner[r].task
           s == ClaimTarget(row, t)
           b == IF row[s].branch = None THEN t ELSE row[s].branch
           place == [runner[r] EXCEPT !.pc = "merging", !.inner = s, !.branch = b]
<1>1. runner[r].pc # "idle" BY DEF ClaimForMerge, At
<1>2. s \in Slot /\ Spare(s) /\ row' = claimSlot(row, s, r, t)
  BY Target DEF ClaimForMerge, Spare
<1>3. t \in Task /\ RowsType(row) /\ PlaceGood(runner[r]) BY <1>1, Busy
<1>4. runner' = [runner EXCEPT ![r] = place] BY DEF ClaimForMerge
<1> HIDE DEF s, b
<1>5. place.pc = "merging" /\ place.inner = s BY <1>3 DEF PlaceGood, PlaceRec
<1> HIDE DEF t, place
<1>6. /\ DifferAt(row, row', s)
      /\ row'[s] = [status |-> "coder", runner |-> r, task |-> t, branch |-> row[s].branch]
  BY <1>2, <1>3, ClaimType
<1>7. Reaches(r, s) /\ runner'[r] = place
  <2>1. dir' = dir BY DEF ClaimForMerge
  <2> QED BY <1>2, <1>4, <1>6, <2>1, ReachesBy
<1>8. Sound(r, place, row', dir')
  <2>1. Where(place) = {s} BY <1>5 DEF Where
  <2>2. Held(row', s, r) BY <1>6 DEF Held
  <2> QED BY <1>5, <2>1, <2>2 DEF Sound, Matches
<1> QED BY <1>2, <1>7, <1>8 DEF Moved, ClaimForMerge

LEMMA MergeEndsMoved ==
  ASSUME TypeInv, NEW r \in Runner, MergeEnds(r)
  PROVE  Moved(r)
<1> DEFINE s == runner[r].inner
<1>1. runner[r].pc = "merging" BY DEF MergeEnds, At
<1>2. s \in Slot BY <1>1, Busy DEF PlaceGood
<1>3. s \in Where(runner[r]) BY <1>1 DEF Where
<1>4. DifferAt(row, row', s) BY <1>2, ReleaseType DEF TypeInv, MergeEnds
<1>5. runner' = [runner EXCEPT ![r] = Idle] BY DEF MergeEnds
<1>6. dir' = dir \/ (\E d : dir' = [dir EXCEPT ![s] = d]) BY DEF MergeEnds
<1>7. Reaches(r, s) /\ runner'[r] = Idle BY <1>2, <1>4, <1>5, <1>6, ReachesBy
<1> QED BY <1>2, <1>3, <1>7, IdleSound DEF Moved, MergeEnds

LEMMA CrashMoved ==
  ASSUME TypeInv, NEW r \in Runner, Sound(r, runner[r], row, dir), Crash(r)
  PROVE  Moved(r)
<1> DEFINE x == IF runner[r].pc = "merging" THEN runner[r].inner ELSE runner[r].slot
           d == [dir[x] EXCEPT !.dirty = TRUE]
<1>1. runner[r].pc \notin {"idle", "ending"} BY DEF Crash, At, Sound
<1>2. x \in Slot BY <1>1, Busy DEF PlaceGood
<1>3. x \in Where(runner[r]) BY <1>1 DEF Where
<1>4. DifferAt(row, row', x) BY DEF DifferAt, Crash
<1>5. runner' = [runner EXCEPT ![r] = Idle] BY DEF Crash
<1>6. dir' = dir \/ dir' = [dir EXCEPT ![x] = d] BY DEF Crash, At
<1> HIDE DEF x, d
<1>7. Reaches(r, x) /\ runner'[r] = Idle BY <1>2, <1>4, <1>5, <1>6, ReachesBy
<1> QED BY <1>2, <1>3, <1>7, IdleSound DEF Moved, Crash

\* What went wrong stays on record.
LEMMA OnRecord ==
  ASSUME [Next]_vars
  PROVE  disturbed \subseteq disturbed'
<1>1. CASE UNCHANGED vars BY <1>1 DEF vars
<1>2. \A kind : Disturb(kind) => disturbed \subseteq disturbed' BY DEF Disturb
<1>3. \A r, rows : Ends(r, rows) => disturbed \subseteq disturbed' BY <1>2 DEF Ends
<1>4. ASSUME NEW r \in Runner, Steps(r) PROVE disturbed \subseteq disturbed'
  <2>1. ASSUME NEW t \in Task, Claim(r, t) PROVE disturbed \subseteq disturbed'
    BY <2>1 DEF Claim
  <2>2. StartCoder(r) \/ CoderSucceeds(r) \/ ClaimForMerge(r) \/ MergeEnds(r) \/ CleanUp(r)
           => disturbed \subseteq disturbed'
    BY DEF StartCoder, CoderSucceeds, ClaimForMerge, MergeEnds, CleanUp
  <2>3. PrepareFails(r) \/ CoderFails(r) \/ NotSubmitted(r) \/ Submit(r) \/ Judge(r)
           => disturbed \subseteq disturbed'
    BY <1>3 DEF PrepareFails, CoderFails, NotSubmitted, Submit, Judge
  <2>4. StartReview(r) => disturbed \subseteq disturbed'
    <3> SUFFICES ASSUME StartReview(r) PROVE disturbed \subseteq disturbed' OBVIOUS
    <3>1. UNCHANGED disturbed \/ \E rows : Ends(r, rows) BY DEF StartReview
    <3> QED BY <1>3, <3>1
  <2> QED BY <1>4, <2>1, <2>2, <2>3, <2>4 DEF Steps
<1>5. ASSUME NEW r \in Runner, Crash(r) PROVE disturbed \subseteq disturbed'
  BY <1>2, <1>5 DEF Crash
<1>6. ASSUME NEW s \in Slot, Reconcile(s) \/ ReconcileInUse(s) \/ PruneNext(s)
      PROVE  disturbed \subseteq disturbed'
  BY <1>2, <1>6 DEF Reconcile, ReconcileInUse, PruneNext
<1>7. ASSUME Prune PROVE disturbed \subseteq disturbed' BY <1>2, <1>7 DEF Prune
<1> QED BY <1>1, <1>4, <1>5, <1>6, <1>7 DEF Next

LEMMA Calmer == [Next]_vars => (Calm' => Calm)
BY OnRecord DEF Calm

LEMMA StepsMoved ==
  ASSUME TypeInv, Calm', NEW r \in Runner, Sound(r, runner[r], row, dir), Steps(r) \/ Crash(r)
  PROVE  Moved(r)
<1>1. ~ CleanUp(r) BY DEF CleanUp, At, Sound
<1> QED
  BY <1>1, ClaimMoved, StartCoderMoved, PhaseEndsMoved, CoderSucceedsMoved, StartReviewMoved,
     ClaimForMergeMoved, MergeEndsMoved, CrashMoved
  DEF Steps

\* Whoever stays where it is keeps what is so of its slots.
LEMMA SoundKept ==
  ASSUME NEW q \in Runner, Sound(q, runner[q], row, dir), runner'[q] = runner[q],
         \A s \in Where(runner[q]) : row'[s] = row[s] /\ dir'[s] = dir[s]
  PROVE  Sound(q, runner'[q], row', dir')
<1>1. \A s \in Where(runner[q]) : Held(row', s, q) BY DEF Sound, Held
<1>2. Matches(q, runner[q], row', dir')
  <2>1. runner[q].pc \in {"coding", "gated"} => runner[q].slot \in Where(runner[q]) BY DEF Where
  <2> QED BY <2>1 DEF Sound, Matches
<1> QED BY <1>1, <1>2 DEF Sound

LEMMA MoveKeepsHold ==
  ASSUME TypeInv, HoldInv, Calm, NEW r \in Runner, Moved(r)
  PROVE  HoldInv'
<1>1. doomed' = {} BY DEF HoldInv, Moved
<1>2. PICK x \in Slot : Reaches(r, x) /\ (Spare(x) \/ x \in Where(runner[r])) BY DEF Moved
<1>3. ASSUME NEW q \in Runner PROVE Sound(q, runner'[q], row', dir')
  <2>1. CASE q = r BY <2>1 DEF Moved
  <2>2. CASE q # r
    <3>1. Sound(q, runner[q], row, dir) /\ Sound(r, runner[r], row, dir) BY DEF HoldInv
    <3>2. x \notin Where(runner[q])
      <4>1. \A s \in Where(runner[q]) : row[s].runner = q /\ ~ Spare(s)
        BY <3>1 DEF Sound, Held, Spare
      <4>2. \A s \in Where(runner[r]) : row[s].runner = r BY <3>1 DEF Sound, Held
      <4> QED BY <1>2, <2>2, <4>1, <4>2
    <3>3. \A s \in Where(runner[q]) : row'[s] = row[s] /\ dir'[s] = dir[s]
      BY <1>2, <3>2, WhereSlots DEF Reaches
    <3>4. runner'[q] = runner[q] BY <1>2, <2>2 DEF Reaches
    <3> QED BY <3>1, <3>3, <3>4, SoundKept
  <2> QED BY <2>1, <2>2
<1> QED BY <1>1, <1>3 DEF HoldInv

\* The wakeup resets and deletes only what nobody works in.
LEMMA WakeupKeepsHold ==
  ASSUME TypeInv, HoldInv, Calm, NEW S, doomed' = {}, UNCHANGED runner,
         \A r \in Runner : S \intersect Where(runner[r]) = {},
         \A s \in Slot \ S : row'[s] = row[s] /\ dir'[s] = dir[s]
  PROVE  HoldInv'
<1>1. ASSUME NEW r \in Runner PROVE Sound(r, runner'[r], row', dir')
  <2>1. Sound(r, runner[r], row, dir) BY DEF HoldInv
  <2>2. \A s \in Where(runner[r]) : row'[s] = row[s] /\ dir'[s] = dir[s] BY WhereSlots
  <2> QED BY <2>1, <2>2, SoundKept
<1> QED BY <1>1 DEF HoldInv

LEMMA HoldKept ==
  ASSUME TypeInv, HoldInv, [Next]_vars
  PROVE  HoldInv'
<1> SUFFICES ASSUME Calm' PROVE HoldInv' BY DEF HoldInv
<1>1. Calm BY Calmer
<1>2. CASE UNCHANGED vars BY <1>2 DEF HoldInv, vars, Calm
<1>3. ASSUME NEW r \in Runner, Steps(r) \/ Crash(r) PROVE HoldInv'
  <2>1. Sound(r, runner[r], row, dir) BY <1>1 DEF HoldInv
  <2> QED BY <1>1, <1>3, <2>1, StepsMoved, MoveKeepsHold
<1>4. ASSUME NEW s \in Slot, Reconcile(s) PROVE HoldInv'
  <2>1. \A r \in Runner : {s} \intersect Where(runner[r]) = {}
    BY <1>4 DEF Reconcile, Abandoned, Beaten, Merged, At, Where
  <2>2. \A x \in Slot \ {s} : row'[x] = row[x] /\ dir'[x] = dir[x]
    BY <1>4 DEF Reconcile, Reset, TypeInv, RowsType, IsTable
  <2>3. doomed' = {} /\ UNCHANGED runner BY <1>1, <1>4 DEF HoldInv, Reconcile, Reset
  <2> QED BY <1>1, <2>1, <2>2, <2>3, WakeupKeepsHold
<1>5. ASSUME NEW s \in Slot, ReconcileInUse(s) PROVE FALSE
  BY <1>5 DEF ReconcileInUse, Disturb, Calm
<1>6. ASSUME NEW s \in Slot, PruneNext(s) PROVE FALSE BY <1>1, <1>6 DEF PruneNext, HoldInv
<1>7. ASSUME Prune PROVE HoldInv'
  <2>1. Deleted(Excess) /\ UNCHANGED <<doomed, disturbed>> BY <1>7 DEF Prune, Disturb, Calm
  <2>2. \A r \in Runner : Excess \intersect Where(runner[r]) = {}
    BY <1>1 DEF HoldInv, Sound, Held, Excess, IdleSlots
  <2>3. \A x \in Slot \ Excess : row'[x] = row[x] /\ dir'[x] = dir[x] BY <2>1 DEF Deleted
  <2>4. doomed' = {} /\ UNCHANGED runner BY <1>1, <1>7, <2>1 DEF HoldInv, Prune
  <2> QED BY <1>1, <2>2, <2>3, <2>4, WakeupKeepsHold
<1> QED BY <1>2, <1>3, <1>4, <1>5, <1>6, <1>7 DEF Next

LEMMA InitHold == Init => HoldInv
BY IdleSound DEF Init, HoldInv

LEMMA HoldInvariant == Spec => []HoldInv
<1>1. TypeInv /\ HoldInv /\ [Next]_vars => HoldInv' BY HoldKept
<1> QED BY <1>1, InitHold, TypeInvariant, PTL DEF Spec

(***************************************************************************)
(* No two runners are in one directory unless a heartbeat was ten minutes  *)
(* late, a merge took longer, or another process got in between two        *)
(* statements: for any number of crashes and of slots that merges leak     *)
(* (claimSlot, cleanupPoolSlot, reconcileStaleWorkspaces).                 *)
(***************************************************************************)
THEOREM OneRunnerInASlot == Spec => []SlotExclusive
<1>1. HoldInv => SlotExclusive
  <2> SUFFICES ASSUME HoldInv, Calm, NEW q \in Runner, NEW r \in Runner, q # r
               PROVE  Uses(q) \intersect Uses(r) = {}
    BY DEF SlotExclusive, OneRunnerPerSlot, Calm
  <2>1. Uses(q) = Where(runner[q]) /\ Uses(r) = Where(runner[r]) BY DEF Uses, Where, At
  <2>2. \A s \in Where(runner[q]) : row[s].runner = q BY DEF HoldInv, Sound, Held
  <2>3. \A s \in Where(runner[r]) : row[s].runner = r BY DEF HoldInv, Sound, Held
  <2> QED BY <2>1, <2>2, <2>3
<1> QED BY <1>1, HoldInvariant, PTL

(***************************************************************************)
(* Under the same provision the row of a slot in which a coder works names *)
(* the runner, its task and the branch that the clone has checked out      *)
(* (prepareForTask), whatever other runners and the wakeup do meanwhile.   *)
(***************************************************************************)
THEOREM RowsTellTheTruth == Spec => []RowMatchesClone
<1>1. HoldInv => RowMatchesClone BY DEF HoldInv, Sound, Matches, RowMatchesClone, Calm
<1> QED BY <1>1, HoldInvariant, PTL

-------------------------------------------------------------------------------
(* What waits for a reviewer or a merge is at the remote.  A task has one     *)
(* runner at a time, whose act agrees with its status, and a coder submits    *)
(* the branch it has pushed, since that is the one checked out in its slot.   *)

Alone ==
    \A q, r \in Runner :
       q # r /\ runner[q].task # None => runner[q].task # runner[r].task

Doing(place, tasks) ==
    /\ place.pc = "reviewing" \/ (place.pc = "claimed" /\ place.act = "review")
         => tasks[place.task].status = "review"
    /\ place.pc = "merging" \/ (place.pc = "claimed" /\ place.act = "merge")
         => tasks[place.task].status = "merge"

Durable(t, tasks, remotes) ==
    tasks[t].status \in {"review", "merge"} =>
        tasks[t].sub # None /\ remotes[t] # None /\ tasks[t].sub \subseteq remotes[t]

DurableInv ==
    disturbed = {} =>
        /\ \A r \in Runner : Doing(runner[r], task)
        /\ \A t \in Task : Durable(t, task, remote)

\* r changes only its own task, and leaves it in order.
Served(r) ==
    /\ \A q \in Runner \ {r} : runner'[q] = runner[q]
    /\ \A t \in Task \ {runner[r].task} : task'[t] = task[t] /\ remote'[t] = remote[t]
    /\ Doing(runner'[r], task')
    /\ runner[r].task \in Task => Durable(runner[r].task, task', remote')

LEMMA IdleDoing == \A tasks : Doing(Idle, tasks)
BY DEF Doing, Idle

\* The task of r gets another status, and r is idle.
LEMMA ServedBy ==
  ASSUME TypeInv, NEW r \in Runner, runner[r].pc # "idle",
         runner' = [runner EXCEPT ![r] = Idle], UNCHANGED remote,
         Durable(runner[r].task, task, remote),
         \/ UNCHANGED task
         \/ \E st \in {"open", "over"} : task' = [task EXCEPT ![runner[r].task].status = st]
         \/ /\ task[runner[r].task].status \in {"review", "merge"}
            /\ \E st \in Status : task' = [task EXCEPT ![runner[r].task].status = st]
  PROVE  Served(r)
<1> DEFINE t == runner[r].task
<1>1. t \in Task /\ TasksType(task) /\ task[t] \in TaskRec BY Busy
<1>2. \A u \in Task \ {t} : task'[u] = task[u] BY <1>1 DEF TasksType, IsTable
<1>3. runner'[r] = Idle BY DEF TypeInv, PlacesType, IsTable
<1>4. Durable(t, task', remote')
  <2>1. CASE UNCHANGED task BY <2>1
  <2>2. ASSUME NEW st \in Status, task' = [task EXCEPT ![t].status = st],
               st \in {"open", "over"} \/ task[t].status \in {"review", "merge"}
        PROVE  Durable(t, task', remote')
    <3>1. task'[t] = [task[t] EXCEPT !.status = st] BY <1>1, <2>2 DEF TasksType, IsTable
    <3>2. task'[t].status = st /\ task'[t].sub = task[t].sub BY <1>1, <3>1 DEF TaskRec
    <3> QED BY <2>2, <3>2 DEF Durable
  <2> QED BY <2>1, <2>2 DEF Status
<1>5. \A q \in Runner \ {r} : runner'[q] = runner[q] OBVIOUS
<1> QED BY <1>2, <1>3, <1>4, <1>5, IdleDoing DEF Served

\* Neither the tasks nor the remote change.
LEMMA ServedPlace ==
  ASSUME TypeInv, NEW r \in Runner, NEW place, runner' = [runner EXCEPT ![r] = place],
         UNCHANGED <<task, remote>>, Doing(place, task),
         runner[r].task \in Task => Durable(runner[r].task, task, remote)
  PROVE  Served(r)
<1>1. runner'[r] = place BY DEF TypeInv, PlacesType, IsTable
<1> QED BY <1>1 DEF Served

LEMMA ClaimServed ==
  ASSUME TypeInv, disturbed = {}, NEW r \in Runner, NEW t \in Task, Claim(r, t)
  PROVE  Served(r)
<1> DEFINE s == ClaimTarget(row, t)
<1>1. PICK act \in ActFor(t) :
         runner' = [runner EXCEPT ![r] =
            [Idle EXCEPT !.pc = "claimed", !.task = t, !.act = act, !.slot = s,
                         !.branch = row[s].branch]]
  BY DEF Claim
<1> DEFINE place == [Idle EXCEPT !.pc = "claimed", !.task = t, !.act = act, !.slot = s,
                                 !.branch = row[s].branch]
<1>2. place.pc = "claimed" /\ place.task = t /\ place.act = act BY DEF Idle
<1>3. runner' = [runner EXCEPT ![r] = place] BY <1>1
<1>4. /\ act = "review" => task[t].status = "review"
      /\ act = "merge" => task[t].status = "merge"
  BY DEF ActFor
<1> HIDE DEF place
<1>5. Doing(place, task) BY <1>2, <1>4 DEF Doing
<1>6. runner[r].task \notin Task
  <2>1. runner[r] = Idle BY DEF TypeInv, PlacesType, PlaceGood, Claim, At
  <2> QED BY <2>1, Bounds DEF Idle
<1> QED BY <1>3, <1>5, <1>6, ServedPlace DEF Claim

LEMMA WorkServed ==
  ASSUME TypeInv, NEW r \in Runner, Doing(runner[r], task),
         Durable(runner[r].task, task, remote),
         StartCoder(r) \/ CoderSucceeds(r) \/ ClaimForMerge(r)
  PROVE  Served(r)
<1>1. runner[r].pc # "idle" BY DEF StartCoder, CoderSucceeds, ClaimForMerge, At
<1>2. PlaceGood(runner[r]) BY <1>1, Busy
<1>3. UNCHANGED <<task, remote>> BY DEF StartCoder, CoderSucceeds, ClaimForMerge
<1>4. \E place : runner' = [runner EXCEPT ![r] = place] /\ Doing(place, task)
  <2>1. CASE StartCoder(r)
    <3> DEFINE place == [runner[r] EXCEPT !.pc = "coding", !.branch = runner[r].task,
                                          !.lease = remote[runner[r].task]]
    <3>1. runner' = [runner EXCEPT ![r] = place] BY <2>1 DEF StartCoder
    <3>2. place.pc = "coding" BY <1>2 DEF PlaceGood, PlaceRec
    <3> QED BY <3>1, <3>2 DEF Doing
  <2>2. CASE CoderSucceeds(r)
    <3> DEFINE place == [runner[r] EXCEPT !.pc = "gated"]
    <3>1. runner' = [runner EXCEPT ![r] = place] BY <2>2 DEF CoderSucceeds, Goto
    <3>2. place.pc = "gated" BY <1>2 DEF PlaceGood, PlaceRec
    <3> QED BY <3>1, <3>2 DEF Doing
  <2>3. CASE ClaimForMerge(r)
    <3> DEFINE s == ClaimTarget(row, runner[r].task)
               b == IF row[s].branch = None THEN runner[r].task ELSE row[s].branch
               place == [runner[r] EXCEPT !.pc = "merging", !.inner = s, !.branch = b]
    <3>1. runner' = [runner EXCEPT ![r] = place] BY <2>3 DEF ClaimForMerge
    <3> HIDE DEF s, b
    <3>2. place.pc = "merging" /\ place.task = runner[r].task BY <1>2 DEF PlaceGood, PlaceRec
    <3>3. task[runner[r].task].status = "merge" BY <2>3 DEF Doing, ClaimForMerge, At
    <3> HIDE DEF place
    <3> QED BY <3>1, <3>2, <3>3 DEF Doing
  <2> QED BY <2>1, <2>2, <2>3
<1> QED BY <1>3, <1>4, ServedPlace

LEMMA PhaseEndsServed ==
  ASSUME TypeInv, disturbed' = {}, NEW r \in Runner, Doing(runner[r], task),
         Durable(runner[r].task, task, remote),
         PrepareFails(r) \/ CoderFails(r) \/ NotSubmitted(r) \/ Judge(r)
  PROVE  Served(r)
<1> DEFINE s == runner[r].slot
           t == runner[r].task
<1>1. runner[r].pc # "idle" BY DEF PrepareFails, CoderFails, NotSubmitted, Judge, At
<1>2. runner' = [runner EXCEPT ![r] = Idle]
  <2>1. Ends(r, row) \/ Ends(r, releaseSlot(row, s))
    BY DEF PrepareFails, CoderFails, NotSubmitted, Judge
  <2> QED BY <2>1 DEF Ends, Disturb
<1>3. UNCHANGED remote BY DEF PrepareFails, CoderFails, NotSubmitted, Judge
<1>4. CASE PrepareFails(r) \/ CoderFails(r) \/ NotSubmitted(r)
  <2>1. UNCHANGED task \/ task' = [task EXCEPT ![t].status = "over"]
    BY <1>4 DEF PrepareFails, CoderFails, NotSubmitted
  <2> HIDE DEF t
  <2>2. UNCHANGED task \/ \E st \in {"open", "over"} : task' = [task EXCEPT ![t].status = st]
    BY <2>1
  <2> QED BY <1>1, <1>2, <1>3, <2>2, ServedBy DEF t
<1>5. CASE Judge(r)
  <2>1. task[t].status = "review" BY <1>5 DEF Judge, At, Doing
  <2>2. \E st \in Status : task' = [task EXCEPT ![t].status = st]
    BY <1>5 DEF Judge, Status
  <2> QED BY <1>1, <1>2, <1>3, <2>1, <2>2, ServedBy
<1> QED BY <1>4, <1>5

LEMMA StartReviewServed ==
  ASSUME TypeInv, disturbed' = {}, NEW r \in Runner, Doing(runner[r], task),
         Durable(runner[r].task, task, remote), StartReview(r)
  PROVE  Served(r)
<1>1. runner[r].pc = "claimed" /\ runner[r].act = "review" BY DEF StartReview, At
<1>2. PlaceGood(runner[r]) BY <1>1, Busy
<1>3. UNCHANGED remote BY DEF StartReview
<1>4. PICK rows :
        \/ row' = rows /\ Goto(r, "reviewing") /\ UNCHANGED <<task, disturbed>>
        \/ Ends(r, rows) /\ task' = [task EXCEPT ![runner[r].task].status = "open"]
  BY ReviewBegins
<1>5. CASE Goto(r, "reviewing") /\ UNCHANGED task
  <2> DEFINE place == [runner[r] EXCEPT !.pc = "reviewing"]
  <2>1. runner' = [runner EXCEPT ![r] = place] BY <1>5 DEF Goto
  <2>2. place.pc = "reviewing" /\ place.task = runner[r].task BY <1>2 DEF PlaceGood, PlaceRec
  <2> HIDE DEF place
  <2>3. Doing(place, task) BY <1>1, <2>2 DEF Doing
  <2> QED BY <1>3, <1>5, <2>1, <2>3, ServedPlace
<1>6. CASE Ends(r, rows) /\ task' = [task EXCEPT ![runner[r].task].status = "open"]
  <2>1. runner' = [runner EXCEPT ![r] = Idle] BY <1>6 DEF Ends, Disturb
  <2> QED BY <1>1, <1>3, <1>6, <2>1, ServedBy
<1> QED BY <1>4, <1>5, <1>6

LEMMA SubmitServed ==
  ASSUME TypeInv, disturbed' = {}, NEW r \in Runner, Sound(r, runner[r], row, dir), Submit(r)
  PROVE  Served(r)
<1> DEFINE t == runner[r].task
           d == dir[runner[r].slot]
<1>1. runner[r].pc = "gated" BY DEF Submit, At
<1>2. t \in Task /\ TasksType(task) /\ remote \in [Task -> Branch] /\ DirGood(d) BY <1>1, Busy
<1>3. runner' = [runner EXCEPT ![r] = Idle] BY DEF Submit, Ends, Disturb
<1>4. d.head = t BY <1>1 DEF Sound, Matches
<1>5. d.local[t] # None BY DEF Submit, CanPush
<1>6. task' = [task EXCEPT ![t] = [status |-> "review", sub |-> d.local[t]]]
  BY <1>2, <1>4, <1>5, Bounds DEF Submit
<1>7. remote' = [remote EXCEPT ![t] = d.local[t]] BY DEF Submit, Pushed, PushedBranch
<1> HIDE DEF t, d
<1>8. /\ \A u \in Task \ {t} : task'[u] = task[u] /\ remote'[u] = remote[u]
      /\ task'[t] = [status |-> "review", sub |-> d.local[t]] /\ remote'[t] = d.local[t]
  BY <1>2, <1>6, <1>7 DEF TasksType, IsTable
<1>9. Durable(t, task', remote') BY <1>5, <1>8 DEF Durable
<1>10. runner'[r] = Idle /\ \A q \in Runner \ {r} : runner'[q] = runner[q]
  BY <1>3 DEF TypeInv, PlacesType, IsTable
<1> QED BY <1>8, <1>9, <1>10, IdleDoing DEF Served, t

LEMMA MergeEndsServed ==
  ASSUME TypeInv, disturbed' = {}, NEW r \in Runner, Doing(runner[r], task),
         Durable(runner[r].task, task, remote), MergeEnds(r)
  PROVE  Served(r)
<1> DEFINE t == runner[r].task
<1>1. runner[r].pc = "merging" BY DEF MergeEnds, At
<1>2. t \in Task /\ TasksType(task) /\ task[t] \in TaskRec /\ remote \in [Task -> Branch]
  BY <1>1, Busy
<1>3. runner' = [runner EXCEPT ![r] = Idle] BY DEF MergeEnds
<1>4. task[t].status = "merge" BY <1>1 DEF Doing
<1>5. \/ UNCHANGED remote /\ \E st \in Status : task' = [task EXCEPT ![t].status = st]
      \/ /\ remote' = [remote EXCEPT ![t] = None]
         /\ task' = [task EXCEPT ![t].status = "over"]
  <2>1. "stray" \notin disturbed' OBVIOUS
  <2> QED BY <2>1 DEF MergeEnds, Status
<1>6. CASE UNCHANGED remote /\ \E st \in Status : task' = [task EXCEPT ![t].status = st]
  BY <1>1, <1>3, <1>4, <1>6, ServedBy
<1>7. CASE /\ remote' = [remote EXCEPT ![t] = None]
           /\ task' = [task EXCEPT ![t].status = "over"]
  <2>1. task'[t] = [task[t] EXCEPT !.status = "over"] BY <1>2, <1>7 DEF TasksType, IsTable
  <2>2. task'[t].status = "over" BY <1>2, <2>1 DEF TaskRec
  <2>3. \A u \in Task \ {t} : task'[u] = task[u] /\ remote'[u] = remote[u]
    BY <1>2, <1>7 DEF TasksType, IsTable
  <2>4. runner'[r] = Idle /\ \A q \in Runner \ {r} : runner'[q] = runner[q]
    BY <1>3 DEF TypeInv, PlacesType, IsTable
  <2> QED BY <2>2, <2>3, <2>4, IdleDoing DEF Served, Durable
<1> QED BY <1>5, <1>6, <1>7

LEMMA StepsServed ==
  ASSUME TypeInv, disturbed = {}, disturbed' = {}, NEW r \in Runner,
         Sound(r, runner[r], row, dir), Doing(runner[r], task),
         \A t \in Task : Durable(t, task, remote), Steps(r)
  PROVE  Served(r)
<1>1. ~ CleanUp(r) BY DEF CleanUp, At, Sound
<1>2. CASE \E t \in Task : Claim(r, t) BY <1>2, ClaimServed
<1>3. CASE ~ \E t \in Task : Claim(r, t)
  <2>1. runner[r].pc # "idle"
    BY <1>3 DEF Steps, StartCoder, PrepareFails, CoderFails, CoderSucceeds, NotSubmitted, Submit,
                StartReview, Judge, ClaimForMerge, MergeEnds, CleanUp, At
  <2>2. Durable(runner[r].task, task, remote) BY <2>1, Busy
  <2> QED
    BY <1>1, <1>3, <2>2, WorkServed, PhaseEndsServed, StartReviewServed, SubmitServed,
       MergeEndsServed
    DEF Steps
<1> QED BY <1>2, <1>3

\* How the places of the runners change.
LEMMA PlacesMove ==
  ASSUME TypeInv, NEW r \in Runner, Steps(r) \/ Crash(r)
  PROVE  /\ \A q \in Runner \ {r} : runner'[q] = runner[q]
         /\ \/ runner'[r].task \in {None, runner[r].task}
            \/ \A q \in Runner : runner[q].task # runner'[r].task
<1>1. IsTable(runner, Runner) BY DEF TypeInv, PlacesType
<1>2. ASSUME NEW place, runner' = [runner EXCEPT ![r] = place]
      PROVE  runner'[r] = place /\ \A q \in Runner \ {r} : runner'[q] = runner[q]
  BY <1>1, <1>2 DEF IsTable
<1>3. ASSUME NEW label, Goto(r, label)
      PROVE  /\ \A q \in Runner \ {r} : runner'[q] = runner[q]
             /\ runner'[r].task = runner[r].task
  <2>1. runner' = [runner EXCEPT ![r] = [runner[r] EXCEPT !.pc = label]] BY <1>3 DEF Goto
  <2>2. PlaceGood(runner[r]) BY DEF TypeInv, PlacesType
  <2>3. [runner[r] EXCEPT !.pc = label].task = runner[r].task
    BY <2>2 DEF PlaceGood, PlaceRec
  <2> QED BY <1>2, <2>1, <2>3
<1>4. ASSUME runner' = [runner EXCEPT ![r] = Idle]
      PROVE  /\ \A q \in Runner \ {r} : runner'[q] = runner[q]
             /\ runner'[r].task = None
  BY <1>2, <1>4 DEF Idle
<1>5. ASSUME NEW rows, Ends(r, rows)
      PROVE  /\ \A q \in Runner \ {r} : runner'[q] = runner[q]
             /\ runner'[r].task \in {None, runner[r].task}
  BY <1>3, <1>4, <1>5 DEF Ends
<1>6. ASSUME NEW t \in Task, Claim(r, t)
      PROVE  /\ \A q \in Runner \ {r} : runner'[q] = runner[q]
             /\ \A q \in Runner : runner[q].task # runner'[r].task
  <2> DEFINE s == ClaimTarget(row, t)
  <2>1. PICK act \in ActFor(t) :
           runner' = [runner EXCEPT ![r] =
              [Idle EXCEPT !.pc = "claimed", !.task = t, !.act = act, !.slot = s,
                           !.branch = row[s].branch]]
    BY <1>6 DEF Claim
  <2>2. [Idle EXCEPT !.pc = "claimed", !.task = t, !.act = act, !.slot = s,
                     !.branch = row[s].branch].task = t
    BY DEF Idle
  <2>3. runner'[r].task = t /\ \A q \in Runner \ {r} : runner'[q] = runner[q]
    BY <1>2, <2>1, <2>2
  <2> QED BY <1>6, <2>3 DEF Claim
<1>7. StartCoder(r) \/ ClaimForMerge(r) =>
        /\ \A q \in Runner \ {r} : runner'[q] = runner[q]
        /\ runner'[r].task = runner[r].task
  <2> SUFFICES ASSUME StartCoder(r) \/ ClaimForMerge(r)
               PROVE  /\ \A q \in Runner \ {r} : runner'[q] = runner[q]
                      /\ runner'[r].task = runner[r].task
    OBVIOUS
  <2>1. PlaceGood(runner[r]) BY DEF TypeInv, PlacesType
  <2>2. \A b, lease : [runner[r] EXCEPT !.pc = "coding", !.branch = b, !.lease = lease].task
                        = runner[r].task
    BY <2>1 DEF PlaceGood, PlaceRec
  <2>3. \A s, b : [runner[r] EXCEPT !.pc = "merging", !.inner = s, !.branch = b].task
                    = runner[r].task
    BY <2>1 DEF PlaceGood, PlaceRec
  <2>4. \/ \E b, lease : runner' = [runner EXCEPT ![r] =
               [runner[r] EXCEPT !.pc = "coding", !.branch = b, !.lease = lease]]
        \/ \E s, b : runner' = [runner EXCEPT ![r] =
               [runner[r] EXCEPT !.pc = "merging", !.inner = s, !.branch = b]]
    BY DEF StartCoder, ClaimForMerge
  <2>5. ASSUME NEW b, NEW lease, runner' = [runner EXCEPT ![r] =
                  [runner[r] EXCEPT !.pc = "coding", !.branch = b, !.lease = lease]]
        PROVE  /\ \A q \in Runner \ {r} : runner'[q] = runner[q]
               /\ runner'[r].task = runner[r].task
    BY <1>2, <2>2, <2>5
  <2>6. ASSUME NEW s, NEW b, runner' = [runner EXCEPT ![r] =
                  [runner[r] EXCEPT !.pc = "merging", !.inner = s, !.branch = b]]
        PROVE  /\ \A q \in Runner \ {r} : runner'[q] = runner[q]
               /\ runner'[r].task = runner[r].task
    BY <1>2, <2>3, <2>6
  <2> QED BY <2>4, <2>5, <2>6
<1>8. MergeEnds(r) \/ CleanUp(r) \/ Crash(r) => runner' = [runner EXCEPT ![r] = Idle]
  BY DEF MergeEnds, CleanUp, Crash
<1>9. PrepareFails(r) \/ CoderFails(r) \/ NotSubmitted(r) \/ Submit(r) \/ Judge(r) \/ StartReview(r)
        => Goto(r, "reviewing") \/ \E rows : Ends(r, rows)
  <2>1. StartReview(r) => Goto(r, "reviewing") \/ \E rows : Ends(r, rows) BY DEF StartReview
  <2>2. PrepareFails(r) \/ CoderFails(r) \/ NotSubmitted(r) \/ Submit(r) \/ Judge(r)
          => \E rows : Ends(r, rows)
    BY DEF PrepareFails, CoderFails, NotSubmitted, Submit, Judge
  <2> QED BY <2>1, <2>2
<1>10. CoderSucceeds(r) => Goto(r, "gated") BY DEF CoderSucceeds
<1> QED BY <1>3, <1>4, <1>5, <1>6, <1>7, <1>8, <1>9, <1>10 DEF Steps

LEMMA AloneKept ==
  ASSUME TypeInv, Alone, [Next]_vars
  PROVE  Alone'
<1>1. CASE UNCHANGED runner BY <1>1 DEF Alone
<1>2. ASSUME NEW r \in Runner, Steps(r) \/ Crash(r) PROVE Alone'
  <2> SUFFICES ASSUME NEW p \in Runner, NEW q \in Runner, p # q, runner'[q].task # None
               PROVE  runner'[q].task # runner'[p].task
    BY DEF Alone
  <2>1. runner[q].task # None /\ q # r => runner[q].task # runner[p].task BY DEF Alone
  <2> QED BY <1>2, <2>1, PlacesMove DEF Alone
<1> QED
  BY <1>1, <1>2 DEF Next, vars, Reconcile, ReconcileInUse, Reset, PruneNext, Prune

LEMMA DurableKept ==
  ASSUME TypeInv, HoldInv, Alone, DurableInv, [Next]_vars
  PROVE  DurableInv'
<1> SUFFICES ASSUME disturbed' = {} PROVE DurableInv' BY DEF DurableInv
<1>1. disturbed = {} BY OnRecord
<1>2. CASE UNCHANGED <<runner, task, remote>> BY <1>1, <1>2 DEF DurableInv, Doing, Durable
<1>3. ASSUME NEW r \in Runner, Steps(r) PROVE DurableInv'
  <2>1. Sound(r, runner[r], row, dir) BY <1>1 DEF HoldInv, Calm
  <2>2. \A q \in Runner : Doing(runner[q], task) BY <1>1 DEF DurableInv
  <2>3. \A t \in Task : Durable(t, task, remote) BY <1>1 DEF DurableInv
  <2>4. Served(r) BY <1>1, <1>3, <2>1, <2>2, <2>3, StepsServed
  <2>5. ASSUME NEW q \in Runner PROVE Doing(runner'[q], task')
    <3>1. CASE q = r BY <2>4, <3>1 DEF Served
    <3>2. CASE q # r /\ runner[q].pc = "idle"
      <4>1. runner'[q] = Idle BY <2>4, <3>2 DEF Served, TypeInv, PlacesType, PlaceGood
      <4> QED BY <4>1, IdleDoing
    <3>3. CASE q # r /\ runner[q].pc # "idle"
      <4>1. runner'[q] = runner[q] BY <2>4, <3>3 DEF Served
      <4>2. runner[q].task \in Task BY <3>3, Busy
      <4>3. runner[q].task # runner[r].task BY <3>3, <4>2, Bounds DEF Alone
      <4>4. task'[runner[q].task] = task[runner[q].task] BY <2>4, <4>2, <4>3 DEF Served
      <4> QED BY <2>2, <4>1, <4>4 DEF Doing
    <3> QED BY <3>1, <3>2, <3>3
  <2>6. ASSUME NEW t \in Task PROVE Durable(t, task', remote')
    <3>1. CASE t = runner[r].task BY <2>4, <3>1 DEF Served
    <3>2. CASE t # runner[r].task BY <2>3, <2>4, <3>2 DEF Served, Durable
    <3> QED BY <3>1, <3>2
  <2> QED BY <2>5, <2>6 DEF DurableInv
<1>4. ASSUME NEW r \in Runner, Crash(r) PROVE FALSE BY <1>4 DEF Crash, Disturb
<1> QED
  BY <1>2, <1>3, <1>4 DEF Next, vars, Reconcile, ReconcileInUse, Reset, PruneNext, Prune

LEMMA InitDurable == Init => Alone /\ DurableInv
<1> SUFFICES ASSUME Init PROVE Alone /\ DurableInv OBVIOUS
<1>1. Alone BY DEF Init, Alone, Idle
<1>2. \A t \in Task : task[t].status = "open" BY DEF Init
<1>3. \A r \in Runner : runner[r] = Idle BY DEF Init
<1> QED BY <1>1, <1>2, <1>3, IdleDoing DEF DurableInv, Durable

(***************************************************************************)
(* As long as nothing goes wrong, what waits for a reviewer or a merge is  *)
(* at the remote, commit for commit, wherever its slot has gone since      *)
(* (pushTaskBranchForDurability, submitForReviewWithDurableRef): for any   *)
(* number of runners, tasks and slots.                                     *)
(***************************************************************************)
THEOREM SubmissionsAreDurable == Spec => []SubmissionDurable
<1>1. TypeInv /\ HoldInv /\ Alone /\ DurableInv /\ [Next]_vars => Alone' /\ DurableInv'
  BY AloneKept, DurableKept
<1>2. DurableInv => SubmissionDurable BY DEF DurableInv, Durable, SubmissionDurable
<1> QED BY <1>1, <1>2, InitDurable, TypeInvariant, HoldInvariant, PTL DEF Spec

===============================================================================
