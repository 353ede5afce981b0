-------------------------- MODULE TaskLifecycleProofs --------------------------
(* What TLC checks of TaskLifecycle and TaskEdits on small instances, proved   *)
(* for any finite number of runners, any number of reviewers and versions and  *)
(* any caps, with any number of edits, crashes and resets.                     *)
EXTENDS TaskEdits, FiniteSetTheorems, TLAPS

-------------------------------------------------------------------------------
(* The constants *)

LEMMA Caps ==
  /\ Reviewers \in Nat /\ Reviewers > 0
  /\ MaxFailures \in Nat /\ MaxFailures > 0
  /\ MaxRejections \in Nat /\ MaxRetries \in Nat /\ MaxUnclear \in Nat
  /\ MaxContract \in Nat /\ MaxRecovery \in Nat /\ MaxRevivals \in Nat
  /\ Cap \in Nat /\ MaxCommits \in Nat /\ MaxFaults \in Nat
  /\ NoSha \notin Nat /\ Nobody \notin Runner
BY CapsAssumption

LEMMA Shas == Base \in Sha /\ Sha \subseteq Nat /\ NoSha \notin Sha
BY Caps DEF Base, Sha

-------------------------------------------------------------------------------
(* Types *)

TaskRow == [status : Status, failures : 0..MaxFailures, rejections : Nat,
            approved : Sha \union {NoSha}]

Place == [pc : PC, act : {"none", "start", "resume", "review", "merge"}, status : Status,
          rejections : Nat, sub : Sha \union {NoSha}, explicit : BOOLEAN, erased : BOOLEAN]

\* A runner whose coder or reviewers have begun has a version of the task in hand.
SubKnown ==
    \A r \in Runner : runner[r].pc \in {"coding", "deciding", "reviewing", "judging"}
                         => runner[r].sub \in Sha

RowType    == task \in TaskRow /\ trail \in Summary(Sha)
CountType  == invocations \in Nat /\ coded \in BOOLEAN /\ running \subseteq Invocation
PlaceType  == runner \in [Runner -> Place] /\ SubKnown
LockType   == lock \in Runner \union {Nobody}
AsideType  == /\ sanitiser \in [todo : SUBSET Invocation, seen : Status]
              /\ endorsed \subseteq Sha /\ recovered \in BOOLEAN /\ faults \in 0..MaxFaults
EditType   == disputes \in Nat /\ resetting \in {"none", "task", "project"}

TypeInv == EditsTypeOK /\ SubKnown

LEMMA Parts ==
  TypeInv <=> /\ RowType /\ CountType /\ PlaceType /\ LockType /\ commits \in Sha
              /\ AsideType /\ EditType
BY DEF TypeInv, EditsTypeOK, TypeOK, RowType, TaskRow, CountType, PlaceType, Place, LockType,
       AsideType, EditType

LEMMA PartsNext ==
  ASSUME RowType', CountType', PlaceType', LockType', commits' \in Sha, AsideType', EditType'
  PROVE  TypeInv'
BY DEF TypeInv, EditsTypeOK, TypeOK, RowType, TaskRow, CountType, PlaceType, Place, LockType,
       AsideType, EditType

-------------------------------------------------------------------------------
(* Operators *)

\* A row added to a summary makes a summary.
LEMMA NoteType ==
  ASSUME NEW sum \in Summary(Sha), NEW from, NEW to, NEW actor, NEW tag,
         NEW sha \in Sha \union {NoSha}
  PROVE  Note(sum, Row(from, to, actor, tag, sha)) \in Summary(Sha)
<1> DEFINE row  == Row(from, to, actor, tag, sha)
           note == Note(sum, row)
<1>1. row.sha \in Sha \union {NoSha} BY DEF Row
<1> HIDE DEF row
<1>2. \A cap, n \in Nat : n <= cap => AtMost(cap, n + 1) \in 0..cap BY DEF AtMost
<1>3. /\ sum.retries \in 0..MaxRetries /\ sum.unclear \in 0..MaxUnclear
      /\ sum.recovery \in 0..MaxRecovery /\ sum.revivals \in 0..MaxRevivals
      /\ sum.contracts \in [Contracts -> 0..MaxContract]
      /\ sum.latest \in Sha \union {NoSha} /\ sum.several \in BOOLEAN
      /\ sum.newest \in {"submission", "noop", "other"} /\ sum.explicit \in BOOLEAN
  BY DEF Summary
<1>4. note.retries \in 0..MaxRetries BY <1>2, <1>3, Caps DEF Note
<1>5. note.unclear \in 0..MaxUnclear BY <1>2, <1>3, Caps DEF Note
<1>6. note.recovery \in 0..MaxRecovery BY <1>2, <1>3, Caps DEF Note
<1>7. note.revivals \in 0..MaxRevivals BY <1>2, <1>3, Caps DEF Note
<1>8. note.contracts \in [Contracts -> 0..MaxContract]
  <2>1. \A c \in Contracts : sum.contracts[c] \in 0..MaxContract BY <1>3
  <2>2. \A c \in Contracts : AtMost(MaxContract, sum.contracts[c] + 1) \in 0..MaxContract
    BY <1>2, <2>1, Caps
  <2>3. QED BY <2>1, <2>2, Caps DEF Note
<1>9. note.latest \in Sha \union {NoSha} BY <1>1, <1>3 DEF Note
<1>10. note.several \in BOOLEAN BY <1>3 DEF Note
<1>11. note.newest \in {"submission", "noop", "other"} BY <1>3 DEF Note, Kind
<1>12. note.explicit \in BOOLEAN BY <1>3 DEF Note
<1>13. note = [retries |-> note.retries, unclear |-> note.unclear, recovery |-> note.recovery,
               revivals |-> note.revivals, contracts |-> note.contracts, latest |-> note.latest,
               several |-> note.several, newest |-> note.newest, explicit |-> note.explicit]
  BY DEF Note
<1> HIDE DEF note
<1>14. QED
  BY <1>4, <1>5, <1>6, <1>7, <1>8, <1>9, <1>10, <1>11, <1>12, <1>13 DEF Summary, row, note

LEMMA EmptyType == EmptySummary \in Summary(Sha)
BY Caps DEF EmptySummary, Summary

\* The rows written by the orchestrator, by a person and by a runner about its copy.
LEMMA RowsType ==
  ASSUME NEW sum \in Summary(Sha), NEW to, NEW tag, NEW s, NEW sha \in Sha \union {NoSha}
  PROVE  /\ Note(sum, By(to, tag, sha)) \in Summary(Sha)
         /\ Note(sum, By(to, tag, NoSha)) \in Summary(Sha)
         /\ Note(sum, Remark(s, tag)) \in Summary(Sha)
         /\ Note(sum, ByHand(to)) \in Summary(Sha)
         /\ Note(sum, CoordinatorRow(s)) \in Summary(Sha)
BY NoteType DEF By, Remark, ByHand, CoordinatorRow

\* The row with some of its columns changed.
LEMMA TaskRows ==
  ASSUME NEW row \in TaskRow
  PROVE  /\ \A to \in Status : [row EXCEPT !.status = to] \in TaskRow
         /\ \A n \in 0..MaxFailures : [row EXCEPT !.failures = n] \in TaskRow
         /\ \A to \in Status, n \in 0..MaxFailures :
               [row EXCEPT !.status = to, !.failures = n] \in TaskRow
         /\ \A k \in Nat : [row EXCEPT !.rejections = k] \in TaskRow
         /\ \A to \in Status, k \in Nat :
               [row EXCEPT !.status = to, !.rejections = k] \in TaskRow
         /\ \A to \in Status, n \in 0..MaxFailures, k \in Nat :
               [row EXCEPT !.status = to, !.failures = n, !.rejections = k] \in TaskRow
         /\ \A to \in Status, sha \in Sha \union {NoSha} :
               [row EXCEPT !.status = to, !.approved = sha] \in TaskRow
BY DEF TaskRow

LEMMA BecomesType ==
  ASSUME task \in TaskRow, NEW sum \in Summary(Sha), NEW to \in Status, NEW tag,
         NEW sha \in Sha \union {NoSha}, Becomes(sum, to, tag, sha)
  PROVE  RowType'
<1>1. trail' \in Summary(Sha) BY RowsType DEF Becomes
<1>2. task' \in TaskRow BY Caps DEF Becomes, TaskRow
<1>3. QED BY <1>1, <1>2 DEF RowType

LEMMA ProviderFailsType ==
  ASSUME RowType, ProviderFails
  PROVE  RowType'
<1>1. task.failures + 1 \in Nat BY DEF RowType, TaskRow
<1>2. task' \in TaskRow
  <2>1. task \in TaskRow /\ "failed" \in Status BY DEF RowType, Status
  <2>2. CASE task.failures + 1 >= MaxFailures
    <3>1. task' = [task EXCEPT !.status = "failed", !.failures = MaxFailures]
      BY <2>2 DEF ProviderFails
    <3>2. MaxFailures \in 0..MaxFailures BY Caps
    <3>3. QED BY <2>1, <3>1, <3>2, TaskRows
  <2>3. CASE ~ (task.failures + 1 >= MaxFailures)
    <3>1. task.failures + 1 \in 0..MaxFailures BY <1>1, <2>3, Caps
    <3>2. task' = [task EXCEPT !.failures = task.failures + 1] BY <2>3 DEF ProviderFails
    <3>3. QED BY <2>1, <3>1, <3>2, TaskRows
  <2>4. QED BY <2>2, <2>3
<1>3. trail' \in Summary(Sha) BY RowsType DEF ProviderFails, RowType
<1>4. QED BY <1>2, <1>3 DEF RowType

LEMMA RejectsType ==
  ASSUME RowType, NEW sum \in Summary(Sha), NEW sha \in Sha \union {NoSha}, Rejects(sum, sha)
  PROVE  RowType'
<1>1. task' \in TaskRow
  <2>1. task \in TaskRow /\ {"failed", "in_progress"} \subseteq Status BY DEF RowType, Status
  <2>2. task.rejections + 1 \in Nat BY <2>1 DEF TaskRow
  <2>3. PICK to \in {"failed", "in_progress"} :
           task' = [task EXCEPT !.status = to, !.rejections = task.rejections + 1]
    BY DEF Rejects
  <2>4. QED BY <2>1, <2>2, <2>3, TaskRows
<1>2. trail' \in Summary(Sha) BY NoteType DEF Rejects
<1>3. QED BY <1>1, <1>2 DEF RowType

LEMMA ApprovesType ==
  ASSUME RowType, NEW sum \in Summary(Sha), NEW sha \in Sha, Approves(sum, sha)
  PROVE  RowType'
<1>1. CASE sum.newest = "noop"
  BY <1>1, BecomesType DEF Approves, RowType, Status
<1>2. CASE sum.newest # "noop"
  <2>1. task' \in TaskRow BY <1>2 DEF Approves, RowType, TaskRow, Status
  <2>2. trail' \in Summary(Sha) BY <1>2, RowsType DEF Approves
  <2>3. QED BY <2>1, <2>2 DEF RowType
<1>3. QED BY <1>1, <1>2

LEMMA SubmitsType ==
  ASSUME RowType, NEW sum \in Summary(Sha), NEW sha \in Sha, NEW tag, Submits(sum, sha, tag)
  PROVE  RowType'
BY BecomesType DEF Submits, Fails, RowType, Status

\* A runner that begins an iteration, ends one, or moves on with what it has.
LEMMA PlacesType ==
  ASSUME PlaceType, NEW r \in Runner, NEW place \in Place,
         place.pc \in {"coding", "deciding", "reviewing", "judging"} => place.sub \in Sha,
         runner' = [runner EXCEPT ![r] = place]
  PROVE  PlaceType'
<1>1. \A q \in Runner : runner'[q] = IF q = r THEN place ELSE runner[q] BY DEF PlaceType
<1>2. runner' \in [Runner -> Place] BY DEF PlaceType
<1>3. QED BY <1>1, <1>2 DEF PlaceType, SubKnown

LEMMA IdleType == Idle \in Place /\ Idle.pc = "idle"
BY DEF Idle, Place, PC, OnTask, Status

LEMMA FinishType ==
  ASSUME PlaceType, LockType, NEW r \in Runner, Finish(r)
  PROVE  PlaceType' /\ LockType'
<1>1. PlaceType' BY PlacesType, IdleType DEF Finish
<1>2. LockType' BY DEF LockType, Finish
<1>3. QED BY <1>1, <1>2

LEMMA InvokeType ==
  ASSUME CountType, NEW r \in Runner, NEW role \in {"coder", "reviewer"}, NEW n \in 1..Reviewers,
         Invoke(r, role, n)
  PROVE  invocations' \in Nat /\ running' \subseteq Invocation
<1>1. 1..n \subseteq 1..Reviewers BY Caps
<1>2. [runner : {r}, role : {role}, n : 1..n, verdict : {"none"}] \subseteq Invocation
  BY <1>1 DEF Invocation, Verdict
<1>3. invocations' \in Nat BY Caps DEF Invoke, CountType
<1>4. QED BY <1>2, <1>3 DEF Invoke, CountType

LEMMA AnsweredType ==
  ASSUME CountType, NEW r \in Runner, Answered(r)
  PROVE  running' \subseteq Invocation
BY DEF Answered, CountType

\* What a runner that starts the coder makes of the row and the trail.
LEMMA MarksType ==
  ASSUME RowType, NEW r \in Runner
  PROVE  Working(r) \in TaskRow /\ Marked(r) \in Summary(Sha)
<1>1. task \in TaskRow /\ task.status \in Status /\ "in_progress" \in Status
  BY DEF RowType, TaskRow, Status
<1>2. Working(r) \in TaskRow BY <1>1, TaskRows DEF Working
<1>3. Marked(r) \in Summary(Sha) BY RowsType DEF Marked, RowType
<1>4. QED BY <1>2, <1>3

-------------------------------------------------------------------------------
(* Type correctness of the loop's steps *)

LoopType == RowType /\ CountType /\ PlaceType /\ LockType /\ commits \in Sha /\ AsideType

\* What the steps leave alone keeps its type.
LEMMA Frames ==
  ASSUME LoopType
  PROVE  /\ UNCHANGED <<task, trail>> => RowType'
         /\ UNCHANGED <<invocations, coded, running>> => CountType'
         /\ UNCHANGED runner => PlaceType'
         /\ UNCHANGED lock => LockType'
         /\ lock' = Nobody => LockType'
         /\ UNCHANGED commits => commits' \in Sha
         /\ UNCHANGED aside => AsideType'
BY DEF LoopType, RowType, CountType, PlaceType, SubKnown, LockType, AsideType, aside

LEMMA FaultType ==
  ASSUME LoopType
  PROVE  /\ Fault /\ UNCHANGED <<sanitiser, endorsed, recovered>> => AsideType'
         /\ Fault => faults' \in 0..MaxFaults
BY Caps DEF LoopType, AsideType, Fault

LEMMA SelectionType ==
  ASSUME LoopType, NEW r \in Runner, Select(r) \/ Denied(r) \/ SkipAtCap(r) \/ Admit(r)
  PROVE  LoopType'
<1>0. RowType /\ CountType /\ PlaceType /\ LockType /\ task \in TaskRow
  BY DEF LoopType, RowType
<1>p. runner \in [Runner -> Place] BY <1>0 DEF PlaceType
<1>1. CASE Select(r)
  <2> DEFINE place == [Idle EXCEPT !.pc = "chosen", !.act = Action,
                                   !.status = task.status, !.rejections = task.rejections]
  <2>1. Action \in {"none", "start", "resume", "review", "merge"} BY DEF Action
  <2>2. task.status \in Status /\ task.rejections \in Nat BY <1>0 DEF TaskRow
  <2>3. place \in Place /\ place.pc = "chosen" BY <2>1, <2>2 DEF Idle, Place, PC, OnTask
  <2>4. runner' = [runner EXCEPT ![r] = place] BY <1>1 DEF Select
  <2> HIDE DEF place
  <2>5. PlaceType' BY <1>0, <2>3, <2>4, PlacesType
  <2>6. QED BY <1>1, <2>5, Frames DEF Select, LoopType
<1>2. CASE Denied(r)
  <2>1. PlaceType' BY <1>0, <1>2, IdleType, PlacesType DEF Denied
  <2>2. QED BY <1>2, <2>1, Frames DEF Denied, LoopType
<1>3. CASE SkipAtCap(r)
  <2>1. PlaceType' BY <1>0, <1>3, IdleType, PlacesType DEF SkipAtCap
  <2>2. RowType' BY <1>0, <1>3, BecomesType DEF SkipAtCap, RowType, Status
  <2>3. QED BY <1>3, <2>1, <2>2, Frames DEF SkipAtCap, LoopType
<1>4. CASE Admit(r)
  <2> DEFINE place == [runner[r] EXCEPT !.pc = "admitted"]
  <2>1. place \in Place /\ place.pc = "admitted" BY <1>p DEF Place, PC
  <2>2. runner' = [runner EXCEPT ![r] = place] BY <1>4 DEF Admit
  <2> HIDE DEF place
  <2>3. PlaceType' BY <1>0, <2>1, <2>2, PlacesType
  <2>4. LockType' BY <1>4 DEF Admit, LockType
  <2>5. QED BY <1>4, <2>3, <2>4, Frames DEF Admit, LoopType
<1>5. QED BY <1>1, <1>2, <1>3, <1>4

LEMMA CoderType ==
  ASSUME LoopType, NEW r \in Runner,
         StartCoder(r) \/ PrepFails(r) \/ InvocationFails(r) \/ ProviderPauses(r) \/ CoderSucceeds(r)
  PROVE  LoopType'
<1>0. /\ RowType /\ CountType /\ PlaceType /\ LockType /\ AsideType
      /\ task \in TaskRow /\ trail \in Summary(Sha)
      /\ runner \in [Runner -> Place] /\ commits \in Sha
  BY DEF LoopType, RowType, PlaceType
<1>m. Working(r) \in TaskRow /\ Marked(r) \in Summary(Sha) BY <1>0, MarksType
<1>1. CASE StartCoder(r)
  <2>1. RowType'
    <3>1. Note(Marked(r), CoordinatorRow(runner[r])) \in Summary(Sha)
      BY <1>m, RowsType
    <3>2. QED BY <1>1, <1>m, <3>1 DEF StartCoder, RowType
  <2>2. CountType'
    <3>1. 1 \in 1..Reviewers BY Caps
    <3>2. QED BY <1>0, <1>1, <3>1, InvokeType DEF StartCoder, CountType
  <2>3. PlaceType'
    <3>1. PICK head \in Base..commits :
             runner' = [runner EXCEPT ![r] = [@ EXCEPT !.pc = "coding", !.sub = head]]
      BY <1>1 DEF StartCoder
    <3>2. head \in Sha BY <1>0, Caps DEF Sha, Base
    <3> DEFINE place == [runner[r] EXCEPT !.pc = "coding", !.sub = head]
    <3>3. place \in Place /\ place.sub \in Sha BY <1>0, <3>2 DEF Place, PC, OnTask
    <3>4. runner' = [runner EXCEPT ![r] = place] BY <3>1
    <3> HIDE DEF place
    <3>5. QED BY <1>0, <3>3, <3>4, PlacesType
  <2>4. QED BY <1>1, <2>1, <2>2, <2>3, Frames DEF StartCoder, LoopType
<1>2. CASE PrepFails(r)
  <2>1. PlaceType' /\ LockType' BY <1>0, <1>2, FinishType DEF PrepFails
  <2>2. [Working(r) EXCEPT !.status = "blocked_error"] \in TaskRow
    BY <1>m, TaskRows DEF Status
  <2>3. Note(Marked(r), Row(Working(r).status, "blocked_error", "orchestrator", "plain", NoSha))
          \in Summary(Sha)
    BY <1>m, NoteType
  <2>4. RowType' BY <1>2, <1>m, <2>2, <2>3 DEF PrepFails, RowType
  <2>5. AsideType' BY <1>2, Frames, FaultType DEF PrepFails, aside
  <2>6. QED BY <1>2, <2>1, <2>4, <2>5, Frames DEF PrepFails, LoopType
<1>3. CASE InvocationFails(r)
  <2>1. PlaceType' /\ LockType' BY <1>0, <1>3, FinishType DEF InvocationFails
  <2>2. RowType' BY <1>0, <1>3, ProviderFailsType DEF InvocationFails
  <2>3. CountType' BY <1>0, <1>3, AnsweredType DEF InvocationFails, CountType
  <2>4. QED BY <1>3, <2>1, <2>2, <2>3, Frames DEF InvocationFails, LoopType
<1>4. CASE ProviderPauses(r)
  <2>1. PlaceType' /\ LockType' BY <1>0, <1>4, FinishType DEF ProviderPauses
  <2>2. CountType' BY <1>0, <1>4, AnsweredType DEF ProviderPauses, CountType
  <2>3. QED BY <1>4, <2>1, <2>2, Frames DEF ProviderPauses, LoopType
<1>5. CASE CoderSucceeds(r)
  <2>1. CountType' BY <1>0, <1>5, AnsweredType DEF CoderSucceeds, CountType
  <2>2. PICK head \in {runner[r].sub} \union (1..MaxCommits \intersect {commits + 1}) :
          /\ commits' = IF head > commits THEN head ELSE commits
          /\ runner' = [runner EXCEPT ![r] =
               [@ EXCEPT !.pc = "deciding", !.sub = head,
                         !.explicit = trail.explicit /\ runner[r].rejections > 0]]
    BY <1>5 DEF CoderSucceeds
  <2>3. runner[r].sub \in Sha BY <1>0, <1>5 DEF CoderSucceeds, At, PlaceType, SubKnown
  <2>4. head \in Sha BY <2>3, Caps DEF Sha, Base
  <2>5. commits' \in Sha BY <1>0, <2>2, <2>4
  <2>6. PlaceType'
    <3> DEFINE place == [runner[r] EXCEPT !.pc = "deciding", !.sub = head,
                           !.explicit = trail.explicit /\ runner[r].rejections > 0]
    <3>1. place \in Place /\ place.sub \in Sha BY <1>0, <2>4 DEF Place, PC, OnTask
    <3>2. runner' = [runner EXCEPT ![r] = place] BY <2>2
    <3> HIDE DEF place
    <3>3. QED BY <1>0, <3>1, <3>2, PlacesType
  <2>7. QED BY <1>5, <2>1, <2>5, <2>6, Frames DEF CoderSucceeds, LoopType
<1>6. QED BY <1>1, <1>2, <1>3, <1>4, <1>5

LEMMA DecisionType ==
  ASSUME LoopType, NEW r \in Runner, GateFails(r) \/ NoChange(r) \/ Decide(r)
  PROVE  LoopType'
<1>0. /\ RowType /\ PlaceType /\ LockType /\ task \in TaskRow /\ trail \in Summary(Sha)
      /\ commits \in Sha /\ Base \in Sha
  BY Shas DEF LoopType, RowType
<1>1. CASE GateFails(r)
  <2>1. PlaceType' /\ LockType' BY <1>0, <1>1, FinishType DEF GateFails
  <2>2. RowType' BY <1>0, <1>1, RowsType DEF GateFails, RowType
  <2>3. QED BY <1>1, <2>1, <2>2, Frames DEF GateFails, LoopType
<1>2. CASE NoChange(r)
  <2>1. PlaceType' /\ LockType' BY <1>0, <1>2, FinishType DEF NoChange
  <2>2. RowType'
    <3>1. CASE Submits(trail, Base, "noop") BY <1>0, <3>1, SubmitsType
    <3>2. CASE Becomes(trail, IF trail.recovery + 1 >= MaxRecovery THEN "disputed"
                              ELSE "in_progress", "recovery", NoSha)
      BY <1>0, <3>2, BecomesType DEF Status
    <3>3. QED BY <1>2, <3>1, <3>2 DEF NoChange
  <2>3. QED BY <1>2, <2>1, <2>2, Frames DEF NoChange, LoopType
<1>3. CASE Decide(r)
  <2>1. PlaceType' /\ LockType' BY <1>0, <1>3, FinishType DEF Decide
  <2>2. RowType'
    <3>1. PICK d \in CoderDecisions, overridden \in BOOLEAN :
             LET decision == Decision(runner[r], d, overridden)
             IN  Execute(runner[r], Note(Heard(runner[r], overridden),
                                         Remark(runner[r], DecisionTag(d, decision))), d, decision)
      BY <1>3 DEF Decide
    <3> DEFINE decision == Decision(runner[r], d, overridden)
               sum      == Note(Heard(runner[r], overridden),
                                Remark(runner[r], DecisionTag(d, decision)))
    <3>2. Heard(runner[r], overridden) \in Summary(Sha) BY <1>0, RowsType DEF Heard
    <3>3. sum \in Summary(Sha) BY <3>2, RowsType
    <3>4. Execute(runner[r], sum, d, decision) BY <3>1
    <3>5. decision \in CoderDecisions \union {"contract_error"}
      BY <3>1 DEF Decision, ByRetries, ByContract, CoderDecisions, Contracts
    <3> HIDE DEF sum, decision
    <3>6. CASE decision \in {"retry"} \union Contracts
      <4>1. trail' = sum /\ UNCHANGED task BY <3>4, <3>6 DEF Execute, Contracts
      <4>2. QED BY <1>0, <3>3, <4>1 DEF RowType
    <3>7. CASE decision = "contract_error"
      <4>1. Fails(sum, d) BY <3>4, <3>7 DEF Execute, Contracts
      <4>2. QED BY <1>0, <3>3, <4>1, BecomesType DEF Fails, Status
    <3>8. CASE decision = "error"
      <4>1. Fails(sum, "plain") BY <3>4, <3>8 DEF Execute, Contracts
      <4>2. QED BY <1>0, <3>3, <4>1, BecomesType DEF Fails, Status
    <3>9. CASE decision = "submit"
      <4>1. CASE Fails(sum, "plain") BY <1>0, <3>3, <4>1, BecomesType DEF Fails, Status
      <4>2. CASE \E sha \in Base..commits : Submits(sum, sha, "plain")
        <5>1. Base..commits \subseteq Sha BY <1>0, Caps DEF Sha, Base
        <5>2. QED BY <1>0, <3>3, <4>2, <5>1, SubmitsType
      <4>3. CASE trail' = Note(sum, Remark(runner[r], "retry")) /\ UNCHANGED task
        BY <1>0, <3>3, <4>3, RowsType DEF RowType
      <4>4. QED BY <3>4, <3>9, <4>1, <4>2, <4>3 DEF Execute, Contracts
    <3>10. QED BY <3>5, <3>6, <3>7, <3>8, <3>9 DEF CoderDecisions
  <2>3. QED BY <1>3, <2>1, <2>2, Frames DEF Decide, LoopType
<1>4. QED BY <1>1, <1>2, <1>3

LEMMA ReviewType ==
  ASSUME LoopType, NEW r \in Runner, StartReview(r) \/ ReviewersAnswer(r)
  PROVE  LoopType'
<1>0. /\ RowType /\ CountType /\ PlaceType /\ LockType /\ runner \in [Runner -> Place]
      /\ task \in TaskRow /\ trail \in Summary(Sha)
  BY DEF LoopType, RowType, PlaceType
<1>1. CASE StartReview(r)
  <2> DEFINE s      == runner[r]
             routed == s.status = "pending"
             opened == IF routed THEN Note(trail, By("review", "plain", NoSha)) ELSE trail
             copy   == [s EXCEPT !.status = IF routed THEN "review" ELSE @]
             seen   == {opened} \union (IF opened.newest = "other" THEN {}
                                        ELSE {Note(opened, Remark(copy, "plain"))})
             from   == IF routed THEN "review" ELSE task.status
  <2>1. PICK sum \in seen :
         \/ LET to == IF sum.recovery + 1 >= MaxRecovery THEN "disputed" ELSE "in_progress"
            IN  /\ task' = [task EXCEPT !.status = to]
                /\ trail' = Note(sum, Row(from, to, "orchestrator", "recovery", NoSha))
                /\ Finish(r)
                /\ UNCHANGED <<invocations, running>>
         \/ /\ sum.latest # NoSha
            /\ task' = [task EXCEPT !.status = from]
            /\ trail' = sum
            /\ Invoke(r, "reviewer", Reviewers)
            /\ runner' = [runner EXCEPT ![r] = [copy EXCEPT !.pc = "reviewing", !.sub = sum.latest]]
            /\ UNCHANGED lock
    BY <1>1 DEF StartReview
  <2>2. opened \in Summary(Sha) BY <1>0, RowsType
  <2>3. sum \in Summary(Sha) BY <2>2, RowsType
  <2>4. from \in Status /\ {"disputed", "in_progress"} \subseteq Status
    BY <1>0 DEF TaskRow, Status
  <2>5. s \in Place /\ copy \in Place BY <1>0 DEF Place, Status
  <2> HIDE DEF copy, from, seen
  <2>6. CASE /\ sum.latest # NoSha
             /\ task' = [task EXCEPT !.status = from]
             /\ trail' = sum
             /\ Invoke(r, "reviewer", Reviewers)
             /\ runner' = [runner EXCEPT ![r] = [copy EXCEPT !.pc = "reviewing", !.sub = sum.latest]]
             /\ UNCHANGED lock
    <3>1. RowType'
      <4>1. [task EXCEPT !.status = from] \in TaskRow BY <1>0, <2>4, TaskRows
      <4>2. QED BY <2>3, <2>6, <4>1 DEF RowType
    <3>2. Reviewers \in 1..Reviewers BY Caps
    <3>3. invocations' \in Nat /\ running' \subseteq Invocation BY <1>0, <2>6, <3>2, InvokeType
    <3>4. CountType' BY <1>0, <1>1, <3>3 DEF StartReview, CountType
    <3>5. sum.latest \in Sha BY <2>3, <2>6 DEF Summary
    <3> DEFINE place == [copy EXCEPT !.pc = "reviewing", !.sub = sum.latest]
    <3>6. place \in Place /\ place.sub \in Sha BY <2>5, <3>5 DEF Place, PC, OnTask
    <3>7. runner' = [runner EXCEPT ![r] = place] BY <2>6
    <3> HIDE DEF place
    <3>8. PlaceType' BY <1>0, <3>6, <3>7, PlacesType
    <3>9. QED BY <1>1, <2>6, <3>1, <3>4, <3>8, Frames DEF StartReview, LoopType
  <2>7. CASE LET to == IF sum.recovery + 1 >= MaxRecovery THEN "disputed" ELSE "in_progress"
             IN  /\ task' = [task EXCEPT !.status = to]
                 /\ trail' = Note(sum, Row(from, to, "orchestrator", "recovery", NoSha))
                 /\ Finish(r)
                 /\ UNCHANGED <<invocations, running>>
    <3>1. RowType'
      <4>1. PICK to \in {"disputed", "in_progress"} :
              /\ task' = [task EXCEPT !.status = to]
              /\ trail' = Note(sum, Row(from, to, "orchestrator", "recovery", NoSha))
        BY <2>7
      <4>2. [task EXCEPT !.status = to] \in TaskRow BY <1>0, <2>4, TaskRows
      <4>3. QED BY <2>3, <4>1, <4>2, NoteType DEF RowType
    <3>2. PlaceType' /\ LockType' BY <1>0, <2>7, FinishType
    <3>3. UNCHANGED <<invocations, coded, running>> BY <1>1, <2>7 DEF StartReview
    <3>4. QED BY <1>1, <3>1, <3>2, <3>3, Frames DEF StartReview, LoopType
  <2>8. QED BY <2>1, <2>6, <2>7
<1>2. CASE ReviewersAnswer(r)
  <2>1. RowType'
    <3>0. 0 \in 0..MaxFailures BY Caps
    <3>1. [task EXCEPT !.failures = 0] \in TaskRow BY <1>0, <3>0, TaskRows
    <3>2. QED BY <1>0, <1>2, <3>1 DEF ReviewersAnswer, RowType
  <2>2. CountType' BY <1>0, <1>2, AnsweredType DEF ReviewersAnswer, CountType
  <2>3. PlaceType'
    <3> DEFINE place == [runner[r] EXCEPT !.pc = "judging"]
    <3>1. runner[r].sub \in Sha BY <1>0, <1>2 DEF ReviewersAnswer, At, PlaceType, SubKnown
    <3>2. place \in Place /\ place.sub \in Sha BY <1>0, <3>1 DEF Place, PC, OnTask
    <3>3. runner' = [runner EXCEPT ![r] = place] BY <1>2 DEF ReviewersAnswer
    <3> HIDE DEF place
    <3>4. QED BY <1>0, <3>2, <3>3, PlacesType
  <2>4. QED BY <1>2, <2>1, <2>2, <2>3, Frames DEF ReviewersAnswer, LoopType
<1>3. QED BY <1>1, <1>2

LEMMA JudgeType ==
  ASSUME LoopType, NEW r \in Runner, Judge(r)
  PROVE  LoopType'
<1> DEFINE s == runner[r]
<1>0. /\ RowType /\ PlaceType /\ LockType /\ AsideType
      /\ task \in TaskRow /\ trail \in Summary(Sha)
  BY DEF LoopType, RowType
<1>1. s.sub \in Sha /\ Reviewed(s) = s.sub
  BY <1>0 DEF Judge, At, PlaceType, SubKnown, Reviewed
<1>2. PlaceType' /\ LockType' BY <1>0, FinishType DEF Judge
<1>3. PICK verdict \in ReviewerDecisions :
        /\ LET sum == Note(trail, Remark(s, IF verdict = "unclear" THEN "unclear" ELSE "decision"))
           IN  CASE verdict = "approve" -> Approves(sum, Reviewed(s))
                 [] verdict = "reject"  -> Rejects(sum, Reviewed(s))
                 [] verdict = "dispute" -> Becomes(sum, "disputed", "plain", Reviewed(s))
                 [] verdict = "skip"    -> Becomes(sum, "skipped", "plain", Reviewed(s))
                 [] verdict = "unclear" -> trail' = sum /\ UNCHANGED task
        /\ endorsed' = IF verdict = "approve" THEN endorsed \union {s.sub} ELSE endorsed
        /\ recovered' = (recovered /\ verdict # "approve")
  BY DEF Judge, ReviewerDecisions
<1> DEFINE sum == Note(trail, Remark(s, IF verdict = "unclear" THEN "unclear" ELSE "decision"))
<1>4. sum \in Summary(Sha) BY <1>0, RowsType
<1>5. /\ verdict = "approve" => Approves(sum, Reviewed(s))
      /\ verdict = "reject"  => Rejects(sum, Reviewed(s))
      /\ verdict = "dispute" => Becomes(sum, "disputed", "plain", Reviewed(s))
      /\ verdict = "skip"    => Becomes(sum, "skipped", "plain", Reviewed(s))
      /\ verdict = "unclear" => trail' = sum /\ UNCHANGED task
  BY <1>3
<1> HIDE DEF sum
<1>6. RowType'
  <2>1. CASE verdict = "approve"
    <3>1. Approves(sum, s.sub) BY <1>1, <1>5, <2>1
    <3>2. QED BY <1>0, <1>1, <1>4, <3>1, ApprovesType
  <2>2. CASE verdict = "reject"
    <3>1. Rejects(sum, s.sub) BY <1>1, <1>5, <2>2
    <3>2. QED BY <1>0, <1>1, <1>4, <3>1, RejectsType
  <2>3. CASE verdict = "dispute"
    <3>1. Becomes(sum, "disputed", "plain", s.sub) BY <1>1, <1>5, <2>3
    <3>2. QED BY <1>0, <1>1, <1>4, <3>1, BecomesType DEF Status
  <2>4. CASE verdict = "skip"
    <3>1. Becomes(sum, "skipped", "plain", s.sub) BY <1>1, <1>5, <2>4
    <3>2. QED BY <1>0, <1>1, <1>4, <3>1, BecomesType DEF Status
  <2>5. CASE verdict = "unclear"
    <3>1. trail' = sum /\ UNCHANGED task BY <1>5, <2>5
    <3>2. QED BY <1>0, <1>4, <3>1 DEF RowType
  <2>6. QED BY <2>1, <2>2, <2>3, <2>4, <2>5 DEF ReviewerDecisions
<1>7. AsideType'
  <2>1. sanitiser' = sanitiser /\ faults' = faults BY DEF Judge
  <2>2. endorsed' \subseteq Sha BY <1>0, <1>1, <1>3 DEF AsideType
  <2>3. recovered' \in BOOLEAN BY <1>0, <1>3 DEF AsideType
  <2>4. QED BY <1>0, <2>1, <2>2, <2>3 DEF AsideType
<1>8. QED BY <1>2, <1>6, <1>7, Frames DEF Judge, LoopType

LEMMA MergeType ==
  ASSUME LoopType, NEW r \in Runner, StartMerge(r) \/ MergeEnds(r)
  PROVE  LoopType'
<1>0. /\ RowType /\ CountType /\ PlaceType /\ LockType /\ AsideType
      /\ runner \in [Runner -> Place] /\ task \in TaskRow /\ trail \in Summary(Sha)
  BY DEF LoopType, RowType, PlaceType
<1>1. CASE StartMerge(r)
  <2> DEFINE place == [runner[r] EXCEPT !.pc = "merging"]
  <2>1. place \in Place /\ place.pc = "merging" BY <1>0 DEF Place, PC, OnTask
  <2>2. runner' = [runner EXCEPT ![r] = place] BY <1>1 DEF StartMerge
  <2> HIDE DEF place
  <2>3. PlaceType' BY <1>0, <2>1, <2>2, PlacesType
  <2>4. QED BY <1>1, <2>3, Frames DEF StartMerge, LoopType
<1>2. CASE MergeEnds(r)
  <2>1. PlaceType' /\ LockType' BY <1>0, <1>2, FinishType DEF MergeEnds
  <2>2. UNCHANGED <<coded, running, commits, sanitiser, endorsed, recovered>>
    BY <1>2 DEF MergeEnds
  <2>3. /\ [task EXCEPT !.status = "review", !.approved = NoSha] \in TaskRow
        /\ [task EXCEPT !.status = "disputed"] \in TaskRow
    <3>1. {"review", "disputed"} \subseteq Status BY DEF Status
    <3>2. QED BY <1>0, <3>1, TaskRows
  <2>4. \A to : Note(trail, Row("merge_pending", to, "orchestrator", "plain", NoSha)) \in Summary(Sha)
    BY <1>0, NoteType
  <2>5. RowType'
    <3>1. CASE Becomes(trail, "completed", "plain", NoSha)
      BY <1>0, <3>1, BecomesType DEF Status
    <3>2. CASE Becomes(trail, "blocked_error", "plain", NoSha)
      BY <1>0, <3>2, BecomesType DEF Status
    <3>3. QED BY <1>0, <1>2, <2>3, <2>4, <3>1, <3>2 DEF MergeEnds, RowType
  <2>6. CountType' BY <1>0, <1>2 DEF MergeEnds, CountType
  <2>7. AsideType'
    <3>1. UNCHANGED faults \/ Fault BY <1>2 DEF MergeEnds
    <3>2. QED BY <2>2, <3>1, Frames, FaultType DEF aside
  <2>8. QED BY <2>1, <2>2, <2>5, <2>6, <2>7 DEF LoopType
<1>3. QED BY <1>1, <1>2

\* What an invocation of a killed reviewer leaves behind.
LEMMA LeftType ==
  ASSUME NEW r \in Runner, NEW S \in SUBSET (1..Reviewers), NEW logged \in [1..Reviewers -> Verdict]
  PROVE  {[runner |-> r, role |-> "reviewer", n |-> i, verdict |-> logged[i]] : i \in S}
            \subseteq Invocation
BY DEF Invocation

LEMMA CrashType ==
  ASSUME LoopType, NEW r \in Runner, Crash(r)
  PROVE  LoopType'
<1>0. /\ RowType /\ CountType /\ PlaceType /\ LockType /\ AsideType
      /\ runner \in [Runner -> Place]
  BY DEF LoopType, PlaceType
<1>1. PlaceType'
  <2>1. PICK label \in {"dead", "lost"} :
          runner' = [runner EXCEPT ![r] = [Idle EXCEPT !.pc = label]]
    BY DEF Crash
  <2> DEFINE place == [Idle EXCEPT !.pc = label]
  <2>2. place \in Place /\ place.pc \in {"dead", "lost"} BY IdleType DEF Place, PC
  <2>3. runner' = [runner EXCEPT ![r] = place] BY <2>1
  <2> HIDE DEF place
  <2>4. QED BY <1>0, <2>2, <2>3, PlacesType
<1>2. running' \subseteq Invocation /\ endorsed' \subseteq Sha
  <2>1. CASE ~ At(r, "reviewing")
    BY <1>0, <2>1 DEF Crash, CountType, AsideType
  <2>2. CASE At(r, "reviewing")
    <3>1. PICK logged \in [1..Reviewers -> Verdict], left \in SUBSET (1..Reviewers) :
              /\ running' = {x \in running : x.runner # r} \union
                   {[runner |-> r, role |-> "reviewer", n |-> i, verdict |-> logged[i]] :
                      i \in {j \in left : \E x \in running : x.runner = r}}
              /\ endorsed' = IF \A i \in 1..Reviewers : logged[i] = "approve"
                             THEN endorsed \union {runner[r].sub} ELSE endorsed
      BY <2>2 DEF Crash
    <3> DEFINE S == {j \in left : \E x \in running : x.runner = r}
    <3>2. S \in SUBSET (1..Reviewers) OBVIOUS
    <3> HIDE DEF S
    <3>3. {[runner |-> r, role |-> "reviewer", n |-> i, verdict |-> logged[i]] : i \in S}
             \subseteq Invocation
      BY <3>2, LeftType
    <3>4. runner[r].sub \in Sha BY <1>0, <2>2 DEF At, PlaceType, SubKnown
    <3>5. running' \subseteq Invocation BY <1>0, <3>1, <3>3 DEF CountType, S
    <3>6. QED BY <1>0, <3>1, <3>4, <3>5 DEF AsideType
  <2>3. QED BY <2>1, <2>2
<1>3. CountType' BY <1>0, <1>2 DEF Crash, CountType
<1>4. AsideType' BY <1>0, <1>2, FaultType DEF Crash, AsideType
<1>5. QED BY <1>1, <1>3, <1>4, Frames DEF Crash, LoopType

LEMMA ReopenedType ==
  ASSUME task \in TaskRow
  PROVE  Reopened \in TaskRow
<1>1. task.status \in Status /\ "pending" \in Status BY DEF TaskRow, Status
<1>2. QED BY <1>1, TaskRows DEF Reopened

LEMMA WakeupType ==
  ASSUME LoopType, Wakeup
  PROVE  LoopType'
<1>0. /\ RowType /\ CountType /\ AsideType /\ LockType /\ task \in TaskRow /\ trail \in Summary(Sha)
  BY DEF LoopType, RowType
<1>1. CASE SanitiseLists
  <2>1. task.status \in Status BY <1>0 DEF TaskRow
  <2>2. AsideType' BY <1>0, <1>1, <2>1 DEF SanitiseLists, AsideType, CountType
  <2>3. QED BY <1>1, <2>2, Frames DEF SanitiseLists, LoopType
<1>2. CASE SanitiseNext
  <2>1. PICK x \in sanitiser.todo :
          /\ RecoverApproval(x) \/ RecoverReject(x) \/ CloseOrphan(x)
          /\ running' = running \ {x}
          /\ \E seen \in {"pending", sanitiser.seen} :
                sanitiser' = [sanitiser EXCEPT !.todo = @ \ {x}, !.seen = seen]
    BY <1>2 DEF SanitiseNext
  <2>2. RowType' /\ LockType' /\ recovered' \in BOOLEAN
    <3>1. CASE RecoverApproval(x)
      <4>1. CASE Resubmission(trail) /\ UNCHANGED recovered
        <5>1. RowType'
          <6>1. PICK to \in {"disputed", "in_progress"} : Becomes(trail, to, "recovery", NoSha)
            BY <4>1 DEF Resubmission
          <6>2. to \in Status BY DEF Status
          <6>3. QED BY <1>0, <6>1, <6>2, BecomesType
        <5>2. QED BY <1>0, <3>1, <4>1, <5>1, Frames DEF RecoverApproval, AsideType
      <4>2. CASE trail.latest # NoSha /\ Approves(trail, trail.latest) /\ recovered' = TRUE
        <5>1. trail.latest \in Sha BY <1>0, <4>2 DEF Summary
        <5>2. RowType' BY <1>0, <4>2, <5>1, ApprovesType
        <5>3. QED BY <3>1, <4>2, <5>2, Frames DEF RecoverApproval
      <4>3. QED BY <3>1, <4>1, <4>2 DEF RecoverApproval
    <3>2. CASE RecoverReject(x)
      <4>1. recovered' \in BOOLEAN BY <1>0, <3>2 DEF RecoverReject, AsideType
      <4>2. CASE task.status = "review"
        <5>1. task.rejections + 1 \in Nat /\ "in_progress" \in Status BY <1>0 DEF TaskRow, Status
        <5>2. [task EXCEPT !.status = "in_progress", !.rejections = task.rejections + 1] \in TaskRow
          BY <1>0, <5>1, TaskRows
        <5>3. task' = [task EXCEPT !.status = "in_progress", !.rejections = task.rejections + 1]
          BY <3>2, <4>2 DEF RecoverReject
        <5>4. trail' \in Summary(Sha) BY <1>0, <3>2, <4>2, RowsType DEF RecoverReject
        <5>5. RowType' BY <5>2, <5>3, <5>4 DEF RowType
        <5>6. QED BY <3>2, <4>1, <4>2, <5>5, Frames DEF RecoverReject
      <4>3. CASE task.status # "review"
        BY <3>2, <4>1, <4>3, Frames DEF RecoverReject
      <4>4. QED BY <4>2, <4>3
    <3>3. CASE CloseOrphan(x)
      <4>1. RowType' BY <1>0, <3>3, ReopenedType DEF CloseOrphan, RowType
      <4>2. LockType' BY <1>0, <3>3 DEF CloseOrphan, LockType
      <4>3. QED BY <1>0, <3>3, <4>1, <4>2 DEF CloseOrphan, AsideType
    <3>4. QED BY <2>1, <3>1, <3>2, <3>3
  <2>3. CountType' BY <1>0, <1>2, <2>1 DEF SanitiseNext, CountType
  <2>4. sanitiser' \in [todo : SUBSET Invocation, seen : Status]
    <3>1. PICK seen \in {"pending", sanitiser.seen} :
            sanitiser' = [sanitiser EXCEPT !.todo = @ \ {x}, !.seen = seen]
      BY <2>1
    <3>2. seen \in Status BY <1>0 DEF AsideType, Status
    <3>3. QED BY <1>0, <3>1, <3>2 DEF AsideType
  <2>5. AsideType' BY <1>0, <1>2, <2>2, <2>4 DEF SanitiseNext, AsideType
  <2>6. QED BY <1>2, <2>2, <2>3, <2>5, Frames DEF SanitiseNext, LoopType
<1>3. QED BY <1>1, <1>2 DEF Wakeup

LEMMA RepairType ==
  ASSUME LoopType,
         \/ \E r \in Runner : CleanupAbandoned(r)
         \/ LockLapses \/ DeleteOrphanLock \/ RecoverDisputed \/ ReviveFailed \/ PullBack
  PROVE  LoopType'
<1>0. /\ RowType /\ CountType /\ PlaceType /\ LockType /\ runner \in [Runner -> Place]
      /\ task \in TaskRow /\ trail \in Summary(Sha)
  BY DEF LoopType, RowType, PlaceType
<1>s. {"pending", "in_progress"} \subseteq Status BY DEF Status
<1>n. [task EXCEPT !.status = "pending", !.approved = NoSha] \in TaskRow
  BY <1>0, <1>s, TaskRows
<1>1. CASE \E r \in Runner : CleanupAbandoned(r)
  <2>1. PICK r \in Runner : CleanupAbandoned(r) BY <1>1
  <2> DEFINE place == [runner[r] EXCEPT !.pc = "lost"]
  <2>2. place \in Place /\ place.pc = "lost" BY <1>0 DEF Place, PC
  <2>3. runner' = [runner EXCEPT ![r] = place] BY <2>1 DEF CleanupAbandoned
  <2> HIDE DEF place
  <2>4. PlaceType' BY <1>0, <2>2, <2>3, PlacesType
  <2>5. RowType' BY <1>0, <2>1, ReopenedType DEF CleanupAbandoned, RowType
  <2>6. CountType' BY <1>0, <2>1 DEF CleanupAbandoned, CountType
  <2>7. QED BY <2>1, <2>4, <2>5, <2>6, Frames DEF CleanupAbandoned, LoopType
<1>2. CASE LockLapses
  <2>1. UNCHANGED faults \/ Fault BY <1>2 DEF LockLapses
  <2>2. AsideType' BY <1>2, <2>1, Frames, FaultType DEF LockLapses, aside
  <2>3. QED BY <1>2, <2>2, Frames DEF LockLapses, LoopType
<1>3. CASE DeleteOrphanLock
  BY <1>3, Frames DEF DeleteOrphanLock, LoopType
<1>4. CASE RecoverDisputed
  <2>1. RowType' BY <1>0, <1>4, <1>n, RowsType DEF RecoverDisputed, RowType
  <2>2. QED BY <1>4, <2>1, Frames DEF RecoverDisputed, LoopType
<1>5. CASE ReviveFailed
  <2>1. [status |-> "pending", failures |-> 0, rejections |-> 0, approved |-> NoSha] \in TaskRow
    BY <1>s, Caps DEF TaskRow
  <2>2. RowType' BY <1>0, <1>5, <2>1, RowsType DEF ReviveFailed, RowType
  <2>3. QED BY <1>5, <2>2, Frames DEF ReviveFailed, LoopType
<1>6. CASE PullBack
  <2>1. RowType' BY <1>0, <1>6, <1>n, RowsType DEF PullBack, RowType
  <2>2. AsideType' BY <1>6, FaultType DEF PullBack
  <2>3. QED BY <1>6, <2>1, <2>2, Frames DEF PullBack, LoopType
<1>7. QED BY <1>1, <1>2, <1>3, <1>4, <1>5, <1>6

LEMMA NextType ==
  ASSUME LoopType, Next
  PROVE  LoopType'
BY SelectionType, CoderType, DecisionType, ReviewType, JudgeType, MergeType, CrashType,
   WakeupType, RepairType DEF Next, Steps

-------------------------------------------------------------------------------
(* Type correctness of what others do *)

LEMMA InitTypes == EditsInit => TypeInv
<1> SUFFICES ASSUME EditsInit PROVE TypeInv OBVIOUS
<1>1. RowType BY Caps, EmptyType DEF EditsInit, Begin, RowType, TaskRow, Status
<1>2. PlaceType
  <2>1. PICK there : runner = [r \in Runner |-> [Idle EXCEPT !.pc = IF r \in there THEN @ ELSE "lost"]]
    BY DEF EditsInit
  <2>2. \A r \in Runner : runner[r] \in Place /\ runner[r].pc \in {"idle", "lost"}
    BY <2>1, IdleType DEF Place, PC
  <2>3. runner \in [Runner -> Place] BY <2>1, <2>2
  <2>4. QED BY <2>2, <2>3 DEF PlaceType, SubKnown
<1>3. CountType /\ LockType /\ commits \in Sha /\ AsideType
  <2>1. Begin BY DEF EditsInit
  <2>2. CountType /\ LockType BY <2>1 DEF Begin, CountType, LockType
  <2>3. commits \in Sha BY <2>1, Shas DEF Begin
  <2>4. "pending" \in Status /\ 0 \in 0..MaxFaults BY Caps DEF Status
  <2>5. AsideType BY <2>1, <2>4 DEF Begin, AsideType
  <2>6. QED BY <2>2, <2>3, <2>5
<1>4. EditType BY DEF EditsInit, EditType
<1>5. QED BY <1>1, <1>2, <1>3, <1>4, Parts

LEMMA LoopStepType ==
  ASSUME TypeInv, Loop
  PROVE  TypeInv'
<1>1. LoopType /\ EditType BY Parts DEF LoopType
<1>2. LoopType' BY <1>1, NextType DEF Loop
<1>3. EditType' BY <1>1 DEF EditType, Loop
<1>4. QED BY <1>2, <1>3, PartsNext DEF LoopType

LEMMA RenewedType ==
  ASSUME task \in TaskRow, NEW to \in Status
  PROVE  /\ Renewed(to) \in TaskRow
         /\ [Renewed(to) EXCEPT !.approved = NoSha] \in TaskRow
         /\ \A k \in Nat : [Renewed(to) EXCEPT !.rejections = k] \in TaskRow
<1>1. 0 \in 0..MaxFailures /\ 0 \in Nat BY Caps
<1>2. Renewed(to) \in TaskRow BY <1>1, TaskRows DEF Renewed
<1>3. \A row \in TaskRow : [row EXCEPT !.approved = NoSha] \in TaskRow BY DEF TaskRow
<1>4. QED BY <1>2, <1>3, TaskRows

\* An edit of the row that leaves the loop and its runners alone.
LEMMA PlainEdit ==
  ASSUME TypeInv, AnEdit \/ Intrudes, RowType', UNCHANGED others, recovered' \in BOOLEAN,
         disputes' \in Nat
  PROVE  TypeInv'
<1>1. LoopType /\ EditType /\ AsideType BY Parts DEF LoopType
<1>2. Fault BY DEF AnEdit, Intrudes
<1>3. faults' \in 0..MaxFaults BY <1>1, <1>2, FaultType
<1>4. AsideType' BY <1>1, <1>3 DEF AsideType, others
<1>5. EditType' BY <1>1 DEF EditType, others
<1>6. CountType' /\ PlaceType' /\ LockType' /\ commits' \in Sha
  BY <1>1, Frames DEF others
<1>7. QED BY <1>4, <1>5, <1>6, PartsNext

LEMMA CommandsType ==
  ASSUME TypeInv,
         UpdateTask \/ AnnotateTask \/ ApproveTask \/ SkipTask \/ RejectTask \/ RestartTask
  PROVE  TypeInv'
<1>0. /\ LoopType /\ EditType /\ RowType /\ CountType /\ AsideType
      /\ task \in TaskRow /\ trail \in Summary(Sha) /\ disputes \in Nat /\ recovered \in BOOLEAN
  BY Parts DEF LoopType, RowType, AsideType, EditType
<1>s. {"pending", "in_progress", "review", "completed", "skipped", "partial"} \subseteq Status
  BY DEF Status
<1>k. task.rejections \in Nat /\ 0 \in Nat BY <1>0 DEF TaskRow
<1>h. \A to : Note(trail, ByHand(to)) \in Summary(Sha) BY <1>0, RowsType
<1>1. CASE UpdateTask
  <2>1. PICK sum \in Noted, rejections \in {task.rejections, 0},
             to \in {"pending", "in_progress", "review", "completed"} :
          /\ task' = CASE to = "completed" -> [Renewed(to) EXCEPT !.approved = NoSha]
                       [] to = "pending"   -> [Renewed(to) EXCEPT !.rejections = rejections]
                       [] OTHER            -> [task EXCEPT !.status = to, !.rejections = rejections]
          /\ trail' = Note(sum, ByHand(to))
    BY <1>1 DEF UpdateTask
  <2>2. to \in Status /\ rejections \in Nat BY <1>s, <1>k
  <2>3. /\ [Renewed(to) EXCEPT !.approved = NoSha] \in TaskRow
        /\ [Renewed(to) EXCEPT !.rejections = rejections] \in TaskRow
    BY <1>0, <2>2, RenewedType
  <2>4. [task EXCEPT !.status = to, !.rejections = rejections] \in TaskRow
    BY <1>0, <2>2, TaskRows
  <2>5. task' \in TaskRow BY <2>1, <2>3, <2>4
  <2>6. sum \in Summary(Sha) BY <1>0, <1>h DEF Noted
  <2>7. trail' \in Summary(Sha) BY <2>1, <2>6, RowsType
  <2>8. RowType' BY <2>5, <2>7 DEF RowType
  <2>9. QED BY <1>0, <1>1, <2>8, PlainEdit DEF UpdateTask
<1>2. CASE AnnotateTask
  <2>1. PICK rejections \in {task.rejections, 0} :
          Writes(ByHand(task.status), [task EXCEPT !.rejections = rejections])
    BY <1>2 DEF AnnotateTask
  <2>2. [task EXCEPT !.rejections = rejections] \in TaskRow BY <1>0, <1>k, TaskRows
  <2>3. RowType' BY <1>h, <2>1, <2>2 DEF Writes, RowType
  <2>4. QED BY <1>0, <1>2, <2>3, PlainEdit DEF AnnotateTask
<1>3. CASE ApproveTask
  <2>1. RowType' BY <1>0, <1>3, <1>s, <1>h, RenewedType DEF ApproveTask, Writes, RowType
  <2>2. QED BY <1>0, <1>3, <2>1, PlainEdit DEF ApproveTask
<1>4. CASE SkipTask
  <2>1. PICK to \in {"skipped", "partial"} : Writes(ByHand(to), [task EXCEPT !.status = to])
    BY <1>4 DEF SkipTask
  <2>2. [task EXCEPT !.status = to] \in TaskRow BY <1>0, <1>s, TaskRows
  <2>3. RowType' BY <1>h, <2>1, <2>2 DEF Writes, RowType
  <2>4. QED BY <1>0, <1>4, <2>3, PlainEdit DEF SkipTask
<1>5. CASE RejectTask
  <2>1. RowType' BY <1>0, <1>5, RejectsType DEF RejectTask
  <2>2. disputes' \in Nat BY <1>0, <1>5 DEF RejectTask
  <2>3. QED BY <1>0, <1>5, <2>1, <2>2, PlainEdit DEF RejectTask
<1>6. CASE RestartTask
  <2>1. [task EXCEPT !.status = "pending", !.rejections = 0] \in TaskRow
    BY <1>0, <1>s, <1>k, TaskRows
  <2>2. RowType' BY <1>6, <1>h, <2>1 DEF RestartTask, Writes, RowType
  <2>3. faults' \in 0..MaxFaults BY <1>0, <1>6, FaultType DEF RestartTask, AnEdit, Intrudes
  <2>4. AsideType' BY <1>0, <1>6, <2>3 DEF RestartTask, AsideType
  <2>5. CountType' BY <1>0, <1>6 DEF RestartTask, CountType
  <2>6. EditType' BY <1>0, <1>6 DEF RestartTask, EditType
  <2>7. QED BY <1>0, <1>6, <2>2, <2>4, <2>5, <2>6, Frames, PartsNext DEF RestartTask
<1>7. QED BY <1>1, <1>2, <1>3, <1>4, <1>5, <1>6

LEMMA OthersType ==
  ASSUME TypeInv,
         \/ CreateDispute \/ ResolveDispute
         \/ ResponderResets \/ ResponderResetsProject \/ ResponderUpdates
  PROVE  TypeInv'
<1>0. /\ LoopType /\ EditType /\ RowType /\ CountType /\ AsideType
      /\ task \in TaskRow /\ trail \in Summary(Sha) /\ disputes \in Nat /\ recovered \in BOOLEAN
  BY Parts DEF LoopType, RowType, AsideType, EditType
<1>s. {"pending", "in_progress", "review", "completed", "disputed"} \subseteq Status
  BY DEF Status
<1>h. \A to : Note(trail, ByHand(to)) \in Summary(Sha) BY <1>0, RowsType
<1>1. CASE CreateDispute
  <2>1. [task EXCEPT !.status = "disputed"] \in TaskRow BY <1>0, <1>s, TaskRows
  <2>2. RowType' BY <1>0, <1>1, <1>h, <2>1 DEF CreateDispute, Writes, RowType
  <2>3. disputes' \in Nat BY <1>0, <1>1 DEF CreateDispute
  <2>4. UNCHANGED <<others, recovered>> /\ (AnEdit \/ Intrudes) BY <1>1 DEF CreateDispute
  <2>5. QED BY <1>0, <2>2, <2>3, <2>4, PlainEdit
<1>2. CASE ResolveDispute
  <2>1. /\ [Renewed("completed") EXCEPT !.approved = NoSha] \in TaskRow
        /\ [task EXCEPT !.status = "in_progress"] \in TaskRow
    BY <1>0, <1>s, RenewedType, TaskRows
  <2>2. RowType' BY <1>2, <1>h, <2>1 DEF ResolveDispute, Writes, RowType
  <2>3. disputes' \in Nat BY <1>0, <1>2 DEF ResolveDispute
  <2>4. QED BY <1>0, <1>2, <2>2, <2>3, PlainEdit DEF ResolveDispute
<1>3. CASE ResponderResets
  <2>1. RowType'
    <3>1. task.rejections \in Nat BY <1>0 DEF TaskRow
    <3>2. task' \in TaskRow
      BY <1>3, <1>s, <3>1, Caps DEF ResponderResets, Writes, TaskRow
    <3>3. trail' \in Summary(Sha) BY <1>3, <1>h DEF ResponderResets, Writes
    <3>4. QED BY <3>2, <3>3 DEF RowType
  <2>2. faults' \in 0..MaxFaults BY <1>0, <1>3, FaultType DEF ResponderResets, AnEdit, Intrudes
  <2>3. AsideType' BY <1>0, <1>3, <2>2 DEF ResponderResets, AsideType
  <2>4. EditType' BY <1>0, <1>3 DEF ResponderResets, EditType
  <2>5. QED BY <1>0, <1>3, <2>1, <2>3, <2>4, Frames, PartsNext DEF ResponderResets
<1>4. CASE ResponderResetsProject
  <2>1. RowType' BY <1>0, <1>4, <1>s, RenewedType DEF ResponderResetsProject, RowType
  <2>2. QED BY <1>0, <1>4, <2>1, PlainEdit DEF ResponderResetsProject
<1>5. CASE ResponderUpdates
  <2>1. PICK to \in Status, approved \in {task.approved, NoSha} :
          task' = [task EXCEPT !.status = to, !.approved = approved]
    BY <1>5 DEF ResponderUpdates
  <2>2. approved \in Sha \union {NoSha} BY <1>0 DEF TaskRow
  <2>3. [task EXCEPT !.status = to, !.approved = approved] \in TaskRow
    BY <1>0, <2>2, TaskRows
  <2>4. RowType' BY <1>0, <1>5, <2>1, <2>3 DEF ResponderUpdates, RowType
  <2>5. recovered' \in BOOLEAN BY <1>0, <1>5 DEF ResponderUpdates
  <2>6. QED BY <1>0, <1>5, <2>4, <2>5, PlainEdit DEF ResponderUpdates
<1>6. QED BY <1>1, <1>2, <1>3, <1>4, <1>5

\* Runners killed by a reset leave rows and approvals of their own behind.
LEMMA KilledType ==
  ASSUME LoopType, NEW rs \in SUBSET Runner, Killed(rs)
  PROVE  PlaceType' /\ running' \subseteq Invocation /\ endorsed' \subseteq Sha
<1> DEFINE reviewing == {r \in rs : runner[r].pc = "reviewing"}
           rows      == {x \in running : x.runner \in reviewing}
<1>0. /\ runner \in [Runner -> Place] /\ SubKnown /\ running \subseteq Invocation
      /\ endorsed \subseteq Sha
  BY DEF LoopType, PlaceType, CountType, AsideType
<1>1. PlaceType'
  <2>1. runner' = [r \in Runner |-> IF r \in rs THEN [Idle EXCEPT !.pc = "lost"] ELSE runner[r]]
    BY DEF Killed
  <2>2. [Idle EXCEPT !.pc = "lost"] \in Place /\ [Idle EXCEPT !.pc = "lost"].pc = "lost"
    BY IdleType DEF Place, PC
  <2>3. runner' \in [Runner -> Place] BY <1>0, <2>1, <2>2
  <2>4. \A r \in Runner : runner'[r] = runner[r] \/ runner'[r].pc = "lost" BY <2>1, <2>2
  <2>5. QED BY <1>0, <2>3, <2>4 DEF PlaceType, SubKnown
<1>2. PICK logged \in [reviewing -> [1..Reviewers -> Verdict]], left \in SUBSET rows :
        /\ running' = (running \ rows) \union {[x EXCEPT !.verdict = logged[x.runner][x.n]] : x \in left}
        /\ endorsed' = endorsed \union
             {runner[r].sub : r \in {q \in reviewing :
                \A i \in 1..Reviewers : logged[q][i] = "approve"}}
  BY DEF Killed
<1>3. \A x \in left : [x EXCEPT !.verdict = logged[x.runner][x.n]] \in Invocation
  <2> SUFFICES ASSUME NEW x \in left
               PROVE  [x EXCEPT !.verdict = logged[x.runner][x.n]] \in Invocation
    OBVIOUS
  <2>1. x \in Invocation /\ x.runner \in reviewing /\ x.n \in 1..Reviewers
    BY <1>0 DEF Invocation
  <2>2. logged[x.runner][x.n] \in Verdict BY <1>2, <2>1
  <2>3. QED BY <2>1, <2>2 DEF Invocation
<1>4. running' \subseteq Invocation BY <1>0, <1>2, <1>3
<1>5. \A r \in reviewing : runner[r].sub \in Sha BY <1>0 DEF SubKnown
<1>6. endorsed' \subseteq Sha BY <1>0, <1>2, <1>5
<1>7. QED BY <1>1, <1>4, <1>6

LEMMA ResetsType ==
  ASSUME TypeInv, ResetBegins \/ ResetEnds \/ StartRunner
  PROVE  TypeInv'
<1>0. /\ LoopType /\ EditType /\ CountType /\ AsideType /\ PlaceType /\ runner \in [Runner -> Place]
      /\ task \in TaskRow /\ trail \in Summary(Sha)
  BY Parts DEF LoopType, RowType, PlaceType
<1>1. CASE ResetBegins
  <2>1. PICK kind \in {"task", "project"} : Killed(Doomed(kind)) /\ resetting' = kind
    BY <1>1 DEF ResetBegins
  <2>2. Doomed(kind) \in SUBSET Runner BY DEF Doomed, OnThisTask
  <2>3. PlaceType' /\ running' \subseteq Invocation /\ endorsed' \subseteq Sha
    BY <1>0, <2>1, <2>2, KilledType
  <2>4. faults' \in 0..MaxFaults BY <1>0, <1>1, FaultType DEF ResetBegins, AnEdit, Intrudes
  <2>5. AsideType' BY <1>0, <1>1, <2>3, <2>4 DEF ResetBegins, AsideType
  <2>6. CountType' BY <1>0, <1>1, <2>3 DEF ResetBegins, CountType
  <2>7. EditType' BY <1>0, <1>1, <2>1 DEF ResetBegins, EditType
  <2>8. QED BY <1>0, <1>1, <2>3, <2>5, <2>6, <2>7, Frames, PartsNext DEF ResetBegins
<1>2. CASE ResetEnds
  <2>1. RowType'
    <3>1. "pending" \in Status BY DEF Status
    <3>2. Renewed("pending") \in TaskRow BY <1>0, <3>1, RenewedType
    <3>3. TrailAfter(resetting) \in Summary(Sha) BY <1>0, RowsType, EmptyType DEF TrailAfter
    <3>4. QED BY <1>2, <3>2, <3>3 DEF ResetEnds, RowType
  <2>2. PlaceType'
    <3>1. runner' = [r \in Runner |-> [runner[r] EXCEPT !.erased = runner[r].pc \in OnTask]]
      BY <1>2 DEF ResetEnds
    <3>2. \A r \in Runner : /\ runner'[r] \in Place
                            /\ runner'[r].pc = runner[r].pc /\ runner'[r].sub = runner[r].sub
      <4>1. \A p \in Place, b \in BOOLEAN :
               LET q == [p EXCEPT !.erased = b] IN q \in Place /\ q.pc = p.pc /\ q.sub = p.sub
        BY DEF Place
      <4>2. \A r \in Runner : runner[r] \in Place /\ (runner[r].pc \in OnTask) \in BOOLEAN
        BY <1>0
      <4>3. \A r \in Runner : runner'[r] = [runner[r] EXCEPT !.erased = runner[r].pc \in OnTask]
        BY <3>1, Zenon
      <4> SUFFICES ASSUME NEW r \in Runner
                   PROVE  /\ runner'[r] \in Place
                          /\ runner'[r].pc = runner[r].pc /\ runner'[r].sub = runner[r].sub
        OBVIOUS
      <4> DEFINE b == runner[r].pc \in OnTask
      <4>4. runner[r] \in Place /\ b \in BOOLEAN /\ runner'[r] = [runner[r] EXCEPT !.erased = b]
        BY <4>2, <4>3, Zenon
      <4> HIDE DEF b
      <4>5. QED BY <4>1, <4>4
    <3>3. runner' \in [Runner -> Place]
      <4>1. \A r \in Runner : [runner[r] EXCEPT !.erased = runner[r].pc \in OnTask] \in Place
        BY <3>1, <3>2, Zenon
      <4>2. QED BY <3>1, <4>1, Zenon
    <3>4. QED BY <1>0, <3>2, <3>3 DEF PlaceType, SubKnown
  <2>3. CountType' BY <1>2 DEF ResetEnds, CountType
  <2>4. AsideType' BY <1>0, <1>2 DEF ResetEnds, AsideType
  <2>5. EditType' BY <1>2 DEF ResetEnds, EditType
  <2>6. QED BY <1>0, <1>2, <2>1, <2>2, <2>3, <2>4, <2>5, Frames, PartsNext DEF ResetEnds
<1>3. CASE StartRunner
  <2>1. PICK r \in Runner : Gone(r) BY <1>3 DEF StartRunner
  <2> DEFINE new == CHOOSE q \in Runner : Gone(q)
  <2>2. new \in Runner BY <2>1
  <2>3. runner' = [runner EXCEPT ![new] = Idle] BY <1>3 DEF StartRunner
  <2> HIDE DEF new
  <2>4. PlaceType' BY <1>0, <2>2, <2>3, IdleType, PlacesType
  <2>5. EditType' BY <1>0, <1>3 DEF StartRunner, EditType, editVars
  <2>6. QED BY <1>0, <1>3, <2>4, <2>5, Frames, PartsNext DEF StartRunner
<1>4. QED BY <1>1, <1>2, <1>3

LEMMA StepTypes == TypeInv /\ [EditsNext]_allVars => TypeInv'
<1> SUFFICES ASSUME TypeInv, [EditsNext]_allVars PROVE TypeInv' OBVIOUS
<1>1. CASE EditsNext
  BY <1>1, LoopStepType, CommandsType, OthersType, ResetsType DEF EditsNext, Edit
<1>2. CASE UNCHANGED allVars
  BY <1>2 DEF allVars, vars, editVars, TypeInv, EditsTypeOK, TypeOK, SubKnown
<1>3. QED BY <1>1, <1>2

LEMMA TypesHold == EditsSpec => []TypeInv
<1>1. EditsSpec => EditsInit /\ [][EditsNext]_allVars BY PTL DEF EditsSpec
<1>2. QED BY <1>1, InitTypes, StepTypes, PTL

(***************************************************************************)
(* Rows, audit summary, caps, copies and histories keep their types under  *)
(* everything the loop, the wakeup, people and responders do               *)
(* (src/runners/orchestrator-loop.ts, src/commands/tasks.ts): the count of *)
(* failures and the counts the audit trail is scanned for stay within      *)
(* their caps, and nothing but versions of the task is ever endorsed.      *)
(***************************************************************************)
THEOREM TypeCorrect == EditsSpec => []EditsTypeOK
<1>1. TypeInv => EditsTypeOK BY DEF TypeInv
<1>2. QED BY <1>1, TypesHold, PTL

-------------------------------------------------------------------------------
(* Approvals *)

\* A step that queues nothing for the merge that was not queued before.
QueuesNothing ==
    task'.status = "merge_pending" => task.status = "merge_pending" /\ task'.approved = task.approved

\* What was endorsed stays so, and what was recovered counts as recovered.
HistoryKept == endorsed \subseteq endorsed' /\ (recovered => recovered')

LEMMA ApprovalKept ==
  ASSUME LoopApprovesWhatWasReviewed, QueuesNothing, HistoryKept
  PROVE  LoopApprovesWhatWasReviewed'
BY DEF LoopApprovesWhatWasReviewed, QueuesNothing, HistoryKept

LEMMA BecomesLeaves ==
  ASSUME task \in TaskRow, NEW sum, NEW to, NEW tag, NEW sha, Becomes(sum, to, tag, sha),
         to # "merge_pending"
  PROVE  QueuesNothing
BY DEF Becomes, TaskRow, QueuesNothing

LEMMA RejectsLeaves ==
  ASSUME task \in TaskRow, NEW sum, NEW sha, Rejects(sum, sha)
  PROVE  QueuesNothing
BY DEF Rejects, TaskRow, QueuesNothing

LEMMA SubmitsLeaves ==
  ASSUME task \in TaskRow, NEW sum, NEW sha, NEW tag, Submits(sum, sha, tag)
  PROVE  QueuesNothing
BY BecomesLeaves DEF Submits, Fails

\* What a submission that is approved leads to.
LEMMA ApprovesQueues ==
  ASSUME task \in TaskRow, NEW sum, NEW sha, Approves(sum, sha)
  PROVE  task'.status = "merge_pending" => task'.approved = sha
<1>1. CASE sum.newest = "noop"
  <2>1. Becomes(sum, "completed", "plain", sha) BY <1>1 DEF Approves
  <2>2. task'.status = "completed" BY <2>1 DEF Becomes
  <2>3. QED BY <2>2
<1>2. CASE sum.newest # "noop"
  <2>1. task' = [task EXCEPT !.status = "merge_pending", !.approved = sha] BY <1>2 DEF Approves
  <2>2. QED BY <2>1 DEF TaskRow
<1>3. QED BY <1>1, <1>2

LEMMA SameTask == UNCHANGED task => QueuesNothing
BY DEF QueuesNothing

LEMMA SameHistory == UNCHANGED <<endorsed, recovered>> => HistoryKept
BY DEF HistoryKept

LEMMA CoderQueuesNothing ==
  ASSUME TypeInv, NEW r \in Runner,
         \/ Select(r) \/ Denied(r) \/ SkipAtCap(r) \/ Admit(r)
         \/ StartCoder(r) \/ PrepFails(r) \/ InvocationFails(r) \/ ProviderPauses(r)
         \/ CoderSucceeds(r) \/ GateFails(r) \/ NoChange(r)
  PROVE  QueuesNothing
<1>0. task \in TaskRow BY Parts DEF RowType
<1>w. Working(r) \in TaskRow BY MarksType, Parts
<1>a. /\ Working(r).status = "merge_pending" => task.status = "merge_pending"
      /\ Working(r).approved = task.approved
  BY <1>0 DEF Working, TaskRow
<1>1. CASE Select(r) \/ Denied(r) \/ Admit(r) \/ ProviderPauses(r) \/ CoderSucceeds(r) \/ GateFails(r)
  BY <1>1, SameTask DEF Select, Denied, Admit, ProviderPauses, CoderSucceeds, GateFails
<1>2. CASE SkipAtCap(r) BY <1>0, <1>2, BecomesLeaves DEF SkipAtCap
<1>3. CASE StartCoder(r) BY <1>3, <1>a DEF StartCoder, QueuesNothing
<1>4. CASE PrepFails(r)
  <2>1. task' = Working(r) \/ task' = [Working(r) EXCEPT !.status = "blocked_error"]
    BY <1>4 DEF PrepFails
  <2>2. task'.status = "merge_pending" => task' = Working(r) BY <1>w, <2>1 DEF TaskRow
  <2>3. QED BY <1>a, <2>2 DEF QueuesNothing
<1>5. CASE InvocationFails(r)
  <2>1. ProviderFails BY <1>5 DEF InvocationFails
  <2>2. QED BY <1>0, <2>1 DEF ProviderFails, TaskRow, QueuesNothing
<1>6. CASE NoChange(r)
  <2>1. CASE Submits(trail, Base, "noop") BY <1>0, <2>1, SubmitsLeaves
  <2>2. CASE Becomes(trail, IF trail.recovery + 1 >= MaxRecovery THEN "disputed" ELSE "in_progress",
                     "recovery", NoSha)
    BY <1>0, <2>2, BecomesLeaves
  <2>3. QED BY <1>6, <2>1, <2>2 DEF NoChange
<1>7. QED BY <1>1, <1>2, <1>3, <1>4, <1>5, <1>6

LEMMA DecideQueuesNothing ==
  ASSUME TypeInv, NEW r \in Runner, Decide(r)
  PROVE  QueuesNothing
<1>0. task \in TaskRow BY Parts DEF RowType
<1> DEFINE Told(d, overridden) ==
             Note(Heard(runner[r], overridden),
                  Remark(runner[r], DecisionTag(d, Decision(runner[r], d, overridden))))
<1>1. PICK d \in CoderDecisions, overridden \in BOOLEAN :
         Execute(runner[r], Told(d, overridden), d, Decision(runner[r], d, overridden))
  BY DEF Decide
<1> DEFINE decision == Decision(runner[r], d, overridden)
           sum      == Told(d, overridden)
<1>2. decision \in CoderDecisions \union {"contract_error"}
  BY <1>1 DEF Decision, ByRetries, ByContract, CoderDecisions, Contracts
<1>3. Execute(runner[r], sum, d, decision) BY <1>1
<1> HIDE DEF decision, sum
<1>4. UNCHANGED task \/ (\E tag : Fails(sum, tag)) \/ (\E sha : Submits(sum, sha, "plain"))
  BY <1>2, <1>3 DEF Execute, CoderDecisions, Contracts
<1>5. CASE UNCHANGED task BY <1>5, SameTask
<1>6. CASE \E tag : Fails(sum, tag) BY <1>0, <1>6, BecomesLeaves DEF Fails
<1>7. CASE \E sha : Submits(sum, sha, "plain") BY <1>0, <1>7, SubmitsLeaves
<1>8. QED BY <1>4, <1>5, <1>6, <1>7

LEMMA ReviewQueuesNothing ==
  ASSUME TypeInv, NEW r \in Runner,
         StartReview(r) \/ ReviewersAnswer(r) \/ StartMerge(r) \/ MergeEnds(r) \/ Crash(r)
  PROVE  QueuesNothing
<1>0. task \in TaskRow BY Parts DEF RowType
<1>1. CASE StartReview(r)
  <2>1. \E to \in {"disputed", "in_progress", "review", task.status} :
           task' = [task EXCEPT !.status = to]
    BY <1>1 DEF StartReview
  <2>2. QED BY <1>0, <2>1 DEF TaskRow, QueuesNothing
<1>2. CASE ReviewersAnswer(r)
  <2>1. task' = task \/ task' = [task EXCEPT !.failures = 0] BY <1>2 DEF ReviewersAnswer
  <2>2. QED BY <1>0, <2>1 DEF TaskRow, QueuesNothing
<1>3. CASE StartMerge(r) \/ Crash(r) BY <1>3, SameTask DEF StartMerge, Crash
<1>4. CASE MergeEnds(r)
  <2>1. \/ UNCHANGED task
        \/ \E to \in {"completed", "blocked_error"} : Becomes(trail, to, "plain", NoSha)
        \/ task' = [task EXCEPT !.status = "review", !.approved = NoSha]
        \/ task' = [task EXCEPT !.status = "disputed"]
    BY <1>4 DEF MergeEnds
  <2>2. CASE \E to \in {"completed", "blocked_error"} : Becomes(trail, to, "plain", NoSha)
    BY <1>0, <2>2, BecomesLeaves
  <2>3. CASE UNCHANGED task BY <2>3, SameTask
  <2>4. CASE \/ task' = [task EXCEPT !.status = "review", !.approved = NoSha]
             \/ task' = [task EXCEPT !.status = "disputed"]
    BY <1>0, <2>4 DEF TaskRow, QueuesNothing
  <2>5. QED BY <2>1, <2>2, <2>3, <2>4
<1>5. QED BY <1>1, <1>2, <1>3, <1>4

\* Of the steps of a runner only a judgement queues the task, and with what it judged.
LEMMA JudgeApproves ==
  ASSUME TypeInv, LoopApprovesWhatWasReviewed, NEW r \in Runner, Judge(r)
  PROVE  LoopApprovesWhatWasReviewed'
<1> DEFINE s == runner[r]
<1>0. task \in TaskRow BY Parts DEF RowType
<1>1. PICK verdict \in ReviewerDecisions : \E sum :
        /\ verdict = "approve" => Approves(sum, s.sub)
        /\ verdict = "reject"  => Rejects(sum, s.sub)
        /\ verdict = "dispute" => Becomes(sum, "disputed", "plain", s.sub)
        /\ verdict = "skip"    => Becomes(sum, "skipped", "plain", s.sub)
        /\ verdict = "unclear" => UNCHANGED task
        /\ endorsed' = IF verdict = "approve" THEN endorsed \union {s.sub} ELSE endorsed
        /\ recovered' = (recovered /\ verdict # "approve")
  BY DEF Judge, ReviewerDecisions, Reviewed
<1>2. CASE verdict = "approve"
  <2>1. task'.status = "merge_pending" => task'.approved = s.sub
    BY <1>0, <1>1, <1>2, ApprovesQueues
  <2>2. QED BY <1>1, <1>2, <2>1 DEF LoopApprovesWhatWasReviewed
<1>3. CASE verdict # "approve"
  <2>1. QueuesNothing
    BY <1>0, <1>1, <1>3, RejectsLeaves, BecomesLeaves, SameTask DEF ReviewerDecisions
  <2>2. HistoryKept BY <1>1, <1>3 DEF HistoryKept
  <2>3. QED BY <2>1, <2>2, ApprovalKept
<1>4. QED BY <1>2, <1>3

LEMMA StepsApprove ==
  ASSUME TypeInv, LoopApprovesWhatWasReviewed, NEW r \in Runner, Steps(r) \/ Crash(r)
  PROVE  LoopApprovesWhatWasReviewed'
<1>1. CASE Judge(r) BY <1>1, JudgeApproves
<1>2. CASE Crash(r)
  <2>1. endorsed \subseteq endorsed' /\ recovered' = recovered BY <1>2 DEF Crash
  <2>2. HistoryKept BY <2>1 DEF HistoryKept
  <2>3. QED BY <1>2, <2>2, ReviewQueuesNothing, ApprovalKept
<1>3. CASE Steps(r) /\ ~ Judge(r)
  <2>1. UNCHANGED <<endorsed, recovered>>
    BY <1>3 DEF Steps, Select, Denied, SkipAtCap, Admit, StartCoder, PrepFails, InvocationFails,
                ProviderPauses, CoderSucceeds, GateFails, NoChange, Decide, StartReview,
                ReviewersAnswer, StartMerge, MergeEnds, aside
  <2>2. QueuesNothing
    BY <1>3, CoderQueuesNothing, DecideQueuesNothing, ReviewQueuesNothing DEF Steps
  <2>3. QED BY <2>1, <2>2, SameHistory, ApprovalKept
<1>4. QED BY <1>1, <1>2, <1>3

LEMMA RepairApproves ==
  ASSUME TypeInv, LoopApprovesWhatWasReviewed,
         \/ \E r \in Runner : CleanupAbandoned(r)
         \/ LockLapses \/ DeleteOrphanLock \/ RecoverDisputed \/ ReviveFailed \/ PullBack \/ Wakeup
  PROVE  LoopApprovesWhatWasReviewed'
<1>0. task \in TaskRow BY Parts DEF RowType
<1>r. task' = Reopened => QueuesNothing BY <1>0 DEF Reopened, TaskRow, QueuesNothing
<1>1. CASE SanitiseNext
  <2>1. endorsed' = endorsed BY <1>1 DEF SanitiseNext
  <2>2. PICK x : RecoverApproval(x) \/ RecoverReject(x) \/ CloseOrphan(x)
    BY <1>1 DEF SanitiseNext
  <2>3. CASE recovered' = TRUE BY <2>3 DEF LoopApprovesWhatWasReviewed
  <2>4. CASE QueuesNothing /\ UNCHANGED recovered
    BY <2>1, <2>4, SameHistory, ApprovalKept
  <2>5. (QueuesNothing /\ UNCHANGED recovered) \/ recovered' = TRUE
    <3>1. CASE RecoverApproval(x)
      <4>1. CASE Resubmission(trail) /\ UNCHANGED recovered
        BY <1>0, <4>1, BecomesLeaves DEF Resubmission
      <4>2. QED BY <3>1, <4>1 DEF RecoverApproval
    <3>2. CASE RecoverReject(x)
      <4>1. \/ UNCHANGED task
            \/ task' = [task EXCEPT !.status = "in_progress", !.rejections = task.rejections + 1]
        BY <3>2 DEF RecoverReject
      <4>2. QueuesNothing BY <1>0, <4>1 DEF TaskRow, QueuesNothing
      <4>3. QED BY <3>2, <4>2 DEF RecoverReject
    <3>3. CASE CloseOrphan(x) BY <1>r, <3>3 DEF CloseOrphan
    <3>4. QED BY <2>2, <3>1, <3>2, <3>3
  <2>6. QED BY <2>3, <2>4, <2>5
<1>2. CASE ~ SanitiseNext
  <2>1. UNCHANGED <<endorsed, recovered>>
    BY <1>2 DEF CleanupAbandoned, LockLapses, DeleteOrphanLock, RecoverDisputed, ReviveFailed,
                PullBack, Wakeup, SanitiseLists, aside
  <2>2. QueuesNothing
    <3>1. CASE \E r \in Runner : CleanupAbandoned(r) BY <1>r, <3>1 DEF CleanupAbandoned
    <3>2. CASE LockLapses \/ DeleteOrphanLock \/ SanitiseLists
      BY <3>2, SameTask DEF LockLapses, DeleteOrphanLock, SanitiseLists
    <3>3. CASE RecoverDisputed \/ PullBack
      <4>1. task' = [task EXCEPT !.status = "pending", !.approved = NoSha]
        BY <3>3 DEF RecoverDisputed, PullBack
      <4>2. QED BY <1>0, <4>1 DEF TaskRow, QueuesNothing
    <3>4. CASE ReviveFailed BY <3>4 DEF ReviveFailed, QueuesNothing
    <3>5. QED BY <1>2, <3>1, <3>2, <3>3, <3>4 DEF Wakeup
  <2>3. QED BY <2>1, <2>2, SameHistory, ApprovalKept
<1>3. QED BY <1>1, <1>2

LEMMA EditsApprove ==
  ASSUME TypeInv, LoopApprovesWhatWasReviewed, Edit \/ StartRunner
  PROVE  LoopApprovesWhatWasReviewed'
<1>0. task \in TaskRow BY Parts DEF RowType
<1>f. ASSUME NEW to \in Status, to # "merge_pending"
      PROVE  /\ Renewed(to).status # "merge_pending"
             /\ [Renewed(to) EXCEPT !.approved = NoSha].status # "merge_pending"
             /\ \A k : [Renewed(to) EXCEPT !.rejections = k].status # "merge_pending"
  <2>1. Renewed(to) \in TaskRow /\ Renewed(to).status = to
    BY <1>0, <1>f, RenewedType DEF Renewed, TaskRow
  <2>2. QED BY <1>f, <2>1 DEF TaskRow
<1>t. /\ \A to : [task EXCEPT !.status = to].status = to
      /\ \A to, k : [task EXCEPT !.status = to, !.rejections = k].status = to
      /\ \A k : /\ [task EXCEPT !.rejections = k].status = task.status
                /\ [task EXCEPT !.rejections = k].approved = task.approved
      /\ \A to, sha : [task EXCEPT !.status = to, !.approved = sha].status = to
  BY <1>0 DEF TaskRow
<1>s. {"pending", "in_progress", "review", "completed"} \subseteq Status BY DEF Status
<1>1. CASE ResponderUpdates
  <2>1. endorsed' = endorsed /\ recovered' = (recovered \/ task'.status = "merge_pending")
    BY <1>1 DEF ResponderUpdates, others
  <2>2. QED BY <2>1 DEF LoopApprovesWhatWasReviewed
<1>2. CASE ResetBegins
  <2>1. endorsed \subseteq endorsed' BY <1>2 DEF ResetBegins, Killed
  <2>2. UNCHANGED <<task, recovered>> BY <1>2 DEF ResetBegins
  <2>3. QED BY <2>1, <2>2, SameTask, ApprovalKept DEF HistoryKept
<1>3. CASE ~ ResponderUpdates /\ ~ ResetBegins
  <2>1. UNCHANGED <<endorsed, recovered>>
    BY <1>3 DEF Edit, StartRunner, UpdateTask, AnnotateTask, ApproveTask, SkipTask, RejectTask,
                RestartTask, CreateDispute, ResolveDispute, ResponderResets, ResponderResetsProject,
                ResetEnds, others, aside
  <2>2. QueuesNothing
    <3>1. CASE UpdateTask
      <4>1. PICK to \in {"pending", "in_progress", "review", "completed"} : \E k :
              \/ task' = [Renewed(to) EXCEPT !.approved = NoSha]
              \/ task' = [Renewed(to) EXCEPT !.rejections = k]
              \/ task' = [task EXCEPT !.status = to, !.rejections = k]
        BY <3>1 DEF UpdateTask
      <4>2. to \in Status /\ to # "merge_pending" BY <1>s
      <4>3. /\ [Renewed(to) EXCEPT !.approved = NoSha].status # "merge_pending"
            /\ \A k : [Renewed(to) EXCEPT !.rejections = k].status # "merge_pending"
        BY <1>f, <4>2
      <4>4. \A k : [task EXCEPT !.status = to, !.rejections = k].status # "merge_pending"
        BY <1>t, <4>2
      <4>5. task'.status # "merge_pending" BY <4>1, <4>3, <4>4
      <4>6. QED BY <4>5 DEF QueuesNothing
    <3>2. CASE AnnotateTask
      <4>1. PICK k : task' = [task EXCEPT !.rejections = k] BY <3>2 DEF AnnotateTask, Writes
      <4>2. QED BY <1>t, <4>1 DEF QueuesNothing
    <3>3. CASE ApproveTask
      BY <1>f, <1>s, <3>3 DEF ApproveTask, Writes, QueuesNothing
    <3>4. CASE SkipTask BY <1>t, <3>4 DEF SkipTask, Writes, QueuesNothing
    <3>5. CASE RejectTask BY <1>0, <3>5, RejectsLeaves DEF RejectTask
    <3>6. CASE RestartTask BY <1>t, <3>6 DEF RestartTask, Writes, QueuesNothing
    <3>7. CASE CreateDispute BY <1>t, <3>7, SameTask DEF CreateDispute, Writes, QueuesNothing
    <3>8. CASE ResolveDispute
      <4>1. \/ task' = [Renewed("completed") EXCEPT !.approved = NoSha]
            \/ task' = [task EXCEPT !.status = "in_progress"]
        BY <3>8 DEF ResolveDispute, Writes
      <4>2. [Renewed("completed") EXCEPT !.approved = NoSha].status # "merge_pending" BY <1>f, <1>s
      <4>3. [task EXCEPT !.status = "in_progress"].status # "merge_pending" BY <1>t
      <4>4. QED BY <4>1, <4>2, <4>3 DEF QueuesNothing
    <3>9. CASE ResponderResets BY <3>9 DEF ResponderResets, Writes, QueuesNothing
    <3>10. CASE ResponderResetsProject \/ ResetEnds
      BY <1>f, <1>s, <3>10 DEF ResponderResetsProject, ResetEnds, QueuesNothing
    <3>11. CASE StartRunner BY <3>11, SameTask DEF StartRunner
    <3>12. QED
      BY <1>3, <3>1, <3>2, <3>3, <3>4, <3>5, <3>6, <3>7, <3>8, <3>9, <3>10, <3>11 DEF Edit
  <2>3. QED BY <2>1, <2>2, SameHistory, ApprovalKept
<1>4. QED BY <1>1, <1>2, <1>3

(***************************************************************************)
(* What the loop queues for the merge is a commit that all reviewers of a  *)
(* round, or their arbiter, approved (runReviewerPhase and its decision).  *)
(* The loop looks at its copy alone: nothing compares it with the row at   *)
(* the time of the write.  That other runners submit meanwhile, people     *)
(* edit the row or a reset ends the attempt does not change which commit   *)
(* goes with the status, for any number of each.                           *)
(***************************************************************************)
THEOREM ApprovesReviewed == EditsSpec => []LoopApprovesWhatWasReviewed
<1>1. EditsSpec => EditsInit /\ [][EditsNext]_allVars BY PTL DEF EditsSpec
<1>2. EditsInit => LoopApprovesWhatWasReviewed
  BY DEF EditsInit, Begin, LoopApprovesWhatWasReviewed
<1>3. TypeInv /\ LoopApprovesWhatWasReviewed /\ [EditsNext]_allVars => LoopApprovesWhatWasReviewed'
  <2> SUFFICES ASSUME TypeInv, LoopApprovesWhatWasReviewed, [EditsNext]_allVars
               PROVE  LoopApprovesWhatWasReviewed'
    OBVIOUS
  <2>1. CASE Loop BY <2>1, StepsApprove, RepairApproves DEF Loop, Next
  <2>2. CASE Edit \/ StartRunner BY <2>2, EditsApprove
  <2>3. CASE UNCHANGED allVars
    BY <2>3 DEF allVars, vars, LoopApprovesWhatWasReviewed
  <2>4. QED BY <2>1, <2>2, <2>3 DEF EditsNext
<1>4. QED BY <1>1, <1>2, <1>3, TypesHold, PTL

-------------------------------------------------------------------------------
(* The cap of invocations *)

\* Runners past the comparison with the cap that have not yet used it.
Entitled == {r \in Runner : runner[r].pc \in {"admitted", "merging"}}

\* Each of them may still start one round of reviewers, or less.
CapInv ==
    /\ invocations + Reviewers * Cardinality(Entitled) <= Cap - 1 + Reviewers * Cardinality(Runner)
    /\ Entitled # {} => Cap > 0

LEMMA Counts ==
  /\ Cardinality(Runner) \in Nat /\ Cardinality(Runner) >= 1
  /\ \A S \in SUBSET Runner : /\ IsFiniteSet(S) /\ Cardinality(S) \in Nat
                              /\ Cardinality(S) <= Cardinality(Runner)
<1>1. IsFiniteSet(Runner) /\ Runner # {} BY RunnersAssumption
<1>2. Cardinality(Runner) \in Nat /\ Cardinality(Runner) # 0
  BY <1>1, FS_CardinalityType, FS_EmptySet
<1>3. \A S \in SUBSET Runner : IsFiniteSet(S) /\ Cardinality(S) <= Cardinality(Runner)
  BY <1>1, FS_Subset
<1>4. QED BY <1>2, <1>3, FS_CardinalityType

LEMMA Products ==
  ASSUME NEW R \in Nat, NEW a \in Nat, NEW b \in Nat
  PROVE  /\ R * a \in Nat
         /\ a <= b => R * a <= R * b
         /\ R * (a + 1) = R * a + R
<1>1. R * a \in Nat /\ R * b \in Nat OBVIOUS
<1>2. R * (a + 1) = R * a + R OBVIOUS
<1>3. ASSUME a <= b PROVE R * a <= R * b
  <2>1. PICK d \in Nat : b = a + d
    <3>1. b - a \in Nat /\ b = a + (b - a) BY <1>3
    <3>2. QED BY <3>1
  <2>2. R * b = R * a + R * d BY <2>1
  <2>3. R * d \in Nat BY <2>1
  <2>4. QED BY <1>1, <2>2, <2>3
<1>4. QED BY <1>1, <1>2, <1>3

LEMMA EntitledSubset == Entitled \subseteq Runner /\ Entitled' \subseteq Runner
BY DEF Entitled

\* No runner passes the check, and nothing is invoked.
LEMMA CapKept ==
  ASSUME TypeInv, CapInv, Entitled' \subseteq Entitled, invocations' = invocations
  PROVE  CapInv'
<1>1. IsFiniteSet(Entitled) BY Counts, EntitledSubset
<1>2. Cardinality(Entitled') <= Cardinality(Entitled) BY <1>1, FS_Subset
<1>3. Cardinality(Entitled) \in Nat /\ Cardinality(Entitled') \in Nat BY Counts, EntitledSubset
<1>4. Reviewers * Cardinality(Entitled') <= Reviewers * Cardinality(Entitled)
  BY <1>2, <1>3, Caps, Products
<1>5. /\ Reviewers * Cardinality(Entitled) \in Nat /\ Reviewers * Cardinality(Entitled') \in Nat
      /\ Reviewers * Cardinality(Runner) \in Nat /\ invocations \in Nat
  BY <1>3, Caps, Counts, Products, Parts DEF CountType
<1> DEFINE a == Reviewers * Cardinality(Entitled)
           b == Reviewers * Cardinality(Entitled')
           c == Reviewers * Cardinality(Runner)
<1>6. invocations + a <= Cap - 1 + c /\ b <= a BY <1>4 DEF CapInv
<1>7. a \in Nat /\ b \in Nat /\ c \in Nat BY <1>5
<1> HIDE DEF a, b, c
<1>8. invocations' + b <= Cap - 1 + c BY <1>5, <1>6, <1>7, Caps
<1>9. QED BY <1>8 DEF CapInv, a, b, c

\* A runner past the check invokes, and must pass it again.
LEMMA CapSpent ==
  ASSUME TypeInv, CapInv, NEW r \in Entitled, Entitled' \subseteq Entitled \ {r},
         NEW n \in 0..Reviewers, invocations' = invocations + n
  PROVE  CapInv'
<1>1. IsFiniteSet(Entitled) BY Counts, EntitledSubset
<1>2. /\ Cardinality(Entitled \ {r}) = Cardinality(Entitled) - 1
      /\ Cardinality(Entitled') <= Cardinality(Entitled \ {r})
  <2>1. IsFiniteSet(Entitled \ {r}) BY <1>1, FS_Subset
  <2>2. QED BY <1>1, <2>1, FS_RemoveElement, FS_Subset
<1>3. Cardinality(Entitled) \in Nat /\ Cardinality(Entitled') \in Nat BY Counts, EntitledSubset
<1>4. Reviewers * Cardinality(Entitled') + Reviewers <= Reviewers * Cardinality(Entitled)
  <2>1. Cardinality(Entitled') + 1 <= Cardinality(Entitled) BY <1>2, <1>3
  <2>2. Reviewers * (Cardinality(Entitled') + 1) <= Reviewers * Cardinality(Entitled)
    BY <1>3, <2>1, Caps, Products
  <2>3. QED BY <1>3, <2>2, Caps, Products
<1>5. invocations \in Nat BY Parts DEF CountType
<1> DEFINE a == Reviewers * Cardinality(Entitled)
           b == Reviewers * Cardinality(Entitled')
           c == Reviewers * Cardinality(Runner)
<1>6. invocations + a <= Cap - 1 + c /\ b + Reviewers <= a BY <1>4 DEF CapInv
<1>7. a \in Nat /\ b \in Nat /\ c \in Nat BY <1>3, Caps, Counts, Products
<1> HIDE DEF a, b, c
<1>8. invocations' + b <= Cap - 1 + c BY <1>5, <1>6, <1>7, Caps
<1>9. QED BY <1>8 DEF CapInv, a, b, c

\* A runner passes the check.
LEMMA CapPassed ==
  ASSUME TypeInv, CapInv, NEW r \in Runner, Entitled' = Entitled \union {r}, r \notin Entitled,
         invocations < Cap, invocations' = invocations
  PROVE  CapInv'
<1>1. invocations \in Nat BY Parts DEF CountType
<1>2. Cardinality(Entitled') \in Nat /\ Cardinality(Entitled') <= Cardinality(Runner)
  BY Counts, EntitledSubset
<1> DEFINE b == Reviewers * Cardinality(Entitled')
           c == Reviewers * Cardinality(Runner)
<1>3. b <= c /\ b \in Nat /\ c \in Nat BY <1>2, Caps, Counts, Products
<1> HIDE DEF b, c
<1>4. invocations' + b <= Cap - 1 + c BY <1>1, <1>3, Caps
<1>5. QED BY <1>1, <1>4, Caps DEF CapInv, b, c

\* Nothing is invoked yet, or any more.
LEMMA NoneInvoked ==
  ASSUME NEW S \in SUBSET Runner, S # {} => Cap > 0
  PROVE  Reviewers * Cardinality(S) <= Cap - 1 + Reviewers * Cardinality(Runner)
<1>1. Cardinality(S) \in Nat /\ Cardinality(S) <= Cardinality(Runner) BY Counts
<1> DEFINE a == Reviewers * Cardinality(S)
           c == Reviewers * Cardinality(Runner)
<1>2. a <= c /\ a \in Nat /\ c \in Nat BY <1>1, Caps, Counts, Products
<1>3. CASE S # {}
  <2> HIDE DEF a, c
  <2>1. a <= Cap - 1 + c BY <1>2, <1>3, Caps
  <2>2. QED BY <2>1 DEF a, c
<1>4. CASE S = {}
  <2>1. a = 0 BY <1>4, FS_EmptySet, Caps
  <2>2. c >= Reviewers
    <3>1. Reviewers * 1 <= Reviewers * Cardinality(Runner) BY Caps, Counts, Products
    <3>2. QED BY <3>1, Caps
  <2> HIDE DEF a, c
  <2>3. a <= Cap - 1 + c BY <1>2, <2>1, <2>2, Caps
  <2>4. QED BY <2>3 DEF a, c
<1>5. QED BY <1>3, <1>4

LEMMA CapAtStart ==
  ASSUME invocations = 0, Entitled = {}
  PROVE  CapInv
<1>1. Reviewers * Cardinality(Entitled) <= Cap - 1 + Reviewers * Cardinality(Runner)
  BY NoneInvoked, EntitledSubset
<1>2. Cardinality(Entitled) \in Nat BY Counts, EntitledSubset
<1>3. Reviewers * Cardinality(Entitled) \in Nat BY <1>2, Caps, Products
<1>4. QED BY <1>1, <1>3 DEF CapInv

LEMMA CapAtEnd ==
  ASSUME invocations' = 0, Entitled' # {} => Cap > 0
  PROVE  CapInv'
<1>1. Reviewers * Cardinality(Entitled') <= Cap - 1 + Reviewers * Cardinality(Runner)
  BY NoneInvoked, EntitledSubset
<1>2. Cardinality(Entitled') \in Nat BY Counts, EntitledSubset
<1>3. Reviewers * Cardinality(Entitled') \in Nat BY <1>2, Caps, Products
<1>4. QED BY <1>1, <1>3 DEF CapInv

LEMMA Moves ==
  ASSUME runner \in [Runner -> Place], NEW r \in Runner, NEW place,
         runner' = [runner EXCEPT ![r] = place]
  PROVE  /\ place.pc \notin {"admitted", "merging"} => Entitled' = Entitled \ {r}
         /\ place.pc \in {"admitted", "merging"} => Entitled' = Entitled \union {r}
<1>1. \A q \in Runner : runner'[q] = IF q = r THEN place ELSE runner[q] OBVIOUS
<1>2. QED BY <1>1 DEF Entitled

LEMMA FinishMoves ==
  ASSUME runner \in [Runner -> Place], NEW r \in Runner, Finish(r)
  PROVE  Entitled' = Entitled \ {r}
BY Moves, IdleType DEF Finish

LEMMA SamePlaces == UNCHANGED runner => Entitled' = Entitled
BY DEF Entitled

\* The cap bounds what the steps of a runner invoke.
LEMMA StepsCapped ==
  ASSUME TypeInv, CapInv, NEW r \in Runner, Steps(r)
  PROVE  CapInv'
<1>0. runner \in [Runner -> Place] BY Parts DEF PlaceType
<1>1. CASE Finish(r) /\ UNCHANGED invocations
  BY <1>0, <1>1, FinishMoves, CapKept
<1>2. CASE \/ InvocationFails(r) \/ ProviderPauses(r) \/ GateFails(r) \/ NoChange(r)
           \/ Decide(r) \/ Judge(r) \/ PrepFails(r)
  <2>1. Finish(r) /\ UNCHANGED invocations
    BY <1>2 DEF InvocationFails, ProviderPauses, GateFails, NoChange, Decide, Judge, PrepFails
  <2>2. QED BY <1>1, <2>1
<1>3. CASE Denied(r) \/ SkipAtCap(r)
  <2>1. runner' = [runner EXCEPT ![r] = Idle] /\ UNCHANGED invocations
    BY <1>3 DEF Denied, SkipAtCap
  <2>2. Entitled' = Entitled \ {r} BY <1>0, <2>1, IdleType, Moves
  <2>3. QED BY <2>1, <2>2, CapKept
<1>4. CASE Select(r)
  <2> DEFINE place == [Idle EXCEPT !.pc = "chosen", !.act = Action,
                                   !.status = task.status, !.rejections = task.rejections]
  <2>1. place.pc = "chosen" BY DEF Idle
  <2>2. runner' = [runner EXCEPT ![r] = place] /\ UNCHANGED invocations BY <1>4 DEF Select
  <2> HIDE DEF place
  <2>3. Entitled' = Entitled \ {r} BY <1>0, <2>1, <2>2, Moves
  <2>4. QED BY <2>2, <2>3, CapKept
<1>5. CASE Admit(r)
  <2> DEFINE place == [runner[r] EXCEPT !.pc = "admitted"]
  <2>1. place.pc = "admitted" BY <1>0 DEF Place
  <2>2. runner' = [runner EXCEPT ![r] = place] /\ UNCHANGED invocations BY <1>5 DEF Admit
  <2> HIDE DEF place
  <2>3. Entitled' = Entitled \union {r} BY <1>0, <2>1, <2>2, Moves
  <2>4. r \notin Entitled BY <1>5 DEF Admit, At, Entitled
  <2>5. invocations < Cap
    <3>1. invocations \in Nat BY Parts DEF CountType
    <3>2. ~ (invocations >= Cap) BY <1>5 DEF Admit, CapReached
    <3>3. QED BY <3>1, <3>2, Caps
  <2>6. QED BY <2>2, <2>3, <2>4, <2>5, CapPassed
<1>6. CASE StartCoder(r)
  <2>1. r \in Entitled BY <1>6 DEF StartCoder, At, Entitled
  <2>2. PICK head : runner' = [runner EXCEPT ![r] = [@ EXCEPT !.pc = "coding", !.sub = head]]
    BY <1>6 DEF StartCoder
  <2> DEFINE place == [runner[r] EXCEPT !.pc = "coding", !.sub = head]
  <2>3. place.pc = "coding" BY <1>0 DEF Place
  <2>4. runner' = [runner EXCEPT ![r] = place] BY <2>2
  <2> HIDE DEF place
  <2>5. Entitled' = Entitled \ {r} BY <1>0, <2>3, <2>4, Moves
  <2>6. invocations' = invocations + 1 /\ 1 \in 0..Reviewers
    BY <1>6, Caps DEF StartCoder, Invoke
  <2>7. QED BY <2>1, <2>5, <2>6, CapSpent
<1>7. CASE CoderSucceeds(r) \/ ReviewersAnswer(r)
  <2>1. \E place : runner' = [runner EXCEPT ![r] = place] /\ place.pc \in {"deciding", "judging"}
    <3>1. CASE CoderSucceeds(r)
      <4>1. PICK head : runner' = [runner EXCEPT ![r] =
               [@ EXCEPT !.pc = "deciding", !.sub = head,
                         !.explicit = trail.explicit /\ runner[r].rejections > 0]]
        BY <3>1 DEF CoderSucceeds
      <4> DEFINE place == [runner[r] EXCEPT !.pc = "deciding", !.sub = head,
                             !.explicit = trail.explicit /\ runner[r].rejections > 0]
      <4>2. place.pc = "deciding" BY <1>0 DEF Place
      <4>3. runner' = [runner EXCEPT ![r] = place] BY <4>1
      <4> HIDE DEF place
      <4>4. QED BY <4>2, <4>3
    <3>2. CASE ReviewersAnswer(r)
      <4> DEFINE place == [runner[r] EXCEPT !.pc = "judging"]
      <4>1. place.pc = "judging" BY <1>0 DEF Place
      <4>2. runner' = [runner EXCEPT ![r] = place] BY <3>2 DEF ReviewersAnswer
      <4> HIDE DEF place
      <4>3. QED BY <4>1, <4>2
    <3>3. QED BY <1>7, <3>1, <3>2
  <2>2. UNCHANGED invocations BY <1>7 DEF CoderSucceeds, ReviewersAnswer
  <2>3. Entitled' = Entitled \ {r} BY <1>0, <2>1, Moves
  <2>4. QED BY <2>2, <2>3, CapKept
<1>8. CASE StartReview(r)
  <2>1. r \in Entitled BY <1>8 DEF StartReview, At, Entitled
  <2>2. CASE Finish(r) /\ UNCHANGED invocations BY <1>1, <2>2
  <2>3. CASE /\ Invoke(r, "reviewer", Reviewers)
             /\ \E s \in Place : \E sub :
                   runner' = [runner EXCEPT ![r] = [s EXCEPT !.pc = "reviewing", !.sub = sub]]
    <3>1. PICK s, sub :
             s \in Place /\ runner' = [runner EXCEPT ![r] = [s EXCEPT !.pc = "reviewing", !.sub = sub]]
      BY <2>3
    <3>2. [s EXCEPT !.pc = "reviewing", !.sub = sub].pc = "reviewing" BY DEF Place
    <3>3. Entitled' = Entitled \ {r} BY <1>0, <3>1, <3>2, Moves
    <3>4. invocations' = invocations + Reviewers /\ Reviewers \in 0..Reviewers
      BY <2>3, Caps DEF Invoke
    <3>5. QED BY <2>1, <3>3, <3>4, CapSpent
  <2>4. \/ Finish(r) /\ UNCHANGED invocations
        \/ /\ Invoke(r, "reviewer", Reviewers)
           /\ \E s \in Place : \E sub :
                 runner' = [runner EXCEPT ![r] = [s EXCEPT !.pc = "reviewing", !.sub = sub]]
    <3> DEFINE copy == [runner[r] EXCEPT
                          !.status = IF runner[r].status = "pending" THEN "review" ELSE @]
    <3>1. copy \in Place BY <1>0 DEF Place, Status
    <3>2. \/ Finish(r) /\ UNCHANGED invocations
          \/ /\ Invoke(r, "reviewer", Reviewers)
             /\ \E sub : runner' = [runner EXCEPT ![r] = [copy EXCEPT !.pc = "reviewing", !.sub = sub]]
      BY <1>8 DEF StartReview
    <3> HIDE DEF copy
    <3>3. QED BY <3>1, <3>2
  <2>5. QED BY <2>2, <2>3, <2>4
<1>9. CASE StartMerge(r)
  <2> DEFINE place == [runner[r] EXCEPT !.pc = "merging"]
  <2>1. place.pc = "merging" BY <1>0 DEF Place
  <2>2. runner' = [runner EXCEPT ![r] = place] /\ UNCHANGED invocations BY <1>9 DEF StartMerge
  <2> HIDE DEF place
  <2>3. r \in Entitled BY <1>9 DEF StartMerge, At, Entitled
  <2>4. Entitled' = Entitled BY <1>0, <2>1, <2>2, <2>3, Moves
  <2>5. QED BY <2>2, <2>4, CapKept
<1>10. CASE MergeEnds(r)
  <2>1. r \in Entitled BY <1>10 DEF MergeEnds, At, Entitled
  <2>2. Entitled' = Entitled \ {r} BY <1>0, <1>10, FinishMoves DEF MergeEnds
  <2>3. invocations' = invocations \/ invocations' = invocations + 1 BY <1>10 DEF MergeEnds
  <2>4. 1 \in 0..Reviewers BY Caps
  <2>5. QED BY <2>1, <2>2, <2>3, <2>4, CapKept, CapSpent
<1>11. QED BY <1>2, <1>3, <1>4, <1>5, <1>6, <1>7, <1>8, <1>9, <1>10 DEF Steps

\* No other step invokes anything or lets a runner past the check.
LEMMA OthersCapped ==
  ASSUME TypeInv, CapInv,
         \/ \E r \in Runner : Crash(r) \/ CleanupAbandoned(r)
         \/ LockLapses \/ Wakeup \/ DeleteOrphanLock \/ RecoverDisputed \/ ReviveFailed \/ PullBack
         \/ Edit \/ StartRunner
  PROVE  CapInv'
<1>0. runner \in [Runner -> Place] BY Parts DEF PlaceType
<1>1. CASE \E r \in Runner : Crash(r) \/ CleanupAbandoned(r)
  <2>1. PICK r \in Runner : Crash(r) \/ CleanupAbandoned(r) BY <1>1
  <2>2. \E place : runner' = [runner EXCEPT ![r] = place] /\ place.pc \in {"dead", "lost"}
    <3>1. CASE Crash(r)
      <4>1. PICK label \in {"dead", "lost"} :
              runner' = [runner EXCEPT ![r] = [Idle EXCEPT !.pc = label]]
        BY <3>1 DEF Crash
      <4>2. [Idle EXCEPT !.pc = label].pc = label BY DEF Idle
      <4>3. QED BY <4>1, <4>2
    <3>2. CASE CleanupAbandoned(r)
      <4> DEFINE place == [runner[r] EXCEPT !.pc = "lost"]
      <4>1. place.pc = "lost" BY <1>0 DEF Place
      <4>2. runner' = [runner EXCEPT ![r] = place] BY <3>2 DEF CleanupAbandoned
      <4> HIDE DEF place
      <4>3. QED BY <4>1, <4>2
    <3>3. QED BY <2>1, <3>1, <3>2
  <2>3. Entitled' = Entitled \ {r} BY <1>0, <2>2, Moves
  <2>4. UNCHANGED invocations BY <2>1 DEF Crash, CleanupAbandoned
  <2>5. QED BY <2>3, <2>4, CapKept
<1>2. CASE \/ LockLapses \/ Wakeup \/ DeleteOrphanLock \/ RecoverDisputed \/ ReviveFailed \/ PullBack
  <2>1. UNCHANGED <<runner, invocations>>
    BY <1>2 DEF LockLapses, Wakeup, SanitiseLists, SanitiseNext, DeleteOrphanLock, RecoverDisputed,
                ReviveFailed, PullBack
  <2>2. QED BY <2>1, SamePlaces, CapKept
<1>3. CASE Edit /\ ~ ResetBegins /\ ~ ResetEnds
  <2>1. UNCHANGED <<runner, invocations>>
    BY <1>3 DEF Edit, UpdateTask, AnnotateTask, ApproveTask, SkipTask, RejectTask, RestartTask,
                CreateDispute, ResolveDispute, ResponderResets, ResponderResetsProject,
                ResponderUpdates, others
  <2>2. QED BY <2>1, SamePlaces, CapKept
<1>4. CASE ResetBegins
  <2>1. PICK rs : runner' = [r \in Runner |-> IF r \in rs THEN [Idle EXCEPT !.pc = "lost"] ELSE runner[r]]
    BY <1>4 DEF ResetBegins, Killed
  <2>2. [Idle EXCEPT !.pc = "lost"].pc = "lost" BY DEF Idle
  <2>3. Entitled' \subseteq Entitled BY <2>1, <2>2 DEF Entitled
  <2>4. UNCHANGED invocations BY <1>4 DEF ResetBegins
  <2>5. QED BY <2>3, <2>4, CapKept
<1>5. CASE ResetEnds
  <2>1. runner' = [r \in Runner |-> [runner[r] EXCEPT !.erased = runner[r].pc \in OnTask]]
    BY <1>5 DEF ResetEnds
  <2>2. \A p \in Place : \A b : [p EXCEPT !.erased = b].pc = p.pc BY DEF Place
  <2>3. \A r \in Runner : runner'[r].pc = runner[r].pc BY <1>0, <2>1, <2>2
  <2>4. Entitled' = Entitled BY <2>3 DEF Entitled
  <2>5. invocations' = 0 BY <1>5 DEF ResetEnds
  <2>6. Entitled' # {} => Cap > 0 BY <2>4 DEF CapInv
  <2>7. QED BY <2>5, <2>6, CapAtEnd
<1>6. CASE StartRunner
  <2>1. PICK r \in Runner : Gone(r) BY <1>6 DEF StartRunner
  <2> DEFINE new == CHOOSE q \in Runner : Gone(q)
  <2>2. new \in Runner BY <2>1
  <2>3. runner' = [runner EXCEPT ![new] = Idle] /\ UNCHANGED invocations BY <1>6 DEF StartRunner
  <2> HIDE DEF new
  <2>4. Entitled' = Entitled \ {new} BY <1>0, <2>2, <2>3, IdleType, Moves
  <2>5. QED BY <2>3, <2>4, CapKept
<1>7. QED BY <1>1, <1>2, <1>3, <1>4, <1>5, <1>6

LEMMA CapInvariant == EditsSpec => []CapInv
<1>1. EditsSpec => EditsInit /\ [][EditsNext]_allVars BY PTL DEF EditsSpec
<1>2. ASSUME EditsInit PROVE CapInv
  <2>1. PICK there : runner = [r \in Runner |-> [Idle EXCEPT !.pc = IF r \in there THEN @ ELSE "lost"]]
    BY <1>2 DEF EditsInit
  <2>2. \A r \in Runner : runner[r].pc \in {"idle", "lost"} BY <2>1 DEF Idle
  <2>3. Entitled = {} BY <2>2 DEF Entitled
  <2>4. QED BY <1>2, <2>3, CapAtStart DEF EditsInit, Begin
<1>3. TypeInv /\ CapInv /\ [EditsNext]_allVars => CapInv'
  <2> SUFFICES ASSUME TypeInv, CapInv, [EditsNext]_allVars PROVE CapInv' OBVIOUS
  <2>1. CASE Loop BY <2>1, StepsCapped, OthersCapped DEF Loop, Next
  <2>2. CASE Edit \/ StartRunner BY <2>2, OthersCapped
  <2>3. CASE UNCHANGED allVars
    BY <2>3, SamePlaces, CapKept DEF allVars, vars
  <2>4. QED BY <2>1, <2>2, <2>3 DEF EditsNext
<1>4. QED BY <1>1, <1>2, <1>3, TypesHold, PTL

(***************************************************************************)
(* Whatever is retried, rejected, revived, recovered or edited, a task     *)
(* gets no more invocations of an agent than the cap, and one round for    *)
(* every runner that compared it with the cap before the last one had used *)
(* its turn: the comparison (src/runners/orchestrator-loop.ts:246) and the *)
(* row of the invocation are steps apart, and nothing holds the task       *)
(* between them when its lock is deleted or lapses.                        *)
(***************************************************************************)
THEOREM InvocationsStayBounded == EditsSpec => []InvocationsBounded
<1>1. TypeInv /\ CapInv => InvocationsBounded
  <2> SUFFICES ASSUME TypeInv, CapInv PROVE InvocationsBounded OBVIOUS
  <2>1. Cardinality(Entitled) \in Nat /\ Cardinality(Runner) \in Nat BY Counts, EntitledSubset
  <2>2. Reviewers * Cardinality(Entitled) \in Nat /\ Reviewers * Cardinality(Runner) \in Nat
    BY <2>1, Caps, Products
  <2>3. invocations \in Nat BY Parts DEF CountType
  <2>4. Reviewers * Cardinality(Runner) = Cardinality(Runner) * Reviewers BY <2>1, Caps
  <2> DEFINE a == Reviewers * Cardinality(Entitled)
             c == Reviewers * Cardinality(Runner)
  <2>5. invocations + a <= Cap - 1 + c /\ a \in Nat /\ c \in Nat BY <2>2 DEF CapInv
  <2> HIDE DEF a, c
  <2>6. invocations <= Cap - 1 + c BY <2>3, <2>5, Caps
  <2>7. QED BY <2>4, <2>6 DEF InvocationsBounded, c
<1>2. QED BY <1>1, TypesHold, CapInvariant, PTL

==============================================================================
