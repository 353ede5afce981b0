------------------------------ MODULE TaskEdits ------------------------------
(***************************************************************************)
(* What others do to a task while runners work on it (TaskLifecycle): the  *)
(* commands of a person (src/commands/tasks.ts, tasks-reset.ts,            *)
(* project-reset.ts, disputes.ts), the restart of the web interface, the   *)
(* actions of the monitor's responder (src/monitor/investigator-actions.ts)*)
(* and the disputes of the task (src/disputes).                            *)
(*                                                                         *)
(* Most of them write the row by its id, whatever the task has become and  *)
(* whoever works on it; only the resets stop runners first, in a step of   *)
(* their own.  Every edit is one of the rare events of TaskLifecycle.      *)
(***************************************************************************)
EXTENDS TaskLifecycle

CONSTANT Amid    \* bound: runners there are when an edit comes

ASSUME AmidAssumption == Amid \in Nat

VARIABLES
    disputes,  \* open disputes of the task
    resetting  \* a reset that has stopped runners and has yet to write

editVars == <<disputes, resetting>>
allVars  == <<vars, editVars>>

\* What a plain edit of the row and its audit trail leaves alone.
others == <<invocations, coded, running, lock, runner, commits, sanitiser, endorsed, resetting>>

EditsTypeOK ==
    /\ TypeOK
    /\ disputes \in Nat
    /\ resetting \in {"none", "task", "project"}

\* All of the runners are there, or Amid of them.  Where edits may come, a minor
\* dispute may be open from before.
EditsInit ==
    /\ \E there \in {Runner, CHOOSE rs \in SUBSET Runner : Cardinality(rs) = Amid} :
          runner = [r \in Runner |-> [Idle EXCEPT !.pc = IF r \in there THEN @ ELSE "lost"]]
    /\ disputes \in (IF Cardinality(Alive) <= Amid THEN {0, 1} ELSE {0})
    /\ resetting = "none"
    /\ Begin

\* Rows of the trail by a person or a responder are not the orchestrator's.
ByHand(to) == Row(task.status, to, "human", "plain", NoSha)

Renewed(status) == [task EXCEPT !.status = status, !.failures = 0, !.rejections = 0]

\* An edit comes at any time, as far as the bounds go; where a dispute is open,
\* it is its resolution (a bound).
Intrudes == Fault /\ Cardinality(Alive) <= Amid
AnEdit   == disputes = 0 /\ Intrudes

\* The task is edited, with a row of the trail.
Writes(row, changed) == task' = changed /\ trail' = Note(trail, row)

-------------------------------------------------------------------------------
(* Commands of a person                                                    *)

\* updateTask: the count of rejections may be reset, or another field be
\* changed, each with a row of its own; then the status is written.  (Of a
\* task made pending a second row says that the failures are reset; no scan
\* tells one such row from two.)
Noted == {trail, Note(trail, ByHand(task.status))}

UpdateTask ==
    /\ AnEdit
    /\ \E sum \in Noted, rejections \in {task.rejections, 0},
          to \in {"pending", "in_progress", "review", "completed"} :
          /\ rejections # task.rejections => sum # trail
          /\ task' = CASE to = "completed" -> [Renewed(to) EXCEPT !.approved = NoSha]
                       [] to = "pending"   -> [Renewed(to) EXCEPT !.rejections = rejections]
                       [] OTHER            -> [task EXCEPT !.status = to, !.rejections = rejections]
          /\ trail' = Note(sum, ByHand(to))
    /\ UNCHANGED <<others, recovered, disputes>>

\* updateTaskFields and resetRejectionCount without a change of status.
AnnotateTask ==
    /\ AnEdit
    /\ \E rejections \in {task.rejections, 0} :
          Writes(ByHand(task.status), [task EXCEPT !.rejections = rejections])
    /\ UNCHANGED <<others, recovered, disputes>>

\* approveTaskCmd: the task is completed without a merge.
ApproveTask ==
    /\ AnEdit
    /\ task.status # "completed"
    /\ Writes(ByHand("completed"), [Renewed("completed") EXCEPT !.approved = NoSha])
    /\ UNCHANGED <<others, recovered, disputes>>

SkipTask ==
    /\ AnEdit
    /\ \E to \in {"skipped", "partial"} : Writes(ByHand(to), [task EXCEPT !.status = to])
    /\ UNCHANGED <<others, recovered, disputes>>

\* rejectTaskCmd calls rejectTask, as the loop does.
RejectTask ==
    /\ AnEdit
    /\ Rejects(trail, NoSha)
    /\ disputes' = disputes + (IF task'.status = "failed" THEN 1 ELSE 0)
    /\ UNCHANGED <<others, recovered>>

\* POST /tasks/:taskId/restart.  No runner is stopped and no lock released.
RestartTask ==
    /\ AnEdit
    /\ task.status \notin {"in_progress", "review"}
    /\ Writes(ByHand("pending"), [task EXCEPT !.status = "pending", !.rejections = 0])
    /\ disputes' = 0
    /\ running' = {}
    /\ UNCHANGED <<invocations, coded, lock, runner, commits, sanitiser, endorsed,
                   recovered, resetting>>

-------------------------------------------------------------------------------
(* Disputes.  Any open dispute of the task keeps others from being opened, *)
(* but for minor ones, which change no status.                             *)

CreateDispute ==
    \/ /\ AnEdit /\ disputes = 0
       /\ IF task.status = "disputed"
          THEN UNCHANGED <<task, trail>>
          ELSE Writes(ByHand("disputed"), [task EXCEPT !.status = "disputed"])
       /\ disputes' = disputes + 1
       /\ UNCHANGED <<others, recovered>>
    \/ /\ AnEdit
       /\ disputes' = disputes + 1
       /\ UNCHANGED <<task, trail, others, recovered>>

\* resolve looks at the dispute, and not at what has become of the task.
ResolveDispute ==
    /\ Intrudes
    /\ disputes > 0
    /\ disputes' = disputes - 1
    /\ \/ Writes(ByHand("completed"), [Renewed("completed") EXCEPT !.approved = NoSha])
       \/ Writes(ByHand("in_progress"), [task EXCEPT !.status = "in_progress"])
    /\ UNCHANGED <<others, recovered>>

-------------------------------------------------------------------------------
(* The monitor's responder                                                 *)

\* reset_task: to review, if a coder succeeded before.
ResponderResets ==
    /\ AnEdit
    /\ LET to == IF coded THEN "review" ELSE "pending"
       IN  Writes(ByHand(to), [status |-> to, failures |-> 0, approved |-> NoSha,
                              rejections |-> IF coded THEN task.rejections ELSE 0])
    /\ lock' = Nobody
    /\ UNCHANGED <<invocations, coded, running, runner, commits, sanitiser, endorsed,
                   recovered, disputes, resetting>>

\* reset_project writes no audit row.
ResponderResetsProject ==
    /\ task.status \in {"failed", "skipped", "blocked_error"}
    /\ AnEdit
    /\ task' = Renewed("pending")
    /\ UNCHANGED <<trail, others, recovered, disputes>>

\* update_task: any status, with or without its approved commit, and no row.
\* A task it queues for merge was not approved by the loop.
ResponderUpdates ==
    /\ AnEdit
    /\ \E to \in Status \ {"partial"}, approved \in {task.approved, NoSha} :
          task' = [task EXCEPT !.status = to, !.approved = approved]
    /\ recovered' = (recovered \/ task'.status = "merge_pending")
    /\ UNCHANGED <<trail, others, disputes>>

-------------------------------------------------------------------------------
(* Resets by command                                                       *)

\* The runners of rs are killed.  Of the reviewers at work any had logged a
\* verdict by then, and some may have completed.
Killed(rs) ==
    LET reviewing == {r \in rs : runner[r].pc = "reviewing"}
        rows      == {x \in running : x.runner \in reviewing}
    IN  /\ runner' = [r \in Runner |-> IF r \in rs THEN [Idle EXCEPT !.pc = "lost"] ELSE runner[r]]
        /\ \E logged \in [reviewing -> [1..Reviewers -> Verdict]], left \in SUBSET rows :
              /\ running' = (running \ rows) \union
                   {[x EXCEPT !.verdict = logged[x.runner][x.n]] : x \in left}
              /\ endorsed' = endorsed \union
                   {runner[r].sub : r \in {q \in reviewing :
                      \A i \in 1..Reviewers : logged[q][i] = "approve"}}

\* The runners whose current task this is, with the rows of those that died.
OnThisTask == {r \in Runner : runner[r].pc \in OnTask \union {"dead"}}

\* reset-project stops all runners of the project.
Doomed(kind) == IF kind = "task" THEN OnThisTask ELSE Runner

ResetBegins ==
    /\ resetting = "none"
    /\ AnEdit
    /\ \E kind \in {"task", "project"} : Killed(Doomed(kind)) /\ resetting' = kind
    /\ UNCHANGED <<task, trail, invocations, coded, lock, commits, sanitiser, recovered, disputes>>

\* reset-project deletes the trail, tasks reset adds to it.
TrailAfter(kind) ==
    IF kind = "task" THEN Note(trail, ByHand("pending")) ELSE EmptySummary

\* A runner that has begun to work meanwhile loses the rows of its invocations.
ResetEnds ==
    /\ resetting # "none"
    /\ task' = Renewed("pending")
    /\ trail' = TrailAfter(resetting)
    /\ invocations' = 0 /\ coded' = FALSE /\ running' = {}
    /\ lock' = Nobody
    /\ runner' = [r \in Runner |-> [runner[r] EXCEPT !.erased = runner[r].pc \in OnTask]]
    /\ disputes' = 0
    /\ resetting' = "none"
    /\ UNCHANGED <<commits, sanitiser, endorsed, recovered, faults>>

\* A runner that is gone, and of which nothing is left behind.
Gone(r) ==
    /\ At(r, "lost")
    /\ lock # r
    /\ \A x \in running \union sanitiser.todo : x.runner # r

\* The wakeup starts a runner where none is left.  Its id is new, that is, any
\* that nothing names any more.
StartRunner ==
    /\ Alive = {}
    /\ \E r \in Runner : Gone(r)
    /\ runner' = [runner EXCEPT ![CHOOSE r \in Runner : Gone(r)] = Idle]
    /\ UNCHANGED <<task, trail, invocations, coded, running, lock, commits, aside, editVars>>

-------------------------------------------------------------------------------

\* rejectTask opens a dispute when it gives the task up.
Loop ==
    /\ Next
    /\ disputes' = disputes +
         (IF task'.status = "failed" /\ task'.rejections > task.rejections THEN 1 ELSE 0)
    /\ UNCHANGED resetting

Edit ==
    \/ UpdateTask \/ AnnotateTask \/ ApproveTask \/ SkipTask \/ RejectTask \/ RestartTask
    \/ CreateDispute \/ ResolveDispute
    \/ ResponderResets \/ ResponderResetsProject \/ ResponderUpdates
    \/ ResetBegins \/ ResetEnds

EditsNext == Loop \/ Edit \/ StartRunner

\* The loop by itself.
LoopSpec == Init /\ disputes = 0 /\ resetting = "none" /\ [][Loop]_allVars

EditsSpec ==
    /\ EditsInit /\ [][EditsNext]_allVars
    /\ Fairness
    /\ WF_allVars(StartRunner)
==============================================================================
