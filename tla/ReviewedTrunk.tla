---------------------------- MODULE ReviewedTrunk ----------------------------
(***************************************************************************)
(* What a merge queue promises of the branch it guards, whoever runs it    *)
(* and whatever fails on the way: the trunk only grows, by one commit at a *)
(* time; a commit of a task lands in a version that was approved before,   *)
(* and in no version that has landed already; a task is called done only   *)
(* when some version of it is on the trunk.  Done is not for ever: a task  *)
(* may be taken up again at any time, also by the very step that lands     *)
(* another version of it.                                                  *)
(*                                                                         *)
(* A commit has at least the fields task and ver.                          *)
(***************************************************************************)
EXTENDS Naturals, Sequences

CONSTANTS
  Task,      \* what is guarded by reviews
  Outsider   \* in place of the task, in commits of people that push directly

VARIABLES
  approved,  \* the pairs <<task, version>> that were approved
  trunk,     \* the commits that landed, in their order
  done       \* the tasks that are called done

vars == <<approved, trunk, done>>

On(t) == \E i \in 1..Len(trunk) : trunk[i].task = t

Carries(t, v) ==
  \E i \in 1..Len(trunk) : trunk[i].task = t /\ trunk[i].ver = v

Init == approved = {} /\ trunk = <<>> /\ done = {}

Approve ==
  /\ \E p \in approved' : approved' = approved \cup {p}
  /\ UNCHANGED <<trunk, done>>

\* The commit that a step put on top of the trunk.
Top == trunk'[Len(trunk) + 1]

Grown == Len(trunk') = Len(trunk) + 1 /\ trunk' = Append(trunk, Top)

Land(t) ==
  /\ Grown
  /\ Top.task = t
  /\ <<t, Top.ver>> \in approved
  /\ ~Carries(t, Top.ver)
  /\ done' \in {done, done \ {t}}
  /\ UNCHANGED approved

PushDirectly ==
  /\ Grown
  /\ Top.task = Outsider
  /\ UNCHANGED <<approved, done>>

Complete(t) ==
  /\ On(t)
  /\ done' = done \cup {t}
  /\ UNCHANGED <<approved, trunk>>

Reopen(t) ==
  /\ done' = done \ {t}
  /\ UNCHANGED <<approved, trunk>>

Next ==
  \/ Approve \/ PushDirectly
  \/ \E t \in Task : Land(t) \/ Complete(t) \/ Reopen(t)

Spec == Init /\ [][Next]_vars

==============================================================================
