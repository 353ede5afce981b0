-------------------------------- MODULE Intake --------------------------------
(***************************************************************************)
(* Bug reports from GitHub: the wakeup pulls the issues that changed page  *)
(* by page (src/intake/poller.ts, github-issues-connector.ts), keeps one   *)
(* row for each (src/database/intake-queries.ts) and asks a person with an *)
(* approval issue before it makes a triage task (src/intake/github-gate.ts *)
(* and github-gate-api.ts).  The same rows are written by the approval of  *)
(* intake tasks (reviewer-approval.ts), after a pull request (post-pr.ts)  *)
(* and by the web server (API/src/routes/intake.ts, intake-webhooks.ts).   *)
(*                                                                         *)
(* A version of an issue is the time of its last update.  The time is the  *)
(* number of updates so far, so that a page pulled at time t has all of    *)
(* them up to t.  Disturbances: a pull that fails ("poll"), a command of   *)
(* the gate that fails ("gate"), its answer that is lost ("lost"), a       *)
(* wakeup that dies ("crash"), a webhook ("webhook") or a change over the  *)
(* API ("patch") that names the linked task, one that does not             *)
(* ("unnamed"), an issue touched in the middle of a sweep ("touch"), a     *)
(* label put on while the gate writes the labels back ("race").            *)
(***************************************************************************)
EXTENDS Integers, Sequences, FiniteSets, Functions

CONSTANTS
    Issue,
    Wakeup,        \* processes of "runners wakeup"; the lock in it is per process
    PageSize,      \* intake.maxReportsPerPoll
    None,
    ListsGates,    \* no label filter is set: approval issues are listed as well
    Disturbances,
    MaxUpdates,    \* bound: how often people report, touch and label issues
    MaxDisturbed   \* bound: disturbances, "touch" and "race" not counted

ASSUME IntakeAssumption ==
    /\ IsFiniteSet(Issue) /\ PageSize \in Nat \ {0} /\ ListsGates \in BOOLEAN
    /\ Disturbances \subseteq {"poll", "gate", "lost", "crash", "webhook", "patch",
                               "unnamed", "touch", "race"}
    /\ MaxUpdates \in Nat /\ MaxDisturbed \in Nat

VARIABLES
    clock,      \* how many updates of issues there were
    updates,    \* and how many of them by people
    issue,      \* what GitHub has of the reported issues; stamp 0: not there
    gates,      \* the approval issues of each report
    row,        \* intake_reports; version 0: no row
    tasks,      \* how many triage tasks each report got
    poll,       \* intake_poll_state: cursor and last_success_at
    proc,       \* the wakeups
    fixing,     \* issues closed after a pull request, their row is not yet written
    disturbed   \* history: how many disturbances there were

vars == <<clock, updates, issue, gates, row, tasks, poll, proc, fixing, disturbed>>

NoIssue == [stamp |-> 0, open |-> FALSE]
NoRow   == [version |-> 0, status |-> "open", gate |-> 0, applied |-> "no", linked |-> FALSE]
Nothing == [i \in {} |-> 0]
Idle    == [pc |-> "idle", page |-> Nothing, from |-> 0, started |-> 0, next |-> 1,
            todo |-> Nothing, cur |-> None, made |-> 0, seen |-> {}]

Labels == SUBSET {"approved", "rejected"}   \* {} is "pending"
Row    == [version : Nat, status : {"open", "working", "closed"},
           gate : Nat, applied : {"no", "approved", "rejected"}, linked : BOOLEAN]

IsPartial(f, S, T) == DOMAIN f \subseteq S /\ \A x \in DOMAIN f : f[x] \in T

TypeOK ==
    /\ clock \in Nat /\ updates \in 0..MaxUpdates
    /\ issue \in [Issue -> [stamp : 0..clock, open : BOOLEAN]]
    /\ \A i \in Issue : gates[i] \in Seq([labels : Labels, stamp : 0..clock])
    /\ row \in [Issue -> Row]
    /\ tasks \in [Issue -> Nat]
    /\ poll \in [cursor : Nat \ {0}, since : 0..clock]
    /\ DOMAIN proc = Wakeup
    /\ \A w \in Wakeup :
          /\ proc[w].pc \in {"idle", "pulled", "polled", "gate", "created", "fetched"}
          /\ IsPartial(proc[w].page, Issue, [stamp : 1..clock, open : BOOLEAN])
          /\ proc[w].from \in 0..clock /\ proc[w].started \in 0..clock
          /\ proc[w].next \in Nat \ {0}
          /\ IsPartial(proc[w].todo, Issue, Row)
          /\ IF proc[w].pc \in {"created", "fetched"} THEN proc[w].cur \in DOMAIN proc[w].todo
             ELSE proc[w].cur = None
          /\ proc[w].made \in Nat /\ proc[w].seen \in Labels
    /\ fixing \subseteq Issue
    /\ disturbed \in 0..MaxDisturbed
    \* A row points at an approval issue that exists, and is not ahead of the issue.
    /\ \A i \in Issue : row[i].gate <= Len(gates[i])
    /\ \A i \in Issue : row[i].version <= issue[i].stamp

Init ==
    /\ clock = 0 /\ updates = 0
    /\ issue = [i \in Issue |-> NoIssue]
    /\ gates = [i \in Issue |-> <<>>]
    /\ row = [i \in Issue |-> NoRow]
    /\ tasks = [i \in Issue |-> 0]
    /\ poll = [cursor |-> 1, since |-> 0]
    /\ proc = [w \in Wakeup |-> Idle]
    /\ fixing = {} /\ disturbed = 0

Disturb(kind) ==
    /\ kind \in Disturbances
    /\ disturbed < MaxDisturbed /\ disturbed' = disturbed + 1

-------------------------------------------------------------------------------
(* GitHub and its users                                                    *)

Tick == clock' = clock + 1

\* People stop at some time.
Update == updates < MaxUpdates /\ updates' = updates + 1

\* An approval issue is updated as well: left out where that cannot be seen.
TickGate  == IF ListsGates THEN Tick ELSE UNCHANGED clock
GateStamp == IF ListsGates THEN clock' ELSE 0

\* No sweep is under way: the next page to pull is the first.
BetweenSweeps == poll.cursor = 1 /\ \A w \in Wakeup : proc[w].pc # "pulled"

Calm == BetweenSweeps \/ "touch" \in Disturbances

Report(i) ==
    /\ issue[i] = NoIssue /\ Update /\ Tick
    /\ issue' = [issue EXCEPT ![i] = [stamp |-> clock', open |-> TRUE]]
    /\ UNCHANGED <<gates, row, tasks, poll, proc, fixing, disturbed>>

\* Somebody comments on an issue, closes it or opens it again.
Touch(i) ==
    /\ issue[i] # NoIssue /\ Calm /\ Update /\ Tick
    /\ \E open \in BOOLEAN : issue' = [issue EXCEPT ![i] = [stamp |-> clock', open |-> open]]
    /\ UNCHANGED <<gates, row, tasks, poll, proc, fixing, disturbed>>

Relabelled(i, n, labels) ==
    /\ TickGate
    /\ gates' = [gates EXCEPT ![i][n] = [labels |-> labels, stamp |-> GateStamp]]

\* A person labels the newest approval issue, or takes both labels off again.
Decide(i, n) ==
    /\ (ListsGates => Calm) /\ Update
    /\ "race" \in Disturbances \/ \A w \in Wakeup : proc[w].pc # "fetched"
    /\ \/ \E d \in {"approved", "rejected"} \ gates[i][n].labels :
             Relabelled(i, n, gates[i][n].labels \union {d})
       \/ Cardinality(gates[i][n].labels) = 2 /\ Relabelled(i, n, {})
    /\ UNCHANGED <<issue, row, tasks, poll, proc, fixing, disturbed>>

-------------------------------------------------------------------------------
(* The poll                                                                *)

\* What is listed: <<i, 0>> is the issue i, <<i, n>> its n-th approval issue.
Stamp(e) == IF e[2] = 0 THEN issue[e[1]].stamp ELSE gates[e[1]][e[2]].stamp

Entries == {<<i, 0>> : i \in {j \in Issue : issue[j] # NoIssue}}
           \union {e \in UNION {{i} \X DOMAIN gates[i] : i \in Issue} : ListsGates}

Matching(since) == {e \in Entries : Stamp(e) > since}

\* Sorted by update, oldest first, and cut into pages.
PageOf(e, since) ==
    1 + (Cardinality({f \in Matching(since) : Stamp(f) < Stamp(e)}) \div PageSize)

PageAt(since, p) == {e \in Matching(since) : PageOf(e, since) = p}

\* Faulty variant: only the first page is ever asked for.
NextFirst(entries, p) == 1

NextPage(entries, p) == IF Cardinality(entries) = PageSize THEN p + 1 ELSE 1

PollPull(w) ==
    /\ proc[w].pc = "idle"
    /\ LET entries == PageAt(poll.since, poll.cursor)
           new     == {i \in Issue : <<i, 0>> \in entries}
       IN proc' = [proc EXCEPT ![w] =
             [Idle EXCEPT !.pc = "pulled", !.page = Restrict(issue, new), !.from = poll.since,
                          !.started = clock, !.next = NextPage(entries, poll.cursor)]]
    /\ UNCHANGED <<clock, updates, issue, gates, row, tasks, poll, fixing, disturbed>>

\* Faulty variant: the watermark follows every page.
WatermarkEachPage(p) == p.started

\* lastSuccessAt only advances when a sweep reaches its last page.
Watermark(p) == IF p.next = 1 THEN p.started ELSE p.from

\* upsertIntakeReport with what the connector has normalised: status and payload are new,
\* and with the payload the state of the gate is gone; the linked task stays.
Upserted(r, pulled) ==
    [NoRow EXCEPT !.version = pulled.stamp, !.linked = r.linked,
                  !.status = IF pulled.open THEN "open" ELSE "closed"]

PollStore(w) ==
    /\ proc[w].pc = "pulled"
    /\ row' = [i \in Issue |->
          IF i \in DOMAIN proc[w].page THEN Upserted(row[i], proc[w].page[i]) ELSE row[i]]
    /\ poll' = [cursor |-> proc[w].next, since |-> Watermark(proc[w])]
    /\ proc' = [proc EXCEPT ![w] = [Idle EXCEPT !.pc = "polled"]]
    /\ UNCHANGED <<clock, updates, issue, gates, tasks, fixing, disturbed>>

\* Cursor and watermark stay as they are.
PollFails(w) ==
    /\ proc[w].pc = "idle" /\ Disturb("poll")
    /\ proc' = [proc EXCEPT ![w].pc = "polled"]
    /\ UNCHANGED <<clock, updates, issue, gates, row, tasks, poll, fixing>>

\* The interval has not passed.
PollNotDue(w) ==
    /\ proc[w].pc = "idle"
    /\ proc' = [proc EXCEPT ![w].pc = "polled"]
    /\ UNCHANGED <<clock, updates, issue, gates, row, tasks, poll, fixing, disturbed>>

-------------------------------------------------------------------------------
(* The approval gate                                                       *)

\* Faulty variant: only those that have no approval issue yet.
ListedNew(i) == row[i].version # 0 /\ ~row[i].linked /\ row[i].gate = 0

Listed(i) == row[i].version # 0 /\ ~row[i].linked /\ row[i].status # "closed"

\* The list is read once, with everything the rows say.
GateList(w) ==
    /\ proc[w].pc = "polled"
    /\ proc' = [proc EXCEPT ![w] =
          [@ EXCEPT !.pc = "gate", !.todo = Restrict(row, {i \in Issue : Listed(i)})]]
    /\ UNCHANGED <<clock, updates, issue, gates, row, tasks, poll, fixing, disturbed>>

\* The rest of the list, once report i has been dealt with.
Rest(w, i) ==
    LET todo == proc[w].todo IN
    proc' = [proc EXCEPT ![w] =
        [Idle EXCEPT !.pc = "gate", !.todo = Restrict(todo, DOMAIN todo \ {i})]]

Given(w, i, state) ==
    proc[w].pc = "gate" /\ i \in DOMAIN proc[w].todo /\ state

NewGate(i) ==
    /\ TickGate
    /\ gates' = [gates EXCEPT ![i] = Append(@, [labels |-> {}, stamp |-> GateStamp])]

Unasked(w, i) == Given(w, i, proc[w].todo[i].gate = 0)

\* createApprovalIssue
GateCreate(w, i) ==
    /\ Unasked(w, i) /\ NewGate(i)
    /\ proc' = [proc EXCEPT ![w].pc = "created", ![w].cur = i, ![w].made = Len(gates'[i])]
    /\ UNCHANGED <<updates, issue, row, tasks, poll, fixing, disturbed>>

\* The issue is there, and the command is taken to have failed.
GateCreateLost(w, i) ==
    /\ Unasked(w, i) /\ NewGate(i) /\ Disturb("lost")
    /\ Rest(w, i)
    /\ UNCHANGED <<updates, issue, row, tasks, poll, fixing>>

\* Faulty variant: the number after that of the issue.
NotedNext(r, n) == [r EXCEPT !.gate = n + 1]

Noted(r, n) == [r EXCEPT !.gate = n]

\* setGateState writes the whole row back, with what the list said.
GateNote(w) ==
    /\ proc[w].pc = "created"
    /\ LET i == proc[w].cur IN
          /\ row' = [row EXCEPT ![i] = Noted(proc[w].todo[i], proc[w].made)]
          /\ Rest(w, i)
    /\ UNCHANGED <<clock, updates, issue, gates, tasks, poll, fixing, disturbed>>

\* Decided before: a report that was approved is linked and not listed, so that is a
\* rejected one that somebody opened over the API.
GateSkip(w, i) ==
    /\ Given(w, i, proc[w].todo[i].gate # 0 /\ proc[w].todo[i].applied # "no")
    /\ Rest(w, i)
    /\ UNCHANGED <<clock, updates, issue, gates, row, tasks, poll, fixing, disturbed>>

Asked(w, i) == Given(w, i, proc[w].todo[i].gate # 0 /\ proc[w].todo[i].applied = "no")

GateFetch(w, i) ==
    /\ Asked(w, i)
    /\ LET n == proc[w].todo[i].gate IN
          proc' = [proc EXCEPT ![w].pc = "fetched", ![w].cur = i, ![w].seen = gates[i][n].labels]
    /\ UNCHANGED <<clock, updates, issue, gates, row, tasks, poll, fixing, disturbed>>

\* A command fails, and the report is left for the next wakeup.
GateFails(w, i) ==
    /\ Given(w, i, TRUE) /\ Disturb("gate")
    /\ Rest(w, i)
    /\ UNCHANGED <<clock, updates, issue, gates, row, tasks, poll, fixing>>

\* Two labels that contradict each other are an error as well.
GateConflict(w) ==
    /\ proc[w].pc = "fetched" /\ Cardinality(proc[w].seen) = 2
    /\ Rest(w, proc[w].cur)
    /\ UNCHANGED <<clock, updates, issue, gates, row, tasks, poll, fixing, disturbed>>

\* replaceManagedLabels puts all the labels, from those that were fetched.
PutLabels(i, n, labels) ==
    IF gates[i][n].labels = labels THEN UNCHANGED <<gates, clock>>
    ELSE Relabelled(i, n, labels)

GatePending(w) ==
    /\ proc[w].pc = "fetched" /\ proc[w].seen = {}
    /\ LET i == proc[w].cur IN PutLabels(i, proc[w].todo[i].gate, {}) /\ Rest(w, i)
    /\ UNCHANGED <<updates, issue, row, tasks, poll, fixing, disturbed>>

\* Faulty variant: the task is made and the report not linked to it.
TriagedUnlinked(r, n) == [r EXCEPT !.status = "working", !.gate = n, !.applied = "approved"]

Triaged(r, n) ==
    [r EXCEPT !.status = "working", !.gate = n, !.applied = "approved", !.linked = TRUE]

\* One transaction, on the row as it is now; then the label "pending" is taken off, which
\* nobody reads again.
GateApprove(w) ==
    /\ proc[w].pc = "fetched" /\ proc[w].seen = {"approved"}
    /\ LET i == proc[w].cur
           n == proc[w].todo[i].gate
       IN /\ tasks' = IF row[i].linked THEN tasks ELSE [tasks EXCEPT ![i] = @ + 1]
          /\ row' = [row EXCEPT ![i] = Triaged(@, n)]
          /\ Relabelled(i, n, {"approved"})
          /\ Rest(w, i)
    /\ UNCHANGED <<updates, issue, poll, fixing, disturbed>>

GateReject(w) ==
    /\ proc[w].pc = "fetched" /\ proc[w].seen = {"rejected"}
    /\ LET i == proc[w].cur
           n == proc[w].todo[i].gate
       IN /\ row' = [row EXCEPT ![i] =
                [@ EXCEPT !.status = "closed", !.gate = n, !.applied = "rejected", !.linked = FALSE]]
          /\ Relabelled(i, n, {"rejected"})
          /\ Rest(w, i)
    /\ UNCHANGED <<updates, issue, tasks, poll, fixing, disturbed>>

GateEnds(w) ==
    /\ proc[w].pc = "gate" /\ DOMAIN proc[w].todo = {}
    /\ proc' = [proc EXCEPT ![w] = Idle]
    /\ UNCHANGED <<clock, updates, issue, gates, row, tasks, poll, fixing, disturbed>>

Crash(w) ==
    /\ proc[w].pc # "idle" /\ Disturb("crash")
    /\ proc' = [proc EXCEPT ![w] = Idle]
    /\ UNCHANGED <<clock, updates, issue, gates, row, tasks, poll, fixing>>

-------------------------------------------------------------------------------
(* Others that write the rows                                              *)

\* handleIntakeTaskApproval: a task of the report was approved, and the next one made, or
\* the report closed.
Advance(i) ==
    /\ tasks[i] > 0
    /\ \E status \in {"working", "closed"} :
          row' = [row EXCEPT ![i] = [@ EXCEPT !.status = status, !.linked = TRUE]]
    /\ UNCHANGED <<clock, updates, issue, gates, tasks, poll, proc, fixing, disturbed>>

\* handleIntakePostPR: GitHub is told first, the row written after that.
Resolve(i) ==
    /\ tasks[i] > 0 /\ row[i].status # "closed" /\ i \notin fixing /\ Calm /\ Update /\ Tick
    /\ issue' = [issue EXCEPT ![i] = [stamp |-> clock', open |-> FALSE]]
    /\ fixing' = fixing \union {i}
    /\ UNCHANGED <<gates, row, tasks, poll, proc, disturbed>>

Resolved(i) ==
    /\ i \in fixing
    /\ row' = [row EXCEPT ![i].status = "closed"]
    /\ fixing' = fixing \ {i}
    /\ UNCHANGED <<clock, updates, issue, gates, tasks, poll, proc, disturbed>>

\* A request that does not name the linked task takes the link away, for upsertIntakeReport
\* is given a linkedTaskId that is there and undefined.
KeepsLink == IF "unnamed" \in Disturbances THEN BOOLEAN ELSE {TRUE}

Webhook(i) ==
    /\ issue[i] # NoIssue /\ Disturb("webhook")
    /\ \E keeps \in KeepsLink :
          row' = [row EXCEPT ![i] = Upserted([row[i] EXCEPT !.linked = @ /\ keeps], issue[i])]
    /\ UNCHANGED <<clock, updates, issue, gates, tasks, poll, proc, fixing>>

Patch(i) ==
    /\ row[i] # NoRow /\ Disturb("patch")
    /\ \E keeps \in KeepsLink, status \in {"open", "working", "closed"} :
          row' = [row EXCEPT ![i] = [row[i] EXCEPT !.status = status, !.linked = @ /\ keeps]]
    /\ UNCHANGED <<clock, updates, issue, gates, tasks, poll, proc, fixing>>

-------------------------------------------------------------------------------
WakeupStep(w) ==
    \/ PollStore(w) \/ GateList(w) \/ GateNote(w) \/ GateConflict(w) \/ GatePending(w)
    \/ GateApprove(w) \/ GateReject(w) \/ GateEnds(w)
    \/ \E i \in Issue : GateCreate(w, i) \/ GateSkip(w, i) \/ GateFetch(w, i)

Disturbed(w) ==
    PollFails(w) \/ Crash(w) \/ \E i \in Issue : GateCreateLost(w, i) \/ GateFails(w, i)

Next ==
    \/ \E w \in Wakeup : PollPull(w) \/ PollNotDue(w) \/ WakeupStep(w) \/ Disturbed(w)
    \/ \E i \in Issue :
          \/ Report(i) \/ Touch(i) \/ Advance(i) \/ Resolve(i) \/ Resolved(i)
          \/ Webhook(i) \/ Patch(i)
          \/ gates[i] # <<>> /\ Decide(i, Len(gates[i]))

Spec == Init /\ [][Next]_vars

\* The wakeup comes every minute and finds the poll due again and again.
FairSpec ==
    /\ Spec
    /\ \A w \in Wakeup : WF_vars(WakeupStep(w)) /\ SF_vars(PollPull(w))

-------------------------------------------------------------------------------
(***************************************************************************)
(* A version of an issue that is not in the row is newer than the          *)
(* watermark: a later sweep will list it, whatever failed before           *)
(* (pollIntakeProject; "lastSuccessAt only advances when a connector sweep *)
(* reaches its terminal page").  It holds as long as no issue is touched   *)
(* between two pages of one sweep: what is listed then shifts from page to *)
(* page, and an issue may be passed over ("touch").                        *)
(***************************************************************************)
Behind(i) == row[i].version # issue[i].stamp

NothingSkipped == \A i \in Issue : Behind(i) => issue[i].stamp > poll.since

(***************************************************************************)
(* Every version of every report reaches the database, or a newer one does *)
(* (pollIntakeProject).                                                    *)
(***************************************************************************)
ReportsArrive == \A i \in Issue : Behind(i) ~> ~Behind(i)

(***************************************************************************)
(* A report gets one triage task, however often it is polled, touched and  *)
(* asked about again (syncGitHubIntakeGate;                                *)
(* tests/github-gate.test.ts: "creates a triage task exactly once").       *)
(***************************************************************************)
OneTriageTask == \A i \in Issue : tasks[i] <= 1

(***************************************************************************)
(* A decision on the approval issue that the row points at is applied in   *)
(* the end, unless the report is closed, linked or asked about anew        *)
(* meanwhile (syncGitHubIntakeGate).                                       *)
(***************************************************************************)
Open(i, n) ==
    row[i].gate = n /\ row[i].applied = "no" /\ ~row[i].linked /\ row[i].status # "closed"

Decided(i, n) == n \in DOMAIN gates[i] /\ Cardinality(gates[i][n].labels) = 1

DecisionActed ==
    \A i \in Issue : \A n \in 1..MaxUpdates + MaxDisturbed + 1 :
        Open(i, n) /\ Decided(i, n) ~> ~Open(i, n) \/ ~Decided(i, n)

(***************************************************************************)
(* An approval issue tells its reader "Apply `steroids:intake-approved` to *)
(* approve internal triage creation" (buildGateIssueBody).  A report for   *)
(* which that was done gets its triage task, or is closed.                 *)
(***************************************************************************)
Approved(i) == \E n \in DOMAIN gates[i] : gates[i][n].labels = {"approved"}

ApprovalIsHeard ==
    \A i \in Issue : Approved(i) ~> (tasks[i] > 0 \/ row[i].status = "closed" \/ ~Approved(i))
=============================================================================
