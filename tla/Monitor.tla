-------------------------------- MODULE Monitor --------------------------------
(***************************************************************************)
(* The monitor (src/monitor/loop.ts): the wakeup scans all projects for    *)
(* anomalies and sends a first responder, a detached process that lets an  *)
(* agent act on what was found (src/commands/monitor-respond.ts) and scans *)
(* once more at its end.  A person starts the same from the command line   *)
(* or over the API (src/API/src/routes/monitor.ts).  What holds responders *)
(* back are the interval, the one that is active, the comparison with the  *)
(* last run, the cooldown and the circuit breaker.                         *)
(*                                                                         *)
(* An anomaly stands for what one project has of one fingerprint; whether  *)
(* a responder removes it is left open.  The rows of monitor_runs that     *)
(* matter are the last one and those of responders.  Of two scans that     *)
(* overlap, the one that is recorded later counts as the later one.        *)
(* The mode is fix_and_monitor, and every anomaly is severe enough.        *)
(*                                                                         *)
(* Under "disturbed" is on record what happened besides: a process that    *)
(* died ("crash"), one that could not be started ("fail"), a responder at  *)
(* work for longer than its timeout ("slow"), and a person who starts a    *)
(* cycle ("run"), a responder for a run of the past ("investigate") or     *)
(* clears the list of runs ("clear").                                      *)
(***************************************************************************)
EXTENDS Integers, FiniteSets

CONSTANTS
    Anomaly,
    Responder,         \* processes of "monitor respond"
    Wakeup,            \* processes of "runners wakeup"
    Person,
    MaxRemediations,   \* MAX_REMEDIATION_ATTEMPTS
    Disturbances,      \* the kinds that may happen, each once
    MaxDisturbed       \* bound: how many of them happen

ASSUME MonitorAssumption ==
    /\ Wakeup \intersect Responder = {} /\ Person \notin Wakeup \union Responder
    /\ MaxRemediations \in Nat \ {0} /\ MaxDisturbed \in Nat
    /\ Disturbances \subseteq {"crash", "fail", "slow", "run", "investigate", "clear"}

VARIABLES
    present,    \* the anomalies that the latest scan found
    last,       \* the last row of monitor_runs
    due,        \* the interval since that row is over
    cooling,    \* a responder ended, or failed, within FR_COOLDOWN_MS
    attempts,   \* rows of monitor_remediation_attempts, up to a day old
    alerts,     \* rows of monitor_alerts that nobody has acknowledged
    responder,  \* the processes, and the rows they were started for
    cycle,      \* scans under way: of a wakeup, a person, a responder at its end
    disturbed

vars == <<present, last, due, cooling, attempts, alerts, responder, cycle, disturbed>>

Cycler  == Wakeup \union Responder \union {Person}
Outcome == {"none", "clean", "found", "dispatched", "complete", "error"}

TypeOK ==
    /\ present \subseteq Anomaly /\ alerts \subseteq Anomaly
    /\ last \in [scan : SUBSET Anomaly, outcome : Outcome]
    /\ {due, cooling} \subseteq BOOLEAN
    /\ attempts \in [Anomaly -> 0..MaxRemediations]
    /\ responder \in [Responder -> [pc : {"off", "working", "fixed"},
                                    row : {"none", "open", "closed"}, latest : BOOLEAN,
                                    overdue : BOOLEAN]]
    /\ \A f \in Responder : responder[f].row = "open" /\ responder[f].latest =>
                               last.outcome = "dispatched"
    /\ cycle \in [Cycler -> [pc : {"idle", "scanning"}, scan : SUBSET Anomaly,
                             how : {"auto", "manual", "forced"}]]
    /\ disturbed \subseteq Disturbances /\ Cardinality(disturbed) <= MaxDisturbed

NoRun   == [scan |-> {}, outcome |-> "none"]
NotUsed == [pc |-> "off", row |-> "none", latest |-> FALSE, overdue |-> FALSE]
Idle    == [pc |-> "idle", scan |-> {}, how |-> "auto"]

Init ==
    /\ present = {}
    /\ last = NoRun
    /\ due = TRUE
    /\ cooling = FALSE
    /\ attempts = [a \in Anomaly |-> 0]
    /\ alerts = {}
    /\ responder = [f \in Responder |-> NotUsed]
    /\ cycle = [c \in Cycler |-> Idle]
    /\ disturbed = {}

Disturb(kind) ==
    /\ kind \in Disturbances \ disturbed /\ Cardinality(disturbed) < MaxDisturbed
    /\ disturbed' = disturbed \union {kind}

\* Runs that are on record as dispatched, whether or not the process is alive.
Dispatched == {f \in Responder : responder[f].row = "open"}

Working == {f \in Responder : responder[f].pc = "working"}

\* Every responder is a process of its own: which of the free ones is the next
\* makes no difference.
IsFree(f) == responder[f] = NotUsed /\ cycle[f] = Idle
IsNext(f) == IsFree(f) /\ f = CHOOSE g \in Responder : IsFree(g)

-------------------------------------------------------------------------------
(* What time does                                                          *)

\* A scan takes seconds, what follows takes minutes.
Quiet == /\ \A c \in Cycler : cycle[c].pc = "idle"
         /\ \A f \in Responder : responder[f].pc # "fixed"

IntervalPasses ==
    /\ Quiet /\ ~ due
    /\ due' = TRUE
    /\ UNCHANGED <<present, last, cooling, attempts, alerts, responder, cycle, disturbed>>

CooldownEnds ==
    /\ Quiet /\ cooling
    /\ cooling' = FALSE
    /\ UNCHANGED <<present, last, due, attempts, alerts, responder, cycle, disturbed>>

AttemptAges(a) ==
    /\ Quiet /\ attempts[a] > 0
    /\ attempts' = [attempts EXCEPT ![a] = @ - 1]
    /\ UNCHANGED <<present, last, due, cooling, alerts, responder, cycle, disturbed>>

\* The agent is given up long before, unless it is "slow".
Overdue(f) ==
    /\ Quiet /\ f \in Dispatched /\ ~ responder[f].overdue
    /\ IF f \in Working THEN Disturb("slow") ELSE UNCHANGED disturbed
    /\ responder' = [responder EXCEPT ![f].overdue = TRUE]
    /\ UNCHANGED <<present, last, due, cooling, attempts, alerts, cycle>>

-------------------------------------------------------------------------------
(* A cycle: what comes before its scan                                     *)

\* The projects are as they please; what they were in between, nobody sees.
Scan(c, how) ==
    /\ present' \in SUBSET Anomaly
    /\ cycle' = [cycle EXCEPT ![c] = [pc |-> "scanning", scan |-> present', how |-> how]]

\* The row of a responder; it counts for the next cycle if it is the last one.
Outcomes(f, outcome) ==
    last' = IF responder[f].latest THEN [last EXCEPT !.outcome = outcome] ELSE last

\* Faulty variant: the run is passed over and stays dispatched.
PassedOver(f) == responder

Closed(f) ==
    [responder EXCEPT ![f] = IF f \in Working THEN [@ EXCEPT !.row = "closed"] ELSE NotUsed]

\* hasActiveFirstResponder looks at one of the runs that are dispatched.  It
\* does not look at the process.
TimesOut(f) ==
    /\ responder[f].overdue
    /\ responder' = Closed(f)
    /\ Outcomes(f, "error")
    /\ cooling' = TRUE

\* monitorCheck, of the wakeup.
Check(w) ==
    /\ cycle[w].pc = "idle" /\ due
    /\ \/ Dispatched = {} /\ UNCHANGED <<responder, last, cooling>>
       \/ \E f \in Dispatched : TimesOut(f)
    /\ Scan(w, "auto")
    /\ UNCHANGED <<due, attempts, alerts, disturbed>>

\* "monitor run", with or without --force-dispatch.  The API asks first whether a
\* responder is active; the command does not.
RunByHand ==
    /\ cycle[Person].pc = "idle"
    /\ Disturb("run")
    /\ \E how \in {"manual", "forced"} : Scan(Person, how)
    /\ UNCHANGED <<last, due, cooling, attempts, alerts, responder>>

-------------------------------------------------------------------------------
(* A cycle: what comes after its scan                                      *)

Scanned(c) == cycle[c].pc = "scanning"
Over(c)    == cycle' = [cycle EXCEPT ![c] = Idle]

\* Faulty variant: whatever came of the last run.
DuplicateOfAny(c) ==
    /\ cycle[c].how = "auto"
    /\ cycle[c].scan = last.scan /\ last.outcome # "none"

\* isDuplicateOfLastRun: nothing is new since all was well or a responder was sent.
Duplicate(c) ==
    /\ cycle[c].how = "auto"
    /\ cycle[c].scan = last.scan /\ last.outcome \notin {"none", "found", "error"}

\* Faulty variant: no cooldown.
WantedAtOnce(c) == cycle[c].scan # {}

Wanted(c) == cycle[c].scan # {} /\ (cycle[c].how = "forced" \/ ~ cooling)

\* The circuit breaker, for one fingerprint of one project.
Capped == {a \in Anomaly : attempts[a] >= MaxRemediations}

\* writeCircuitBreakerAlerts
Alerted(c) ==
    IF Wanted(c) THEN alerts \union (cycle[c].scan \intersect Capped) ELSE alerts

Dispatches(c) == Wanted(c) /\ ~ cycle[c].scan \subseteq Capped

\* recordRemediationAttempts
Attempted(c) ==
    [a \in Anomaly |-> IF a \in cycle[c].scan \ Capped THEN attempts[a] + 1 ELSE attempts[a]]

\* Faulty variant: the rows are not in the order of their start.
LatestKept == responder

NoneLatest == [f \in Responder |-> [responder[f] EXCEPT !.latest = FALSE]]

Skip(c) ==
    /\ Scanned(c) /\ Duplicate(c)
    /\ Over(c)
    /\ UNCHANGED <<present, last, due, cooling, attempts, alerts, responder, disturbed>>

Record(c) ==
    /\ Scanned(c) /\ ~ Duplicate(c) /\ ~ Dispatches(c)
    /\ Over(c)
    /\ last' = [scan |-> cycle[c].scan,
                outcome |-> IF cycle[c].scan = {} THEN "clean" ELSE "found"]
    /\ due' = FALSE
    /\ alerts' = Alerted(c)
    /\ responder' = NoneLatest
    /\ UNCHANGED <<present, cooling, attempts, disturbed>>

\* The whole scan is handed to the responder, capped anomalies included.
Dispatch(c) ==
    /\ Scanned(c) /\ ~ Duplicate(c) /\ Dispatches(c)
    /\ Over(c)
    /\ due' = FALSE
    /\ alerts' = Alerted(c)
    /\ attempts' = Attempted(c)
    /\ \/ /\ \E f \in Responder :
               /\ IsNext(f)
               /\ responder' = [NoneLatest EXCEPT ![f] =
                    [pc |-> "working", row |-> "open", latest |-> TRUE, overdue |-> FALSE]]
          /\ last' = [scan |-> cycle[c].scan, outcome |-> "dispatched"]
          /\ UNCHANGED <<cooling, disturbed>>
       \/ /\ Disturb("fail")
          /\ last' = [scan |-> cycle[c].scan, outcome |-> "error"]
          /\ responder' = NoneLatest
          /\ cooling' = TRUE
    /\ UNCHANGED present

-------------------------------------------------------------------------------
(* Responders                                                              *)

\* The outcome is written over whatever the row says by now, if it is there.
Ends(f, outcome, pc) ==
    /\ f \in Working
    /\ responder' = [responder EXCEPT ![f] = [NotUsed EXCEPT !.pc = pc]]
    /\ IF responder[f].row = "none" THEN UNCHANGED <<last, cooling>>
       ELSE Outcomes(f, outcome) /\ cooling' = TRUE
    /\ UNCHANGED <<present, due, attempts, alerts, cycle, disturbed>>

Succeeds(f) == Ends(f, "complete", "fixed")

\* No provider is available, or all of them failed.
Fails(f) == Ends(f, "error", "off")

\* A cycle of its own, which must not count as started by a person.
FollowUp(f) ==
    /\ responder[f].pc = "fixed"
    /\ responder' = [responder EXCEPT ![f].pc = "off"]
    /\ Scan(f, "auto")
    /\ UNCHANGED <<last, due, cooling, attempts, alerts, disturbed>>

\* POST /monitor/runs/:id/investigate.  A run of the past may be overdue at once,
\* and no longer counts as one that ended.  No attempt is recorded.  (A run whose
\* responder was given up and works on is left out.)
Investigate(f) ==
    /\ last.outcome # "none" /\ Dispatched = {} /\ IsNext(f)
    /\ Disturb("investigate")
    /\ \E latest, overdue \in BOOLEAN :
         /\ latest => \A g \in Working : ~ responder[g].latest
         /\ responder' = [responder EXCEPT ![f] =
               [pc |-> "working", row |-> "open", latest |-> latest, overdue |-> overdue]]
         /\ last' = IF latest THEN [last EXCEPT !.outcome = "dispatched"] ELSE last
    /\ cooling' \in {cooling, FALSE}
    /\ UNCHANGED <<present, due, attempts, alerts, cycle>>

\* POST /monitor/runs/clear, also while a responder is at work.
Clear ==
    /\ Disturb("clear")
    /\ last' = NoRun /\ due' = TRUE /\ cooling' = FALSE
    /\ responder' = [f \in Responder |-> [NotUsed EXCEPT !.pc = responder[f].pc]]
    /\ UNCHANGED <<present, attempts, alerts, cycle>>

\* "monitor ack"
Acknowledge(a) ==
    /\ a \in alerts
    /\ alerts' = alerts \ {a}
    /\ UNCHANGED <<present, last, due, cooling, attempts, responder, cycle, disturbed>>

\* The row of its run, if that is still open, stays as it is.
Died(f) == IF responder[f].row = "open" THEN [responder[f] EXCEPT !.pc = "off"] ELSE NotUsed

Crash(c) ==
    /\ Disturb("crash")
    /\ cycle' = [cycle EXCEPT ![c] = Idle]
    /\ responder' = IF c \in Responder THEN [responder EXCEPT ![c] = Died(c)] ELSE responder
    /\ UNCHANGED <<present, last, due, cooling, attempts, alerts>>

-------------------------------------------------------------------------------

Decide(c) == Skip(c) \/ Record(c) \/ Dispatch(c)

Responds(f) == Succeeds(f) \/ Fails(f)

Next ==
    \/ \E a \in Anomaly : AttemptAges(a) \/ Acknowledge(a)
    \/ IntervalPasses \/ CooldownEnds
    \/ \E w \in Wakeup : Check(w)
    \/ \E c \in Cycler : Decide(c) \/ Crash(c)
    \/ \E f \in Responder : Responds(f) \/ FollowUp(f) \/ Overdue(f) \/ Investigate(f)
    \/ RunByHand \/ Clear

Spec == Init /\ [][Next]_vars

\* The wakeup comes every minute, scans and agents come to an end; time passes,
\* also where a scan is begun again and again.
FairSpec ==
    /\ Spec
    /\ SF_vars(IntervalPasses) /\ SF_vars(CooldownEnds)
    /\ \A w \in Wakeup : WF_vars(Check(w) \/ Decide(w))
    /\ \A f \in Responder : WF_vars(Responds(f) \/ FollowUp(f) \/ Decide(f))
    /\ SF_vars(\E f \in Responder \ Working : Overdue(f))
    /\ WF_vars(Decide(Person))

-------------------------------------------------------------------------------
(* Properties                                                              *)

(***************************************************************************)
(* Two responders never act at the same time, though each one scans again  *)
(* at its end while the wakeup may be between its check and its decision,  *)
(* though its process may die or not even start: it takes one that         *)
(* outlives its timeout, a person, or two wakeups at once (monitorCheck,   *)
(* runMonitorCycle).                                                       *)
(***************************************************************************)
Undisturbed == disturbed \subseteq {"crash", "fail"}

OneResponder == Undisturbed => \A f, g \in Working : f = g

\* What keeps it so: a responder at work is on record, the scan at its end falls
\* into its cooldown, and a wakeup outside of one has found nobody on record.
CalmInv ==
    Undisturbed =>
      /\ \A f \in Working : responder[f].row = "open" /\ ~ responder[f].overdue
      /\ \A f, g \in Dispatched : f = g
      /\ \A f \in Responder :
            responder[f].pc = "fixed" \/ cycle[f].pc = "scanning" => cooling
      /\ \A w \in Wakeup : cycle[w].pc = "scanning" /\ ~ cooling => Dispatched = {}
      /\ cycle[Person].pc = "idle"
      /\ \A c \in Cycler : cycle[c].how # "forced"

\* One row at most is the last one, and it is that of a responder.
LatestInv ==
    /\ \A f, g \in Responder : responder[f].latest /\ responder[g].latest => f = g
    /\ \A f \in Responder : responder[f].latest => f \in Working \union Dispatched

(***************************************************************************)
(* An anomaly that stays is taken up: the last that the monitor did was to *)
(* send a responder for it, or a person has been alerted.  No failure of a *)
(* responder, no cooldown and no other anomaly that comes and goes keeps   *)
(* the monitor from it (isDuplicateOfLastRun, "we need to retry once it    *)
(* expires").                                                              *)
(***************************************************************************)
TakenUp ==
    \A a \in Anomaly :
        a \in present ~> \/ a \notin present \/ a \in alerts
                         \/ a \in last.scan /\ last.outcome \in {"dispatched", "complete"}

(***************************************************************************)
(* A run does not stay dispatched, whatever became of its process: the API *)
(* refuses every start as long as one is (hasActiveFirstResponder).        *)
(***************************************************************************)
RunsSettle == \A f \in Responder : f \in Dispatched ~> f \notin Dispatched

(***************************************************************************)
(* An anomaly that no responder removes is tried again, until a person is  *)
(* alerted ("attempt safe corrective actions, then keep monitoring").      *)
(***************************************************************************)
PersistentIsEscalated ==
    \A a \in Anomaly :
        []<>(a \notin present \/ a \in alerts \/ (Working # {} /\ a \in last.scan))
===============================================================================
