------------------------------ MODULE IntakeProofs ------------------------------
(* What TLC checks of Intake on small instances, proved for any number of      *)
(* reports, updates and disturbances and any size of a page.                   *)
EXTENDS Intake, FiniteSetTheorems, TLAPS

USE IntakeAssumption

-------------------------------------------------------------------------------
(* Type correctness *)

\* A row as the table, or a wakeup that read it, may have it.
Recorded(i, r) == r \in Row /\ r.gate <= Len(gates[i]) /\ r.version <= issue[i].stamp

IsProc(p) == DOMAIN p = {"pc", "page", "from", "started", "next", "todo", "cur", "made", "seen"}

PageSound(p) ==
    /\ \A i \in DOMAIN p.page :
          /\ i \in Issue /\ p.page[i] \in [stamp : 1..clock, open : BOOLEAN]
          /\ p.page[i].stamp <= issue[i].stamp
    /\ p.from \in 0..clock /\ p.started \in 0..clock /\ p.next \in Nat \ {0}

TodoSound(p) ==
    /\ \A i \in DOMAIN p.todo : i \in Issue /\ Recorded(i, p.todo[i])
    /\ DOMAIN p.todo # {} => p.pc \in {"gate", "created", "fetched"}

\* A wakeup that is at a report has it on its list, and at an approval issue that exists.
AtSound(p) ==
    /\ IF p.pc \in {"created", "fetched"} THEN p.cur \in DOMAIN p.todo ELSE p.cur = None
    /\ p.made \in Nat /\ p.seen \in Labels
    /\ p.pc = "created" => p.made <= Len(gates[p.cur])
    /\ p.pc = "fetched" => p.todo[p.cur].gate # 0

ProcSound(p) ==
    /\ IsProc(p) /\ p.pc \in {"idle", "pulled", "polled", "gate", "created", "fetched"}
    /\ PageSound(p) /\ TodoSound(p) /\ AtSound(p)

ClockType == clock \in Nat /\ updates \in 0..MaxUpdates /\ disturbed \in 0..MaxDisturbed
IssueType == /\ issue \in [Issue -> [stamp : 0..clock, open : BOOLEAN]]
             /\ \A i \in Issue : issue[i].stamp = 0 => issue[i] = NoIssue
GatesType == gates \in [Issue -> Seq([labels : Labels, stamp : 0..clock])]
RowType   == row \in [Issue -> Row] /\ \A i \in Issue : Recorded(i, row[i])
PollType  == /\ poll \in [cursor : Nat \ {0}, since : 0..clock]
             /\ tasks \in [Issue -> Nat] /\ fixing \subseteq Issue
ProcType  == proc = [w \in Wakeup |-> proc[w]] /\ \A w \in Wakeup : ProcSound(proc[w])

TypeInv == ClockType /\ IssueType /\ GatesType /\ RowType /\ PollType /\ ProcType

LEMMA Types == TypeInv => TypeOK
<1> SUFFICES ASSUME TypeInv PROVE TypeOK OBVIOUS
<1>1. /\ clock \in Nat /\ updates \in 0..MaxUpdates /\ disturbed \in 0..MaxDisturbed
      /\ issue \in [Issue -> [stamp : 0..clock, open : BOOLEAN]]
  BY DEF TypeInv, ClockType, IssueType
<1>2. \A i \in Issue : gates[i] \in Seq([labels : Labels, stamp : 0..clock])
  BY DEF TypeInv, GatesType
<1>3. /\ row \in [Issue -> Row]
      /\ \A i \in Issue : row[i].gate <= Len(gates[i]) /\ row[i].version <= issue[i].stamp
  BY DEF TypeInv, RowType, Recorded
<1>4. DOMAIN proc = Wakeup BY DEF TypeInv, ProcType
<1>5. ASSUME NEW w \in Wakeup
      PROVE  /\ proc[w].pc \in {"idle", "pulled", "polled", "gate", "created", "fetched"}
             /\ IsPartial(proc[w].page, Issue, [stamp : 1..clock, open : BOOLEAN])
             /\ proc[w].from \in 0..clock /\ proc[w].started \in 0..clock
             /\ proc[w].next \in Nat \ {0}
             /\ IsPartial(proc[w].todo, Issue, Row)
             /\ IF proc[w].pc \in {"created", "fetched"} THEN proc[w].cur \in DOMAIN proc[w].todo
                ELSE proc[w].cur = None
             /\ proc[w].made \in Nat /\ proc[w].seen \in Labels
  <2>1. ProcSound(proc[w]) BY DEF TypeInv, ProcType
  <2>2. IsPartial(proc[w].page, Issue, [stamp : 1..clock, open : BOOLEAN])
    BY <2>1 DEF ProcSound, PageSound, IsPartial
  <2>3. IsPartial(proc[w].todo, Issue, Row)
    BY <2>1 DEF ProcSound, TodoSound, Recorded, IsPartial
  <2>4. QED BY <2>1, <2>2, <2>3 DEF ProcSound, PageSound, AtSound
<1>6. QED BY <1>1, <1>2, <1>3, <1>4, <1>5 DEF TypeInv, PollType, TypeOK

LEMMA InitTypes == Init => TypeInv
<1> SUFFICES ASSUME Init PROVE TypeInv OBVIOUS
<1> USE DEF Init
<1>1. ClockType BY DEF ClockType
<1>2. IssueType BY DEF IssueType, NoIssue
<1>3. GatesType BY DEF GatesType
<1>4. RowType BY DEF RowType, Recorded, Row, NoRow, NoIssue
<1>5. PollType BY DEF PollType
<1>6. ASSUME clock \in Nat PROVE ProcSound(Idle)
  BY <1>6 DEF ProcSound, IsProc, PageSound, TodoSound, AtSound, Idle, Nothing, Labels
<1>7. ProcType BY <1>6 DEF ProcType
<1>8. QED BY <1>1, <1>2, <1>3, <1>4, <1>5, <1>7 DEF TypeInv

\* Time goes on, and neither issues nor approval issues are taken away.
Grows ==
    /\ clock' \in Nat /\ clock <= clock'
    /\ \A i \in Issue : issue'[i].stamp \in 0..clock' /\ issue[i].stamp <= issue'[i].stamp
    /\ \A i \in Issue : Len(gates'[i]) \in Nat /\ Len(gates[i]) <= Len(gates'[i])

LEMMA RecordedGrows ==
  ASSUME TypeInv, Grows
  PROVE  \A i \in Issue : \A r : Recorded(i, r) => Recorded(i, r)'
<1>1. \A i \in Issue : issue[i].stamp \in Nat /\ Len(gates[i]) \in Nat
  BY DEF TypeInv, ClockType, IssueType, GatesType
<1>2. QED BY <1>1 DEF Grows, Recorded, Row

LEMMA ProcGrows ==
  ASSUME TypeInv, Grows, NEW p, ProcSound(p)
  PROVE  ProcSound(p)'
<1>1. \A i \in Issue : issue[i].stamp \in Nat /\ Len(gates[i]) \in Nat
  BY DEF TypeInv, ClockType, IssueType, GatesType
<1>2. PageSound(p)'
  <2>1. clock \in Nat BY DEF TypeInv, ClockType
  <2>2. ASSUME NEW i \in DOMAIN p.page
        PROVE  /\ i \in Issue /\ p.page[i] \in [stamp : 1..clock', open : BOOLEAN]
               /\ p.page[i].stamp <= issue'[i].stamp
    <3>1. /\ i \in Issue /\ p.page[i] \in [stamp : 1..clock, open : BOOLEAN]
          /\ p.page[i].stamp <= issue[i].stamp
      BY DEF ProcSound, PageSound
    <3>2. issue'[i].stamp \in Nat /\ issue[i].stamp <= issue'[i].stamp BY <3>1 DEF Grows
    <3>3. QED BY <1>1, <2>1, <3>1, <3>2 DEF Grows
  <2>3. QED BY <2>1, <2>2 DEF ProcSound, PageSound, Grows
<1>3. TodoSound(p)' BY RecordedGrows DEF ProcSound, TodoSound
<1>4. AtSound(p)'
  <2>1. p.pc \in {"created", "fetched"} => p.cur \in Issue BY DEF ProcSound, AtSound, TodoSound
  <2>2. QED BY <1>1, <2>1 DEF ProcSound, AtSound, Grows
<1>5. QED BY <1>2, <1>3, <1>4 DEF ProcSound, IsProc

LEMMA SeqGrows ==
  ASSUME NEW S, NEW T, S \subseteq T, NEW s \in Seq(S)
  PROVE  s \in Seq(T)
<1>1. \A n \in 1..Len(s) : s[n] \in T OBVIOUS
<1>2. QED BY <1>1

\* What is outside of the wakeups and the table of reports: GitHub and the bounds.
WorldType == ClockType /\ IssueType /\ GatesType

LEMMA WorldStays ==
  ASSUME TypeInv, UNCHANGED <<clock, issue, gates>>, updates' \in 0..MaxUpdates,
         disturbed' \in 0..MaxDisturbed
  PROVE  Grows /\ WorldType'
<1>1. \A i \in Issue : issue[i].stamp \in 0..clock /\ Len(gates[i]) \in Nat
  BY DEF TypeInv, IssueType, GatesType
<1>2. clock \in Nat BY DEF TypeInv, ClockType
<1>3. Grows BY <1>1, <1>2 DEF Grows
<1>4. ClockType' BY <1>2 DEF ClockType
<1>5. IssueType' BY DEF TypeInv, IssueType
<1>6. GatesType' BY DEF TypeInv, GatesType
<1>7. QED BY <1>3, <1>4, <1>5, <1>6 DEF WorldType

\* An approval issue is labelled.
LEMMA RelabelType ==
  ASSUME TypeInv, NEW i \in Issue, NEW n \in DOMAIN gates[i], NEW labels \in Labels,
         Relabelled(i, n, labels), UNCHANGED <<issue, disturbed>>, updates' \in 0..MaxUpdates
  PROVE  Grows /\ WorldType' /\ \A j \in Issue : Len(gates'[j]) = Len(gates[j])
<1> DEFINE G(c) == [labels : Labels, stamp : 0..c]
<1>1. clock \in Nat /\ clock' \in Nat /\ clock <= clock'
  BY DEF TypeInv, ClockType, Relabelled, TickGate, Tick
<1>2. GateStamp \in 0..clock' BY <1>1 DEF GateStamp
<1>3. [labels |-> labels, stamp |-> GateStamp] \in G(clock') BY <1>2
<1>4. PICK g : g = [labels |-> labels, stamp |-> GateStamp] OBVIOUS
<1>5. gates' = [gates EXCEPT ![i] = [gates[i] EXCEPT ![n] = g]] BY <1>4 DEF Relabelled
<1>6. \A j \in Issue : gates[j] \in Seq(G(clock)) BY DEF TypeInv, GatesType
<1>7. \A j \in Issue : gates[j] \in Seq(G(clock'))
  <2>1. G(clock) \subseteq G(clock') BY <1>1
  <2> HIDE DEF G
  <2>2. QED BY <1>6, <2>1, SeqGrows
<1>8. g \in G(clock') BY <1>3, <1>4
<1>9. [gates[i] EXCEPT ![n] = g] \in Seq(G(clock')) /\ Len([gates[i] EXCEPT ![n] = g]) = Len(gates[i])
  <2> HIDE DEF G
  <2> QED BY <1>7, <1>8
<1>10. gates \in [Issue -> Seq(G(clock))] BY DEF TypeInv, GatesType
<1>11. /\ gates' \in [Issue -> Seq(G(clock'))]
       /\ \A j \in Issue : Len(gates'[j]) = Len(gates[j]) /\ Len(gates[j]) \in Nat
  <2> HIDE DEF G
  <2> QED BY <1>5, <1>6, <1>7, <1>9, <1>10
<1>12. issue' \in [Issue -> [stamp : 0..clock', open : BOOLEAN]] /\ IssueType'
  BY <1>1 DEF TypeInv, IssueType
<1>13. Grows BY <1>1, <1>11, <1>12 DEF Grows, TypeInv, IssueType
<1>14. QED BY <1>1, <1>11, <1>12, <1>13 DEF WorldType, TypeInv, ClockType, GatesType

\* An approval issue is made.
LEMMA NewGateType ==
  ASSUME TypeInv, NEW i \in Issue, NewGate(i), UNCHANGED <<issue, updates>>,
         disturbed' \in 0..MaxDisturbed
  PROVE  Grows /\ WorldType'
<1> DEFINE G(c) == [labels : Labels, stamp : 0..c]
<1>1. clock \in Nat /\ clock' \in Nat /\ clock <= clock'
  BY DEF TypeInv, ClockType, NewGate, TickGate, Tick
<1>2. [labels |-> {}, stamp |-> GateStamp] \in G(clock')
  BY <1>1 DEF GateStamp, Labels
<1>3. PICK g : g = [labels |-> {}, stamp |-> GateStamp] OBVIOUS
<1>4. gates' = [gates EXCEPT ![i] = Append(gates[i], g)] BY <1>3 DEF NewGate
<1>5. \A j \in Issue : gates[j] \in Seq(G(clock)) BY DEF TypeInv, GatesType
<1>6. \A j \in Issue : gates[j] \in Seq(G(clock'))
  <2>1. G(clock) \subseteq G(clock') BY <1>1
  <2> HIDE DEF G
  <2>2. QED BY <1>5, <2>1, SeqGrows
<1>7. g \in G(clock') BY <1>2, <1>3
<1>8. gates \in [Issue -> Seq(G(clock))] BY DEF TypeInv, GatesType
<1>9. /\ Append(gates[i], g) \in Seq(G(clock')) /\ Len(Append(gates[i], g)) = Len(gates[i]) + 1
      /\ Len(gates[i]) \in Nat
  <2> HIDE DEF G
  <2> QED BY <1>6, <1>7
<1>10. /\ gates' \in [Issue -> Seq(G(clock'))]
       /\ \A j \in Issue : /\ Len(gates[j]) \in Nat /\ Len(gates'[j]) \in Nat
                           /\ Len(gates[j]) <= Len(gates'[j])
  <2> HIDE DEF G
  <2> QED BY <1>4, <1>5, <1>6, <1>8, <1>9
<1>11. issue' \in [Issue -> [stamp : 0..clock', open : BOOLEAN]] /\ IssueType'
  BY <1>1 DEF TypeInv, IssueType
<1>12. Grows BY <1>1, <1>10, <1>11 DEF Grows, TypeInv, IssueType
<1>13. QED BY <1>1, <1>10, <1>11, <1>12 DEF WorldType, TypeInv, ClockType, GatesType

\* An issue is reported, touched or closed.
LEMMA IssueMovesType ==
  ASSUME TypeInv, NEW i \in Issue, NEW open \in BOOLEAN, Update, Tick,
         issue' = [issue EXCEPT ![i] = [stamp |-> clock', open |-> open]],
         UNCHANGED <<gates, disturbed>>
  PROVE  Grows /\ WorldType'
<1>1. clock \in Nat /\ clock' = clock + 1 BY DEF TypeInv, ClockType, Tick
<1>2. \A j \in Issue : /\ issue'[j].stamp \in 0..clock' /\ issue[j].stamp <= issue'[j].stamp
                       /\ Len(gates[j]) \in Nat
  BY <1>1 DEF TypeInv, IssueType, GatesType
<1>3. Grows BY <1>1, <1>2 DEF Grows
<1>4. ClockType' BY <1>1 DEF TypeInv, ClockType, Update
<1>5. IssueType' BY <1>1 DEF TypeInv, IssueType
<1>6. GatesType'
  <2> DEFINE G(c) == [labels : Labels, stamp : 0..c]
  <2>1. G(clock) \subseteq G(clock') BY <1>1
  <2>2. gates \in [Issue -> Seq(G(clock))] BY DEF TypeInv, GatesType
  <2>3. \A j \in Issue : gates[j] \in Seq(G(clock'))
    <3> HIDE DEF G
    <3>1. QED BY <2>1, <2>2, SeqGrows
  <2>4. QED BY <2>2, <2>3 DEF GatesType
<1>7. QED BY <1>3, <1>4, <1>5, <1>6 DEF WorldType

\* One row, or one wakeup, is written.
LEMMA RowWritten ==
  ASSUME TypeInv, Grows, NEW i \in Issue, NEW r, Recorded(i, r), row' = [row EXCEPT ![i] = r]
  PROVE  RowType'
<1>1. \A j \in Issue : Recorded(j, row'[j])
  BY DEF TypeInv, RowType
<1>2. \A j \in Issue : Recorded(j, row'[j]) => row'[j] \in Row BY DEF Recorded
<1>3. row' \in [Issue -> Row] BY <1>1, <1>2 DEF TypeInv, RowType
<1>4. \A j \in Issue : \A s : Recorded(j, s) => Recorded(j, s)' BY RecordedGrows
<1>5. QED BY <1>1, <1>3, <1>4 DEF RowType

LEMMA RowsStay ==
  ASSUME TypeInv, Grows, UNCHANGED row
  PROVE  RowType'
BY RecordedGrows DEF TypeInv, RowType

LEMMA ProcWritten ==
  ASSUME TypeInv, Grows, NEW w \in Wakeup, NEW p, ProcSound(p), proc' = [proc EXCEPT ![w] = p]
  PROVE  ProcType'
<1>1. \A v \in Wakeup : ProcSound(proc'[v]) BY DEF TypeInv, ProcType
<1>2. \A q : ProcSound(q) => ProcSound(q)' BY ProcGrows
<1>3. \A v \in Wakeup : ProcSound(proc[v])' BY <1>1, <1>2
<1>4. proc' = [v \in Wakeup |-> proc'[v]] BY DEF TypeInv, ProcType
<1>5. QED BY <1>3, <1>4 DEF ProcType

LEMMA ProcsStay ==
  ASSUME TypeInv, Grows, UNCHANGED proc
  PROVE  ProcType'
BY ProcGrows DEF TypeInv, ProcType

\* What is left of the list once a report has been dealt with.
Left(p, i) == [Idle EXCEPT !.pc = "gate", !.todo = Restrict(p.todo, DOMAIN p.todo \ {i})]

At(pc) == [Idle EXCEPT !.pc = pc]

LEMMA LeftSound ==
  ASSUME TypeInv, NEW w \in Wakeup, NEW i
  PROVE  ProcSound(Left(proc[w], i))
<1>1. ProcSound(proc[w]) BY DEF TypeInv, ProcType
<1> DEFINE p == Left(proc[w], i)
<1> DEFINE todo == Restrict(proc[w].todo, DOMAIN proc[w].todo \ {i})
<1>8. /\ DOMAIN todo = DOMAIN proc[w].todo \ {i}
      /\ \A j \in DOMAIN todo : todo[j] = proc[w].todo[j]
  BY DEF Restrict
<1> HIDE DEF p, todo
<1>0. p = [Idle EXCEPT !.pc = "gate", !.todo = todo] BY DEF p, todo, Left
<1>2. /\ p.pc = "gate" /\ p.page = Nothing /\ p.from = 0 /\ p.started = 0 /\ p.next = 1
      /\ p.todo = todo /\ p.cur = None /\ p.made = 0 /\ p.seen = {} /\ IsProc(p)
  BY <1>0 DEF Idle, IsProc
<1>3. PageSound(p) BY <1>2 DEF PageSound, Nothing, TypeInv, ClockType
<1>4. TodoSound(p) BY <1>1, <1>2, <1>8 DEF ProcSound, TodoSound
<1>5. AtSound(p) BY <1>2 DEF AtSound, Labels
<1>6. ProcSound(p) BY <1>2, <1>3, <1>4, <1>5 DEF ProcSound
<1>7. QED BY <1>6 DEF p

LEMMA AtIsSound ==
  ASSUME TypeInv, NEW pc \in {"idle", "polled"}
  PROVE  ProcSound(At(pc))
BY DEF At, ProcSound, IsProc, PageSound, TodoSound, AtSound, Idle, Nothing, Labels,
       TypeInv, ClockType

\* Only a wakeup moves.
LEMMA OnlyProc ==
  ASSUME TypeInv, NEW w \in Wakeup, NEW p, ProcSound(p), proc' = [proc EXCEPT ![w] = p],
         UNCHANGED <<clock, updates, issue, gates, row, tasks, poll, fixing>>,
         disturbed' \in 0..MaxDisturbed
  PROVE  TypeInv'
<1>1. updates' \in 0..MaxUpdates BY DEF TypeInv, ClockType
<1>2. Grows /\ WorldType' BY <1>1, WorldStays
<1>3. RowType' BY <1>2, RowsStay
<1>4. ProcType' BY <1>2, ProcWritten
<1>5. PollType' BY DEF TypeInv, PollType
<1>6. QED BY <1>2, <1>3, <1>4, <1>5 DEF TypeInv, WorldType

\* Only a row is written.
LEMMA OnlyRow ==
  ASSUME TypeInv, NEW i \in Issue, NEW r, Recorded(i, r), row' = [row EXCEPT ![i] = r],
         UNCHANGED <<clock, updates, issue, gates, tasks, poll, proc>>,
         disturbed' \in 0..MaxDisturbed, fixing' \subseteq Issue
  PROVE  TypeInv'
<1>1. updates' \in 0..MaxUpdates BY DEF TypeInv, ClockType
<1>2. Grows /\ WorldType' BY <1>1, WorldStays
<1>3. RowType' BY <1>2, RowWritten
<1>4. ProcType' BY <1>2, ProcsStay
<1>5. PollType' BY DEF TypeInv, PollType
<1>6. QED BY <1>2, <1>3, <1>4, <1>5 DEF TypeInv, WorldType

\* What a page of the sweep has.
Paged(w) ==
    LET entries == PageAt(poll.since, poll.cursor)
        new     == {i \in Issue : <<i, 0>> \in entries}
    IN [Idle EXCEPT !.pc = "pulled", !.page = Restrict(issue, new), !.from = poll.since,
                    !.started = clock, !.next = NextPage(entries, poll.cursor)]

LEMMA PollTypes ==
  ASSUME TypeInv, NEW w \in Wakeup, PollPull(w) \/ PollFails(w) \/ PollNotDue(w)
  PROVE  TypeInv'
<1>0. disturbed' \in 0..MaxDisturbed
  BY DEF PollPull, PollFails, PollNotDue, Disturb, TypeInv, ClockType
<1>1. CASE PollPull(w)
  <2>1. ProcSound(Paged(w))
    <3> DEFINE new == {i \in Issue : <<i, 0>> \in PageAt(poll.since, poll.cursor)}
               p   == Paged(w)
    <3>1. poll.since \in 0..clock /\ poll.cursor \in Nat \ {0} /\ clock \in Nat
      BY DEF TypeInv, PollType, ClockType
    <3>2. NextPage(PageAt(poll.since, poll.cursor), poll.cursor) \in Nat \ {0}
      BY <3>1 DEF NextPage
    <3> DEFINE page == Restrict(issue, new)
               next == NextPage(PageAt(poll.since, poll.cursor), poll.cursor)
    <3>10. page = [i \in new |-> issue[i]] BY DEF Restrict
    <3> HIDE DEF p, page, next, new
    <3>0. p = [Idle EXCEPT !.pc = "pulled", !.page = page, !.from = poll.since,
                           !.started = clock, !.next = next]
      BY DEF p, page, next, new, Paged
    <3>3. /\ p.pc = "pulled" /\ p.page = [i \in new |-> issue[i]] /\ p.from = poll.since
          /\ p.started = clock /\ p.next \in Nat \ {0} /\ p.todo = Nothing
          /\ p.cur = None /\ p.made = 0 /\ p.seen = {} /\ IsProc(p)
      BY <3>0, <3>2, <3>10 DEF Idle, IsProc, next
    <3>4. \A i \in new : i \in Issue /\ issue[i].stamp > poll.since
      BY DEF PageAt, Matching, Stamp, new
    <3>5. PageSound(p) BY <3>1, <3>3, <3>4 DEF PageSound, TypeInv, IssueType
    <3>6. TodoSound(p) BY <3>3 DEF TodoSound, Nothing
    <3>7. AtSound(p) BY <3>3 DEF AtSound, Labels
    <3>8. ProcSound(p) BY <3>3, <3>5, <3>6, <3>7 DEF ProcSound
    <3>9. QED BY <3>8 DEF p
  <2>2. proc' = [proc EXCEPT ![w] = Paged(w)] BY <1>1 DEF PollPull, Paged
  <2>3. QED BY <1>0, <1>1, <2>1, <2>2, OnlyProc DEF PollPull
<1>2. CASE PollFails(w) \/ PollNotDue(w)
  <2> DEFINE p == [proc[w] EXCEPT !.pc = "polled"]
  <2>1. ProcSound(proc[w]) /\ proc[w].pc = "idle"
    BY <1>2 DEF TypeInv, ProcType, PollFails, PollNotDue
  <2>2. /\ p.pc = "polled" /\ p.page = proc[w].page /\ p.from = proc[w].from
        /\ p.started = proc[w].started /\ p.next = proc[w].next /\ p.todo = proc[w].todo
        /\ p.cur = proc[w].cur /\ p.made = proc[w].made /\ p.seen = proc[w].seen /\ IsProc(p)
    BY <2>1 DEF ProcSound, IsProc
  <2>3. proc' = [proc EXCEPT ![w] = p] BY <1>2 DEF PollFails, PollNotDue
  <2> HIDE DEF p
  <2>4. ProcSound(p) BY <2>1, <2>2 DEF ProcSound, PageSound, TodoSound, AtSound
  <2>5. QED BY <1>0, <1>2, <2>3, <2>4, OnlyProc DEF PollFails, PollNotDue
<1>3. QED BY <1>1, <1>2

LEMMA LeftType ==
  ASSUME TypeInv, NEW w \in Wakeup, NEW i, Rest(w, i),
         UNCHANGED <<clock, updates, issue, gates, row, tasks, poll, fixing>>,
         disturbed' \in 0..MaxDisturbed
  PROVE  TypeInv'
<1>1. proc' = [proc EXCEPT ![w] = Left(proc[w], i)] BY DEF Rest, Left
<1>2. QED BY <1>1, LeftSound, OnlyProc

\* The steps at the gate that only move the wakeup.
LEMMA GateMovesTypes ==
  ASSUME TypeInv, NEW w \in Wakeup, NEW i,
         \/ GateList(w) \/ GateSkip(w, i) \/ GateFetch(w, i) \/ GateFails(w, i)
         \/ GateConflict(w) \/ GateEnds(w) \/ Crash(w)
  PROVE  TypeInv'
<1>0. /\ disturbed' \in 0..MaxDisturbed
      /\ UNCHANGED <<clock, updates, issue, gates, row, tasks, poll, fixing>>
  <2>1. disturbed \in 0..MaxDisturbed /\ MaxDisturbed \in Nat BY DEF TypeInv, ClockType
  <2>2. CASE GateList(w) \/ GateFetch(w, i) \/ GateEnds(w) BY <2>1, <2>2 DEF GateList, GateFetch, GateEnds
  <2>3. CASE GateSkip(w, i) \/ GateConflict(w) BY <2>1, <2>3 DEF GateSkip, GateConflict
  <2>4. CASE GateFails(w, i) BY <2>1, <2>4 DEF GateFails, Disturb
  <2>5. CASE Crash(w) BY <2>1, <2>5 DEF Crash, Disturb
  <2>6. QED BY <2>2, <2>3, <2>4, <2>5
<1>1. ProcSound(proc[w]) BY DEF TypeInv, ProcType
<1>2. CASE GateList(w)
  <2> DEFINE todo == Restrict(row, {j \in Issue : Listed(j)})
             p    == [proc[w] EXCEPT !.pc = "gate", !.todo = todo]
  <2>1. DOMAIN todo \subseteq Issue /\ \A j \in DOMAIN todo : todo[j] = row[j]
    BY DEF Restrict
  <2>2. proc' = [proc EXCEPT ![w] = p] /\ proc[w].pc = "polled" BY <1>2 DEF GateList
  <2> HIDE DEF todo
  <2>3. /\ p.pc = "gate" /\ p.page = proc[w].page /\ p.from = proc[w].from
        /\ p.started = proc[w].started /\ p.next = proc[w].next /\ p.todo = todo
        /\ p.cur = proc[w].cur /\ p.made = proc[w].made /\ p.seen = proc[w].seen /\ IsProc(p)
    BY <1>1 DEF ProcSound, IsProc
  <2> HIDE DEF p
  <2>4. TodoSound(p) BY <2>1, <2>3 DEF TodoSound, TypeInv, RowType
  <2>5. ProcSound(p) BY <1>1, <2>2, <2>3, <2>4 DEF ProcSound, PageSound, AtSound
  <2>6. QED BY <1>0, <2>2, <2>5, OnlyProc
<1>3. CASE GateFetch(w, i)
  <2> DEFINE n == proc[w].todo[i].gate
             p == [proc[w] EXCEPT !.pc = "fetched", !.cur = i, !.seen = gates[i][n].labels]
  <2>1. proc[w].pc = "gate" /\ i \in DOMAIN proc[w].todo /\ n # 0
    BY <1>3 DEF GateFetch, Asked, Given
  <2>2. proc' = [proc EXCEPT ![w] = p] BY <1>1, <1>3 DEF GateFetch, ProcSound, IsProc
  <2>3. gates[i][n].labels \in Labels
    <3>1. i \in Issue /\ n \in Nat /\ n <= Len(gates[i])
      BY <1>1, <2>1 DEF ProcSound, TodoSound, Recorded, Row
    <3>2. gates[i] \in Seq([labels : Labels, stamp : 0..clock]) BY <3>1 DEF TypeInv, GatesType
    <3> DEFINE G == [labels : Labels, stamp : 0..clock]
    <3> HIDE DEF n, G
    <3>3. n \in 1..Len(gates[i]) BY <2>1, <3>1, <3>2
    <3>4. gates[i] \in Seq(G) BY <3>2 DEF G
    <3>5. gates[i][n] \in G BY <3>3, <3>4
    <3>6. QED BY <3>5 DEF G
  <2>4. /\ p.pc = "fetched" /\ p.page = proc[w].page /\ p.from = proc[w].from
        /\ p.started = proc[w].started /\ p.next = proc[w].next /\ p.todo = proc[w].todo
        /\ p.cur = i /\ p.made = proc[w].made /\ p.seen \in Labels /\ IsProc(p)
    BY <1>1, <2>3 DEF ProcSound, IsProc
  <2> HIDE DEF p
  <2>5. ProcSound(p) BY <1>1, <2>1, <2>4 DEF ProcSound, PageSound, TodoSound, AtSound
  <2>6. QED BY <1>0, <2>2, <2>5, OnlyProc
<1>4. CASE GateSkip(w, i) \/ GateFails(w, i) \/ GateConflict(w)
  <2>1. \E j : Rest(w, j) BY <1>4 DEF GateSkip, GateFails, GateConflict
  <2>2. QED BY <1>0, <2>1, LeftType
<1>5. CASE GateEnds(w) \/ Crash(w)
  <2>1. At("idle") = Idle BY DEF At, Idle
  <2>2. proc' = [proc EXCEPT ![w] = At("idle")] BY <1>5, <2>1 DEF GateEnds, Crash
  <2>3. QED BY <1>0, <2>2, AtIsSound, OnlyProc
<1>6. QED BY <1>2, <1>3, <1>4, <1>5

\* Approval issues are made.
LEMMA GateCreateTypes ==
  ASSUME TypeInv, NEW w \in Wakeup, NEW i \in Issue, GateCreate(w, i) \/ GateCreateLost(w, i)
  PROVE  TypeInv'
<1>1. NewGate(i) /\ UNCHANGED <<updates, issue, row, tasks, poll, fixing>>
  BY DEF GateCreate, GateCreateLost
<1>2. Grows /\ WorldType'
  BY <1>1, NewGateType DEF GateCreate, GateCreateLost, Disturb, TypeInv, ClockType
<1>3. ProcType'
  <2>1. CASE GateCreateLost(w, i)
    BY <1>2, <2>1, LeftSound, ProcWritten DEF GateCreateLost, Rest, Left
  <2>2. CASE GateCreate(w, i)
    <3> DEFINE p == [proc[w] EXCEPT !.pc = "created", !.cur = i, !.made = Len(gates'[i])]
    <3>1. ProcSound(proc[w]) BY DEF TypeInv, ProcType
    <3>3. \A v \in Wakeup : \A q : q = proc[v] => ProcSound(q)'
      BY <1>2, ProcGrows DEF TypeInv, ProcType
    <3>4. proc' = [proc EXCEPT ![w] = p]
      BY <2>2, <3>1 DEF GateCreate, ProcSound, IsProc
    <3>5. proc[w].pc = "gate" /\ i \in DOMAIN proc[w].todo
      BY <2>2 DEF GateCreate, Unasked, Given
    <3>6. /\ p.pc = "created" /\ p.page = proc[w].page /\ p.from = proc[w].from
          /\ p.started = proc[w].started /\ p.next = proc[w].next /\ p.todo = proc[w].todo
          /\ p.cur = i /\ p.made = Len(gates'[i]) /\ p.seen = proc[w].seen /\ IsProc(p)
      BY <3>1 DEF ProcSound, IsProc
    <3>7. PICK o : o = proc[w] OBVIOUS
    <3>8. PICK q : q = p OBVIOUS
    <3> HIDE DEF p
    <3>9. ProcSound(o)' BY <3>3, <3>7
    <3>10. ProcSound(q)'
      BY <1>2, <3>5, <3>6, <3>7, <3>8, <3>9
         DEF Grows, ProcSound, PageSound, TodoSound, AtSound, IsProc
    <3>11. proc'[w] = q /\ \A v \in Wakeup \ {w} : proc'[v] = proc[v]
      BY <3>4, <3>8 DEF TypeInv, ProcType
    <3>12. \A v \in Wakeup : ProcSound(proc[v])' BY <3>3, <3>10, <3>11
    <3>13. proc' = [v \in Wakeup |-> proc'[v]] BY <3>4 DEF TypeInv, ProcType
    <3>14. QED BY <3>12, <3>13 DEF ProcType
  <2>3. QED BY <2>1, <2>2
<1>4. RowType' BY <1>1, <1>2, RowsStay
<1>5. PollType'
  BY <1>1, <1>2 DEF TypeInv, PollType, Grows, ClockType
<1>6. QED BY <1>2, <1>3, <1>4, <1>5 DEF TypeInv, WorldType

\* What a wakeup that is at a report has in its hands.
LEMMA AtReport ==
  ASSUME TypeInv, NEW w \in Wakeup, proc[w].pc \in {"created", "fetched"}
  PROVE  /\ proc[w].cur \in Issue /\ proc[w].cur \in DOMAIN proc[w].todo
         /\ Recorded(proc[w].cur, proc[w].todo[proc[w].cur])
         /\ proc[w].pc = "created" =>
               proc[w].made \in Nat /\ proc[w].made <= Len(gates[proc[w].cur])
         /\ proc[w].pc = "fetched" =>
               proc[w].todo[proc[w].cur].gate \in DOMAIN gates[proc[w].cur]
<1>1. ProcSound(proc[w]) BY DEF TypeInv, ProcType
<1>2. proc[w].cur \in DOMAIN proc[w].todo BY <1>1 DEF ProcSound, AtSound
<1>3. proc[w].cur \in Issue /\ Recorded(proc[w].cur, proc[w].todo[proc[w].cur])
  BY <1>1, <1>2 DEF ProcSound, TodoSound
<1>4. ASSUME proc[w].pc = "fetched"
      PROVE  proc[w].todo[proc[w].cur].gate \in DOMAIN gates[proc[w].cur]
  <2> DEFINE n == proc[w].todo[proc[w].cur].gate
             G == [labels : Labels, stamp : 0..clock]
  <2>1. n \in Nat /\ n # 0 /\ n <= Len(gates[proc[w].cur])
    BY <1>1, <1>3, <1>4 DEF ProcSound, AtSound, Recorded, Row
  <2>2. gates[proc[w].cur] \in Seq(G) BY <1>3 DEF TypeInv, GatesType
  <2> HIDE DEF n, G
  <2>3. n \in 1..Len(gates[proc[w].cur]) BY <2>1, <2>2
  <2>4. n \in DOMAIN gates[proc[w].cur] BY <2>2, <2>3
  <2>5. QED BY <2>4 DEF n
<1>5. QED BY <1>1, <1>2, <1>3, <1>4 DEF ProcSound, AtSound

\* What is written to a row keeps its type.
LEMMA RowsSound ==
  ASSUME TypeInv, NEW i \in Issue, NEW r, Recorded(i, r)
  PROVE  /\ \A n \in Nat : n <= Len(gates[i]) => Recorded(i, Noted(r, n)) /\ Recorded(i, Triaged(r, n))
         /\ \A n \in Nat : n <= Len(gates[i]) =>
               Recorded(i, [r EXCEPT !.status = "closed", !.gate = n, !.applied = "rejected",
                                     !.linked = FALSE])
         /\ \A status \in {"open", "working", "closed"}, linked \in BOOLEAN :
               Recorded(i, [r EXCEPT !.status = status, !.linked = linked])
BY DEF Recorded, Row, Noted, Triaged

LEMMA UpsertSound ==
  ASSUME TypeInv, NEW i \in Issue, NEW r, r.linked \in BOOLEAN,
         NEW version, version.stamp \in Nat, version.stamp <= issue[i].stamp
  PROVE  Recorded(i, Upserted(r, version))
<1>1. Len(gates[i]) \in Nat BY DEF TypeInv, GatesType
<1>2. PICK status \in {"open", "closed"} :
         Upserted(r, version) = [NoRow EXCEPT !.version = version.stamp, !.linked = r.linked,
                                              !.status = status]
  BY DEF Upserted
<1>3. PICK linked \in BOOLEAN : linked = r.linked OBVIOUS
<1>4. PICK stamp \in Nat : stamp = version.stamp OBVIOUS
<1>5. Upserted(r, version) = [NoRow EXCEPT !.version = stamp, !.linked = linked,
                                           !.status = status]
  BY <1>2, <1>3, <1>4
<1>9. NoRow \in Row BY DEF Row, NoRow
<1>6. Upserted(r, version) \in Row BY <1>5, <1>9 DEF Row
<1>7. Upserted(r, version).gate = 0 /\ Upserted(r, version).version = version.stamp
  BY <1>4, <1>5 DEF NoRow
<1>8. QED BY <1>1, <1>6, <1>7 DEF Recorded

LEMMA GateNoteTypes ==
  ASSUME TypeInv, NEW w \in Wakeup, GateNote(w)
  PROVE  TypeInv'
<1> DEFINE i == proc[w].cur
<1>1. /\ i \in Issue /\ Recorded(i, proc[w].todo[i])
      /\ proc[w].made \in Nat /\ proc[w].made <= Len(gates[i])
  BY AtReport DEF GateNote
<1>2. Recorded(i, Noted(proc[w].todo[i], proc[w].made)) BY <1>1, RowsSound
<1>3. updates' \in 0..MaxUpdates /\ disturbed' \in 0..MaxDisturbed
  BY DEF GateNote, TypeInv, ClockType
<1>4. Grows /\ WorldType' BY <1>3, WorldStays DEF GateNote
<1>5. RowType'
  <2>1. row' = [row EXCEPT ![i] = Noted(proc[w].todo[i], proc[w].made)] BY DEF GateNote
  <2> HIDE DEF i
  <2>2. QED BY <1>1, <1>2, <1>4, <2>1, RowWritten
<1>6. ProcType' BY <1>4, LeftSound, ProcWritten DEF GateNote, Rest, Left
<1>7. PollType' BY DEF GateNote, TypeInv, PollType
<1>8. QED BY <1>4, <1>5, <1>6, <1>7 DEF TypeInv, WorldType

\* The gate has read a decision, or that there is none.
LEMMA GateDecidedTypes ==
  ASSUME TypeInv, NEW w \in Wakeup, GatePending(w) \/ GateApprove(w) \/ GateReject(w)
  PROVE  TypeInv'
<1> DEFINE i == proc[w].cur
           n == proc[w].todo[i].gate
<1>1. i \in Issue /\ n \in DOMAIN gates[i] /\ Recorded(i, proc[w].todo[i])
  BY AtReport DEF GatePending, GateApprove, GateReject
<1>2. n \in Nat /\ n <= Len(gates[i]) BY <1>1 DEF Recorded, Row
<1>3. Rest(w, i) /\ UNCHANGED <<issue, disturbed, updates, poll, fixing>>
  BY DEF GatePending, GateApprove, GateReject
<1>4. updates' \in 0..MaxUpdates /\ disturbed' \in 0..MaxDisturbed
  BY <1>3 DEF TypeInv, ClockType
<1>5. \/ \E labels \in Labels : Relabelled(i, n, labels)
      \/ UNCHANGED <<clock, gates>>
  BY DEF GatePending, GateApprove, GateReject, PutLabels, Labels
<1>6. Grows /\ WorldType'
  <2> HIDE DEF i, n
  <2>1. CASE UNCHANGED <<clock, gates>> BY <1>3, <1>4, <2>1, WorldStays
  <2>2. CASE \E labels \in Labels : Relabelled(i, n, labels)
    BY <1>1, <1>3, <1>4, <2>2, RelabelType
  <2>3. QED BY <1>5, <2>1, <2>2
<1>7. RowType'
  <2>1. Recorded(i, row[i]) BY <1>1 DEF TypeInv, RowType
  <2>2. CASE GatePending(w) BY <1>6, <2>2, RowsStay DEF GatePending
  <2>3. CASE GateApprove(w)
    <3>1. row' = [row EXCEPT ![i] = Triaged(row[i], n)] BY <2>3 DEF GateApprove
    <3>2. Recorded(i, Triaged(row[i], n)) BY <1>1, <1>2, <2>1, RowsSound
    <3> HIDE DEF i, n
    <3>3. QED BY <1>1, <1>6, <3>1, <3>2, RowWritten
  <2>4. CASE GateReject(w)
    <3> DEFINE r == [row[i] EXCEPT !.status = "closed", !.gate = n, !.applied = "rejected",
                                   !.linked = FALSE]
    <3>1. row' = [row EXCEPT ![i] = r] BY <2>4 DEF GateReject
    <3>2. Recorded(i, r) BY <1>1, <1>2, <2>1, RowsSound
    <3> HIDE DEF i, r
    <3>3. QED BY <1>1, <1>6, <3>1, <3>2, RowWritten
  <2>5. QED BY <2>2, <2>3, <2>4
<1>8. ProcType'
  <2> HIDE DEF i, n
  <2>1. QED BY <1>3, <1>6, LeftSound, ProcWritten DEF Rest, Left
<1>9. PollType'
  <2>1. tasks' \in [Issue -> Nat]
    BY <1>1 DEF GatePending, GateApprove, GateReject, TypeInv, PollType
  <2>2. poll' \in [cursor : Nat \ {0}, since : 0..clock']
    BY <1>3, <1>6 DEF Grows, TypeInv, PollType, ClockType
  <2>3. QED BY <1>3, <2>1, <2>2 DEF TypeInv, PollType
<1>10. QED BY <1>6, <1>7, <1>8, <1>9 DEF TypeInv, WorldType

LEMMA PollStoreTypes ==
  ASSUME TypeInv, NEW w \in Wakeup, PollStore(w)
  PROVE  TypeInv'
<1>1. ProcSound(proc[w]) BY DEF TypeInv, ProcType
<1>2. updates' \in 0..MaxUpdates /\ disturbed' \in 0..MaxDisturbed
  BY DEF PollStore, TypeInv, ClockType
<1>3. Grows /\ WorldType' BY <1>2, WorldStays DEF PollStore
<1>4. RowType'
  <2>1. \A i \in Issue : Recorded(i, row[i]) /\ row[i].linked \in BOOLEAN
    BY DEF TypeInv, RowType, Recorded, Row
  <2>2. ASSUME NEW i \in Issue PROVE Recorded(i, row'[i])
    <3>1. CASE i \in DOMAIN proc[w].page
      <4>1. proc[w].page[i].stamp \in Nat /\ proc[w].page[i].stamp <= issue[i].stamp
        BY <1>1, <3>1 DEF ProcSound, PageSound
      <4>2. row'[i] = Upserted(row[i], proc[w].page[i]) BY <3>1 DEF PollStore
      <4>3. QED BY <2>1, <4>1, <4>2, UpsertSound
    <3>2. CASE i \notin DOMAIN proc[w].page BY <2>1, <3>2 DEF PollStore
    <3>3. QED BY <3>1, <3>2
  <2>3. \A i \in Issue : row'[i] \in Row BY <2>2 DEF Recorded
  <2>4. row' = [i \in Issue |-> row'[i]] BY DEF PollStore
  <2>5. row' \in [Issue -> Row] BY <2>3, <2>4
  <2>6. \A i \in Issue : \A s : Recorded(i, s) => Recorded(i, s)' BY <1>3, RecordedGrows
  <2>7. QED BY <2>2, <2>5, <2>6 DEF RowType
<1>5. ProcType'
  <2>1. proc' = [proc EXCEPT ![w] = At("polled")] BY DEF PollStore, At
  <2>2. QED BY <1>3, <2>1, AtIsSound, ProcWritten
<1>6. PollType'
  <2>1. proc[w].next \in Nat \ {0} /\ Watermark(proc[w]) \in 0..clock
    BY <1>1 DEF ProcSound, PageSound, Watermark
  <2>2. QED BY <2>1 DEF PollStore, TypeInv, PollType
<1>7. QED BY <1>3, <1>4, <1>5, <1>6 DEF TypeInv, WorldType

\* People and what they do with issues and their labels.
LEMMA PeopleTypes ==
  ASSUME TypeInv, NEW i \in Issue,
         \/ Report(i) \/ Touch(i) \/ Resolve(i)
         \/ gates[i] # <<>> /\ Decide(i, Len(gates[i]))
  PROVE  TypeInv'
<1>1. UNCHANGED <<row, tasks, poll, proc, disturbed>> /\ fixing' \subseteq Issue /\ Update
  BY DEF Report, Touch, Resolve, Decide, TypeInv, PollType
<1>2. Grows /\ WorldType'
  <2>1. CASE Report(i) BY <2>1, IssueMovesType DEF Report
  <2>2. CASE Touch(i) BY <2>2, IssueMovesType DEF Touch
  <2>3. CASE Resolve(i) BY <2>3, IssueMovesType DEF Resolve
  <2>4. CASE gates[i] # <<>> /\ Decide(i, Len(gates[i]))
    <3> DEFINE n == Len(gates[i])
               G == [labels : Labels, stamp : 0..clock]
    <3>1. gates[i] \in Seq(G) BY DEF TypeInv, GatesType
    <3>2. n \in DOMAIN gates[i] /\ gates[i][n] \in G
      <4> HIDE DEF G
      <4>1. QED BY <2>4, <3>1
    <3>3. gates[i][n].labels \in Labels BY <3>2
    <3>4. PICK labels \in Labels : Relabelled(i, n, labels)
      BY <2>4, <3>3 DEF Decide, Labels
    <3>5. updates' \in 0..MaxUpdates BY <1>1 DEF Update, TypeInv, ClockType
    <3>6. UNCHANGED issue BY <2>4 DEF Decide
    <3> HIDE DEF n
    <3>7. QED BY <1>1, <3>2, <3>4, <3>5, <3>6, RelabelType
  <2>5. QED BY <2>1, <2>2, <2>3, <2>4
<1>3. RowType' BY <1>1, <1>2, RowsStay
<1>4. ProcType' BY <1>1, <1>2, ProcsStay
<1>5. PollType' BY <1>1, <1>2 DEF TypeInv, PollType, Grows, ClockType
<1>6. QED BY <1>2, <1>3, <1>4, <1>5 DEF TypeInv, WorldType

\* The other writers of a row.
LEMMA WritersTypes ==
  ASSUME TypeInv, NEW i \in Issue, Advance(i) \/ Resolved(i) \/ Webhook(i) \/ Patch(i)
  PROVE  TypeInv'
<1>1. /\ disturbed' \in 0..MaxDisturbed /\ fixing' \subseteq Issue
      /\ UNCHANGED <<clock, updates, issue, gates, tasks, poll, proc>>
  <2>1. /\ disturbed \in 0..MaxDisturbed /\ MaxDisturbed \in Nat /\ fixing \subseteq Issue
    BY DEF TypeInv, ClockType, PollType
  <2>2. CASE Advance(i) \/ Resolved(i) BY <2>1, <2>2 DEF Advance, Resolved
  <2>3. CASE Webhook(i) BY <2>1, <2>3 DEF Webhook, Disturb
  <2>4. CASE Patch(i)
    <3>1. Disturb("patch") /\ UNCHANGED <<clock, updates, issue, gates, tasks, poll, proc, fixing>>
      BY <2>4 DEF Patch
    <3>2. QED BY <2>1, <3>1 DEF Disturb
  <2>5. QED BY <2>2, <2>3, <2>4
<1>2. Recorded(i, row[i]) /\ row[i] \in Row /\ row[i].linked \in BOOLEAN
  BY DEF TypeInv, RowType, Recorded, Row
<1>3. \E r : Recorded(i, r) /\ row' = [row EXCEPT ![i] = r]
  <2>1. CASE Webhook(i)
    <3>1. PICK keeps \in BOOLEAN :
             row' = [row EXCEPT ![i] =
                       Upserted([row[i] EXCEPT !.linked = row[i].linked /\ keeps], issue[i])]
      BY <2>1 DEF Webhook, KeepsLink
    <3>2. [row[i] EXCEPT !.linked = row[i].linked /\ keeps].linked \in BOOLEAN
      BY <1>2 DEF Row
    <3>3. issue[i].stamp \in Nat BY DEF TypeInv, IssueType, ClockType
    <3>4. issue[i].stamp <= issue[i].stamp BY <3>3
    <3>5. PICK r : r = [row[i] EXCEPT !.linked = row[i].linked /\ keeps] OBVIOUS
    <3>6. PICK version : version = issue[i] OBVIOUS
    <3>7. r.linked \in BOOLEAN /\ version.stamp \in Nat /\ version.stamp <= issue[i].stamp
      BY <3>2, <3>3, <3>4, <3>5, <3>6
    <3>8. Recorded(i, Upserted(r, version)) BY <3>7, UpsertSound
    <3>9. QED BY <3>1, <3>5, <3>6, <3>8
  <2>2. CASE Advance(i)
    <3>1. PICK status \in {"working", "closed"} :
             row' = [row EXCEPT ![i] = [row[i] EXCEPT !.status = status, !.linked = TRUE]]
      BY <2>2 DEF Advance
    <3>2. QED BY <1>2, <3>1, RowsSound
  <2>3. CASE Resolved(i)
    <3>1. row' = [row EXCEPT ![i] = [row[i] EXCEPT !.status = "closed"]]
      BY <2>3 DEF Resolved, TypeInv, RowType
    <3>2. Recorded(i, [row[i] EXCEPT !.status = "closed"]) BY <1>2 DEF Recorded, Row
    <3>3. QED BY <3>1, <3>2
  <2>4. CASE Patch(i)
    <3>1. PICK keeps \in BOOLEAN, status \in {"open", "working", "closed"} :
             row' = [row EXCEPT ![i] =
                       [row[i] EXCEPT !.status = status, !.linked = row[i].linked /\ keeps]]
      BY <2>4 DEF Patch, KeepsLink
    <3>2. (row[i].linked /\ keeps) \in BOOLEAN OBVIOUS
    <3>3. QED BY <1>2, <3>1, <3>2, RowsSound
  <2>5. QED BY <2>1, <2>2, <2>3, <2>4
<1>4. QED BY <1>1, <1>3, OnlyRow

LEMMA TypeStep == TypeInv /\ [Next]_vars => TypeInv'
<1> SUFFICES ASSUME TypeInv, [Next]_vars PROVE TypeInv' OBVIOUS
<1>1. CASE \E w \in Wakeup : PollPull(w) \/ PollNotDue(w) \/ WakeupStep(w) \/ Disturbed(w)
  <2>1. PICK w \in Wakeup : PollPull(w) \/ PollNotDue(w) \/ WakeupStep(w) \/ Disturbed(w)
    BY <1>1
  <2>2. CASE \E i \in Issue :
                \/ GateCreate(w, i) \/ GateSkip(w, i) \/ GateFetch(w, i)
                \/ GateCreateLost(w, i) \/ GateFails(w, i)
    BY <2>2, GateCreateTypes, GateMovesTypes
  <2>3. CASE PollStore(w) \/ GateNote(w) \/ GatePending(w) \/ GateApprove(w) \/ GateReject(w)
    BY <2>3, PollStoreTypes, GateNoteTypes, GateDecidedTypes
  <2>4. CASE PollPull(w) \/ PollFails(w) \/ PollNotDue(w)
    BY <2>4, PollTypes
  <2>5. CASE GateList(w) \/ GateConflict(w) \/ GateEnds(w) \/ Crash(w)
    BY <2>5, GateMovesTypes
  <2>6. QED BY <2>1, <2>2, <2>3, <2>4, <2>5 DEF WakeupStep, Disturbed
<1>2. CASE \E i \in Issue :
              \/ Report(i) \/ Touch(i) \/ Advance(i) \/ Resolve(i) \/ Resolved(i)
              \/ Webhook(i) \/ Patch(i)
              \/ gates[i] # <<>> /\ Decide(i, Len(gates[i]))
  BY <1>2, PeopleTypes, WritersTypes
<1>3. CASE UNCHANGED vars
  <2>1. UNCHANGED <<clock, updates, issue, gates, row, tasks, poll, proc, fixing, disturbed>>
    BY <1>3 DEF vars
  <2>2. Grows /\ WorldType' BY <2>1, WorldStays DEF TypeInv, ClockType
  <2>3. QED BY <2>1, <2>2, RowsStay, ProcsStay DEF TypeInv, WorldType, PollType
<1>4. QED BY <1>1, <1>2, <1>3 DEF Next

(* Every variable keeps its type; a row or a list that a wakeup has read points *)
(* at an approval issue that exists and is not ahead of the issue, whatever     *)
(* others write meanwhile (setGateState, upsertIntakeReport).                   *)
THEOREM TypeCorrect == Spec => []TypeOK
<1>1. Spec => []TypeInv BY InitTypes, TypeStep, PTL DEF Spec
<1>2. QED BY <1>1, Types, PTL

-------------------------------------------------------------------------------
(* The list that a wakeup works through *)

SameProc(w) == proc'[w] = proc[w]

LEMMA LeftTodo ==
  ASSUME TypeInv, NEW w \in Wakeup, NEW i, Rest(w, i)
  PROVE  /\ DOMAIN proc'[w].todo = DOMAIN proc[w].todo \ {i}
         /\ \A j \in DOMAIN proc'[w].todo : proc'[w].todo[j] = proc[w].todo[j]
         /\ proc'[w].pc = "gate"
         /\ \A v \in Wakeup \ {w} : SameProc(v)
<1> DEFINE todo == Restrict(proc[w].todo, DOMAIN proc[w].todo \ {i})
<1>1. /\ DOMAIN todo = DOMAIN proc[w].todo \ {i}
      /\ \A j \in DOMAIN todo : todo[j] = proc[w].todo[j]
  BY DEF Restrict
<1>2. proc' = [proc EXCEPT ![w] = [Idle EXCEPT !.pc = "gate", !.todo = todo]] BY DEF Rest
<1> HIDE DEF todo
<1>3. /\ proc'[w] = [Idle EXCEPT !.pc = "gate", !.todo = todo]
      /\ \A v \in Wakeup \ {w} : SameProc(v)
  BY <1>2 DEF TypeInv, ProcType, SameProc
<1>4. proc'[w].todo = todo /\ proc'[w].pc = "gate" BY <1>3 DEF Idle
<1>5. QED BY <1>1, <1>3, <1>4

\* The list only gets shorter, unless it is read.
Shorter(w) == \A i \in DOMAIN proc'[w].todo :
                i \in DOMAIN proc[w].todo /\ proc'[w].todo[i] = proc[w].todo[i]

LEMMA OthersStay ==
  ASSUME TypeInv, NEW w \in Wakeup,
         PollPull(w) \/ PollNotDue(w) \/ WakeupStep(w) \/ Disturbed(w)
  PROVE  \A v \in Wakeup \ {w} : SameProc(v)
<1>1. CASE \E i : Rest(w, i) BY <1>1, LeftTodo
<1>2. CASE ~ \E i : Rest(w, i)
  <2>1. \E p : proc' = [proc EXCEPT ![w] = p]
    <3>1. ProcSound(proc[w]) BY DEF TypeInv, ProcType
    <3>2. CASE PollPull(w) BY <3>2 DEF PollPull
    <3>3. CASE PollNotDue(w) \/ PollFails(w)
      <4>1. proc' = [proc EXCEPT ![w] = [proc[w] EXCEPT !.pc = "polled"]]
        BY <3>3 DEF PollNotDue, PollFails
      <4>2. QED BY <4>1
    <3>4. CASE PollStore(w) BY <3>4 DEF PollStore
    <3>5. CASE GateList(w) BY <3>5 DEF GateList
    <3>6. CASE GateEnds(w) \/ Crash(w) BY <3>6 DEF GateEnds, Crash
    <3>7. CASE \E i \in Issue : GateCreate(w, i)
      <4>1. PICK i \in Issue : GateCreate(w, i) BY <3>7
      <4>2. proc' = [proc EXCEPT ![w] = [proc[w] EXCEPT !.pc = "created", !.cur = i,
                                                        !.made = Len(gates'[i])]]
        BY <3>1, <4>1 DEF GateCreate, ProcSound, IsProc
      <4>3. QED BY <4>2
    <3>8. CASE \E i \in Issue : GateFetch(w, i)
      <4>1. PICK i \in Issue : GateFetch(w, i) BY <3>8
      <4>2. proc' = [proc EXCEPT ![w] = [proc[w] EXCEPT !.pc = "fetched", !.cur = i,
                                            !.seen = gates[i][proc[w].todo[i].gate].labels]]
        BY <3>1, <4>1 DEF GateFetch, ProcSound, IsProc
      <4>3. QED BY <4>2
    <3>9. ~ (\/ GateNote(w) \/ GateConflict(w) \/ GatePending(w) \/ GateApprove(w) \/ GateReject(w)
             \/ \E i \in Issue : GateSkip(w, i) \/ GateCreateLost(w, i) \/ GateFails(w, i))
      BY <1>2 DEF GateNote, GateConflict, GatePending, GateApprove, GateReject, GateSkip,
                  GateCreateLost, GateFails
    <3>10. QED BY <3>2, <3>3, <3>4, <3>5, <3>6, <3>7, <3>8, <3>9 DEF WakeupStep, Disturbed
  <2>2. QED BY <2>1 DEF TypeInv, ProcType, SameProc
<1>3. QED BY <1>1, <1>2

LEMMA TodoStep ==
  ASSUME TypeInv, NEW w \in Wakeup,
         PollPull(w) \/ PollNotDue(w) \/ WakeupStep(w) \/ Disturbed(w)
  PROVE  Shorter(w) \/ GateList(w)
<1>1. ProcSound(proc[w]) BY DEF TypeInv, ProcType
<1>2. DOMAIN proc = Wakeup BY DEF TypeInv, ProcType
<1>3. CASE \E i : Rest(w, i) BY <1>3, LeftTodo DEF Shorter
<1>4. CASE PollStore(w) \/ GateEnds(w) \/ Crash(w)
  <2>1. proc'[w].todo = Nothing BY <1>2, <1>4 DEF PollStore, GateEnds, Crash, Idle
  <2>2. QED BY <2>1 DEF Nothing, Shorter
<1>5. CASE PollPull(w)
  <2>1. proc'[w] = Paged(w) BY <1>2, <1>5 DEF PollPull, Paged
  <2>2. Paged(w).todo = Nothing BY DEF Paged, Idle
  <2>3. QED BY <2>1, <2>2 DEF Nothing, Shorter
<1>6. CASE PollNotDue(w) \/ PollFails(w)
  <2>1. proc' = [proc EXCEPT ![w] = [proc[w] EXCEPT !.pc = "polled"]]
    BY <1>6 DEF PollNotDue, PollFails
  <2>2. proc'[w].todo = proc[w].todo BY <1>1, <1>2, <2>1 DEF ProcSound, IsProc
  <2>3. QED BY <2>2 DEF Shorter
<1>7. CASE \E i \in Issue : GateCreate(w, i) \/ GateFetch(w, i)
  <2>1. PICK i \in Issue : GateCreate(w, i) \/ GateFetch(w, i) BY <1>7
  <2>2. proc'[w].todo = proc[w].todo
    BY <1>1, <1>2, <2>1 DEF GateCreate, GateFetch, ProcSound, IsProc
  <2>3. QED BY <2>2 DEF Shorter
<1>8. CASE \/ GateNote(w) \/ GateConflict(w) \/ GatePending(w) \/ GateApprove(w) \/ GateReject(w)
           \/ \E i \in Issue : GateSkip(w, i) \/ GateCreateLost(w, i) \/ GateFails(w, i)
  BY <1>3, <1>8 DEF GateNote, GateConflict, GatePending, GateApprove, GateReject, GateSkip,
                    GateCreateLost, GateFails
<1>9. QED BY <1>4, <1>5, <1>6, <1>7, <1>8 DEF WakeupStep, Disturbed

LEMMA ListStep ==
  ASSUME TypeInv, NEW w \in Wakeup, GateList(w)
  PROVE  \A i \in DOMAIN proc'[w].todo : i \in Issue /\ Listed(i) /\ proc'[w].todo[i] = row[i]
<1> DEFINE todo == Restrict(row, {j \in Issue : Listed(j)})
<1>1. DOMAIN todo = {j \in Issue : Listed(j)} /\ \A j \in DOMAIN todo : todo[j] = row[j]
  BY DEF Restrict
<1>2. proc' = [proc EXCEPT ![w] = [proc[w] EXCEPT !.pc = "gate", !.todo = todo]]
  BY DEF GateList
<1> HIDE DEF todo
<1>3. proc'[w].todo = todo BY <1>2 DEF TypeInv, ProcType, ProcSound, IsProc
<1>4. QED BY <1>1, <1>3

-------------------------------------------------------------------------------
(* One triage task for a report *)

OneWakeup == \A v, w \in Wakeup : v = w

\* A report that has a task is linked to it, and is on no wakeup's list.
LinkInv ==
    /\ \A i \in Issue : tasks[i] <= 1 /\ (tasks[i] = 1 => row[i].linked)
    /\ \A w \in Wakeup : \A i \in DOMAIN proc[w].todo :
          tasks[i] = 0 /\ ~proc[w].todo[i].linked

\* What a step has to do to a report for that.
Linked(i) == tasks'[i] <= 1 /\ (tasks'[i] = 1 => row'[i].linked)

LEMMA InitLinks == Init => LinkInv
BY DEF Init, LinkInv, Idle, Nothing

\* The steps of the one wakeup.
LEMMA WakeupLinks ==
  ASSUME OneWakeup, TypeInv, LinkInv, NEW w \in Wakeup,
         PollPull(w) \/ PollNotDue(w) \/ WakeupStep(w) \/ Disturbed(w), NEW i \in Issue
  PROVE  /\ Linked(i)
         /\ tasks'[i] # tasks[i] => i \notin DOMAIN proc'[w].todo
<1>1. tasks[i] \in Nat /\ row[i] \in Row BY DEF TypeInv, PollType, RowType
<1>2. tasks[i] <= 1 /\ (tasks[i] = 1 => row[i].linked)
  BY DEF LinkInv
<1> DEFINE c == proc[w].cur
<1>3. proc[w].pc \in {"created", "fetched"} =>
        /\ c \in Issue /\ c \in DOMAIN proc[w].todo /\ tasks[c] = 0
        /\ Recorded(c, proc[w].todo[c])
  BY AtReport DEF LinkInv
<1>4. CASE GateNote(w)
  <2>1. row' = [row EXCEPT ![c] = Noted(proc[w].todo[c], proc[w].made)] /\ tasks' = tasks
    BY <1>4 DEF GateNote
  <2>2. tasks[c] = 0 BY <1>3, <1>4 DEF GateNote
  <2> HIDE DEF c
  <2>3. i # c => row'[i] = row[i] BY <2>1 DEF TypeInv, RowType
  <2>4. QED BY <1>1, <1>2, <2>1, <2>2, <2>3 DEF Linked
<1>5. CASE GateApprove(w)
  <2>1. /\ c \in Issue /\ c \in DOMAIN proc[w].todo /\ tasks[c] = 0
        /\ row' = [row EXCEPT ![c] = Triaged(row[c], proc[w].todo[c].gate)]
        /\ tasks' = IF row[c].linked THEN tasks ELSE [tasks EXCEPT ![c] = tasks[c] + 1]
        /\ Rest(w, c)
    BY <1>3, <1>5 DEF GateApprove
  <2>2. c \notin DOMAIN proc'[w].todo BY <2>1, LeftTodo
  <2>3. row[c] \in Row BY <2>1 DEF TypeInv, RowType
  <2>4. Triaged(row[c], proc[w].todo[c].gate).linked BY <2>3 DEF Triaged, Row
  <2> HIDE DEF c
  <2>5. row'[c].linked /\ (i # c => row'[i] = row[i])
    BY <2>1, <2>4 DEF TypeInv, RowType
  <2>6. tasks'[c] <= 1 /\ (i # c => tasks'[i] = tasks[i])
    BY <2>1 DEF TypeInv, PollType
  <2>7. QED BY <1>1, <1>2, <2>2, <2>5, <2>6 DEF Linked
<1>6. CASE GateReject(w)
  <2>1. tasks' = tasks /\ tasks[c] = 0 /\ (i # c => row'[i] = row[i])
    BY <1>3, <1>6 DEF GateReject, TypeInv, RowType
  <2>2. QED BY <1>1, <1>2, <2>1 DEF Linked
<1>7. CASE PollStore(w)
  <2>1. tasks' = tasks /\ row'[i].linked = row[i].linked
    BY <1>1, <1>7 DEF PollStore, Upserted, NoRow
  <2>2. QED BY <1>2, <2>1 DEF Linked
<1>8. CASE UNCHANGED <<row, tasks>> BY <1>2, <1>8 DEF Linked
<1>9. QED
  BY <1>4, <1>5, <1>6, <1>7, <1>8
     DEF PollPull, PollNotDue, WakeupStep, Disturbed, PollFails, Crash, GateList, GateConflict,
         GatePending, GateEnds, GateCreate, GateSkip, GateFetch, GateCreateLost, GateFails

\* The steps of others.
LEMMA OthersLinks ==
  ASSUME "unnamed" \notin Disturbances, TypeInv, LinkInv, NEW i \in Issue, NEW j \in Issue,
         \/ Report(j) \/ Touch(j) \/ Advance(j) \/ Resolve(j) \/ Resolved(j)
         \/ Webhook(j) \/ Patch(j) \/ Decide(j, Len(gates[j]))
  PROVE  Linked(i) /\ UNCHANGED <<tasks, proc>>
<1>1. row[i] \in Row /\ row[j] \in Row /\ tasks[i] <= 1 /\ (tasks[i] = 1 => row[i].linked)
  BY DEF LinkInv, TypeInv, RowType
<1>2. KeepsLink = {TRUE} BY DEF KeepsLink
<1>3. UNCHANGED <<tasks, proc>>
  BY DEF Report, Touch, Advance, Resolve, Resolved, Webhook, Patch, Decide
<1>4. row[i].linked => row'[i].linked
  <2>1. CASE Report(j) \/ Touch(j) \/ Resolve(j) \/ Decide(j, Len(gates[j]))
    BY <2>1 DEF Report, Touch, Resolve, Decide
  <2>2. CASE Advance(j)
    <3>1. PICK status : row' = [row EXCEPT ![j] = [row[j] EXCEPT !.status = status, !.linked = TRUE]]
      BY <2>2 DEF Advance
    <3>2. QED BY <1>1, <3>1 DEF TypeInv, RowType, Row
  <2>3. CASE Resolved(j)
    BY <1>1, <2>3 DEF Resolved, TypeInv, RowType, Row
  <2>4. CASE Webhook(j)
    <3>1. row' = [row EXCEPT ![j] =
                    Upserted([row[j] EXCEPT !.linked = row[j].linked /\ TRUE], issue[j])]
      BY <1>2, <2>4 DEF Webhook
    <3>2. PICK r : r = [row[j] EXCEPT !.linked = row[j].linked /\ TRUE] OBVIOUS
    <3>3. r.linked <=> row[j].linked BY <1>1, <3>2 DEF Row
    <3>4. Upserted(r, issue[j]).linked = r.linked BY DEF Upserted, NoRow
    <3>5. row' = [row EXCEPT ![j] = Upserted(r, issue[j])] BY <3>1, <3>2
    <3>6. QED BY <3>3, <3>4, <3>5 DEF TypeInv, RowType
  <2>5. CASE Patch(j)
    <3>1. PICK status :
             row' = [row EXCEPT ![j] =
                       [row[j] EXCEPT !.status = status, !.linked = row[j].linked /\ TRUE]]
      BY <1>2, <2>5 DEF Patch
    <3>2. PICK r : r = [row[j] EXCEPT !.status = status, !.linked = row[j].linked /\ TRUE]
      OBVIOUS
    <3>3. r.linked <=> row[j].linked BY <1>1, <3>2 DEF Row
    <3>4. row' = [row EXCEPT ![j] = r] BY <3>1, <3>2
    <3>5. QED BY <3>3, <3>4 DEF TypeInv, RowType
  <2>6. QED BY <2>1, <2>2, <2>3, <2>4, <2>5
<1>5. QED BY <1>1, <1>3, <1>4 DEF Linked

LEMMA LinkStep ==
  ASSUME OneWakeup, "unnamed" \notin Disturbances
  PROVE  TypeInv /\ LinkInv /\ [Next]_vars => LinkInv'
<1> SUFFICES ASSUME TypeInv, LinkInv, [Next]_vars PROVE LinkInv' OBVIOUS
<1>1. CASE \E w \in Wakeup : PollPull(w) \/ PollNotDue(w) \/ WakeupStep(w) \/ Disturbed(w)
  <2>1. PICK w \in Wakeup : PollPull(w) \/ PollNotDue(w) \/ WakeupStep(w) \/ Disturbed(w)
    BY <1>1
  <2>2. \A i \in Issue : Linked(i) BY <2>1, WakeupLinks
  <2>3. ASSUME NEW i \in DOMAIN proc'[w].todo
        PROVE  tasks'[i] = 0 /\ ~proc'[w].todo[i].linked
    <3>1. CASE GateList(w)
      <4>1. i \in Issue /\ Listed(i) /\ proc'[w].todo[i] = row[i] BY <3>1, ListStep
      <4>2. ~row[i].linked BY <4>1 DEF Listed
      <4>3. tasks[i] = 0 BY <4>1, <4>2 DEF LinkInv, TypeInv, PollType
      <4>4. QED BY <3>1, <4>1, <4>2, <4>3 DEF GateList
    <3>2. CASE Shorter(w)
      <4>1. i \in DOMAIN proc[w].todo /\ proc'[w].todo[i] = proc[w].todo[i]
        BY <3>2 DEF Shorter
      <4>2. i \in Issue BY <4>1 DEF TypeInv, ProcType, ProcSound, TodoSound
      <4>3. QED BY <2>1, <4>1, <4>2, WakeupLinks DEF LinkInv
    <3>3. QED BY <2>1, <3>1, <3>2, TodoStep
  <2>4. \A v \in Wakeup : v = w BY DEF OneWakeup
  <2>5. QED BY <2>2, <2>3, <2>4 DEF LinkInv, Linked
<1>2. CASE \E i \in Issue :
              \/ Report(i) \/ Touch(i) \/ Advance(i) \/ Resolve(i) \/ Resolved(i)
              \/ Webhook(i) \/ Patch(i)
              \/ gates[i] # <<>> /\ Decide(i, Len(gates[i]))
  <2>1. (\A i \in Issue : Linked(i)) /\ UNCHANGED <<tasks, proc>> BY <1>2, OthersLinks
  <2>2. QED BY <2>1 DEF LinkInv, Linked
<1>3. CASE UNCHANGED vars BY <1>3 DEF vars, LinkInv
<1>4. QED BY <1>1, <1>2, <1>3 DEF Next

(* With one wakeup at a time, and as long as nobody's request leaves the linked *)
(* task out, a report gets one triage task at most, however often it is pulled, *)
(* asked about, rejected, changed over the API or written back from a list that *)
(* is out of date (syncGitHubIntakeGate).                                       *)
THEOREM OneTask ==
  ASSUME OneWakeup, "unnamed" \notin Disturbances
  PROVE  Spec => []OneTriageTask
<1>1. TypeInv /\ LinkInv /\ [Next]_vars => LinkInv' BY LinkStep
<1>2. Spec => []LinkInv BY <1>1, InitTypes, InitLinks, TypeStep, PTL DEF Spec
<1>3. LinkInv => OneTriageTask BY DEF LinkInv, OneTriageTask
<1>4. QED BY <1>2, <1>3, PTL

-------------------------------------------------------------------------------
(* Pages: a set sorted by a number that no two members share, and cut up *)

\* How many members of A come before a.
Before(A, st, a) == {b \in A : st[b] < st[a]}
RankOf(A, st, a) == Cardinality(Before(A, st, a))

LEMMA Quotient ==
  ASSUME NEW r \in Nat, NEW k \in Nat, NEW m \in Nat \ {0}
  PROVE  r \div m \in Nat /\ (r \div m >= k <=> r >= k * m)
<1> DEFINE q == r \div m
<1>1. q \in Nat /\ q * m <= r /\ r < q * m + m
  BY Z3
<1> HIDE DEF q
<1>2. ASSUME q >= k PROVE r >= k * m
  <2>1. PICK d \in Nat : q = k + d BY <1>1, <1>2
  <2>2. q * m = k * m + d * m /\ d * m \in Nat /\ k * m \in Nat /\ q * m \in Nat BY <2>1
  <2>3. QED BY <1>1, <2>2
<1>3. ASSUME q < k PROVE r < k * m
  <2>1. PICK d \in Nat : k = q + 1 + d BY <1>1, <1>3
  <2>2. k * m = q * m + m + d * m /\ d * m \in Nat /\ k * m \in Nat /\ q * m \in Nat
    BY <1>1, <2>1
  <2>3. QED BY <1>1, <2>2
<1>4. k * m \in Nat OBVIOUS
<1>5. QED BY <1>1, <1>2, <1>3, <1>4 DEF q

\* The ranks are the numbers below the size of the set, each of them once.
LEMMA Ranks ==
  ASSUME NEW A, IsFiniteSet(A), NEW st, \A a \in A : st[a] \in Nat,
         \A a, b \in A : st[a] = st[b] => a = b
  PROVE  /\ \A a \in A : RankOf(A, st, a) \in Nat /\ RankOf(A, st, a) < Cardinality(A)
         /\ \A a, b \in A : RankOf(A, st, a) = RankOf(A, st, b) => a = b
         /\ \A r \in 0..Cardinality(A) - 1 : \E a \in A : RankOf(A, st, a) = r
<1>1. Cardinality(A) \in Nat BY FS_CardinalityType
<1>2. ASSUME NEW a \in A
      PROVE  /\ IsFiniteSet(Before(A, st, a)) /\ RankOf(A, st, a) \in Nat
             /\ RankOf(A, st, a) < Cardinality(A)
  <2>1. Before(A, st, a) \in SUBSET A /\ a \notin Before(A, st, a) BY DEF Before
  <2>2. /\ IsFiniteSet(Before(A, st, a)) /\ RankOf(A, st, a) <= Cardinality(A)
        /\ RankOf(A, st, a) # Cardinality(A)
    BY <2>1, FS_Subset DEF RankOf
  <2>3. RankOf(A, st, a) \in Nat BY <2>2, FS_CardinalityType DEF RankOf
  <2>4. QED BY <1>1, <2>2, <2>3
<1>3. ASSUME NEW a \in A, NEW b \in A, st[a] < st[b]
      PROVE  RankOf(A, st, a) < RankOf(A, st, b)
  <2>1. /\ Before(A, st, a) \in SUBSET Before(A, st, b)
        /\ a \in Before(A, st, b) /\ a \notin Before(A, st, a)
    BY <1>3 DEF Before
  <2>2. /\ RankOf(A, st, a) <= RankOf(A, st, b)
        /\ RankOf(A, st, a) # RankOf(A, st, b)
    BY <1>2, <2>1, FS_Subset DEF RankOf
  <2>3. QED BY <1>2, <2>2
<1>4. ASSUME NEW a \in A, NEW b \in A, RankOf(A, st, a) = RankOf(A, st, b)
      PROVE  a = b
  <2>1. ~(st[a] < st[b]) /\ ~(st[b] < st[a]) BY <1>2, <1>3, <1>4
  <2>2. QED BY <2>1
<1>5. ASSUME NEW r \in 0..Cardinality(A) - 1 PROVE \E a \in A : RankOf(A, st, a) = r
  <2> DEFINE f == [a \in A |-> RankOf(A, st, a)]
             T == 0..Cardinality(A) - 1
  <2>1. f \in Injection(A, T)
    <3>1. f \in [A -> T] BY <1>1, <1>2
    <3>2. QED BY <1>4, <3>1 DEF Injection, IsInjective
  <2>2. IsFiniteSet(T) /\ Cardinality(T) = Cardinality(A)
    <3>1. 0 \in Int /\ Cardinality(A) - 1 \in Int BY <1>1
    <3>2. QED BY <1>1, <3>1, FS_Interval
  <2> HIDE DEF T
  <2>3. f \in Surjection(A, T) BY <2>1, <2>2, FS_Injection
  <2>4. r \in T BY DEF T
  <2>5. \E a \in A : f[a] = r BY <2>3, <2>4 DEF Surjection
  <2>6. QED BY <2>5
<1>6. QED BY <1>2, <1>4, <1>5

\* The members with a rank from lo on, m of them if there are that many.
LEMMA FullPage ==
  ASSUME NEW A, IsFiniteSet(A), NEW st, \A a \in A : st[a] \in Nat,
         \A a, b \in A : st[a] = st[b] => a = b, NEW lo \in Nat, NEW m \in Nat \ {0},
         NEW P, P = {a \in A : lo <= RankOf(A, st, a) /\ RankOf(A, st, a) < lo + m}
  PROVE  /\ Cardinality(P) = m => Cardinality(A) >= lo + m
         /\ (\E a \in A : RankOf(A, st, a) >= lo + m) => Cardinality(P) = m
<1> DEFINE n == Cardinality(A)
           f == [a \in P |-> RankOf(A, st, a)]
<1>1. n \in Nat BY FS_CardinalityType
<1>2. P \subseteq A /\ \A a \in P : f[a] = RankOf(A, st, a) OBVIOUS
<1>3. \A a \in P : f[a] \in Nat /\ lo <= f[a] /\ f[a] < lo + m /\ f[a] < n
  BY <1>2, Ranks
<1>4. \A a, b \in P : f[a] = f[b] => a = b BY <1>2, Ranks
<1>5. ASSUME Cardinality(P) = m, n < lo + m PROVE FALSE
  <2> DEFINE T == lo..n - 1
  <2>1. f \in [P -> T] BY <1>1, <1>3
  <2>2. f \in Injection(P, T) BY <1>4, <2>1 DEF Injection, IsInjective
  <2>3. lo \in Int /\ n - 1 \in Int BY <1>1
  <2>4. IsFiniteSet(T) /\ Cardinality(T) = IF lo > n - 1 THEN 0 ELSE n - 1 - lo + 1
    <3> HIDE DEF n
    <3>1. QED BY <2>3, FS_Interval
  <2> HIDE DEF T, f
  <2>5. Cardinality(P) <= Cardinality(T) BY <2>2, <2>4, FS_Injection
  <2> HIDE DEF n
  <2>6. QED BY <1>1, <1>5, <2>4, <2>5
<1>6. ASSUME NEW a \in A, RankOf(A, st, a) >= lo + m PROVE Cardinality(P) = m
  <2> DEFINE T == lo..lo + m - 1
  <2>1. n > lo + m BY <1>1, <1>6, Ranks
  <2>2. f \in [P -> T] BY <1>1, <1>3
  <2>3. \A r \in T : \E b \in P : f[b] = r
    <3> SUFFICES ASSUME NEW r \in T PROVE \E b \in P : f[b] = r OBVIOUS
    <3>1. r \in 0..n - 1 BY <1>1, <2>1
    <3>2. PICK b \in A : RankOf(A, st, b) = r BY <3>1, Ranks
    <3>3. b \in P BY <3>2
    <3>4. QED BY <3>2, <3>3
  <2>4. f \in Injection(P, T) /\ f \in Surjection(P, T)
    <3> HIDE DEF T, f
    <3>1. QED BY <1>4, <2>2, <2>3 DEF Injection, IsInjective, Surjection
  <2>5. IsFiniteSet(T) /\ Cardinality(T) = m
    <3>1. lo \in Int /\ lo + m - 1 \in Int OBVIOUS
    <3>2. QED BY <3>1, FS_Interval
  <2> HIDE DEF T, f
  <2>6. Cardinality(P) = Cardinality(T) BY <2>4, <2>5, FS_Injection
  <2>7. QED BY <2>5, <2>6
<1>7. Cardinality(P) = m => n >= lo + m BY <1>1, <1>5
<1>8. QED BY <1>6, <1>7

-------------------------------------------------------------------------------
(* The sweep *)

Tagged(S) == {<<i, 0>> : i \in S}

LEMMA TaggedSize ==
  ASSUME NEW S, IsFiniteSet(S)
  PROVE  IsFiniteSet(Tagged(S)) /\ Cardinality(Tagged(S)) = Cardinality(S)
<1> DEFINE f == [i \in S |-> <<i, 0>>]
<1>1. f \in Bijection(S, Tagged(S))
  <2>1. f \in [S -> Tagged(S)] BY DEF Tagged
  <2>2. \A a, b \in S : f[a] = f[b] => a = b OBVIOUS
  <2>3. \A t \in Tagged(S) : \E a \in S : f[a] = t BY DEF Tagged
  <2> HIDE DEF f
  <2>4. f \in Injection(S, Tagged(S)) /\ f \in Surjection(S, Tagged(S))
    BY <2>1, <2>2, <2>3 DEF Injection, IsInjective, Surjection
  <2>5. QED BY <2>4 DEF Bijection
<1>2. ExistsBijection(S, Tagged(S)) BY <1>1 DEF ExistsBijection
<1>3. QED BY <1>2, FS_Bijection

Stamps     == [i \in Issue |-> issue[i].stamp]
After(s)   == {i \in Issue : issue[i].stamp > s}
Rank(i, s) == RankOf(After(s), Stamps, i)

\* The issues on page p.
OnPage(s, p) == {i \in After(s) : (p - 1) * PageSize <= Rank(i, s)
                                  /\ Rank(i, s) < (p - 1) * PageSize + PageSize}

LEMMA AfterFinite ==
  ASSUME TypeInv, NEW s
  PROVE  /\ IsFiniteSet(After(s)) /\ Cardinality(After(s)) \in Nat
         /\ \A i \in Issue : IsFiniteSet(Before(After(s), Stamps, i)) /\ Rank(i, s) \in Nat
<1>1. After(s) \in SUBSET Issue BY DEF After
<1>2. IsFiniteSet(After(s)) BY <1>1, FS_Subset
<1>3. \A i \in Issue : Before(After(s), Stamps, i) \in SUBSET After(s) BY DEF Before
<1>4. \A i \in Issue : IsFiniteSet(Before(After(s), Stamps, i)) BY <1>2, <1>3, FS_Subset
<1>5. QED BY <1>2, <1>4, FS_CardinalityType DEF Rank, RankOf

LEMMA MatchingIssues ==
  ASSUME ListsGates = FALSE, TypeInv, NEW s \in Nat
  PROVE  /\ Matching(s) = Tagged(After(s))
         /\ \A i \in Issue : {f \in Matching(s) : Stamp(f) < Stamp(<<i, 0>>)} =
                             Tagged(Before(After(s), Stamps, i))
<1>1. Entries = Tagged({i \in Issue : issue[i] # NoIssue}) BY DEF Entries, Tagged
<1>2. \A i \in Issue : Stamp(<<i, 0>>) = issue[i].stamp BY DEF Stamp
<1>3. \A i \in Issue : issue[i].stamp > s => issue[i] # NoIssue BY DEF NoIssue
<1>4. Matching(s) = Tagged(After(s))
  <2>1. ASSUME NEW e \in Matching(s) PROVE e \in Tagged(After(s))
    <3>1. e \in Entries /\ Stamp(e) > s BY DEF Matching
    <3>2. PICK i \in Issue : e = <<i, 0>> BY <1>1, <3>1 DEF Tagged
    <3>3. QED BY <1>2, <3>1, <3>2 DEF Tagged, After
  <2>2. ASSUME NEW i \in After(s) PROVE <<i, 0>> \in Matching(s)
    BY <1>1, <1>2, <1>3 DEF Tagged, After, Matching
  <2>3. QED BY <2>1, <2>2 DEF Tagged
<1>5. ASSUME NEW i \in Issue
      PROVE  {f \in Matching(s) : Stamp(f) < Stamp(<<i, 0>>)} =
             Tagged(Before(After(s), Stamps, i))
  <2>1. \A j \in After(s) : Stamp(<<j, 0>>) = issue[j].stamp /\ Stamps[j] = issue[j].stamp
    BY <1>2 DEF After, Stamps
  <2>2. Stamps[i] = issue[i].stamp /\ Stamp(<<i, 0>>) = issue[i].stamp BY <1>2 DEF Stamps
  <2>3. QED BY <1>4, <2>1, <2>2 DEF Tagged, Before
<1>6. QED BY <1>4, <1>5

LEMMA PageOfIssues ==
  ASSUME ListsGates = FALSE, TypeInv, NEW s \in Nat, NEW p \in Nat \ {0}
  PROVE  PageAt(s, p) = Tagged(OnPage(s, p))
<1> DEFINE lo == (p - 1) * PageSize
<1>1. lo \in Nat /\ p * PageSize = lo + PageSize OBVIOUS
<1>2. ASSUME NEW i \in Issue
      PROVE  PageOf(<<i, 0>>, s) = p <=> lo <= Rank(i, s) /\ Rank(i, s) < lo + PageSize
  <2>1. Rank(i, s) \in Nat BY AfterFinite
  <2>2. PageOf(<<i, 0>>, s) = 1 + (Rank(i, s) \div PageSize)
    BY MatchingIssues, AfterFinite, TaggedSize DEF PageOf, Rank, RankOf
  <2> DEFINE q == Rank(i, s) \div PageSize
  <2>3. q \in Nat /\ (q >= p - 1 <=> Rank(i, s) >= lo)
    BY <2>1, Quotient
  <2>4. q >= p <=> Rank(i, s) >= p * PageSize BY <2>1, Quotient
  <2> HIDE DEF lo, q
  <2>5. 1 + q = p <=> (q >= p - 1 /\ ~(q >= p)) BY <2>3
  <2>6. PageOf(<<i, 0>>, s) = 1 + q BY <2>2 DEF q
  <2>7. QED BY <1>1, <2>1, <2>3, <2>4, <2>5, <2>6
<1>3. \A i \in After(s) : i \in Issue BY DEF After
<1>4. Matching(s) = Tagged(After(s)) BY MatchingIssues
<1>5. QED BY <1>2, <1>3, <1>4 DEF PageAt, Tagged, OnPage

\* No two issues were updated at one time.
Distinct == \A i, j \in Issue : issue[i].stamp = issue[j].stamp => i = j \/ issue[i].stamp = 0

\* The sweep has not come to the issue yet.
Ahead(i) == issue[i].stamp > poll.since
            /\ Rank(i, poll.since) >= (poll.cursor - 1) * PageSize

\* A version that a row or a list has is the last one, or the sweep has it before it.
VersionSound(i, r) == r.version # issue[i].stamp => Ahead(i)

\* The page in hand is as it is listed, and what is not on it comes after it: on a later
\* page if there is one, and else after the start of the sweep that the watermark gets.
PulledSound(p) ==
    /\ p.from = poll.since
    /\ \A i \in DOMAIN p.page : p.page[i] = issue[i]
    /\ \/ /\ p.next = 1
          /\ \A i \in Issue : Behind(i) => i \in DOMAIN p.page \/ issue[i].stamp > p.started
       \/ /\ p.next = poll.cursor + 1
          /\ Cardinality(After(poll.since)) >= (poll.cursor - 1) * PageSize + PageSize
          /\ \A i \in Issue :
                Behind(i) => i \in DOMAIN p.page
                             \/ Rank(i, poll.since) >= (poll.cursor - 1) * PageSize + PageSize

PagesGone == Cardinality(After(poll.since)) >= (poll.cursor - 1) * PageSize
RowsAhead == \A i \in Issue : VersionSound(i, row[i])
TodoAhead == \A w \in Wakeup : \A i \in DOMAIN proc[w].todo : VersionSound(i, proc[w].todo[i])
PagesHeld == \A w \in Wakeup : proc[w].pc = "pulled" => PulledSound(proc[w])

SweepInv == Distinct /\ PagesGone /\ RowsAhead /\ TodoAhead /\ PagesHeld

\* The listing does not change while the sweep is under way.
Steady == OneWakeup /\ "touch" \notin Disturbances /\ ListsGates = FALSE

LEMMA InitSweep == Init => SweepInv
<1> SUFFICES ASSUME Init PROVE SweepInv OBVIOUS
<1> USE DEF Init
<1>1. Distinct BY DEF Distinct, NoIssue
<1>2. PagesGone
  <2>1. TypeInv BY InitTypes
  <2>2. Cardinality(After(poll.since)) \in Nat BY <2>1, AfterFinite
  <2>3. poll.cursor - 1 = 0 /\ 0 * PageSize = 0 OBVIOUS
  <2>4. QED BY <2>2, <2>3 DEF PagesGone
<1>3. RowsAhead BY DEF RowsAhead, VersionSound, NoRow, NoIssue
<1>4. TodoAhead BY DEF TodoAhead, Idle, Nothing
<1>5. PagesHeld BY DEF PagesHeld, Idle
<1>6. QED BY <1>1, <1>2, <1>3, <1>4, <1>5 DEF SweepInv

\* As long as issues and cursor are what they were, so is what is ahead.
LEMMA AheadStays ==
  ASSUME UNCHANGED <<issue, poll>>
  PROVE  /\ \A i \in Issue : \A r : VersionSound(i, r)' <=> VersionSound(i, r)
         /\ Distinct' <=> Distinct
         /\ PagesGone' <=> PagesGone
BY DEF VersionSound, Ahead, Rank, After, Stamps, Distinct, PagesGone

\* A page is pulled.
LEMMA PullSweep ==
  ASSUME Steady, TypeInv, SweepInv, NEW w \in Wakeup, PollPull(w)
  PROVE  SweepInv'
<1> DEFINE s  == poll.since
           c  == poll.cursor
           lo == (c - 1) * PageSize
           A  == After(s)
           P  == OnPage(s, c)
<1>1. s \in Nat /\ c \in Nat \ {0} /\ lo \in Nat
  BY DEF TypeInv, PollType, ClockType
<1>2. PageAt(s, c) = Tagged(P) BY <1>1, PageOfIssues DEF Steady
<1>3. IsFiniteSet(A) /\ \A i \in Issue : Rank(i, s) \in Nat BY AfterFinite
<1>4. P \subseteq A /\ A \subseteq Issue /\ IsFiniteSet(P)
  <2>1. P \in SUBSET A /\ A \subseteq Issue BY DEF OnPage, After
  <2>2. QED BY <1>3, <2>1, FS_Subset
<1>5. Cardinality(PageAt(s, c)) = Cardinality(P) BY <1>2, <1>4, TaggedSize
<1>6. {i \in Issue : <<i, 0>> \in PageAt(s, c)} = P BY <1>2, <1>4 DEF Tagged
<1>7. /\ Cardinality(P) = PageSize => Cardinality(A) >= lo + PageSize
      /\ (\E i \in A : Rank(i, s) >= lo + PageSize) => Cardinality(P) = PageSize
  <2>1. \A i \in A : Stamps[i] = issue[i].stamp /\ Stamps[i] \in Nat /\ Stamps[i] # 0
    BY <1>1 DEF After, Stamps, TypeInv, IssueType, ClockType
  <2>2. \A i, j \in A : Stamps[i] = Stamps[j] => i = j
    BY <1>4, <2>1 DEF SweepInv, Distinct
  <2>3. P = {i \in A : lo <= RankOf(A, Stamps, i) /\ RankOf(A, Stamps, i) < lo + PageSize}
    BY DEF OnPage, Rank
  <2> HIDE DEF s, lo, A, P
  <2>4. \A i \in A : Rank(i, s) = RankOf(A, Stamps, i) BY DEF Rank, A
  <2>5. QED BY <1>1, <1>3, <2>1, <2>2, <2>3, <2>4, FullPage
<1>8. PICK p : p = Paged(w) OBVIOUS
<1>9. proc' = [proc EXCEPT ![w] = p] BY <1>8 DEF PollPull, Paged
<1>10. /\ p.pc = "pulled" /\ p.page = Restrict(issue, P) /\ p.from = s /\ p.started = clock
       /\ p.next = NextPage(PageAt(s, c), c) /\ p.todo = Nothing
  <2> DEFINE page == Restrict(issue, P)
             next == NextPage(PageAt(s, c), c)
  <2>1. p = [Idle EXCEPT !.pc = "pulled", !.page = page, !.from = s, !.started = clock,
                         !.next = next]
    BY <1>6, <1>8 DEF Paged
  <2> HIDE DEF page, next
  <2>2. /\ p.pc = "pulled" /\ p.page = page /\ p.from = s /\ p.started = clock
        /\ p.next = next /\ p.todo = Nothing
    BY <2>1 DEF Idle
  <2>3. QED BY <2>2 DEF page, next
<1>11. DOMAIN p.page = P /\ \A i \in P : p.page[i] = issue[i] BY <1>10 DEF Restrict
<1>12. \A i \in Issue : Behind(i) => i \in A /\ Rank(i, s) >= lo
  BY DEF SweepInv, RowsAhead, VersionSound, Ahead, Behind, After
<1>13. \A i \in Issue : Behind(i) => i \in P \/ Rank(i, s) >= lo + PageSize
  BY <1>1, <1>3, <1>12 DEF OnPage
<1>14. PulledSound(p)
  <2>1. CASE Cardinality(P) = PageSize
    <3>1. p.next = c + 1 BY <1>5, <1>10, <2>1 DEF NextPage
    <3>2. QED BY <1>7, <1>10, <1>11, <1>13, <2>1, <3>1 DEF PulledSound
  <2>2. CASE Cardinality(P) # PageSize
    <3>1. p.next = 1 BY <1>5, <1>10, <2>2 DEF NextPage
    <3>2. \A i \in Issue : Behind(i) => i \in P BY <1>7, <1>12, <1>13, <2>2
    <3>3. QED BY <1>10, <1>11, <3>1, <3>2 DEF PulledSound
  <2>3. QED BY <2>1, <2>2
<1>15. UNCHANGED <<issue, poll, row>> BY DEF PollPull
<1>16. proc'[w] = p /\ \A v \in Wakeup : v = w BY <1>9 DEF TypeInv, ProcType, Steady, OneWakeup
<1> HIDE DEF s, c, lo, A, P
<1>17. PulledSound(p)'
  BY <1>14, <1>15 DEF PulledSound, Behind, Rank, After, Stamps
<1>18. PagesHeld' BY <1>16, <1>17 DEF PagesHeld
<1>19. TodoAhead' BY <1>10, <1>16 DEF TodoAhead, Nothing
<1>20. QED BY <1>15, <1>18, <1>19, AheadStays DEF SweepInv, RowsAhead

\* A page is stored, and cursor and watermark follow it.
LEMMA StoreSweep ==
  ASSUME Steady, TypeInv, SweepInv, NEW w \in Wakeup, PollStore(w)
  PROVE  SweepInv'
<1> DEFINE p  == proc[w]
           s  == poll.since
           c  == poll.cursor
           lo == (c - 1) * PageSize
<1>1. ProcSound(p) /\ PulledSound(p)
  BY DEF TypeInv, ProcType, SweepInv, PagesHeld, PollStore
<1>2. s \in Nat /\ c \in Nat \ {0} /\ lo \in Nat
  BY DEF TypeInv, PollType, ClockType
<1>3. UNCHANGED issue BY DEF PollStore
<1>4. poll' = [cursor |-> p.next, since |-> Watermark(p)] BY DEF PollStore
<1>5. \A i \in Issue : i \in DOMAIN p.page => ~Behind(i)'
  <2> SUFFICES ASSUME NEW i \in Issue, i \in DOMAIN p.page PROVE ~Behind(i)' OBVIOUS
  <2>1. row'[i] = Upserted(row[i], p.page[i]) BY DEF PollStore
  <2>2. p.page[i] = issue[i] BY <1>1 DEF PulledSound
  <2>3. row'[i].version = issue[i].stamp BY <2>1, <2>2 DEF Upserted, NoRow
  <2>4. QED BY <1>3, <2>3 DEF Behind
<1>6. \A i \in Issue : i \notin DOMAIN p.page => (Behind(i)' <=> Behind(i))
  BY <1>3 DEF PollStore, Behind
<1>7. \A i \in Issue : Behind(i) => issue[i].stamp > s
  BY DEF SweepInv, RowsAhead, VersionSound, Ahead, Behind
<1>8. /\ \A i \in Issue : Rank(i, poll.since)' \in Nat
      /\ Cardinality(After(poll.since))' \in Nat
  <2>1. PICK q : q = poll'.since OBVIOUS
  <2>2. Cardinality(After(q)) \in Nat /\ \A i \in Issue : Rank(i, q) \in Nat BY AfterFinite
  <2>3. QED BY <1>3, <2>1, <2>2 DEF After, Rank, Stamps
<1>9. PagesGone' /\ \A i \in Issue : Behind(i)' => Ahead(i)'
  <2>1. CASE p.next = 1
    <3>1. poll'.cursor = 1 /\ poll'.since = p.started BY <1>4, <2>1 DEF Watermark
    <3>2. (1 - 1) * PageSize = 0 OBVIOUS
    <3>3. PagesGone' BY <1>8, <3>1, <3>2 DEF PagesGone
    <3>4. \A i \in Issue : Behind(i) => i \in DOMAIN p.page \/ issue[i].stamp > p.started
      BY <1>1, <1>2, <2>1 DEF PulledSound
    <3>5. QED BY <1>3, <1>5, <1>6, <1>8, <3>1, <3>2, <3>3, <3>4 DEF Ahead
  <2>2. CASE p.next # 1
    <3>1. /\ p.next = c + 1 /\ p.from = s
          /\ Cardinality(After(s)) >= lo + PageSize
          /\ \A i \in Issue : Behind(i) => i \in DOMAIN p.page \/ Rank(i, s) >= lo + PageSize
      BY <1>1, <2>2 DEF PulledSound
    <3>2. poll'.cursor = c + 1 /\ poll'.since = s BY <1>4, <2>2, <3>1 DEF Watermark
    <3>3. (poll'.cursor - 1) * PageSize = lo + PageSize BY <1>2, <3>2
    <3>4. After(poll.since)' = After(s) /\ \A i \in Issue : Rank(i, poll.since)' = Rank(i, s)
      BY <1>3, <3>2 DEF After, Rank, Stamps
    <3> HIDE DEF p, s, c, lo
    <3>5. PagesGone' BY <3>1, <3>3, <3>4 DEF PagesGone
    <3>6. QED BY <1>3, <1>5, <1>6, <1>7, <3>1, <3>2, <3>3, <3>4, <3>5 DEF Ahead
  <2>3. QED BY <2>1, <2>2
<1>10. RowsAhead' BY <1>9 DEF RowsAhead, VersionSound, Behind
<1>11. proc'[w] = [Idle EXCEPT !.pc = "polled"] BY DEF PollStore, TypeInv, ProcType
<1>12. proc'[w].pc = "polled" /\ DOMAIN proc'[w].todo = {} BY <1>11 DEF Idle, Nothing
<1>13. \A v \in Wakeup : v = w BY DEF Steady, OneWakeup
<1>14. TodoAhead' /\ PagesHeld' BY <1>12, <1>13 DEF TodoAhead, PagesHeld
<1>15. Distinct' BY <1>3 DEF SweepInv, Distinct
<1>16. QED BY <1>9, <1>10, <1>14, <1>15 DEF SweepInv

\* The other steps of the one wakeup: at the gate, and polls that pull nothing.
LEMMA GateSweep ==
  ASSUME Steady, TypeInv, SweepInv, NEW w \in Wakeup,
         PollNotDue(w) \/ WakeupStep(w) \/ Disturbed(w), ~PollStore(w)
  PROVE  SweepInv'
<1>1. UNCHANGED <<issue, poll>>
  BY DEF PollNotDue, WakeupStep, Disturbed, PollFails, Crash, GateList, GateConflict,
         GateNote, GateApprove, GateReject,
         GatePending, GateEnds, GateCreate, GateSkip, GateFetch, GateCreateLost, GateFails
<1>2. \A i \in Issue : VersionSound(i, row[i])
  BY DEF SweepInv, RowsAhead
<1>3. \A i \in DOMAIN proc[w].todo : i \in Issue /\ VersionSound(i, proc[w].todo[i])
  BY DEF SweepInv, TodoAhead, TypeInv, ProcType, ProcSound, TodoSound
<1> DEFINE c == proc[w].cur
<1>4. ASSUME NEW i \in Issue PROVE VersionSound(i, row'[i])
  <2>1. CASE GateNote(w)
    <3>1. /\ row' = [row EXCEPT ![c] = Noted(proc[w].todo[c], proc[w].made)]
          /\ c \in Issue /\ c \in DOMAIN proc[w].todo
          /\ proc[w].todo[c] \in Row
      BY <2>1, AtReport DEF GateNote, Recorded
    <3>2. Noted(proc[w].todo[c], proc[w].made).version = proc[w].todo[c].version
      BY <3>1 DEF Noted, Row
    <3> HIDE DEF c
    <3>3. row'[c].version = proc[w].todo[c].version /\ (i # c => row'[i] = row[i])
      BY <3>1, <3>2 DEF TypeInv, RowType
    <3>4. QED BY <1>2, <1>3, <3>1, <3>3 DEF VersionSound
  <2>2. CASE GateApprove(w) \/ GateReject(w)
    <3>1. c \in Issue BY <2>2, AtReport DEF GateApprove, GateReject
    <3>2. row[c] \in Row BY <3>1 DEF TypeInv, RowType
    <3>3. \E r : row' = [row EXCEPT ![c] = r] /\ r.version = row[c].version
      <4>1. CASE GateApprove(w)
        <5>1. row' = [row EXCEPT ![c] = Triaged(row[c], proc[w].todo[c].gate)]
          BY <4>1 DEF GateApprove
        <5>2. Triaged(row[c], proc[w].todo[c].gate).version = row[c].version
          BY <3>2 DEF Triaged, Row
        <5>3. QED BY <5>1, <5>2
      <4>2. CASE GateReject(w)
        <5> DEFINE r == [row[c] EXCEPT !.status = "closed", !.gate = proc[w].todo[c].gate,
                                       !.applied = "rejected", !.linked = FALSE]
        <5>1. row' = [row EXCEPT ![c] = r] BY <4>2 DEF GateReject
        <5>2. r.version = row[c].version BY <3>2 DEF Row
        <5> HIDE DEF r
        <5>3. QED BY <5>1, <5>2
      <4>3. QED BY <2>2, <4>1, <4>2
    <3> HIDE DEF c
    <3>4. row'[c].version = row[c].version /\ (i # c => row'[i] = row[i])
      BY <3>1, <3>3 DEF TypeInv, RowType
    <3>5. QED BY <1>2, <3>4 DEF VersionSound
  <2>3. CASE UNCHANGED row BY <1>2, <2>3
  <2>4. QED
    BY <2>1, <2>2, <2>3
       DEF PollNotDue, WakeupStep, Disturbed, PollFails, Crash, GateList, GateConflict,
           GatePending, GateEnds, GateCreate, GateSkip, GateFetch, GateCreateLost, GateFails
<1>5. ASSUME NEW i \in DOMAIN proc'[w].todo
      PROVE  i \in Issue /\ VersionSound(i, proc'[w].todo[i])
  <2>1. CASE GateList(w) BY <1>2, <2>1, ListStep
  <2>2. CASE Shorter(w) BY <1>3, <2>2 DEF Shorter
  <2>3. QED BY <2>1, <2>2, TodoStep
<1>6. \A v \in Wakeup : v = w BY DEF Steady, OneWakeup
<1>7. proc'[w].pc # "pulled"
  <2>1. ProcSound(proc[w]) /\ DOMAIN proc = Wakeup BY DEF TypeInv, ProcType
  <2>2. CASE \E i : Rest(w, i) BY <2>2, LeftTodo
  <2>3. CASE PollNotDue(w) \/ PollFails(w)
    BY <2>1, <2>3 DEF PollNotDue, PollFails, ProcSound, IsProc
  <2>6. CASE GateEnds(w) \/ Crash(w)
    BY <2>1, <2>6 DEF GateEnds, Crash, Idle
  <2>7. CASE GateList(w)
    <3> DEFINE todo == Restrict(row, {i \in Issue : Listed(i)})
    <3>1. proc' = [proc EXCEPT ![w] = [proc[w] EXCEPT !.pc = "gate", !.todo = todo]]
      BY <2>7 DEF GateList
    <3> HIDE DEF todo
    <3>2. QED BY <2>1, <3>1 DEF ProcSound, IsProc
  <2>4. CASE \E i \in Issue : GateCreate(w, i) \/ GateFetch(w, i)
    BY <2>1, <2>4 DEF GateCreate, GateFetch, ProcSound, IsProc
  <2>5. QED
    BY <2>2, <2>3, <2>4, <2>6, <2>7
       DEF WakeupStep, Disturbed, GateNote, GateConflict, GatePending, GateApprove, GateReject,
           GateSkip, GateCreateLost, GateFails
<1>8. \A i \in Issue : \A r : VersionSound(i, r)' <=> VersionSound(i, r)
  BY <1>1, AheadStays
<1>9. RowsAhead'
  <2>1. \A i \in Issue : \E r : r = row'[i] /\ VersionSound(i, r)' BY <1>4, <1>8
  <2>2. QED BY <1>1, <2>1 DEF RowsAhead, VersionSound
<1>10. TodoAhead'
  <2>1. \A i \in DOMAIN proc'[w].todo :
           i \in Issue /\ \E r : r = proc'[w].todo[i] /\ VersionSound(i, r)'
    BY <1>5, <1>8
  <2>2. QED BY <1>1, <1>6, <2>1 DEF TodoAhead, VersionSound
<1>11. PagesHeld' BY <1>6, <1>7 DEF PagesHeld
<1>12. QED BY <1>1, <1>9, <1>10, <1>11, AheadStays DEF SweepInv

\* An issue gets the latest stamp of all.
Latest(i) == /\ clock' = clock + 1 /\ issue'[i].stamp = clock'
             /\ \A j \in Issue \ {i} : issue'[j] = issue[j]

LEMMA LatestStamp ==
  ASSUME TypeInv, NEW i \in Issue, NEW open, Tick,
         issue' = [issue EXCEPT ![i] = [stamp |-> clock', open |-> open]]
  PROVE  Latest(i)
BY DEF Latest, Tick, TypeInv, IssueType

LEMMA LatestDistinct ==
  ASSUME TypeInv, Distinct, NEW i \in Issue, Latest(i)
  PROVE  Distinct'
<1>1. \A j \in Issue : issue[j].stamp \in 0..clock BY DEF TypeInv, IssueType
<1>2. clock \in Nat BY DEF TypeInv, ClockType
<1>3. QED BY <1>1, <1>2 DEF Latest, Distinct

\* A report that is new comes after all that is listed, and moves nothing.
LEMMA ReportSweep ==
  ASSUME Steady, TypeInv, SweepInv, NEW i \in Issue, Report(i)
  PROVE  SweepInv'
<1> DEFINE s  == poll.since
           c  == poll.cursor
           lo == (c - 1) * PageSize
           A  == After(s)
           B  == {j \in Issue : issue'[j].stamp > s}
           st == [j \in Issue |-> issue'[j].stamp]
<1>1. UNCHANGED <<row, poll, proc>> /\ Tick /\ issue[i] = NoIssue BY DEF Report
<1>2. Latest(i) BY <1>1, LatestStamp DEF Report
<1>3. s \in 0..clock /\ clock \in Nat /\ c \in Nat \ {0} /\ lo \in Nat
  BY DEF TypeInv, PollType, ClockType
<1>4. \A j \in Issue : issue[j].stamp \in 0..clock BY DEF TypeInv, IssueType
<1>5. IsFiniteSet(A) /\ Cardinality(A) \in Nat BY AfterFinite
<1>6. issue[i].stamp = 0 /\ i \notin A BY <1>1, <1>3 DEF NoIssue, After
<1>7. B = A \union {i}
  <2>1. \A j \in Issue \ {i} : j \in B <=> j \in A BY <1>2 DEF Latest, After
  <2>2. i \in B BY <1>2, <1>3 DEF Latest
  <2>3. A \subseteq Issue /\ B \subseteq Issue BY DEF After
  <2> HIDE DEF A, B
  <2>4. QED BY <2>1, <2>2, <2>3
<1>8. /\ IsFiniteSet(B) /\ Cardinality(B) = Cardinality(A) + 1
  <2> HIDE DEF A, B
  <2>1. QED BY <1>5, <1>6, <1>7, FS_AddElement
<1>9. \A j \in Issue \ {i} : Before(B, st, j) = Before(A, Stamps, j)
  <2> SUFFICES ASSUME NEW j \in Issue \ {i} PROVE Before(B, st, j) = Before(A, Stamps, j)
    OBVIOUS
  <2>1. \A k \in A : k \in Issue /\ k # i BY <1>6 DEF After
  <2>2. \A k \in Issue \ {i} : st[k] = Stamps[k] BY <1>2 DEF Latest, Stamps
  <2>3. st[j] \in 0..clock /\ st[i] = clock + 1 BY <1>2, <1>4 DEF Latest
  <2> HIDE DEF A, B, st
  <2>4. QED BY <1>3, <1>7, <2>1, <2>2, <2>3 DEF Before
<1>10. Before(B, st, i) = A
  <2>1. \A k \in A : k \in Issue /\ k # i BY <1>6 DEF After
  <2>2. \A k \in Issue \ {i} : st[k] \in 0..clock BY <1>2, <1>4 DEF Latest
  <2>3. st[i] = clock + 1 BY <1>2 DEF Latest
  <2> HIDE DEF A, B, st
  <2>4. QED BY <1>3, <1>7, <2>1, <2>2, <2>3 DEF Before
<1>11. /\ After(poll.since)' = B /\ After(s)' = B
       /\ \A j \in Issue : Rank(j, poll.since)' = RankOf(B, st, j)
  BY <1>1 DEF After, Rank, Stamps
<1>12. /\ \A j \in Issue \ {i} : Rank(j, poll.since)' = Rank(j, s)
       /\ Rank(i, poll.since)' = Cardinality(A)
  BY <1>9, <1>10, <1>11 DEF Rank, RankOf
<1>13. Cardinality(A) >= lo BY DEF SweepInv, PagesGone
<1>14. PagesGone' BY <1>1, <1>3, <1>5, <1>8, <1>11, <1>13 DEF PagesGone
<1>15. Ahead(i)' BY <1>1, <1>2, <1>3, <1>12, <1>13 DEF Ahead, Latest
<1>16. \A j \in Issue : \A r : VersionSound(j, r) => VersionSound(j, r)'
  <2>1. \A j \in Issue \ {i} : issue'[j].stamp = issue[j].stamp /\ (Ahead(j) => Ahead(j)')
    BY <1>1, <1>2, <1>12 DEF Latest, Ahead
  <2>2. QED BY <1>15, <2>1 DEF VersionSound
<1>17. RowsAhead' BY <1>1, <1>16 DEF SweepInv, RowsAhead
<1>18. TodoAhead'
  <2>1. \A w \in Wakeup : \A j \in DOMAIN proc[w].todo : j \in Issue
    BY DEF TypeInv, ProcType, ProcSound, TodoSound
  <2>2. QED BY <1>1, <1>16, <2>1 DEF SweepInv, TodoAhead
<1>19. PagesHeld'
  <2> SUFFICES ASSUME NEW w \in Wakeup, proc[w].pc = "pulled" PROVE PulledSound(proc[w])'
    BY <1>1 DEF PagesHeld
  <2> DEFINE p == proc[w]
  <2>1. PulledSound(p) /\ PageSound(p)
    BY DEF SweepInv, PagesHeld, TypeInv, ProcType, ProcSound
  <2>2. i \notin DOMAIN p.page /\ \A j \in DOMAIN p.page : j \in Issue /\ p.page[j] = issue[j]
    BY <1>6, <2>1 DEF PulledSound, PageSound
  <2>3. p.from = s /\ \A j \in DOMAIN p.page : p.page[j] = issue'[j]
    BY <1>2, <2>1, <2>2 DEF PulledSound, Latest
  <2>4. \A j \in Issue \ {i} : Behind(j)' => Behind(j) BY <1>1, <1>2 DEF Behind, Latest
  <2>5. issue'[i].stamp > p.started
    BY <1>2, <1>3, <2>1 DEF Latest, PageSound
  <2>6. \A j \in Issue \ {i} : issue'[j].stamp = issue[j].stamp BY <1>2 DEF Latest
  <2>7. CASE /\ p.next = 1
             /\ \A j \in Issue : Behind(j) => j \in DOMAIN p.page \/ issue[j].stamp > p.started
    <3>1. \A j \in Issue : Behind(j)' => j \in DOMAIN p.page \/ issue'[j].stamp > p.started
      BY <2>4, <2>5, <2>6, <2>7
    <3>2. QED BY <1>1, <2>3, <2>7, <3>1 DEF PulledSound
  <2>8. CASE /\ p.next = c + 1
             /\ Cardinality(A) >= lo + PageSize
             /\ \A j \in Issue :
                   Behind(j) => j \in DOMAIN p.page \/ Rank(j, s) >= lo + PageSize
    <3>1. \A j \in Issue :
             Behind(j)' => j \in DOMAIN p.page \/ Rank(j, poll.since)' >= lo + PageSize
      BY <1>12, <2>4, <2>8
    <3>2. Cardinality(After(poll.since))' >= lo + PageSize
      BY <1>3, <1>5, <1>8, <1>11, <2>8
    <3>3. QED BY <1>1, <2>3, <2>8, <3>1, <3>2 DEF PulledSound
  <2>9. QED BY <2>1, <2>7, <2>8 DEF PulledSound
<1>20. Distinct' BY <1>2, LatestDistinct DEF SweepInv
<1>21. QED BY <1>14, <1>17, <1>18, <1>19, <1>20 DEF SweepInv

\* Between two sweeps an issue may be touched: the next sweep has it before it.
LEMMA TouchSweep ==
  ASSUME Steady, TypeInv, SweepInv, NEW i \in Issue, Touch(i) \/ Resolve(i)
  PROVE  SweepInv'
<1>1. UNCHANGED <<row, poll, proc>> /\ Calm /\ Tick BY DEF Touch, Resolve
<1>2. Latest(i) BY <1>1, LatestStamp DEF Touch, Resolve
<1>3. poll.cursor = 1 /\ \A w \in Wakeup : proc[w].pc # "pulled"
  BY <1>1 DEF Calm, BetweenSweeps, Steady
<1>4. poll.since \in 0..clock /\ clock \in Nat BY DEF TypeInv, PollType, ClockType
<1>5. Cardinality(After(poll.since))' \in Nat /\ \A j \in Issue : Rank(j, poll.since)' \in Nat
  <2>2. \A j \in Issue : /\ After(poll.since)' \in SUBSET Issue
                         /\ Before(After(poll.since), Stamps, j)' \in SUBSET Issue
    BY DEF After, Before
  <2>3. After(poll.since)' \in SUBSET Issue BY DEF After
  <2>4. QED BY <2>2, <2>3, FS_Subset, FS_CardinalityType DEF Rank, RankOf
<1>6. (1 - 1) * PageSize = 0 OBVIOUS
<1>7. PagesGone' BY <1>1, <1>3, <1>5, <1>6 DEF PagesGone
<1>8. \A j \in Issue : \A r : VersionSound(j, r) => VersionSound(j, r)'
  <2>1. \A j \in Issue : issue'[j].stamp > poll.since => Ahead(j)'
    BY <1>1, <1>3, <1>5, <1>6 DEF Ahead
  <2>2. issue'[i].stamp > poll.since BY <1>2, <1>4 DEF Latest
  <2>3. \A j \in Issue \ {i} : issue'[j].stamp = issue[j].stamp BY <1>2 DEF Latest
  <2>4. QED BY <2>1, <2>2, <2>3 DEF VersionSound, Ahead
<1>9. RowsAhead' BY <1>1, <1>8 DEF SweepInv, RowsAhead
<1>10. TodoAhead'
  <2>1. \A w \in Wakeup : \A j \in DOMAIN proc[w].todo : j \in Issue
    BY DEF TypeInv, ProcType, ProcSound, TodoSound
  <2>2. QED BY <1>1, <1>8, <2>1 DEF SweepInv, TodoAhead
<1>11. PagesHeld' BY <1>1, <1>3 DEF PagesHeld
<1>12. QED BY <1>2, <1>7, <1>9, <1>10, <1>11, LatestDistinct DEF SweepInv

\* The other writers of a row write the version that it has, or the latest one.
LEMMA WritersSweep ==
  ASSUME TypeInv, SweepInv, NEW i \in Issue,
         \/ Advance(i) \/ Resolved(i) \/ Webhook(i) \/ Patch(i) \/ Decide(i, Len(gates[i]))
  PROVE  SweepInv'
<1>1. UNCHANGED <<issue, poll, proc>> BY DEF Advance, Resolved, Webhook, Patch, Decide
<1>2. row[i] \in Row BY DEF TypeInv, RowType
<1>3. \A j \in Issue : row'[j].version = row[j].version \/ row'[j].version = issue[j].stamp
  <2>1. CASE Advance(i)
    <3>1. PICK status :
             row' = [row EXCEPT ![i] = [row[i] EXCEPT !.status = status, !.linked = TRUE]]
      BY <2>1 DEF Advance
    <3>2. [row[i] EXCEPT !.status = status, !.linked = TRUE].version = row[i].version
      BY <1>2 DEF Row
    <3>3. QED BY <3>1, <3>2 DEF TypeInv, RowType
  <2>2. CASE Resolved(i) BY <1>2, <2>2 DEF Resolved, TypeInv, RowType, Row
  <2>3. CASE Webhook(i)
    <3>1. PICK keeps : row' = [row EXCEPT ![i] =
             Upserted([row[i] EXCEPT !.linked = row[i].linked /\ keeps], issue[i])]
      BY <2>3 DEF Webhook
    <3>2. \A r : Upserted(r, issue[i]).version = issue[i].stamp BY DEF Upserted, NoRow
    <3>3. PICK r : row' = [row EXCEPT ![i] = Upserted(r, issue[i])] BY <3>1
    <3>4. QED BY <3>2, <3>3 DEF TypeInv, RowType
  <2>4. CASE Patch(i)
    <3>1. PICK keeps, status : row' = [row EXCEPT ![i] =
             [row[i] EXCEPT !.status = status, !.linked = row[i].linked /\ keeps]]
      BY <2>4 DEF Patch
    <3>2. PICK r : r = [row[i] EXCEPT !.status = status, !.linked = row[i].linked /\ keeps]
      OBVIOUS
    <3>3. r.version = row[i].version BY <1>2, <3>2 DEF Row
    <3>4. row' = [row EXCEPT ![i] = r] BY <3>1, <3>2
    <3>5. QED BY <3>3, <3>4 DEF TypeInv, RowType
  <2>5. CASE Decide(i, Len(gates[i])) BY <2>5 DEF Decide
  <2>6. QED BY <2>1, <2>2, <2>3, <2>4, <2>5
<1>4. RowsAhead' BY <1>1, <1>3 DEF SweepInv, RowsAhead, VersionSound, Ahead, Rank, After, Stamps
<1>5. TodoAhead' BY <1>1 DEF SweepInv, TodoAhead, VersionSound, Ahead, Rank, After, Stamps
<1>6. PagesHeld'
  <2> SUFFICES ASSUME NEW w \in Wakeup, proc[w].pc = "pulled" PROVE PulledSound(proc[w])'
    BY <1>1 DEF PagesHeld
  <2>1. \A j \in Issue : Behind(j)' => Behind(j) BY <1>1, <1>3 DEF Behind
  <2>2. PulledSound(proc[w]) BY DEF SweepInv, PagesHeld
  <2>3. QED BY <1>1, <2>1, <2>2 DEF PulledSound, Rank, After, Stamps
<1>7. QED BY <1>1, <1>4, <1>5, <1>6, AheadStays DEF SweepInv

LEMMA SweepStep ==
  ASSUME Steady
  PROVE  TypeInv /\ SweepInv /\ [Next]_vars => SweepInv'
<1> SUFFICES ASSUME TypeInv, SweepInv, [Next]_vars PROVE SweepInv' OBVIOUS
<1>1. CASE \E w \in Wakeup : PollPull(w) \/ PollNotDue(w) \/ WakeupStep(w) \/ Disturbed(w)
  BY <1>1, PullSweep, StoreSweep, GateSweep
<1>2. CASE \E i \in Issue :
              \/ Report(i) \/ Touch(i) \/ Advance(i) \/ Resolve(i) \/ Resolved(i)
              \/ Webhook(i) \/ Patch(i)
              \/ gates[i] # <<>> /\ Decide(i, Len(gates[i]))
  BY <1>2, ReportSweep, TouchSweep, WritersSweep
<1>3. CASE UNCHANGED vars
  <2>1. UNCHANGED <<issue, poll, row, proc>> BY <1>3 DEF vars
  <2>2. QED
    BY <2>1 DEF SweepInv, Distinct, PagesGone, RowsAhead, TodoAhead, PagesHeld, PulledSound,
                VersionSound, Ahead, Behind, Rank, After, Stamps
<1>4. QED BY <1>1, <1>2, <1>3 DEF Next

(* With one wakeup at a time, approval issues that the filter leaves out, and  *)
(* issues that nobody touches in the middle of a sweep, no version falls       *)
(* behind the watermark: for any number of reports, any size of a page, and    *)
(* pulls that fail, wakeups that die, rows written back from old lists and     *)
(* webhooks between any two pages (pollIntakeProject).                         *)
THEOREM WatermarkIsSafe ==
  ASSUME Steady
  PROVE  Spec => []NothingSkipped
<1>1. TypeInv /\ SweepInv /\ [Next]_vars => SweepInv' BY SweepStep
<1>2. Spec => []SweepInv BY <1>1, InitTypes, InitSweep, TypeStep, PTL DEF Spec
<1>3. SweepInv => NothingSkipped
  BY DEF SweepInv, RowsAhead, VersionSound, Ahead, Behind, NothingSkipped
<1>4. QED BY <1>2, <1>3, PTL

================================================================================
