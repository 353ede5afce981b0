------------------------- MODULE ParallelSessionsProofs -------------------------
(* What TLC checks of ParallelSessions on small instances, proved for any       *)
(* sections, runners, launches and sessions, and any number of disturbances.    *)
EXTENDS ParallelSessions, TLAPS

-------------------------------------------------------------------------------
(* Types *)

StreamRec == [status : {"none", "running", "failed"}, held : BOOLEAN,
              owner : Runner \union {None}, attempts : 0..RecoveryCap - 1]
RunnerRec == [pc : {"free", "spawned", "ready", "working", "dead"},
              row : {"none", "fresh", "stale"}, session : Session \union {None},
              section : Section \union {None}, sees : BOOLEAN]
LaunchRec == [pc : {"idle", "planned", "admitted", "cloning"},
              session : Session \union {None}, plan : SUBSET Section]
WakeRec   == [pc : {"idle", "maintained", "recover", "probe", "verdict", "completed", "failed",
                    "restart", "again"},
              session : Session \union {None}, todo : SUBSET Section,
              seen : [Section -> 0..RecoveryCap - 1], blocked : BOOLEAN,
              restart : SUBSET Section, overtaken : BOOLEAN]
States    == {"none", "running", "completed", "failed", "blocked_recovery"}

\* A process that is there belongs to a workstream.
ProcessGood(p) ==
    /\ p \in RunnerRec
    /\ p.pc = "free" => p = NoRunner
    /\ p.pc # "free" => p.session \in Session /\ p.section \in Section

LaunchGood(p) == p \in LaunchRec /\ (p.pc = "cloning" => p.session \in Session)

StreamsType  == ws \in [Session -> [Section -> StreamRec]]
SessionsType == session \in [Session -> States] /\ work \subseteq Section
RunnersType  == runner \in [Runner -> RunnerRec] /\ \A r \in Runner : ProcessGood(runner[r])
LaunchesType == launcher \in [Launcher -> LaunchRec] /\ \A l \in Launcher : LaunchGood(launcher[l])
AsideType    == wakeup \in WakeRec /\ disturbed \subseteq Disturbances

HasStream ==
    \A r \in Runner : runner[r].pc # "free" =>
       ws[runner[r].session][runner[r].section].status # "none"

OwnsOne ==
    \A s \in Session, x \in Section : ws[s][x].owner # None =>
       /\ runner[ws[s][x].owner].session = s /\ runner[ws[s][x].owner].section = x

TypeInv ==
    /\ StreamsType /\ SessionsType /\ RunnersType /\ LaunchesType /\ AsideType
    /\ HasStream /\ OwnsOne

LEMMA Types == TypeInv => TypeOK
BY DEF TypeInv, StreamsType, SessionsType, RunnersType, LaunchesType, AsideType, HasStream, OwnsOne,
       TypeOK, StreamRec, RunnerRec, LaunchRec, WakeRec, States

LEMMA Values ==
  /\ None \notin Runner /\ None \notin Session /\ None \notin Section
  /\ RecoveryCap \in Nat /\ RecoveryCap > 0 /\ 0 \in 0..RecoveryCap - 1
BY SessionsAssumption

LEMMA RecordType ==
  ASSUME AsideType, NEW kinds, Record(kinds)
  PROVE  disturbed' \subseteq Disturbances /\ disturbed \subseteq disturbed'
BY DEF AsideType, Record

LEMMA DisturbType ==
  ASSUME AsideType, NEW kind, Disturb(kind)
  PROVE  disturbed' \subseteq Disturbances /\ disturbed \subseteq disturbed'
BY RecordType DEF Disturb

LEMMA RestingType == Resting \in WakeRec
BY Values DEF Resting, WakeRec

\* A wakeup goes to another place, and forgets at most.
LEMMA WakeForms ==
  ASSUME NEW w \in WakeRec
  PROVE  /\ \A pc \in {"maintained", "recover", "again"} : [Resting EXCEPT !.pc = pc] \in WakeRec
         /\ \A pc \in {"verdict", "completed", "failed"} : [w EXCEPT !.pc = pc] \in WakeRec
         /\ [w EXCEPT !.pc = "restart", !.blocked = FALSE] \in WakeRec
         /\ \A b \in BOOLEAN : [w EXCEPT !.overtaken = b] \in WakeRec
<1>1. \A pc \in {"maintained", "recover", "again"} : [Resting EXCEPT !.pc = pc] \in WakeRec
  BY RestingType DEF WakeRec
<1>2. /\ \A pc \in {"verdict", "completed", "failed"} : [w EXCEPT !.pc = pc] \in WakeRec
      /\ [w EXCEPT !.pc = "restart", !.blocked = FALSE] \in WakeRec
      /\ \A b \in BOOLEAN : [w EXCEPT !.overtaken = b] \in WakeRec
  BY DEF WakeRec
<1> QED BY <1>1, <1>2

\* All of the wakeup but the mark is as before.
OnlyMarked ==
    /\ wakeup'.pc = wakeup.pc /\ wakeup'.session = wakeup.session /\ wakeup'.todo = wakeup.todo
    /\ wakeup'.restart = wakeup.restart
    /\ wakeup.overtaken => wakeup'.overtaken

LEMMA ShowsType ==
  ASSUME AsideType, NEW r \in Runner, ShowsUp(r)
  PROVE  /\ wakeup' \in WakeRec /\ OnlyMarked
         /\ wakeup.pc = "verdict" /\ runner[r].session = wakeup.session /\ Due(runner[r].section)
               => wakeup'.overtaken
<1> DEFINE b == \/ wakeup.overtaken
                \/ /\ wakeup.pc = "verdict" /\ runner[r].session = wakeup.session
                   /\ Due(runner[r].section)
<1>1. wakeup \in WakeRec BY DEF AsideType
<1>2. b \in BOOLEAN BY <1>1 DEF WakeRec
<1>3. wakeup' = [wakeup EXCEPT !.overtaken = b] BY <1>1 DEF ShowsUp, WakeRec
<1> HIDE DEF b
<1>4. wakeup' \in WakeRec BY <1>1, <1>2, <1>3, WakeForms
<1>5. wakeup'.overtaken = b BY <1>1, <1>3 DEF WakeRec
<1>6. /\ wakeup'.pc = wakeup.pc /\ wakeup'.session = wakeup.session
      /\ wakeup'.todo = wakeup.todo /\ wakeup'.restart = wakeup.restart
  BY <1>1, <1>3 DEF WakeRec
<1> QED BY <1>4, <1>5, <1>6 DEF b, OnlyMarked

-------------------------------------------------------------------------------
(* Workstreams *)

LEMMA StreamForms ==
  ASSUME NEW w \in StreamRec
  PROVE  /\ GivenUp(w) \in StreamRec /\ GivenUp(w).status = "failed" /\ GivenUp(w).owner = w.owner
         /\ \A b \in BOOLEAN : [w EXCEPT !.held = b] \in StreamRec
         /\ \A b \in BOOLEAN, o \in Runner \union {None} :
               [w EXCEPT !.held = b, !.owner = o] \in StreamRec
         /\ [w EXCEPT !.owner = None] \in StreamRec
         /\ [w EXCEPT !.owner = None, !.held = FALSE] \in StreamRec
         /\ \A n \in 0..RecoveryCap - 1 : ~Capped(n) =>
               /\ Attempted(w, n) \in StreamRec /\ Attempted(w, n).status = w.status
               /\ Attempted(w, n).owner = w.owner
<1>1. /\ GivenUp(w) \in StreamRec /\ GivenUp(w).status = "failed"
      /\ GivenUp(w).owner = w.owner
  BY Values DEF GivenUp, StreamRec
<1>2. \A b \in BOOLEAN : [w EXCEPT !.held = b] \in StreamRec BY DEF StreamRec
<1>3. \A b \in BOOLEAN, o \in Runner \union {None} :
         [w EXCEPT !.held = b, !.owner = o] \in StreamRec
  BY DEF StreamRec
<1>4. [w EXCEPT !.owner = None] \in StreamRec BY DEF StreamRec
<1>5. [w EXCEPT !.owner = None, !.held = FALSE] \in StreamRec BY DEF StreamRec
<1>6. ASSUME NEW n \in 0..RecoveryCap - 1, ~Capped(n)
      PROVE  /\ Attempted(w, n) \in StreamRec /\ Attempted(w, n).status = w.status
             /\ Attempted(w, n).owner = w.owner
  <2>1. n + 1 \in 0..RecoveryCap - 1 BY <1>6, Values DEF Capped
  <2> QED BY <2>1 DEF Attempted, StreamRec
<1> QED BY <1>1, <1>2, <1>3, <1>4, <1>5, <1>6

LEMMA FirstStream ==
  /\ NoStream \in StreamRec
  /\ [NoStream EXCEPT !.status = "running", !.held = TRUE] \in StreamRec
  /\ [NoStream EXCEPT !.status = "running", !.held = TRUE].status = "running"
  /\ [NoStream EXCEPT !.status = "running", !.held = TRUE].owner = None
BY Values DEF NoStream, StreamRec

\* One workstream becomes w.
Becomes(s, x, w) ==
    /\ StreamsType' /\ ws'[s][x] = w
    /\ \A n \in Session, y \in Section : n # s \/ y # x => ws'[n][y] = ws[n][y]

LEMMA OneStream ==
  ASSUME StreamsType, NEW s \in Session, NEW x \in Section, NEW w \in StreamRec,
         ws' = [ws EXCEPT ![s][x] = w]
  PROVE  Becomes(s, x, w)
<1>1. ws[s] \in [Section -> StreamRec] BY DEF StreamsType
<1>2. [ws[s] EXCEPT ![x] = w] \in [Section -> StreamRec] BY <1>1
<1>3. ws' = [ws EXCEPT ![s] = [ws[s] EXCEPT ![x] = w]] OBVIOUS
<1>4. StreamsType' BY <1>2, <1>3 DEF StreamsType
<1>5. ws'[s] = [ws[s] EXCEPT ![x] = w] BY <1>3 DEF StreamsType
<1>6. ws'[s][x] = w BY <1>1, <1>5
<1>7. ASSUME NEW n \in Session, NEW y \in Section, n # s \/ y # x
      PROVE  ws'[n][y] = ws[n][y]
  <2>1. CASE n # s BY <1>3, <2>1 DEF StreamsType
  <2>2. CASE n = s /\ y # x BY <1>1, <1>5, <2>2
  <2> QED BY <1>7, <2>1, <2>2
<1> QED BY <1>4, <1>6, <1>7 DEF Becomes

LEMMA ExtendType ==
  ASSUME StreamsType, NEW r \in Runner, runner[r].session \in Session, runner[r].section \in Section,
         NEW owner \in Runner \union {None}, Extend(r, owner)
  PROVE  \E w \in StreamRec : /\ Becomes(runner[r].session, runner[r].section, w)
                              /\ w.owner = owner /\ w.status = Stream(r).status
<1> DEFINE s == runner[r].session
           x == runner[r].section
           w == [ws[s][x] EXCEPT !.held = TRUE, !.owner = owner]
<1>1. ws[s][x] \in StreamRec BY DEF StreamsType
<1>2. w \in StreamRec BY <1>1, StreamForms
<1>3. w.owner = owner /\ w.status = Stream(r).status BY <1>1 DEF StreamRec, Stream
<1>4. ws' = [ws EXCEPT ![s][x] = w] BY DEF Extend, StreamsType
<1> HIDE DEF s, x, w
<1>5. Becomes(s, x, w) BY <1>2, <1>4, OneStream DEF s, x
<1> QED BY <1>2, <1>3, <1>5 DEF s, x

LEMMA DisownType ==
  ASSUME StreamsType, NEW r \in Runner, Disown(r)
  PROVE  /\ StreamsType'
         /\ \A s \in Session, x \in Section :
               /\ ws'[s][x].status = ws[s][x].status
               /\ ws'[s][x].owner = IF ws[s][x].owner = r THEN None ELSE ws[s][x].owner
<1>1. ASSUME NEW s \in Session, NEW x \in Section
      PROVE  /\ [ws[s][x] EXCEPT !.owner = None] \in StreamRec
             /\ [ws[s][x] EXCEPT !.owner = None].status = ws[s][x].status
             /\ [ws[s][x] EXCEPT !.owner = None].owner = None
             /\ ws[s][x] \in StreamRec
  <2>1. ws[s][x] \in StreamRec BY DEF StreamsType
  <2> QED BY <2>1 DEF StreamRec
<1>2. StreamsType' BY <1>1 DEF StreamsType, Disown
<1>3. \A s \in Session, x \in Section :
         ws'[s][x] = IF ws[s][x].owner = r THEN [ws[s][x] EXCEPT !.owner = None] ELSE ws[s][x]
  BY DEF Disown
<1> QED BY <1>1, <1>2, <1>3

\* closeStaleParallelSessions gives up workstreams, and ends sessions that have none left.
LEMMA CloseType ==
  ASSUME StreamsType, SessionsType, CloseStale
  PROVE  /\ StreamsType' /\ session' \in [Session -> States]
         /\ \A s \in Session, x \in Section :
               /\ ws'[s][x].owner = ws[s][x].owner
               /\ \/ ws'[s][x] = ws[s][x]
                  \/ ws'[s][x].status = "failed" /\ s \in Active /\ x \in Orphaned(s)
<1>1. \A s \in Session, x \in Section :
         /\ ws[s][x] \in StreamRec /\ GivenUp(ws[s][x]) \in StreamRec
         /\ GivenUp(ws[s][x]).status = "failed" /\ GivenUp(ws[s][x]).owner = ws[s][x].owner
  <2>1. \A s \in Session, x \in Section : ws[s][x] \in StreamRec BY DEF StreamsType
  <2> QED BY <2>1, StreamForms
<1>2. StreamsType' BY <1>1 DEF StreamsType, CloseStale
<1>3. \A s \in Session, x \in Section :
         ws'[s][x] = IF s \in Active /\ x \in Orphaned(s) THEN GivenUp(ws[s][x]) ELSE ws[s][x]
  BY DEF CloseStale
<1>4. session' \in [Session -> States] BY DEF SessionsType, CloseStale, States
<1> QED BY <1>1, <1>2, <1>3, <1>4

-------------------------------------------------------------------------------
(* Runners and launches *)

\* r becomes p, the others stay.
Moves(r, p) ==
    /\ RunnersType' /\ runner'[r] = p
    /\ \A q \in Runner \ {r} : runner'[q] = runner[q]

LEMMA MoveType ==
  ASSUME RunnersType, NEW r \in Runner, NEW p, ProcessGood(p), runner' = [runner EXCEPT ![r] = p]
  PROVE  Moves(r, p)
<1>1. p \in RunnerRec BY DEF ProcessGood
<1>2. runner' \in [Runner -> RunnerRec] BY <1>1 DEF RunnersType
<1>3. runner'[r] = p /\ \A q \in Runner \ {r} : runner'[q] = runner[q] BY DEF RunnersType
<1>4. \A q \in Runner : ProcessGood(runner'[q]) BY <1>3 DEF RunnersType
<1> QED BY <1>2, <1>3, <1>4 DEF RunnersType, Moves

LEMMA NoneGood == ProcessGood(NoRunner)
BY DEF ProcessGood, NoRunner, RunnerRec

LEMMA GoneType ==
  ASSUME RunnersType, NEW r \in Runner, Gone(r)
  PROVE  Moves(r, NoRunner)
BY NoneGood, MoveType DEF Gone

\* A runner that is there stays where it is, with another pc or another row.
Turned(old, pc, row) == [old EXCEPT !.pc = pc, !.row = row]

LEMMA SamePlace ==
  ASSUME RunnersType, NEW r \in Runner, runner[r].pc # "free",
         NEW pc \in {"spawned", "ready", "working", "dead"}, NEW row \in {"none", "fresh", "stale"}
  PROVE  /\ ProcessGood(Turned(runner[r], pc, row)) /\ Turned(runner[r], pc, row).pc = pc
         /\ Turned(runner[r], pc, row).session = runner[r].session
         /\ Turned(runner[r], pc, row).section = runner[r].section
<1> DEFINE old == runner[r]
           p   == Turned(old, pc, row)
<1>1. old \in RunnerRec /\ old.session \in Session /\ old.section \in Section
  BY DEF RunnersType, ProcessGood
<1> HIDE DEF old
<1>2. p \in RunnerRec BY <1>1 DEF RunnerRec, Turned
<1>3. p.pc = pc /\ p.session = old.session /\ p.section = old.section BY <1>1 DEF RunnerRec, Turned
<1>4. ProcessGood(p) BY <1>1, <1>2, <1>3 DEF ProcessGood
<1> QED BY <1>3, <1>4 DEF old

LEMMA ProcessType ==
  ASSUME NEW s \in Session, NEW x \in Section, NEW sees \in BOOLEAN
  PROVE  ProcessGood(Process(s, x, sees))
BY DEF ProcessGood, Process, RunnerRec

LEMMA LaunchType ==
  ASSUME LaunchesType, NEW l \in Launcher, NEW p, LaunchGood(p),
         launcher' = [launcher EXCEPT ![l] = p]
  PROVE  /\ LaunchesType' /\ launcher'[l] = p
         /\ \A k \in Launcher \ {l} : launcher'[k] = launcher[k]
<1>1. p \in LaunchRec BY DEF LaunchGood
<1>2. launcher' \in [Launcher -> LaunchRec] BY <1>1 DEF LaunchesType
<1>3. launcher'[l] = p /\ \A k \in Launcher \ {l} : launcher'[k] = launcher[k]
  BY DEF LaunchesType
<1>4. \A k \in Launcher : LaunchGood(launcher'[k]) BY <1>3 DEF LaunchesType
<1> QED BY <1>2, <1>3, <1>4 DEF LaunchesType

LEMMA NotStartedGood == LaunchGood(NotStarted)
BY DEF LaunchGood, NotStarted, LaunchRec

LEMMA LaunchForms ==
  ASSUME NEW p, LaunchGood(p)
  PROVE  /\ LaunchGood([p EXCEPT !.pc = "admitted"])
         /\ \A s \in Session : LaunchGood([p EXCEPT !.pc = "cloning", !.session = s])
         /\ \A x : LaunchGood([p EXCEPT !.plan = @ \ {x}])
<1>1. LaunchGood([p EXCEPT !.pc = "admitted"]) BY DEF LaunchGood, LaunchRec
<1>2. \A s \in Session : LaunchGood([p EXCEPT !.pc = "cloning", !.session = s])
  BY DEF LaunchGood, LaunchRec
<1>3. ASSUME NEW x PROVE LaunchGood([p EXCEPT !.plan = @ \ {x}])
  <2>1. p.plan \ {x} \in SUBSET Section BY DEF LaunchGood, LaunchRec
  <2> QED BY <2>1 DEF LaunchGood, LaunchRec
<1> QED BY <1>1, <1>2, <1>3

LEMMA BeginType ==
  ASSUME LaunchesType, SessionsType, NEW l \in Launcher, Begin(l)
  PROVE  /\ LaunchesType'
         /\ \A k \in Launcher : launcher'[k] = launcher[k] \/ launcher'[k].pc # "cloning"
<1> DEFINE p == IF Plan = {} THEN NotStarted
                ELSE [pc |-> "planned", session |-> None, plan |-> Plan]
<1>1. Plan \subseteq Section BY DEF Plan, SessionsType
<1>2. LaunchGood(p) BY <1>1, NotStartedGood DEF LaunchGood, LaunchRec
<1>3. p.pc # "cloning" BY DEF NotStarted
<1>4. launcher' = [launcher EXCEPT ![l] = p] BY DEF Begin
<1> HIDE DEF p
<1> QED BY <1>2, <1>3, <1>4, LaunchType

LEMMA StartType ==
  ASSUME LaunchesType, SessionsType, StartRunner
  PROVE  /\ LaunchesType'
         /\ \A k \in Launcher : launcher'[k] = launcher[k] \/ launcher'[k].pc # "cloning"
<1>1. CASE UNCHANGED launcher BY <1>1 DEF LaunchesType
<1>2. ASSUME NEW l \in Launcher, Begin(l)
      PROVE  /\ LaunchesType'
             /\ \A k \in Launcher : launcher'[k] = launcher[k] \/ launcher'[k].pc # "cloning"
  BY <1>2, BeginType
<1> QED BY <1>1, <1>2 DEF StartRunner

-------------------------------------------------------------------------------
(* Which runner owns which workstream *)

\* No workstream comes to be without a row, and a process only for one with a row.
LEMMA StreamsStay ==
  ASSUME TypeInv, RunnersType',
         \A s \in Session, x \in Section : ws[s][x].status # "none" => ws'[s][x].status # "none",
         \A r \in Runner : runner'[r].pc # "free" =>
            \/ /\ runner[r].pc # "free" /\ runner'[r].session = runner[r].session
               /\ runner'[r].section = runner[r].section
            \/ ws'[runner'[r].session][runner'[r].section].status # "none"
  PROVE  HasStream'
BY DEF TypeInv, HasStream, RunnersType, ProcessGood

\* A runner that owns a workstream is there, for that workstream.
LEMMA OwnerIsThere ==
  ASSUME TypeInv, NEW s \in Session, NEW x \in Section, ws[s][x].owner # None
  PROVE  /\ ws[s][x].owner \in Runner /\ runner[ws[s][x].owner].pc # "free"
         /\ runner[ws[s][x].owner].session = s /\ runner[ws[s][x].owner].section = x
<1>1. ws[s][x].owner \in Runner BY DEF TypeInv, StreamsType, StreamRec
<1>2. runner[ws[s][x].owner].session = s /\ runner[ws[s][x].owner].section = x
  BY DEF TypeInv, OwnsOne
<1>3. NoRunner.session # s BY Values DEF NoRunner
<1> QED BY <1>1, <1>2, <1>3 DEF TypeInv, RunnersType, ProcessGood

\* Owners stay the same, or are lost, or r becomes one of where it is; and owners stay
\* where they are.
LEMMA OwnersStay ==
  ASSUME TypeInv,
         \A s \in Session, x \in Section : ws'[s][x].owner # None =>
            \/ /\ ws'[s][x].owner = ws[s][x].owner
               /\ runner'[ws[s][x].owner].session = runner[ws[s][x].owner].session
               /\ runner'[ws[s][x].owner].section = runner[ws[s][x].owner].section
            \/ /\ runner'[ws'[s][x].owner].session = s
               /\ runner'[ws'[s][x].owner].section = x
  PROVE  OwnsOne'
<1> SUFFICES ASSUME NEW s \in Session, NEW x \in Section, ws'[s][x].owner # None
             PROVE  /\ runner'[ws'[s][x].owner].session = s
                    /\ runner'[ws'[s][x].owner].section = x
  BY DEF OwnsOne
<1>1. CASE ws'[s][x].owner = ws[s][x].owner BY <1>1, OwnerIsThere
<1> QED BY <1>1

-------------------------------------------------------------------------------
(* Every step keeps the types, and who owns what *)

\* No runner of the session says that it works in x.
Unattended(s, x) == \A r \in Alive(s) : runner[r].section # x

\* Workstreams go on, or are given up that nobody attends to, or by a verdict that came too
\* late, or with the whole project.
StatusesStay ==
    \A s \in Session, x \in Section :
       \/ ws'[s][x].status = ws[s][x].status
       \/ /\ ws[s][x].status # "none" /\ ws'[s][x].status = "failed"
          /\ Unattended(s, x) \/ wakeup.overtaken \/ "project_reset" \in disturbed' \ disturbed

Recovering == {"probe", "verdict", "completed", "failed", "restart"}

\* What the wakeup works off is there, and the workstream whose verdict is due is unattended
\* unless a runner has shown up since.
WakeInv ==
    /\ wakeup.pc \in Recovering =>
          wakeup.session \in Session /\ session[wakeup.session] # "none"
    /\ wakeup.todo \union wakeup.restart # {} => wakeup.pc \in Recovering
    /\ \A x \in wakeup.todo \union wakeup.restart : ws[wakeup.session][x].status # "none"
    /\ wakeup.pc = "verdict" /\ ~wakeup.overtaken =>
          \A x \in Section : Due(x) => Unattended(wakeup.session, x)

LEMMA InitTypes == Init => TypeInv
<1> SUFFICES ASSUME Init PROVE TypeInv OBVIOUS
<1>1. StreamsType BY FirstStream DEF Init, StreamsType
<1>2. RunnersType
  <2>1. NoRunner \in RunnerRec BY NoneGood DEF ProcessGood
  <2> QED BY <2>1, NoneGood DEF Init, RunnersType
<1>3. LaunchesType
  <2>1. NotStarted \in LaunchRec BY NotStartedGood DEF LaunchGood
  <2> QED BY <2>1, NotStartedGood DEF Init, LaunchesType
<1>4. SessionsType /\ AsideType BY RestingType DEF Init, SessionsType, AsideType, States
<1>5. HasStream BY DEF Init, HasStream, NoRunner
<1>6. OwnsOne BY DEF Init, OwnsOne, NoStream
<1> QED BY <1>1, <1>2, <1>3, <1>4, <1>5, <1>6 DEF TypeInv

\* A step of r that leaves the workstreams alone.
LEMMA QuietMove ==
  ASSUME TypeInv, NEW r \in Runner, runner[r].pc # "free",
         NEW pc \in {"spawned", "ready", "working", "dead"}, NEW row \in {"none", "fresh", "stale"},
         runner' = [runner EXCEPT ![r] = Turned(runner[r], pc, row)],
         UNCHANGED <<session, ws, launcher>>, wakeup' \in WakeRec,
         work' \subseteq Section, disturbed' \subseteq Disturbances
  PROVE  TypeInv'
<1> DEFINE p == Turned(runner[r], pc, row)
<1>1. RunnersType BY DEF TypeInv
<1>2. /\ ProcessGood(p) /\ p.pc = pc
      /\ p.session = runner[r].session /\ p.section = runner[r].section
  BY <1>1, SamePlace
<1> HIDE DEF p
<1>3. Moves(r, p) BY <1>1, <1>2, MoveType DEF p
<1>4. \A q \in Runner : /\ runner'[q].session = runner[q].session
                        /\ runner'[q].section = runner[q].section
                        /\ runner'[q].pc # "free" => runner[q].pc # "free"
  BY <1>2, <1>3 DEF Moves
<1>5. RunnersType' BY <1>3 DEF Moves
<1>6. HasStream' BY <1>4, <1>5, StreamsStay
<1>7. OwnsOne'
  <2>1. \A s \in Session, x \in Section : ws[s][x].owner # None => ws[s][x].owner \in Runner
    BY OwnerIsThere
  <2> QED BY <1>4, <2>1, OwnersStay
<1> QED BY <1>5, <1>6, <1>7
        DEF TypeInv, StreamsType, SessionsType, LaunchesType, AsideType

LEMMA QuietTypes ==
  ASSUME TypeInv, NEW r \in Runner, Register(r) \/ Finish(r) \/ Silent(r) \/ Beat(r)
  PROVE  TypeInv'
<1>1. \E pc \in {"spawned", "ready", "working", "dead"}, row \in {"none", "fresh", "stale"} :
         runner' = [runner EXCEPT ![r] = Turned(runner[r], pc, row)]
  <2>1. runner[r] \in RunnerRec BY DEF TypeInv, RunnersType
  <2>2. CASE Register(r)
    <3>1. runner' = [runner EXCEPT ![r] = Turned(runner[r], "ready", "fresh")]
      BY <2>2 DEF Register, TypeInv, RunnersType, Turned
    <3> QED BY <3>1
  <2>3. CASE Finish(r)
    <3>1. runner' = [runner EXCEPT ![r] = Turned(runner[r], "ready", runner[r].row)]
      BY <2>1, <2>3 DEF Finish, RunnerRec, Turned
    <3>2. runner[r].row \in {"none", "fresh", "stale"} BY <2>1 DEF RunnerRec
    <3> QED BY <3>1, <3>2
  <2>4. ASSUME NEW row \in {"fresh", "stale"}, runner' = [runner EXCEPT ![r].row = row],
               runner[r].pc \in {"ready", "working", "dead"}
        PROVE  \E pc \in {"spawned", "ready", "working", "dead"}, to \in {"none", "fresh", "stale"} :
                  runner' = [runner EXCEPT ![r] = Turned(runner[r], pc, to)]
    <3>1. runner' = [runner EXCEPT ![r] = Turned(runner[r], runner[r].pc, row)]
      BY <2>1, <2>4 DEF RunnerRec, Turned
    <3> QED BY <2>4, <3>1
  <2>5. CASE Silent(r) BY <2>4, <2>5 DEF Silent
  <2>6. CASE Beat(r) BY <2>4, <2>6 DEF Beat
  <2> QED BY <2>2, <2>3, <2>5, <2>6
<1>2. runner[r].pc # "free"
  <2>1. Silent(r) => runner[r].pc \in {"ready", "working", "dead"} BY DEF Silent
  <2> QED BY <2>1 DEF Register, Finish, Beat
<1>3. UNCHANGED <<session, ws, launcher, disturbed>> BY DEF Register, Finish, Silent, Beat
<1>4. work' \subseteq Section BY DEF Register, Finish, Silent, Beat, TypeInv, SessionsType
<1>5. disturbed' \subseteq Disturbances BY <1>3 DEF TypeInv, AsideType
<1>6. wakeup' \in WakeRec
  <2>1. CASE UNCHANGED wakeup BY <2>1 DEF TypeInv, AsideType
  <2>2. CASE ShowsUp(r) BY <2>2, ShowsType DEF TypeInv
  <2> QED BY <2>1, <2>2 DEF Register, Finish, Silent, Beat
<1> QED BY <1>1, <1>2, <1>3, <1>4, <1>5, <1>6, QuietMove

\* r is gone, and owns nothing any more.
LEMMA GoneMove ==
  ASSUME TypeInv, NEW r \in Runner, Gone(r), StreamsType', UNCHANGED <<work, launcher>>,
         \A s \in Session, x \in Section :
            /\ ws'[s][x].status = ws[s][x].status
            /\ ws'[s][x].owner # None => ws'[s][x].owner = ws[s][x].owner /\ ws[s][x].owner # r,
         session' \in [Session -> States], AsideType'
  PROVE  TypeInv'
<1>1. Moves(r, NoRunner) BY GoneType DEF TypeInv
<1>2. NoRunner.pc = "free" BY DEF NoRunner
<1>3. RunnersType' BY <1>1 DEF Moves
<1>4. HasStream' BY <1>1, <1>2, <1>3, StreamsStay DEF Moves
<1>5. OwnsOne'
  <2>1. \A s \in Session, x \in Section : ws[s][x].owner # None => ws[s][x].owner \in Runner
    BY OwnerIsThere
  <2>2. \A q \in Runner \ {r} : runner'[q] = runner[q] BY <1>1 DEF Moves
  <2> QED BY <2>1, <2>2, OwnersStay
<1> QED BY <1>3, <1>4, <1>5 DEF TypeInv, SessionsType, LaunchesType

LEMMA LeaveTypes ==
  ASSUME TypeInv, NEW r \in Runner, Gone(r), Disown(r), UNCHANGED <<work, session, launcher>>, AsideType'
  PROVE  TypeInv' /\ StatusesStay
<1>1. /\ StreamsType'
      /\ \A s \in Session, x \in Section :
            /\ ws'[s][x].status = ws[s][x].status
            /\ ws'[s][x].owner = IF ws[s][x].owner = r THEN None ELSE ws[s][x].owner
  BY DisownType DEF TypeInv
<1>2. session' \in [Session -> States] BY DEF TypeInv, SessionsType
<1>3. \A s \in Session, x \in Section :
         ws'[s][x].owner # None => ws'[s][x].owner = ws[s][x].owner /\ ws[s][x].owner # r
  BY <1>1
<1>4. TypeInv' BY <1>1, <1>2, <1>3, GoneMove
<1> QED BY <1>1, <1>4 DEF StatusesStay

LEMMA TerminateTypes ==
  ASSUME TypeInv, NEW r \in Runner, Terminate(r)
  PROVE  TypeInv' /\ StatusesStay
<1>1. AsideType' BY DEF TypeInv, AsideType, Terminate
<1> QED BY <1>1, LeaveTypes DEF Terminate

LEMMA CrashTypes ==
  ASSUME TypeInv, NEW r \in Runner, Crash(r)
  PROVE  TypeInv' /\ StatusesStay
<1>1. disturbed' \subseteq Disturbances BY DisturbType DEF TypeInv, Crash
<1>2. AsideType' BY <1>1 DEF TypeInv, AsideType, Crash
<1>3. CASE Gone(r) /\ Disown(r) BY <1>2, <1>3, LeaveTypes DEF Crash
<1>4. CASE runner' = [runner EXCEPT ![r].pc = "dead"] /\ UNCHANGED ws
  <2>1. runner[r].pc # "free" /\ UNCHANGED <<work, session, launcher, wakeup>> BY DEF Crash
  <2>2. runner[r] \in RunnerRec BY DEF TypeInv, RunnersType
  <2>3. runner' = [runner EXCEPT ![r] = Turned(runner[r], "dead", runner[r].row)]
    BY <1>4, <2>2 DEF RunnerRec, Turned
  <2>4. runner[r].row \in {"none", "fresh", "stale"} BY <2>2 DEF RunnerRec
  <2>5. work' \subseteq Section /\ wakeup' \in WakeRec
    BY <2>1 DEF TypeInv, SessionsType, AsideType
  <2>6. TypeInv' BY <1>1, <1>4, <2>1, <2>3, <2>4, <2>5, QuietMove
  <2> QED BY <1>4, <2>6 DEF StatusesStay
<1> QED BY <1>3, <1>4 DEF Crash

\* The lease of r's workstream is extended while r stays.
LEMMA ExtendMove ==
  ASSUME TypeInv, NEW r \in Runner, runner[r].pc # "free", Extend(r, r),
         NEW pc \in {"ready", "working"}, NEW row \in {"none", "fresh", "stale"},
         runner' = [runner EXCEPT ![r] = Turned(runner[r], pc, row)],
         UNCHANGED <<work, session, launcher, disturbed>>, wakeup' \in WakeRec
  PROVE  TypeInv' /\ StatusesStay
<1> DEFINE p == Turned(runner[r], pc, row)
           s == runner[r].session
           x == runner[r].section
<1>1. RunnersType /\ StreamsType /\ s \in Session /\ x \in Section
  BY DEF TypeInv, RunnersType, ProcessGood
<1>2. ProcessGood(p) /\ p.session = s /\ p.section = x BY <1>1, SamePlace
<1>3. Moves(r, p) BY <1>1, <1>2, MoveType
<1>4. PICK w \in StreamRec : Becomes(s, x, w) /\ w.owner = r /\ w.status = Stream(r).status
  BY <1>1, ExtendType
<1> HIDE DEF p, s, x
<1>5. \A n \in Session, y \in Section : ws'[n][y].status = ws[n][y].status
  BY <1>1, <1>4 DEF Becomes, Stream, s, x
<1>6. \A q \in Runner : /\ runner'[q].session = runner[q].session
                        /\ runner'[q].section = runner[q].section
                        /\ runner'[q].pc # "free" => runner[q].pc # "free"
  BY <1>2, <1>3 DEF Moves, s, x
<1>7. RunnersType' BY <1>3 DEF Moves
<1>8. HasStream' BY <1>5, <1>6, <1>7, StreamsStay
<1>9. OwnsOne'
  <2>1. \A n \in Session, y \in Section : ws[n][y].owner # None => ws[n][y].owner \in Runner
    BY OwnerIsThere
  <2>2. \A n \in Session, y \in Section : ws'[n][y].owner = ws[n][y].owner \/ (n = s /\ y = x)
    BY <1>4 DEF Becomes
  <2>3. ws'[s][x].owner = r /\ runner'[r].session = s /\ runner'[r].section = x
    BY <1>2, <1>3, <1>4 DEF Becomes, Moves
  <2> QED BY <1>6, <2>1, <2>2, <2>3, OwnersStay
<1>10. StreamsType' BY <1>4 DEF Becomes
<1>11. TypeInv' BY <1>7, <1>8, <1>9, <1>10 DEF TypeInv, SessionsType, LaunchesType, AsideType
<1> QED BY <1>5, <1>11 DEF StatusesStay

LEMMA RefreshTypes ==
  ASSUME TypeInv, NEW r \in Runner, Refresh(r)
  PROVE  TypeInv' /\ StatusesStay
<1>1. runner[r] \in RunnerRec BY DEF TypeInv, RunnersType
<1>2. runner' = [runner EXCEPT ![r] = Turned(runner[r], "working", runner[r].row)]
  BY <1>1 DEF Refresh, RunnerRec, TypeInv, RunnersType, Turned
<1>3. runner[r].row \in {"none", "fresh", "stale"} BY <1>1 DEF RunnerRec
<1>4. wakeup' \in WakeRec BY DEF Refresh, TypeInv, AsideType
<1> QED BY <1>2, <1>3, <1>4, ExtendMove DEF Refresh

LEMMA IterateTypes ==
  ASSUME TypeInv, NEW r \in Runner, Iterate(r)
  PROVE  TypeInv' /\ StatusesStay
<1>1. runner[r].pc # "free" /\ UNCHANGED <<work, session, launcher, disturbed>>
  BY DEF Iterate
<1>2. AsideType' /\ session' \in [Session -> States]
  <2>1. wakeup' \in WakeRec
    <3>1. CASE UNCHANGED wakeup BY <3>1 DEF TypeInv, AsideType
    <3>2. CASE ShowsUp(r) BY <3>2, ShowsType DEF TypeInv
    <3> QED BY <3>1, <3>2 DEF Iterate
  <2> QED BY <1>1, <2>1 DEF TypeInv, AsideType, SessionsType
<1>3. CASE Gone(r) /\ Disown(r) BY <1>1, <1>2, <1>3, LeaveTypes
<1>4. CASE /\ Extend(r, r)
           /\ runner' = [runner EXCEPT ![r].pc = "working", ![r].row = "fresh"]
  <2>1. runner' = [runner EXCEPT ![r] = Turned(runner[r], "working", "fresh")]
    BY <1>4 DEF TypeInv, RunnersType, Turned
  <2> QED BY <1>1, <1>2, <1>4, <2>1, ExtendMove DEF AsideType
<1>5. CASE Extend(r, None) /\ Gone(r)
  <2> DEFINE s == runner[r].session
             x == runner[r].section
  <2>1. StreamsType /\ s \in Session /\ x \in Section
    BY <1>1 DEF TypeInv, RunnersType, ProcessGood
  <2>2. PICK w \in StreamRec : Becomes(s, x, w) /\ w.owner = None /\ w.status = Stream(r).status
    BY <1>5, <2>1, ExtendType
  <2>3. \A n \in Session, y \in Section : ws[n][y].owner = r => n = s /\ y = x
    BY Values DEF TypeInv, OwnsOne
  <2> HIDE DEF s, x
  <2>4. \A n \in Session, y \in Section :
           /\ ws'[n][y].status = ws[n][y].status
           /\ ws'[n][y].owner # None => ws'[n][y].owner = ws[n][y].owner /\ ws[n][y].owner # r
    BY <2>1, <2>2, <2>3 DEF Becomes, Stream, s, x
  <2>5. StreamsType' BY <2>2 DEF Becomes
  <2>6. TypeInv' BY <1>1, <1>2, <1>5, <2>4, <2>5, GoneMove
  <2> QED BY <2>4, <2>6 DEF StatusesStay
<1> QED BY <1>3, <1>4, <1>5 DEF Iterate

\* The runners stay, and no workstream gets an owner.
LEMMA StreamsChange ==
  ASSUME TypeInv, StreamsType', UNCHANGED runner,
         \A s \in Session, x \in Section :
            /\ ws[s][x].status # "none" => ws'[s][x].status # "none"
            /\ ws'[s][x].owner # None => ws'[s][x].owner = ws[s][x].owner
  PROVE  RunnersType' /\ HasStream' /\ OwnsOne'
<1>1. RunnersType' BY DEF TypeInv, RunnersType
<1>2. HasStream' BY <1>1, StreamsStay
<1>3. OwnsOne' BY OwnersStay
<1> QED BY <1>1, <1>2, <1>3

LEMMA ExpiresTypes ==
  ASSUME TypeInv, NEW s \in Session, NEW x \in Section, LeaseExpires(s, x)
  PROVE  TypeInv' /\ StatusesStay
<1> DEFINE w == [ws[s][x] EXCEPT !.held = FALSE]
<1>1. StreamsType /\ ws[s][x] \in StreamRec BY DEF TypeInv, StreamsType
<1>2. w \in StreamRec /\ w.owner = ws[s][x].owner /\ w.status = ws[s][x].status
  BY <1>1 DEF StreamRec
<1>3. ws' = [ws EXCEPT ![s][x] = w] BY DEF LeaseExpires, TypeInv, StreamsType
<1> HIDE DEF w
<1>4. Becomes(s, x, w) BY <1>1, <1>2, <1>3, OneStream
<1>5. \A n \in Session, y \in Section : /\ ws'[n][y].owner = ws[n][y].owner
                                        /\ ws'[n][y].status = ws[n][y].status
  BY <1>2, <1>4 DEF Becomes
<1>6. StreamsType' /\ UNCHANGED <<work, session, runner, launcher, wakeup>>
  BY <1>4 DEF Becomes, LeaseExpires
<1>7. disturbed' \subseteq Disturbances
  BY DisturbType DEF LeaseExpires, TypeInv, AsideType
<1>8. RunnersType' /\ HasStream' /\ OwnsOne' BY <1>5, <1>6, StreamsChange
<1> QED BY <1>5, <1>6, <1>7, <1>8
        DEF TypeInv, SessionsType, LaunchesType, AsideType, StatusesStay

\* closeStaleParallelSessions in a step that leaves the runners alone.
LEMMA CloseTypes ==
  ASSUME TypeInv, CloseStale, UNCHANGED <<work, runner>>, LaunchesType', AsideType'
  PROVE  TypeInv' /\ StatusesStay
<1>1. /\ StreamsType' /\ session' \in [Session -> States]
      /\ \A s \in Session, x \in Section :
            /\ ws'[s][x].owner = ws[s][x].owner
            /\ \/ ws'[s][x] = ws[s][x]
               \/ ws'[s][x].status = "failed" /\ s \in Active /\ x \in Orphaned(s)
  BY CloseType DEF TypeInv
<1>2. RunnersType' /\ HasStream' /\ OwnsOne'
  <2>1. \A s \in Session, x \in Section :
           /\ ws[s][x].status # "none" => ws'[s][x].status # "none"
           /\ ws'[s][x].owner # None => ws'[s][x].owner = ws[s][x].owner
    BY <1>1
  <2> QED BY <1>1, <2>1, StreamsChange
<1>3. StatusesStay BY <1>1 DEF StatusesStay, Orphaned, Unattended, Running
<1> QED BY <1>1, <1>2, <1>3 DEF TypeInv, SessionsType

\* A step of a launch that touches sessions at most.
LEMMA OnlyLaunches ==
  ASSUME TypeInv, UNCHANGED <<work, ws, runner>>, LaunchesType', AsideType',
         session' \in [Session -> States]
  PROVE  TypeInv' /\ StatusesStay
<1>1. StreamsType' BY DEF TypeInv, StreamsType
<1>2. RunnersType' /\ HasStream' /\ OwnsOne' BY <1>1, StreamsChange
<1> QED BY <1>1, <1>2 DEF TypeInv, SessionsType, StatusesStay

LEMMA StartTypes ==
  ASSUME TypeInv, NEW l \in Launcher, Start(l)
  PROVE  TypeInv' /\ StatusesStay
<1>1. LaunchesType' BY BeginType DEF Start, TypeInv
<1>2. AsideType' BY DisturbType DEF Start, TypeInv, AsideType
<1> QED BY <1>1, <1>2, OnlyLaunches DEF Start, TypeInv, SessionsType

\* What a launch is after it has ended, or gone on.
LEMMA GoesOn ==
  ASSUME LaunchesType, NEW l \in Launcher, End(l) \/ Goto(l, "admitted")
  PROVE  /\ LaunchesType' /\ launcher'[l].pc # "cloning"
         /\ \A k \in Launcher \ {l} : launcher'[k] = launcher[k]
<1>1. CASE End(l)
  <2>1. NotStarted.pc # "cloning" BY DEF NotStarted
  <2> QED BY <1>1, <2>1, LaunchType, NotStartedGood DEF End
<1>2. CASE Goto(l, "admitted")
  <2> DEFINE p == [launcher[l] EXCEPT !.pc = "admitted"]
  <2>1. LaunchGood(launcher[l]) /\ launcher[l] \in LaunchRec BY DEF LaunchesType
  <2>2. LaunchGood(p) BY <2>1, LaunchForms
  <2>3. p.pc # "cloning" BY <2>1 DEF LaunchRec
  <2>4. launcher' = [launcher EXCEPT ![l] = p] BY <1>2 DEF Goto, LaunchesType
  <2> HIDE DEF p
  <2> QED BY <2>2, <2>3, <2>4, LaunchType
<1> QED BY <1>1, <1>2

LEMMA AdmitTypes ==
  ASSUME TypeInv, NEW l \in Launcher, Admit(l)
  PROVE  TypeInv' /\ StatusesStay
<1>1. LaunchesType' BY GoesOn DEF Admit, TypeInv
<1>2. AsideType' BY RecordType DEF Admit, CloseStale, TypeInv, AsideType
<1> QED BY <1>1, <1>2, CloseTypes DEF Admit

\* The row of a session is inserted, or refused.
LEMMA InsertForms ==
  ASSUME TypeInv, NEW l \in Launcher, Insert(l)
  PROVE  /\ LaunchesType' /\ session' \in [Session -> States]
         /\ \A k \in Launcher \ {l} : launcher'[k] = launcher[k]
         /\ \/ UNCHANGED session /\ launcher'[l].pc # "cloning"
            \/ /\ Admitted
               /\ \E s \in Session :
                     /\ session[s] = "none"
                     /\ session' = [session EXCEPT ![s] = "running"]
                     /\ launcher'[l].pc = "cloning" /\ launcher'[l].session = s
<1>1. LaunchesType /\ session \in [Session -> States] BY DEF TypeInv, SessionsType
<1>2. CASE ~Admitted /\ End(l) /\ UNCHANGED session BY <1>1, <1>2, GoesOn
<1>3. ASSUME Admitted, NEW s \in Session, session[s] = "none",
             session' = [session EXCEPT ![s] = "running"],
             launcher' = [launcher EXCEPT ![l].pc = "cloning", ![l].session = s]
      PROVE  /\ LaunchesType' /\ session' \in [Session -> States]
             /\ \A k \in Launcher \ {l} : launcher'[k] = launcher[k]
             /\ launcher'[l].pc = "cloning" /\ launcher'[l].session = s
  <2> DEFINE p == [launcher[l] EXCEPT !.pc = "cloning", !.session = s]
  <2>1. LaunchGood(launcher[l]) /\ launcher[l] \in LaunchRec BY <1>1 DEF LaunchesType
  <2>2. LaunchGood(p) BY <2>1, LaunchForms
  <2>3. p.pc = "cloning" /\ p.session = s BY <2>1 DEF LaunchRec
  <2>4. launcher' = [launcher EXCEPT ![l] = p] BY <1>1, <1>3 DEF LaunchesType
  <2>5. session' \in [Session -> States] BY <1>1, <1>3 DEF States
  <2> HIDE DEF p
  <2> QED BY <1>1, <2>2, <2>3, <2>4, <2>5, LaunchType
<1> QED BY <1>2, <1>3 DEF Insert

LEMMA InsertTypes ==
  ASSUME TypeInv, NEW l \in Launcher, Insert(l)
  PROVE  TypeInv' /\ StatusesStay
<1>1. LaunchesType' /\ session' \in [Session -> States] BY InsertForms
<1>2. AsideType' BY DEF Insert, TypeInv, AsideType
<1> QED BY <1>1, <1>2, OnlyLaunches DEF Insert

\* A workstream is placed: where, by which launch, and for which runner.
First == [NoStream EXCEPT !.status = "running", !.held = TRUE]

LEMMA PlaceForms ==
  ASSUME TypeInv, NEW l \in Launcher, Place(l)
  PROVE  /\ launcher[l].pc = "cloning" /\ launcher[l].session \in Session
         /\ \E x \in Section, r \in Free :
               /\ Becomes(launcher[l].session, x, First)
               /\ Moves(r, Process(launcher[l].session, x, TRUE))
         /\ LaunchesType'
         /\ \A k \in Launcher \ {l} : launcher'[k] = launcher[k]
         /\ launcher'[l].pc = "cloning" => launcher'[l].session = launcher[l].session
<1> DEFINE s == launcher[l].session
<1>1. /\ launcher[l].pc = "cloning" /\ LaunchGood(launcher[l]) /\ launcher[l] \in LaunchRec
      /\ s \in Session
  BY DEF Place, TypeInv, LaunchesType, LaunchGood
<1>2. PICK x \in launcher[l].plan, r \in Free :
        /\ ws' = [ws EXCEPT ![s][x] = First]
        /\ runner' = [runner EXCEPT ![r] = Process(s, x, TRUE)]
        /\ launcher' = [launcher EXCEPT ![l] =
              IF launcher[l].plan = {x} THEN NotStarted
              ELSE [launcher[l] EXCEPT !.plan = launcher[l].plan \ {x}]]
  BY DEF Place, First
<1>3. x \in Section /\ r \in Runner BY <1>1, <1>2 DEF LaunchRec, Free
<1>4. First \in StreamRec BY FirstStream DEF First
<1>5. Becomes(s, x, First) BY <1>1, <1>2, <1>3, <1>4, OneStream DEF TypeInv
<1>6. ProcessGood(Process(s, x, TRUE)) BY <1>1, <1>3, ProcessType
<1>7. Moves(r, Process(s, x, TRUE)) BY <1>2, <1>3, <1>6, MoveType DEF TypeInv
<1>8. /\ LaunchesType' /\ \A k \in Launcher \ {l} : launcher'[k] = launcher[k]
      /\ launcher'[l].pc = "cloning" => launcher'[l].session = s
  <2> DEFINE p == IF launcher[l].plan = {x} THEN NotStarted
                  ELSE [launcher[l] EXCEPT !.plan = launcher[l].plan \ {x}]
  <2>1. launcher' = [launcher EXCEPT ![l] = p] BY <1>2
  <2>2. LaunchGood(p) BY <1>1, LaunchForms, NotStartedGood
  <2>3. p.pc = "cloning" => p.session = s BY <1>1 DEF LaunchRec, NotStarted
  <2> HIDE DEF p
  <2> QED BY <2>1, <2>2, <2>3, LaunchType DEF TypeInv
<1> QED BY <1>1, <1>2, <1>3, <1>5, <1>7, <1>8

LEMMA PlaceTypes ==
  ASSUME TypeInv, NEW l \in Launcher, Place(l)
  PROVE  TypeInv'
<1> DEFINE s == launcher[l].session
<1>1. s \in Session /\ LaunchesType' BY PlaceForms
<1>2. PICK x \in Section, r \in Free : Becomes(s, x, First) /\ Moves(r, Process(s, x, TRUE))
  BY PlaceForms
<1> HIDE DEF s
<1>3. First.status = "running" /\ First.owner = None BY FirstStream DEF First
<1>4. /\ Process(s, x, TRUE).session = s /\ Process(s, x, TRUE).section = x
  BY DEF Process
<1>5. r \in Runner /\ runner[r].pc = "free" BY <1>2 DEF Free
<1>6. RunnersType' /\ StreamsType' BY <1>2 DEF Moves, Becomes
<1>7. HasStream'
  <2>1. \A n \in Session, y \in Section : ws[n][y].status # "none" => ws'[n][y].status # "none"
    BY <1>2, <1>3 DEF Becomes
  <2>2. ws'[runner'[r].session][runner'[r].section].status # "none"
    BY <1>2, <1>3, <1>4 DEF Becomes, Moves
  <2>3. \A q \in Runner \ {r} : runner'[q] = runner[q] BY <1>2 DEF Moves
  <2> QED BY <1>6, <2>1, <2>2, <2>3, StreamsStay
<1>8. OwnsOne'
  <2>1. ASSUME NEW n \in Session, NEW y \in Section, ws'[n][y].owner # None
        PROVE  /\ ws'[n][y].owner = ws[n][y].owner
               /\ runner'[ws[n][y].owner] = runner[ws[n][y].owner]
    <3>1. ws'[n][y] = ws[n][y] BY <1>2, <1>3, <2>1 DEF Becomes
    <3>2. ws[n][y].owner \in Runner /\ runner[ws[n][y].owner].pc # "free"
      BY <2>1, <3>1, OwnerIsThere
    <3> QED BY <1>2, <1>5, <3>1, <3>2 DEF Moves
  <2> QED BY <2>1, OwnersStay
<1>9. UNCHANGED <<work, session, wakeup, disturbed>> BY DEF Place
<1> QED BY <1>1, <1>6, <1>7, <1>8, <1>9 DEF TypeInv, SessionsType, AsideType

\* What a launch leaves behind that fails: nothing, or a workstream without a runner.
LEMMA FailsForms ==
  ASSUME TypeInv, NEW l \in Launcher, LaunchFails(l)
  PROVE  /\ launcher[l].pc = "cloning" /\ launcher[l].session \in Session
         /\ UNCHANGED ws \/ \E x \in Section : Becomes(launcher[l].session, x, First)
         /\ LaunchesType' /\ AsideType' /\ launcher'[l].pc # "cloning"
         /\ \A k \in Launcher \ {l} : launcher'[k] = launcher[k]
<1>1. /\ launcher[l].pc = "cloning" /\ LaunchGood(launcher[l]) /\ launcher[l] \in LaunchRec
      /\ launcher[l].session \in Session
  BY DEF LaunchFails, TypeInv, LaunchesType, LaunchGood
<1>2. ASSUME NEW x \in launcher[l].plan, ws' = [ws EXCEPT ![launcher[l].session][x] = First]
      PROVE  x \in Section /\ Becomes(launcher[l].session, x, First)
  <2>1. x \in Section BY <1>1 DEF LaunchRec
  <2>2. First \in StreamRec BY FirstStream DEF First
  <2> QED BY <1>1, <1>2, <2>1, <2>2, OneStream DEF TypeInv
<1>3. UNCHANGED ws \/ \E x \in Section : Becomes(launcher[l].session, x, First)
  BY <1>2 DEF LaunchFails, First
<1>4. AsideType' BY DisturbType DEF LaunchFails, TypeInv, AsideType
<1>5. /\ LaunchesType' /\ launcher'[l].pc # "cloning"
      /\ \A k \in Launcher \ {l} : launcher'[k] = launcher[k]
  BY GoesOn DEF LaunchFails, TypeInv
<1> QED BY <1>1, <1>3, <1>4, <1>5

LEMMA FailsTypes ==
  ASSUME TypeInv, NEW l \in Launcher, LaunchFails(l)
  PROVE  TypeInv'
<1>1. UNCHANGED <<work, session, runner>> BY DEF LaunchFails
<1>2. First.status = "running" /\ First.owner = None BY FirstStream DEF First
<1>3. StreamsType' /\ RunnersType' /\ HasStream' /\ OwnsOne'
  <2>1. CASE UNCHANGED ws
    <3>1. StreamsType' BY <2>1 DEF TypeInv, StreamsType
    <3> QED BY <1>1, <2>1, <3>1, StreamsChange
  <2>2. ASSUME NEW x \in Section, Becomes(launcher[l].session, x, First)
        PROVE  StreamsType' /\ RunnersType' /\ HasStream' /\ OwnsOne'
    <3>1. StreamsType' BY <2>2 DEF Becomes
    <3>2. \A n \in Session, y \in Section :
             /\ ws[n][y].status # "none" => ws'[n][y].status # "none"
             /\ ws'[n][y].owner # None => ws'[n][y].owner = ws[n][y].owner
      BY <1>2, <2>2 DEF Becomes
    <3> QED BY <1>1, <3>1, <3>2, StreamsChange
  <2> QED BY <2>1, <2>2, FailsForms
<1>4. LaunchesType' /\ AsideType' BY FailsForms
<1> QED BY <1>1, <1>3, <1>4 DEF TypeInv, SessionsType

LEMMA MaintainTypes ==
  ASSUME TypeInv, Maintain
  PROVE  TypeInv' /\ StatusesStay
<1>1. ASSUME NEW s \in Session, NEW x \in Section
      PROVE  /\ [ws[s][x] EXCEPT !.owner = None, !.held = FALSE] \in StreamRec
             /\ [ws[s][x] EXCEPT !.owner = None, !.held = FALSE].status = ws[s][x].status
             /\ [ws[s][x] EXCEPT !.owner = None, !.held = FALSE].owner = None
             /\ ws[s][x] \in StreamRec
  <2>1. ws[s][x] \in StreamRec BY DEF TypeInv, StreamsType
  <2> QED BY <2>1 DEF StreamRec
<1>2. StreamsType' BY <1>1 DEF Maintain, StreamsType
<1>3. \A s \in Session, x \in Section :
         ws'[s][x] = IF \/ ws[s][x].owner \in Abandoned
                        \/ ws[s][x].status = "running" /\ ~ws[s][x].held
                     THEN [ws[s][x] EXCEPT !.owner = None, !.held = FALSE] ELSE ws[s][x]
  BY DEF Maintain
<1>4. \A s \in Session, x \in Section :
         /\ ws'[s][x].status = ws[s][x].status
         /\ ws'[s][x].owner # None => /\ ws'[s][x].owner = ws[s][x].owner
                                      /\ ws[s][x].owner \notin Abandoned
  <2> SUFFICES ASSUME NEW s \in Session, NEW x \in Section
               PROVE  /\ ws'[s][x].status = ws[s][x].status
                      /\ ws'[s][x].owner # None => /\ ws'[s][x].owner = ws[s][x].owner
                                                   /\ ws[s][x].owner \notin Abandoned
    OBVIOUS
  <2> DEFINE w == [ws[s][x] EXCEPT !.owner = None, !.held = FALSE]
  <2>1. w.status = ws[s][x].status /\ w.owner = None BY <1>1
  <2>2. \/ ws'[s][x] = w
        \/ ws'[s][x] = ws[s][x] /\ ws[s][x].owner \notin Abandoned
    BY <1>3
  <2> HIDE DEF w
  <2> QED BY <2>1, <2>2
<1>5. ASSUME NEW r \in Runner
      PROVE  /\ [runner[r] EXCEPT !.row = "none"] \in RunnerRec
             /\ runner[r].pc # "free" => ProcessGood([runner[r] EXCEPT !.row = "none"])
             /\ [runner[r] EXCEPT !.row = "none"].pc = runner[r].pc
             /\ [runner[r] EXCEPT !.row = "none"].session = runner[r].session
             /\ [runner[r] EXCEPT !.row = "none"].section = runner[r].section
             /\ runner[r] \in RunnerRec /\ ProcessGood(runner[r])
             /\ NoRunner \in RunnerRec /\ ProcessGood(NoRunner) /\ NoRunner.pc = "free"
             /\ r \in Abandoned => runner[r].pc # "free"
             /\ runner'[r] = IF r \notin Abandoned THEN runner[r]
                             ELSE IF runner[r].pc = "dead" THEN NoRunner
                             ELSE [runner[r] EXCEPT !.row = "none"]
  <2>1. runner[r] \in RunnerRec /\ ProcessGood(runner[r]) BY DEF TypeInv, RunnersType
  <2>2. NoRunner \in RunnerRec /\ ProcessGood(NoRunner) /\ NoRunner.pc = "free"
    BY NoneGood DEF ProcessGood, NoRunner
  <2>3. r \in Abandoned => runner[r].pc # "free"
    <3>1. NoRunner.row = "none" BY DEF NoRunner
    <3> QED BY <2>1, <3>1 DEF Abandoned, ProcessGood
  <2>4. [runner[r] EXCEPT !.row = "none"] \in RunnerRec BY <2>1 DEF RunnerRec
  <2>5. /\ [runner[r] EXCEPT !.row = "none"].pc = runner[r].pc
        /\ [runner[r] EXCEPT !.row = "none"].session = runner[r].session
        /\ [runner[r] EXCEPT !.row = "none"].section = runner[r].section
    BY <2>1 DEF RunnerRec
  <2>6. runner[r].pc # "free" => ProcessGood([runner[r] EXCEPT !.row = "none"])
    BY <2>1, <2>4, <2>5 DEF ProcessGood
  <2>7. runner'[r] = IF r \notin Abandoned THEN runner[r]
                     ELSE IF runner[r].pc = "dead" THEN NoRunner
                     ELSE [runner[r] EXCEPT !.row = "none"]
    BY DEF Maintain
  <2> QED BY <2>1, <2>2, <2>3, <2>4, <2>5, <2>6, <2>7
<1>6. RunnersType'
  <2>1. runner' \in [Runner -> RunnerRec] BY <1>5 DEF Maintain
  <2>2. \A r \in Runner : ProcessGood(runner'[r]) BY <1>5
  <2> QED BY <2>1, <2>2 DEF RunnersType
<1>7. HasStream'
  <2>1. \A r \in Runner : runner'[r].pc # "free" =>
           /\ runner[r].pc # "free" /\ runner'[r].session = runner[r].session
           /\ runner'[r].section = runner[r].section
    BY <1>5
  <2> QED BY <1>4, <1>6, <2>1, StreamsStay
<1>8. OwnsOne'
  <2>1. \A s \in Session, x \in Section : ws[s][x].owner # None => ws[s][x].owner \in Runner
    BY OwnerIsThere
  <2>2. \A r \in Runner : r \notin Abandoned => runner'[r] = runner[r] BY <1>5
  <2> QED BY <1>4, <2>1, <2>2, OwnersStay
<1>9. UNCHANGED <<work, session, launcher, disturbed>> /\ wakeup' \in WakeRec
  BY WakeForms, RestingType DEF Maintain
<1> QED BY <1>2, <1>4, <1>6, <1>7, <1>8, <1>9
        DEF TypeInv, SessionsType, LaunchesType, AsideType, StatusesStay

LEMMA CheckTypes ==
  ASSUME TypeInv, Check \/ Again
  PROVE  TypeInv' /\ StatusesStay
<1>1. AsideType'
  <2>1. wakeup' \in WakeRec BY WakeForms, RestingType DEF Check, Again
  <2>2. disturbed' \subseteq Disturbances
    BY RecordType DEF Check, Again, CloseStale, TypeInv, AsideType
  <2> QED BY <2>1, <2>2 DEF AsideType
<1>2. LaunchesType'
  <2>1. UNCHANGED launcher \/ StartRunner BY DEF Check, Again
  <2>2. CASE UNCHANGED launcher BY <2>2 DEF TypeInv, LaunchesType
  <2> QED BY <2>1, <2>2, StartType DEF TypeInv
<1>3. UNCHANGED <<work, runner>> BY DEF Check, Again
<1>4. CloseStale \/ UNCHANGED <<session, ws>> BY DEF Check, Again
<1>5. CASE CloseStale BY <1>1, <1>2, <1>3, <1>5, CloseTypes
<1>6. CASE UNCHANGED <<session, ws>>
  BY <1>1, <1>2, <1>3, <1>6, OnlyLaunches DEF TypeInv, SessionsType
<1> QED BY <1>4, <1>5, <1>6

\* The reads of reconcileParallelSessionRecovery, and what it writes of sessions.
LEMMA CandidatesTypes ==
  ASSUME TypeInv, NEW s \in Session, Candidates(s)
  PROVE  wakeup' \in WakeRec
<1> DEFINE old == [x \in Section |-> IF x \in Lapsed(s) THEN ws[s][x].attempts ELSE 0]
<1>1. \A x \in Section : ws[s][x] \in StreamRec BY DEF TypeInv, StreamsType
<1>2. old \in [Section -> 0..RecoveryCap - 1]
  <2>1. \A x \in Section : ws[s][x].attempts \in 0..RecoveryCap - 1 BY <1>1 DEF StreamRec
  <2> QED BY <2>1, Values
<1>3. Lapsed(s) \in SUBSET Section BY DEF Lapsed, Running
<1>4. wakeup' = [Resting EXCEPT !.pc = "probe", !.session = s, !.todo = Lapsed(s), !.seen = old]
  BY DEF Candidates
<1> HIDE DEF old
<1> QED BY <1>2, <1>3, <1>4, RestingType DEF WakeRec

LEMMA AfterType ==
  ASSUME AsideType, NEW x \in Section
  PROVE  /\ After(x) \in WakeRec /\ After(x).pc = "probe" /\ After(x).todo = wakeup.todo \ {x}
         /\ After(x).session = wakeup.session /\ After(x).restart = wakeup.restart
         /\ [After(x) EXCEPT !.blocked = TRUE] \in WakeRec
         /\ [After(x) EXCEPT !.restart = @ \union {x}] \in WakeRec
<1>1. wakeup \in WakeRec BY DEF AsideType
<1>2. [wakeup.seen EXCEPT ![x] = 0] \in [Section -> 0..RecoveryCap - 1]
  BY <1>1, Values DEF WakeRec
<1>3. wakeup.todo \ {x} \in SUBSET Section BY <1>1 DEF WakeRec
<1>4. /\ After(x) \in WakeRec /\ After(x).pc = "probe" /\ After(x).todo = wakeup.todo \ {x}
      /\ After(x).session = wakeup.session /\ After(x).restart = wakeup.restart
  BY <1>1, <1>2, <1>3 DEF After, WakeRec
<1>5. [After(x) EXCEPT !.blocked = TRUE] \in WakeRec BY <1>4 DEF WakeRec
<1>6. After(x).restart \union {x} \in SUBSET Section BY <1>4 DEF WakeRec
<1>7. [After(x) EXCEPT !.restart = @ \union {x}] \in WakeRec BY <1>4, <1>6 DEF WakeRec
<1> QED BY <1>4, <1>5, <1>7

LEMMA GotoRestartType ==
  ASSUME AsideType, GotoRestart
  PROVE  /\ wakeup' \in WakeRec /\ wakeup'.pc \in {"restart", "again"} /\ wakeup'.todo \subseteq wakeup.todo
         /\ wakeup'.restart \subseteq wakeup.restart
         /\ wakeup'.pc = "again" => wakeup'.todo \union wakeup'.restart = {}
         /\ wakeup'.pc = "restart" => wakeup'.session = wakeup.session
<1>1. wakeup \in WakeRec BY DEF AsideType
<1>2. wakeup' \in WakeRec BY <1>1, WakeForms DEF GotoRestart
<1> QED BY <1>1, <1>2 DEF GotoRestart, WakeRec, Resting

LEMMA QuietRecovery ==
  ASSUME TypeInv, WakeInv,
         \/ \E s \in Session : Candidates(s)
         \/ \E x \in Section : Probe(x)
         \/ NothingToRecover \/ Block \/ Count \/ EndSession
  PROVE  TypeInv' /\ StatusesStay
<1>1. UNCHANGED <<work, ws, runner, launcher>>
  BY DEF Candidates, Probe, NothingToRecover, Block, Count, EndSession
<1>2. LaunchesType' BY <1>1 DEF TypeInv, LaunchesType
<1>3. AsideType'
  <2>1. wakeup \in WakeRec /\ AsideType BY DEF TypeInv, AsideType
  <2>2. ASSUME NEW x \in Section, Probe(x) PROVE wakeup' \in WakeRec
    BY <2>1, <2>2, AfterType, WakeForms DEF Probe
  <2>3. Block \/ EndSession => wakeup' \in WakeRec
    BY <2>1, GotoRestartType, RestingType DEF Block, EndSession
  <2>4. Count => wakeup' \in WakeRec
    BY <2>1, GotoRestartType, WakeForms DEF Count
  <2>5. NothingToRecover => wakeup' \in WakeRec BY WakeForms, RestingType DEF NothingToRecover
  <2>6. wakeup' \in WakeRec BY <2>2, <2>3, <2>4, <2>5, CandidatesTypes
  <2>7. disturbed' \subseteq Disturbances
    BY <2>1, RecordType DEF AsideType, Candidates, Probe, NothingToRecover, Block, Count, EndSession
  <2> QED BY <2>6, <2>7 DEF AsideType
<1>4. session' \in [Session -> States]
  <2>1. session \in [Session -> States] BY DEF TypeInv, SessionsType
  <2>2. Block => session' \in [Session -> States] BY <2>1 DEF Block, States
  <2>3. EndSession => session' \in [Session -> States] BY <2>1 DEF EndSession, States
  <2> QED BY <2>1, <2>2, <2>3 DEF Candidates, Probe, NothingToRecover, Count
<1> QED BY <1>1, <1>2, <1>3, <1>4, OnlyLaunches

\* The row of a candidate is given up, or has one attempt more.
LEMMA DecideForms ==
  ASSUME TypeInv, WakeInv, NEW x \in Section, Decide(x)
  PROVE  /\ wakeup.session \in Session /\ wakeup' \in WakeRec
         /\ \E w \in StreamRec :
               /\ Becomes(wakeup.session, x, w) /\ w.owner = ws[wakeup.session][x].owner
               /\ (w.status = ws[wakeup.session][x].status \/ w.status = "failed")
<1> DEFINE s == wakeup.session
           n == wakeup.seen[x]
<1>1. AsideType /\ StreamsType /\ wakeup \in WakeRec BY DEF TypeInv, AsideType
<1>2. s \in Session BY DEF WakeInv, Decide, Recovering
<1>3. n \in 0..RecoveryCap - 1 BY <1>1 DEF WakeRec
<1>4. wakeup' \in WakeRec BY <1>1, AfterType DEF Decide
<1>5. ws[s][x] \in StreamRec BY <1>1, <1>2 DEF StreamsType
<1>6. \E w \in StreamRec : /\ ws' = [ws EXCEPT ![s][x] = w] /\ w.owner = ws[s][x].owner
                            /\ (w.status = ws[s][x].status \/ w.status = "failed")
  <2>1. CASE Capped(n)
    <3>1. ws' = [ws EXCEPT ![s][x] = GivenUp(ws[s][x])] BY <2>1 DEF Decide
    <3> QED BY <1>5, <3>1, StreamForms
  <2>2. CASE ~Capped(n)
    <3>1. ws' = [ws EXCEPT ![s][x] = Attempted(ws[s][x], n)] BY <2>2 DEF Decide
    <3> HIDE DEF n
    <3> QED BY <1>3, <1>5, <2>2, <3>1, StreamForms
  <2> QED BY <2>1, <2>2
<1> HIDE DEF s, n
<1>7. PICK w \in StreamRec : /\ ws' = [ws EXCEPT ![s][x] = w] /\ w.owner = ws[s][x].owner
                             /\ (w.status = ws[s][x].status \/ w.status = "failed")
  BY <1>6
<1>8. Becomes(s, x, w) BY <1>1, <1>2, <1>7, OneStream
<1> QED BY <1>2, <1>4, <1>7, <1>8 DEF s

LEMMA DecideTypes ==
  ASSUME TypeInv, WakeInv, NEW x \in Section, Decide(x)
  PROVE  TypeInv' /\ StatusesStay
<1> DEFINE s == wakeup.session
<1>1. s \in Session /\ wakeup' \in WakeRec BY DecideForms
<1>2. PICK w \in StreamRec : /\ Becomes(s, x, w) /\ w.owner = ws[s][x].owner
                             /\ (w.status = ws[s][x].status \/ w.status = "failed")
  BY DecideForms
<1>3. UNCHANGED <<work, session, runner, launcher, disturbed>> /\ wakeup.pc = "verdict" /\ Due(x)
  BY DEF Decide
<1>4. ws[s][x].status # "none" BY <1>3 DEF WakeInv, Due
<1>5. wakeup.overtaken \/ Unattended(s, x) BY <1>3 DEF WakeInv
<1> HIDE DEF s
<1>6. \A n \in Session, y \in Section :
         /\ ws'[n][y].owner = ws[n][y].owner
         /\ \/ ws'[n][y].status = ws[n][y].status
            \/ n = s /\ y = x /\ ws'[n][y].status = "failed"
  BY <1>2 DEF Becomes
<1>7. StreamsType' BY <1>2 DEF Becomes
<1>8. RunnersType' /\ HasStream' /\ OwnsOne' BY <1>3, <1>6, <1>7, StreamsChange
<1>9. StatusesStay BY <1>4, <1>5, <1>6 DEF StatusesStay
<1> QED BY <1>1, <1>3, <1>7, <1>8, <1>9 DEF TypeInv, SessionsType, LaunchesType, AsideType

\* Processes that were free are restarted for workstreams that have a row.
LEMMA RestartRunners ==
  ASSUME TypeInv, WakeInv, Restart
  PROVE  /\ RunnersType'
         /\ \A r \in Runner :
               \/ runner'[r] = runner[r]
               \/ /\ r \in Free
                  /\ \E x \in wakeup.restart : runner'[r] = Process(wakeup.session, x, FALSE)
<1> DEFINE s == wakeup.session
<1>1. PICK started \in SUBSET wakeup.restart :
         \E f \in [started -> Free] :
            runner' = [r \in Runner |->
                         IF \E x \in started : f[x] = r
                         THEN Process(s, CHOOSE x \in started : f[x] = r, FALSE) ELSE runner[r]]
  BY DEF Restart
<1>2. PICK f \in [started -> Free] :
         runner' = [r \in Runner |->
                      IF \E x \in started : f[x] = r
                      THEN Process(s, CHOOSE x \in started : f[x] = r, FALSE) ELSE runner[r]]
  BY <1>1
<1>3. s \in Session /\ wakeup.restart \subseteq Section
  BY DEF Restart, WakeInv, Recovering, TypeInv, AsideType, WakeRec
<1> HIDE DEF s
<1>4. ASSUME NEW r \in Runner
      PROVE  /\ \/ runner'[r] = runner[r]
                \/ r \in Free /\ \E x \in wakeup.restart : runner'[r] = Process(s, x, FALSE)
             /\ ProcessGood(runner'[r])
  <2>1. runner'[r] = IF \E x \in started : f[x] = r
                     THEN Process(s, CHOOSE x \in started : f[x] = r, FALSE) ELSE runner[r]
    BY <1>2
  <2>2. ProcessGood(runner[r]) BY DEF TypeInv, RunnersType
  <2>3. CASE \E x \in started : f[x] = r
    <3> DEFINE y == CHOOSE x \in started : f[x] = r
    <3>1. y \in started /\ f[y] = r BY <2>3
    <3>2. runner'[r] = Process(s, y, FALSE) BY <2>1, <2>3
    <3> HIDE DEF y
    <3>3. r \in Free BY <3>1
    <3>4. y \in wakeup.restart /\ y \in Section BY <1>3, <3>1
    <3> QED BY <1>3, <3>2, <3>3, <3>4, ProcessType
  <2> QED BY <2>1, <2>2, <2>3
<1>5. DOMAIN runner' = Runner /\ runner' = [r \in Runner |-> runner'[r]] BY <1>2
<1>6. \A r \in Runner : runner'[r] \in RunnerRec BY <1>4 DEF ProcessGood
<1>7. runner' \in [Runner -> RunnerRec] BY <1>5, <1>6
<1> QED BY <1>4, <1>7 DEF RunnersType, s

LEMMA RestartTypes ==
  ASSUME TypeInv, WakeInv, Restart
  PROVE  TypeInv' /\ StatusesStay
<1>1. UNCHANGED <<work, session, ws, launcher, disturbed>> BY DEF Restart
<1>2. /\ RunnersType'
      /\ \A r \in Runner :
            \/ runner'[r] = runner[r]
            \/ /\ r \in Free
               /\ \E x \in wakeup.restart : runner'[r] = Process(wakeup.session, x, FALSE)
  BY RestartRunners
<1>3. HasStream'
  <2>1. ASSUME NEW r \in Runner, runner'[r] # runner[r]
        PROVE  ws'[runner'[r].session][runner'[r].section].status # "none"
    <3>1. PICK x \in wakeup.restart : runner'[r] = Process(wakeup.session, x, FALSE)
      BY <1>2, <2>1
    <3>2. runner'[r].session = wakeup.session /\ runner'[r].section = x BY <3>1 DEF Process
    <3> QED BY <1>1, <3>2 DEF WakeInv
  <2> QED BY <1>1, <1>2, <2>1, StreamsStay
<1>4. OwnsOne'
  <2>1. ASSUME NEW n \in Session, NEW x \in Section, ws[n][x].owner # None
        PROVE  runner'[ws[n][x].owner] = runner[ws[n][x].owner]
    <3>1. ws[n][x].owner \in Runner /\ runner[ws[n][x].owner].pc # "free"
      BY <2>1, OwnerIsThere
    <3>2. ws[n][x].owner \notin Free BY <3>1 DEF Free
    <3> QED BY <1>2, <3>1, <3>2
  <2> QED BY <1>1, <2>1, OwnersStay
<1>5. wakeup' \in WakeRec BY WakeForms, RestingType DEF Restart
<1> QED BY <1>1, <1>2, <1>3, <1>4, <1>5
        DEF TypeInv, StreamsType, SessionsType, LaunchesType, AsideType, StatusesStay

LEMMA RecoverTypes ==
  ASSUME TypeInv, WakeInv, Recover
  PROVE  TypeInv' /\ StatusesStay
BY QuietRecovery, DecideTypes, RestartTypes DEF Recover

\* A runner owns workstreams of the session it is in, and of no other.
LEMMA OwnedHere ==
  ASSUME TypeInv, NEW r \in Runner, NEW s \in Session, NEW x \in Section, ws[s][x].owner = r
  PROVE  s = runner[r].session /\ x = runner[r].section
BY Values DEF TypeInv, OwnsOne

LEMMA TaskResetForms ==
  ASSUME TypeInv, NEW r \in Runner, TaskReset(r)
  PROVE  /\ TypeInv' /\ StatusesStay
         /\ \A n \in Session :
               \/ session'[n] = session[n]
               \/ /\ n = runner[r].session /\ session'[n] = "running"
                  /\ \A m \in Session : m # n => session[m] \in Final
<1>1. disturbed' \subseteq Disturbances BY DisturbType DEF TypeInv, TaskReset
<1>2. AsideType' /\ UNCHANGED <<work, launcher, wakeup>>
  BY <1>1 DEF TypeInv, AsideType, TaskReset
<1> DEFINE owned   == {s \in Session : \E x \in Section : ws[s][x].owner = r}
           unblock == {s \in owned : session[s] \in {"blocked_recovery", "failed"}}
<1>3. CASE /\ \A s \in unblock, n \in Session : s # n => session[n] \in Final
           /\ Gone(r)
           /\ session' = [s \in Session |-> IF s \in unblock THEN "running" ELSE session[s]]
           /\ ws' = [s \in Session |-> [x \in Section |->
                 IF ws[s][x].owner = r THEN [ws[s][x] EXCEPT !.owner = None, !.held = FALSE]
                 ELSE ws[s][x]]]
  <2>1. ASSUME NEW s \in Session, NEW x \in Section
        PROVE  /\ [ws[s][x] EXCEPT !.owner = None, !.held = FALSE] \in StreamRec
               /\ [ws[s][x] EXCEPT !.owner = None, !.held = FALSE].status = ws[s][x].status
               /\ [ws[s][x] EXCEPT !.owner = None, !.held = FALSE].owner = None
               /\ ws[s][x] \in StreamRec
    <3>1. ws[s][x] \in StreamRec BY DEF TypeInv, StreamsType
    <3> QED BY <3>1 DEF StreamRec
  <2>2. StreamsType' BY <1>3, <2>1 DEF StreamsType
  <2>3. ASSUME NEW s \in Session, NEW x \in Section
        PROVE  /\ ws'[s][x].status = ws[s][x].status
               /\ ws'[s][x].owner # None => ws'[s][x].owner = ws[s][x].owner /\ ws[s][x].owner # r
    <3> DEFINE w == [ws[s][x] EXCEPT !.owner = None, !.held = FALSE]
    <3>1. w.status = ws[s][x].status /\ w.owner = None BY <2>1
    <3>2. ws'[s][x] = IF ws[s][x].owner = r THEN w ELSE ws[s][x] BY <1>3
    <3> HIDE DEF w
    <3> QED BY <3>1, <3>2
  <2>4. session' \in [Session -> States]
    <3>1. \A s \in Session : session[s] \in States BY DEF TypeInv, SessionsType
    <3> HIDE DEF unblock
    <3> QED BY <1>3, <3>1 DEF States
  <2>5. TypeInv' BY <1>2, <1>3, <2>2, <2>3, <2>4, GoneMove
  <2>6. StatusesStay BY <2>3 DEF StatusesStay
  <2>7. ASSUME NEW n \in Session, session'[n] # session[n]
        PROVE  /\ n = runner[r].session /\ session'[n] = "running"
               /\ \A m \in Session : m # n => session[m] \in Final
    <3>1. n \in unblock /\ session'[n] = "running" BY <1>3, <2>7
    <3>2. n = runner[r].session BY <3>1, OwnedHere
    <3> HIDE DEF unblock
    <3> QED BY <1>3, <3>1, <3>2
  <2> QED BY <2>5, <2>6, <2>7
<1>4. CASE runner' = [runner EXCEPT ![r].pc = "dead"] /\ UNCHANGED <<session, ws>>
  <2>1. runner[r].pc # "free" BY DEF TaskReset
  <2>2. runner[r] \in RunnerRec BY DEF TypeInv, RunnersType
  <2>3. runner' = [runner EXCEPT ![r] = Turned(runner[r], "dead", runner[r].row)]
    BY <1>4, <2>2 DEF RunnerRec, Turned
  <2>4. runner[r].row \in {"none", "fresh", "stale"} BY <2>2 DEF RunnerRec
  <2>5. work' \subseteq Section /\ wakeup' \in WakeRec
    BY <1>2 DEF TypeInv, SessionsType, AsideType
  <2>6. TypeInv' BY <1>1, <1>2, <1>4, <2>1, <2>3, <2>4, <2>5, QuietMove
  <2> QED BY <1>4, <2>6 DEF StatusesStay
<1> QED BY <1>3, <1>4 DEF TaskReset

LEMMA ProjectResetTypes ==
  ASSUME TypeInv, ProjectReset
  PROVE  /\ TypeInv' /\ StatusesStay
         /\ \A s \in Session : session'[s] = IF session[s] = "running" THEN "failed" ELSE session[s]
         /\ \A s \in Session, x \in Section : ws'[s][x].status # "running"
<1>1. ASSUME NEW s \in Session, NEW x \in Section
      PROVE  /\ ws[s][x] \in StreamRec /\ GivenUp(ws[s][x]) \in StreamRec
             /\ GivenUp(ws[s][x]).status = "failed" /\ GivenUp(ws[s][x]).owner = ws[s][x].owner
  <2>1. ws[s][x] \in StreamRec BY DEF TypeInv, StreamsType
  <2> QED BY <2>1, StreamForms
<1>2. StreamsType' BY <1>1 DEF ProjectReset, StreamsType
<1>3. \A s \in Session, x \in Section :
         ws'[s][x] = IF ws[s][x].status = "none" THEN ws[s][x] ELSE GivenUp(ws[s][x])
  BY DEF ProjectReset
<1>4. \A s \in Session, x \in Section :
         /\ ws'[s][x].owner = ws[s][x].owner /\ ws'[s][x].status # "running"
         /\ ws[s][x].status # "none" => ws'[s][x].status # "none"
         /\ \/ ws'[s][x].status = ws[s][x].status
            \/ ws[s][x].status # "none" /\ ws'[s][x].status = "failed"
  BY <1>1, <1>3
<1>5. UNCHANGED <<runner, launcher, wakeup>> /\ work' = Section BY DEF ProjectReset
<1>6. RunnersType' /\ HasStream' /\ OwnsOne' BY <1>2, <1>4, <1>5, StreamsChange
<1>7. /\ session' \in [Session -> States]
      /\ \A s \in Session : session'[s] = IF session[s] = "running" THEN "failed" ELSE session[s]
  BY DEF ProjectReset, TypeInv, SessionsType, States
<1>8. AsideType' BY RecordType, <1>5 DEF ProjectReset, TypeInv, AsideType
<1>9. StatusesStay
  <2>1. "project_reset" \in disturbed' \ disturbed BY DEF ProjectReset, Record
  <2> QED BY <1>4, <2>1 DEF StatusesStay
<1> QED BY <1>2, <1>4, <1>5, <1>6, <1>7, <1>8, <1>9
        DEF TypeInv, SessionsType, LaunchesType

LEMMA TypesKept == TypeInv /\ WakeInv /\ [Next]_vars => TypeInv'
<1> SUFFICES ASSUME TypeInv, WakeInv, [Next]_vars PROVE TypeInv' OBVIOUS
<1>1. CASE UNCHANGED vars
  BY <1>1 DEF vars, TypeInv, StreamsType, SessionsType, RunnersType, LaunchesType, AsideType,
              HasStream, OwnsOne
<1>2. ASSUME NEW r \in Runner,
             RunnerStep(r) \/ Refresh(r) \/ Beat(r) \/ Crash(r) \/ Silent(r) \/ TaskReset(r)
      PROVE  TypeInv'
  BY <1>2, QuietTypes, TerminateTypes, CrashTypes, RefreshTypes, IterateTypes, TaskResetForms
     DEF RunnerStep
<1>3. ASSUME NEW l \in Launcher, Start(l) \/ LauncherStep(l) \/ LaunchFails(l)
      PROVE  TypeInv'
  BY <1>3, StartTypes, AdmitTypes, InsertTypes, PlaceTypes, FailsTypes DEF LauncherStep
<1>4. CASE WakeupStep
  BY <1>4, MaintainTypes, CheckTypes, RecoverTypes DEF WakeupStep
<1>5. ASSUME NEW s \in Session, NEW x \in Section, LeaseExpires(s, x)
      PROVE  TypeInv'
  BY <1>5, ExpiresTypes
<1>6. CASE ProjectReset BY <1>6, ProjectResetTypes
<1> QED BY <1>1, <1>2, <1>3, <1>4, <1>5, <1>6 DEF Next

-------------------------------------------------------------------------------
(* What the recovery works off *)

\* Statuses stay as they should, but for what a launch places.
LEMMA StillOrPlaced ==
  ASSUME TypeInv, WakeInv, [Next]_vars
  PROVE  StatusesStay \/ \E l \in Launcher : Place(l) \/ LaunchFails(l)
<1>1. UNCHANGED ws => StatusesStay BY DEF StatusesStay
<1>2. CASE UNCHANGED vars BY <1>1, <1>2 DEF vars
<1>3. ASSUME NEW r \in Runner,
             RunnerStep(r) \/ Refresh(r) \/ Beat(r) \/ Crash(r) \/ Silent(r) \/ TaskReset(r)
      PROVE  StatusesStay
  <2>1. Register(r) \/ Finish(r) \/ Silent(r) \/ Beat(r) => UNCHANGED ws
    BY DEF Register, Finish, Silent, Beat
  <2> QED BY <1>1, <1>3, <2>1, TerminateTypes, CrashTypes, RefreshTypes, IterateTypes,
             TaskResetForms DEF RunnerStep
<1>4. ASSUME NEW l \in Launcher, Start(l) \/ Admit(l) \/ Insert(l)
      PROVE  StatusesStay
  BY <1>4, StartTypes, AdmitTypes, InsertTypes
<1>5. CASE WakeupStep
  BY <1>5, MaintainTypes, CheckTypes, RecoverTypes DEF WakeupStep
<1>6. ASSUME NEW s \in Session, NEW x \in Section, LeaseExpires(s, x)
      PROVE  StatusesStay
  BY <1>6, ExpiresTypes
<1>7. CASE ProjectReset BY <1>7, ProjectResetTypes
<1> QED BY <1>2, <1>3, <1>4, <1>5, <1>6, <1>7 DEF Next, LauncherStep

\* A status is what it was, or the workstream has just been placed.
LEMMA StatusSteps ==
  ASSUME TypeInv, WakeInv, [Next]_vars
  PROVE  StatusesStay \/ \E s \in Session, x \in Section :
            /\ ws'[s][x].status = "running"
            /\ \A n \in Session, y \in Section : n # s \/ y # x => ws'[n][y] = ws[n][y]
<1>1. UNCHANGED ws => StatusesStay BY DEF StatusesStay
<1>2. First.status = "running" BY FirstStream DEF First
<1>3. ASSUME NEW l \in Launcher, Place(l) \/ LaunchFails(l)
      PROVE  UNCHANGED ws \/ \E s \in Session, x \in Section :
                /\ ws'[s][x].status = "running"
                /\ \A n \in Session, y \in Section : n # s \/ y # x => ws'[n][y] = ws[n][y]
  <2>1. UNCHANGED ws \/ \E x \in Section : Becomes(launcher[l].session, x, First)
    BY <1>3, PlaceForms, FailsForms
  <2>2. launcher[l].session \in Session BY <1>3, PlaceForms, FailsForms
  <2> QED BY <1>2, <2>1, <2>2 DEF Becomes
<1> QED BY <1>1, <1>3, StillOrPlaced

LEMMA MarksStay == TypeInv /\ WakeInv /\ [Next]_vars => disturbed \subseteq disturbed'
<1> SUFFICES ASSUME TypeInv, WakeInv, [Next]_vars PROVE disturbed \subseteq disturbed' OBVIOUS
<1>1. AsideType BY DEF TypeInv
<1>2. ASSUME NEW r \in Runner,
             RunnerStep(r) \/ Refresh(r) \/ Beat(r) \/ Crash(r) \/ Silent(r) \/ TaskReset(r)
      PROVE  disturbed \subseteq disturbed'
  BY <1>1, <1>2, DisturbType
     DEF RunnerStep, Register, Iterate, Finish, Terminate, Refresh, Beat, Crash, Silent, TaskReset
<1>3. ASSUME NEW l \in Launcher, Start(l) \/ LauncherStep(l) \/ LaunchFails(l)
      PROVE  disturbed \subseteq disturbed'
  BY <1>1, <1>3, DisturbType, RecordType
     DEF LauncherStep, Start, Admit, CloseStale, Insert, Place, LaunchFails
<1>4. WakeupStep => disturbed \subseteq disturbed'
  BY <1>1, RecordType
     DEF WakeupStep, Maintain, Check, Again, CloseStale, Recover, NothingToRecover, Candidates,
         Probe, Decide, Block, Count, EndSession, Restart
<1>5. \A s \in Session, x \in Section : LeaseExpires(s, x) => disturbed \subseteq disturbed'
  BY <1>1, DisturbType DEF LeaseExpires
<1>6. ProjectReset => disturbed \subseteq disturbed' BY <1>1, RecordType DEF ProjectReset
<1> QED BY <1>2, <1>3, <1>4, <1>5, <1>6 DEF Next, vars

LEMMA RowsStay ==
  ASSUME TypeInv, WakeInv, [Next]_vars
  PROVE  \A s \in Session, x \in Section : ws[s][x].status # "none" => ws'[s][x].status # "none"
BY StatusSteps DEF StatusesStay

LEMMA SessionsStay ==
  ASSUME TypeInv, WakeInv, [Next]_vars
  PROVE  \A s \in Session : session[s] # "none" => session'[s] # "none"
<1> DEFINE Stay == \A s \in Session : session[s] # "none" => session'[s] # "none"
<1>1. UNCHANGED session => Stay OBVIOUS
<1>2. CloseStale => Stay BY DEF CloseStale
<1>3. ASSUME NEW r \in Runner, TaskReset(r) PROVE Stay
  BY <1>3, TaskResetForms
<1>4. ASSUME NEW l \in Launcher, Insert(l) PROVE Stay
  BY <1>4, InsertForms DEF TypeInv, SessionsType
<1>5. Block \/ EndSession => Stay BY DEF Block, EndSession, TypeInv, SessionsType
<1>6. ProjectReset => Stay BY DEF ProjectReset
<1>7. CASE UNCHANGED vars BY <1>1, <1>7 DEF vars
<1>8. ASSUME NEW r \in Runner,
             RunnerStep(r) \/ Refresh(r) \/ Beat(r) \/ Crash(r) \/ Silent(r) \/ TaskReset(r)
      PROVE  Stay
  BY <1>1, <1>3, <1>8
     DEF RunnerStep, Register, Iterate, Finish, Terminate, Refresh, Beat, Crash, Silent
<1>9. ASSUME NEW l \in Launcher, Start(l) \/ LauncherStep(l) \/ LaunchFails(l) PROVE Stay
  BY <1>1, <1>2, <1>4, <1>9 DEF LauncherStep, Start, Admit, Place, LaunchFails
<1>10. CASE WakeupStep
  BY <1>1, <1>2, <1>5, <1>10
     DEF WakeupStep, Maintain, Check, Again, Recover, NothingToRecover, Candidates, Probe, Decide,
         Count, Restart
<1>11. ASSUME NEW s \in Session, NEW x \in Section, LeaseExpires(s, x) PROVE Stay
  BY <1>1, <1>11 DEF LeaseExpires
<1> QED BY <1>6, <1>7, <1>8, <1>9, <1>10, <1>11 DEF Next

\* Who says that it is there has said so before, or shows up.
NoneAppears ==
    \A q \in Runner : runner'[q].row = "fresh" =>
       runner[q].row = "fresh" /\ runner'[q].session = runner[q].session
       /\ runner'[q].section = runner[q].section

LEMMA MovesAppears ==
  ASSUME TypeInv, NEW r \in Runner, NEW p, Moves(r, p),
         p.row = "fresh" => /\ runner[r].row = "fresh" /\ p.session = runner[r].session
                            /\ p.section = runner[r].section
  PROVE  NoneAppears
BY DEF Moves, NoneAppears

LEMMA Appears ==
  ASSUME TypeInv, WakeInv, [Next]_vars
  PROVE  NoneAppears \/ \E r \in Runner :
            /\ ShowsUp(r) /\ UNCHANGED <<session, launcher>>
            /\ runner'[r].session = runner[r].session /\ runner'[r].section = runner[r].section
            /\ \A q \in Runner \ {r} : runner'[q] = runner[q]
<1> DEFINE Up(r) == /\ ShowsUp(r) /\ UNCHANGED <<session, launcher>>
                    /\ runner'[r].session = runner[r].session
                    /\ runner'[r].section = runner[r].section
                    /\ \A q \in Runner \ {r} : runner'[q] = runner[q]
<1>1. UNCHANGED runner => NoneAppears BY DEF NoneAppears
<1>2. runner \in [Runner -> RunnerRec] BY DEF TypeInv, RunnersType
<1>3. ASSUME NEW r \in Runner, Gone(r) PROVE NoneAppears
  <2>1. NoRunner.row # "fresh" BY DEF NoRunner
  <2> QED BY <1>2, <1>3, <2>1 DEF Gone, NoneAppears
<1>4. ASSUME NEW r \in Runner, NEW pc, runner' = [runner EXCEPT ![r].pc = pc]
      PROVE  NoneAppears
  BY <1>2, <1>4 DEF NoneAppears, RunnerRec
<1>5. ASSUME NEW r \in Runner, RunnerStep(r) \/ Refresh(r) \/ Beat(r) \/ Crash(r) \/ Silent(r) \/ TaskReset(r)
      PROVE  NoneAppears \/ Up(r)
  <2>1. CASE Register(r) BY <1>2, <2>1 DEF Register, RunnerRec
  <2>2. CASE Beat(r) BY <1>2, <2>2 DEF Beat, RunnerRec
  <2>3. CASE Iterate(r)
    <3>1. CASE Gone(r) BY <1>3, <3>1
    <3>2. CASE /\ ShowsUp(r)
               /\ runner' = [runner EXCEPT ![r].pc = "working", ![r].row = "fresh"]
      BY <1>2, <2>3, <3>2 DEF Iterate, RunnerRec
    <3> QED BY <2>3, <3>1, <3>2 DEF Iterate
  <2>4. CASE Silent(r) BY <1>2, <2>4 DEF Silent, NoneAppears, RunnerRec
  <2>5. CASE Finish(r) \/ Terminate(r) \/ Refresh(r)
    BY <1>1, <1>3, <1>4, <2>5 DEF Finish, Terminate, Refresh
  <2>6. CASE Crash(r) \/ TaskReset(r)
    BY <1>3, <1>4, <2>6 DEF Crash, TaskReset
  <2> QED BY <1>5, <2>1, <2>2, <2>3, <2>4, <2>5, <2>6 DEF RunnerStep
<1>6. ASSUME NEW l \in Launcher, Start(l) \/ LauncherStep(l) \/ LaunchFails(l) PROVE NoneAppears
  <2>1. CASE Place(l)
    <3>1. PICK r \in Free, x \in Section : Moves(r, Process(launcher[l].session, x, TRUE))
      BY <2>1, PlaceForms
    <3>2. Process(launcher[l].session, x, TRUE).row # "fresh" BY DEF Process
    <3> QED BY <3>1, <3>2, MovesAppears DEF Free
  <2> QED BY <1>1, <1>6, <2>1 DEF LauncherStep, Start, Admit, Insert, LaunchFails
<1>7. CASE WakeupStep
  <2>1. CASE Maintain
    <3>1. NoRunner.row # "fresh" BY DEF NoRunner
    <3>2. \A q \in Runner : /\ [runner[q] EXCEPT !.row = "none"].row # "fresh"
                            /\ runner'[q] = IF q \notin Abandoned THEN runner[q]
                                            ELSE IF runner[q].pc = "dead" THEN NoRunner
                                            ELSE [runner[q] EXCEPT !.row = "none"]
      BY <1>2, <2>1 DEF Maintain, RunnerRec
    <3> QED BY <3>1, <3>2 DEF NoneAppears
  <2>2. CASE Restart
    <3>1. \A x : Process(wakeup.session, x, FALSE).row # "fresh" BY DEF Process
    <3>2. \A r \in Runner : \/ runner'[r] = runner[r]
                            \/ \E x \in wakeup.restart : runner'[r] = Process(wakeup.session, x, FALSE)
      BY <2>2, RestartRunners
    <3> QED BY <3>1, <3>2 DEF NoneAppears
  <2> QED BY <1>1, <1>7, <2>1, <2>2
          DEF WakeupStep, Check, Again, Recover, Candidates, NothingToRecover, Probe, Decide, Block,
              Count, EndSession
<1>8. CASE UNCHANGED vars BY <1>1, <1>8 DEF vars
<1>9. CASE ProjectReset BY <1>1, <1>9 DEF ProjectReset
<1>10. ASSUME NEW s \in Session, NEW x \in Section, LeaseExpires(s, x) PROVE NoneAppears
  BY <1>1, <1>10 DEF LeaseExpires
<1> QED BY <1>5, <1>6, <1>7, <1>8, <1>9, <1>10 DEF Next

\* How the wakeup goes on.
WakeSteps ==
    \/ OnlyMarked
    \/ wakeup'.pc \in {"idle", "maintained", "recover", "again"} /\ wakeup'.todo \union wakeup'.restart = {}
    \/ \E s \in Session : Candidates(s)
    \/ \E x \in Section : Probe(x) \/ Decide(x)
    \/ /\ wakeup.pc \in Recovering
       /\ wakeup'.pc = "restart" \/ (Count /\ wakeup'.pc \in {"completed", "failed"})
       /\ wakeup'.session = wakeup.session
       /\ wakeup'.todo \subseteq wakeup.todo /\ wakeup'.restart \subseteq wakeup.restart

LEMMA WakeGoes ==
  ASSUME TypeInv, WakeInv, [Next]_vars
  PROVE  WakeSteps
<1>1. wakeup \in WakeRec /\ AsideType BY DEF TypeInv, AsideType
<1>2. UNCHANGED wakeup => OnlyMarked BY DEF OnlyMarked
<1>3. ASSUME NEW r \in Runner,
             RunnerStep(r) \/ Refresh(r) \/ Beat(r) \/ Crash(r) \/ Silent(r) \/ TaskReset(r)
      PROVE  OnlyMarked
  <2>1. UNCHANGED wakeup \/ ShowsUp(r)
    BY <1>3 DEF RunnerStep, Register, Iterate, Finish, Terminate, Refresh, Beat, Crash, Silent, TaskReset
  <2> QED BY <1>1, <1>2, <2>1, ShowsType
<1>4. ASSUME NEW l \in Launcher, Start(l) \/ LauncherStep(l) \/ LaunchFails(l)
      PROVE  UNCHANGED wakeup
  BY <1>4 DEF LauncherStep, Start, Admit, Insert, Place, LaunchFails
<1>5. Resting.pc = "idle" /\ Resting.todo = {} /\ Resting.restart = {} BY DEF Resting
<1>6. \A pc : /\ [Resting EXCEPT !.pc = pc].pc = pc /\ [Resting EXCEPT !.pc = pc].todo = {}
              /\ [Resting EXCEPT !.pc = pc].restart = {}
  BY DEF Resting
<1>7. CASE Maintain \/ Check \/ Again \/ NothingToRecover \/ Restart
  BY <1>5, <1>6, <1>7 DEF Maintain, Check, Again, NothingToRecover, Restart, WakeSteps
<1>8. CASE Block \/ EndSession
  <2>1. CASE GotoRestart
    <3>1. wakeup.pc \in Recovering BY <1>8 DEF Block, EndSession, Recovering
    <3> QED BY <1>1, <2>1, <3>1, GotoRestartType DEF WakeSteps, Recovering
  <2>2. CASE wakeup' = Resting BY <1>5, <2>2 DEF WakeSteps
  <2> QED BY <1>8, <2>1, <2>2 DEF Block, EndSession
<1>9. CASE Count
  <2>1. wakeup.pc \in Recovering BY <1>9 DEF Count, Recovering
  <2>2. CASE GotoRestart BY <1>1, <2>1, <2>2, GotoRestartType DEF WakeSteps, Recovering
  <2>3. ASSUME NEW pc \in {"completed", "failed"}, wakeup' = [wakeup EXCEPT !.pc = pc]
        PROVE  WakeSteps
    <3>1. /\ wakeup'.pc = pc /\ wakeup'.session = wakeup.session
          /\ wakeup'.todo = wakeup.todo /\ wakeup'.restart = wakeup.restart
      BY <1>1, <2>3 DEF WakeRec
    <3> QED BY <1>9, <2>1, <3>1 DEF WakeSteps
  <2> QED BY <1>9, <2>2, <2>3 DEF Count
<1>10. CASE WakeupStep
  BY <1>7, <1>8, <1>9, <1>10 DEF WakeupStep, Recover, WakeSteps
<1>11. ASSUME NEW s \in Session, NEW x \in Section, LeaseExpires(s, x) PROVE OnlyMarked
  BY <1>2, <1>11 DEF LeaseExpires
<1> QED BY <1>2, <1>3, <1>4, <1>10, <1>11 DEF Next, vars, ProjectReset, WakeSteps

LEMMA InitWake == Init => WakeInv
BY DEF Init, WakeInv, Resting, Recovering

LEMMA WakeKept == TypeInv /\ WakeInv /\ [Next]_vars => WakeInv'
<1> SUFFICES ASSUME TypeInv, WakeInv, [Next]_vars PROVE WakeInv' OBVIOUS
<1> DEFINE todo == wakeup.todo \union wakeup.restart
<1>1. wakeup \in WakeRec /\ AsideType BY DEF TypeInv, AsideType
<1>2. todo \subseteq Section /\ (todo # {} => wakeup.session \in Session)
  BY <1>1 DEF WakeInv, WakeRec
<1>3. \A x \in todo : ws'[wakeup.session][x].status # "none" BY <1>2, RowsStay DEF WakeInv
<1>4. wakeup.pc \in Recovering => wakeup.session \in Session /\ session'[wakeup.session] # "none"
  BY SessionsStay DEF WakeInv
<1>5. CASE OnlyMarked
  <2>1. wakeup'.pc = "verdict" /\ ~wakeup'.overtaken =>
           \A x \in Section : Due(x)' => Unattended(wakeup.session, x)'
    <3> SUFFICES ASSUME wakeup'.pc = "verdict", ~wakeup'.overtaken, NEW x \in Section, Due(x)',
                        NEW r \in Runner, runner'[r].row = "fresh",
                        runner'[r].session = wakeup'.session, runner'[r].section = x
                 PROVE  FALSE
      BY DEF Unattended, Alive
    <3>1. wakeup.pc = "verdict" /\ ~wakeup.overtaken /\ Due(x) BY <1>5 DEF OnlyMarked, Due
    <3>2. Unattended(wakeup.session, x) BY <3>1 DEF WakeInv
    <3>3. ~(runner[r].row = "fresh" /\ runner[r].session = wakeup'.session /\ runner[r].section = x)
      BY <1>5, <3>2 DEF Unattended, Alive, OnlyMarked
    <3>4. PICK q \in Runner : /\ ShowsUp(q)
                              /\ runner'[q].session = runner[q].session
                              /\ runner'[q].section = runner[q].section
                              /\ \A o \in Runner \ {q} : runner'[o] = runner[o]
      BY <3>3, Appears DEF NoneAppears
    <3>5. q = r BY <3>3, <3>4
    <3> QED BY <1>1, <1>5, <3>1, <3>4, <3>5, ShowsType DEF OnlyMarked
  <2> QED BY <1>3, <1>4, <1>5, <2>1 DEF OnlyMarked, WakeInv
<1>6. CASE /\ wakeup'.pc \in {"idle", "maintained", "recover", "again"}
           /\ wakeup'.todo \union wakeup'.restart = {}
  BY <1>6 DEF WakeInv, Recovering
<1>7. ASSUME NEW s \in Session, Candidates(s) PROVE WakeInv'
  <2>1. /\ wakeup'.pc = "probe" /\ wakeup'.session = s /\ wakeup'.todo = Lapsed(s)
        /\ wakeup'.restart = {}
    BY <1>7 DEF Candidates, Resting
  <2>2. session'[s] # "none" BY <1>7 DEF Candidates, Active, Ended, Final
  <2>3. \A x \in Lapsed(s) : ws'[s][x].status # "none"
    BY <1>7 DEF Candidates, Lapsed, Running
  <2> QED BY <2>1, <2>2, <2>3 DEF WakeInv, Recovering
<1>8. ASSUME NEW x \in Section, Probe(x) PROVE WakeInv'
  <2>1. CASE wakeup' = After(x)
    <3>1. /\ wakeup'.pc = "probe" /\ wakeup'.session = wakeup.session
          /\ wakeup'.todo \subseteq wakeup.todo /\ wakeup'.restart = wakeup.restart
      BY <1>1, <2>1, AfterType
    <3>2. wakeup.pc \in Recovering BY <1>8 DEF Probe, Recovering
    <3> QED BY <1>3, <1>4, <3>1, <3>2 DEF WakeInv, Recovering
  <2>2. CASE ~Served(wakeup.session, x) /\ wakeup' = [wakeup EXCEPT !.pc = "verdict"]
    <3>1. /\ wakeup'.pc = "verdict" /\ wakeup'.session = wakeup.session
          /\ wakeup'.todo = wakeup.todo /\ wakeup'.restart = wakeup.restart
      BY <1>1, <2>2 DEF WakeRec
    <3>2. wakeup.pc \in Recovering BY <1>8 DEF Probe, Recovering
    <3>3. \A y \in Section : Due(y)' => y = x
      <4>1. Section \subseteq Nat /\ Due(x) /\ wakeup.todo \subseteq Section
        BY <1>1, <1>8, SessionsAssumption DEF Probe, WakeRec
      <4> QED BY <3>1, <4>1 DEF Due
    <3>4. Unattended(wakeup.session, x)' BY <1>8, <2>2, <3>1 DEF Probe, Served, Unattended, Alive
    <3>5. \A y \in Section : Due(y)' => Unattended(wakeup.session, y)' BY <3>1, <3>3, <3>4 DEF Unattended, Alive
    <3> QED BY <1>3, <1>4, <3>1, <3>2, <3>5 DEF WakeInv, Recovering
  <2> QED BY <1>8, <2>1, <2>2 DEF Probe
<1>9. ASSUME NEW x \in Section, Decide(x) PROVE WakeInv'
  <2>1. After(x) \in WakeRec BY <1>1, AfterType
  <2>2. /\ wakeup'.pc = "probe" /\ wakeup'.session = wakeup.session
        /\ wakeup'.todo \subseteq wakeup.todo /\ wakeup'.restart \subseteq wakeup.restart \union {x}
    <3> DEFINE a == After(x)
    <3>1. /\ a \in WakeRec /\ a.pc = "probe" /\ a.session = wakeup.session
          /\ a.todo \subseteq wakeup.todo /\ a.restart = wakeup.restart
      BY <1>1, AfterType
    <3>2. \/ wakeup' = [a EXCEPT !.blocked = TRUE]
          \/ wakeup' = [a EXCEPT !.restart = @ \union {x}]
      BY <1>9 DEF Decide
    <3> HIDE DEF a
    <3> QED BY <3>1, <3>2 DEF WakeRec
  <2>3. wakeup.pc \in Recovering /\ x \in wakeup.todo BY <1>9 DEF Decide, Due, Recovering
  <2> QED BY <1>3, <1>4, <2>2, <2>3 DEF WakeInv, Recovering
<1>10. CASE /\ wakeup.pc \in Recovering /\ wakeup'.pc \in {"restart", "completed", "failed"}
            /\ wakeup'.session = wakeup.session
            /\ wakeup'.todo \subseteq wakeup.todo /\ wakeup'.restart \subseteq wakeup.restart
  BY <1>3, <1>4, <1>10 DEF WakeInv, Recovering
<1> QED BY <1>5, <1>6, <1>7, <1>8, <1>9, <1>10, WakeGoes DEF WakeSteps

LEMMA AllInit == Init => TypeInv /\ WakeInv
BY InitTypes, InitWake

LEMMA AllKept == TypeInv /\ WakeInv /\ [Next]_vars => (TypeInv /\ WakeInv)'
BY TypesKept, WakeKept

-------------------------------------------------------------------------------
(***************************************************************************)
(* Every process that is there has a workstream with a row, and owns no    *)
(* other one: launches, restarts and resets keep the two tables of the     *)
(* global database consistent.                                             *)
(***************************************************************************)
THEOREM TypeCorrect == Spec => []TypeOK
<1>1. TypeInv => TypeOK BY Types
<1> QED BY <1>1, AllInit, AllKept, PTL DEF Spec

-------------------------------------------------------------------------------
(***************************************************************************)
(* A workstream is not given up under a runner that is there for it and    *)
(* says so: closeStaleParallelSessions asks for the runners of the session *)
(* in the statement that gives it up, and what the recovery found before   *)
(* its write is out of date only if a runner has shown up since.  Besides  *)
(* that, only a reset of the project does it.                              *)
(***************************************************************************)
GivenUpUnder(r) ==
    /\ runner[r].pc \in {"ready", "working"} /\ runner[r].row = "fresh"
    /\ Stream(r).status = "running"
    /\ ws'[runner[r].session][runner[r].section].status = "failed"

LEMMA NoneGivenUpUnder ==
  ASSUME TypeInv, WakeInv, [Next]_vars, NEW r \in Runner, GivenUpUnder(r)
  PROVE  wakeup.overtaken \/ "project_reset" \in disturbed' \ disturbed
<1> DEFINE s == runner[r].session
           x == runner[r].section
<1>1. s \in Session /\ x \in Section /\ ws[s][x].status = "running" /\ ws'[s][x].status = "failed"
  BY DEF GivenUpUnder, Stream, TypeInv, RunnersType, ProcessGood
<1>2. ~Unattended(s, x) BY DEF GivenUpUnder, Unattended, Alive
<1> HIDE DEF s, x
<1>3. StatusesStay BY <1>1, StatusSteps
<1> QED BY <1>1, <1>2, <1>3 DEF StatusesStay

THEOREM WorkGoesOn == Spec => NotGivenUpUnderWork
<1>1. TypeInv /\ WakeInv /\ [Next]_vars =>
        [\A r \in Runner :
           /\ runner[r].pc \in {"ready", "working"} /\ runner[r].row = "fresh"
           /\ Stream(r).status = "running"
           /\ ws'[runner[r].session][runner[r].section].status = "failed"
           => wakeup.overtaken \/ "project_reset" \in disturbed' \ disturbed]_vars
  BY NoneGivenUpUnder DEF GivenUpUnder
<1> QED BY <1>1, AllInit, AllKept, PTL DEF Spec, NotGivenUpUnderWork

-------------------------------------------------------------------------------
(* Sessions *)

\* A session becomes active only when no other one is; blocked ones count.
OnlyOneBecomes ==
    \A s \in Session : session[s] \in Final /\ session'[s] \notin Final =>
       \A n \in Session : n # s => session'[n] \in Final

LEMMA CloseSessions ==
  ASSUME TypeInv, CloseStale
  PROVE  \A s \in Session :
            \/ session'[s] = session[s]
            \/ /\ session'[s] = "completed" /\ s \in Active /\ Stale(s)
BY DEF CloseStale

\* What the recovery makes of its session, by then perhaps over.
LEMMA RecoverSessions ==
  ASSUME TypeInv, WakeInv, Block \/ EndSession
  PROVE  \/ UNCHANGED session
         \/ /\ wakeup.session \in Session
            /\ \A n \in Session : n # wakeup.session => session'[n] = session[n]
            /\ \/ /\ session'[wakeup.session] = "blocked_recovery"
                  /\ \A n \in Session : n # wakeup.session => session[n] \in Final
               \/ EndSession /\ session'[wakeup.session] \in {"completed", "failed"}
<1>1. wakeup.session \in Session BY DEF WakeInv, Block, EndSession, Recovering
<1>2. session \in [Session -> States] BY DEF TypeInv, SessionsType
<1>3. CASE EndSession BY <1>1, <1>2, <1>3 DEF EndSession
<1>4. CASE Block BY <1>1, <1>2, <1>4 DEF Block
<1> QED BY <1>3, <1>4

LEMMA SessionSteps ==
  ASSUME TypeInv, WakeInv, [Next]_vars
  PROVE  OnlyOneBecomes
<1>1. UNCHANGED session => OnlyOneBecomes BY DEF OnlyOneBecomes
<1>2. CloseStale => OnlyOneBecomes BY CloseSessions DEF OnlyOneBecomes, Final
<1>3. ASSUME NEW r \in Runner, TaskReset(r) PROVE OnlyOneBecomes
  <2>1. \A n \in Session :
           \/ session'[n] = session[n]
           \/ /\ n = runner[r].session /\ session'[n] = "running"
              /\ \A m \in Session : m # n => session[m] \in Final
    BY <1>3, TaskResetForms
  <2> QED BY <2>1 DEF OnlyOneBecomes, Final
<1>4. ASSUME NEW l \in Launcher, Insert(l) PROVE OnlyOneBecomes
  <2>1. ASSUME Admitted, NEW s \in Session, session' = [session EXCEPT ![s] = "running"]
        PROVE  OnlyOneBecomes
    BY <2>1 DEF Admitted, OnlyOneBecomes, TypeInv, SessionsType
  <2> QED BY <1>1, <1>4, <2>1, InsertForms
<1>5. CASE Block \/ EndSession BY <1>1, <1>5, RecoverSessions DEF OnlyOneBecomes, Final
<1>6. ProjectReset => OnlyOneBecomes BY ProjectResetTypes DEF OnlyOneBecomes, Final
<1>7. CASE UNCHANGED vars BY <1>1, <1>7 DEF vars
<1>8. ASSUME NEW r \in Runner,
             RunnerStep(r) \/ Refresh(r) \/ Beat(r) \/ Crash(r) \/ Silent(r) \/ TaskReset(r)
      PROVE  OnlyOneBecomes
  BY <1>1, <1>3, <1>8
     DEF RunnerStep, Register, Iterate, Finish, Terminate, Refresh, Beat, Crash, Silent
<1>9. ASSUME NEW l \in Launcher, Start(l) \/ LauncherStep(l) \/ LaunchFails(l)
      PROVE  OnlyOneBecomes
  BY <1>1, <1>2, <1>4, <1>9 DEF LauncherStep, Start, Admit, Place, LaunchFails
<1>10. CASE WakeupStep
  BY <1>1, <1>2, <1>5, <1>10
     DEF WakeupStep, Maintain, Check, Again, Recover, NothingToRecover, Candidates, Probe, Decide,
         Count, Restart
<1>11. ASSUME NEW s \in Session, NEW x \in Section, LeaseExpires(s, x) PROVE OnlyOneBecomes
  BY <1>1, <1>11 DEF LeaseExpires
<1> QED BY <1>6, <1>7, <1>8, <1>9, <1>10, <1>11 DEF Next

(***************************************************************************)
(* A repository has one session that is neither over nor given up, whoever *)
(* launches, resets or recovers, and however often.                        *)
(***************************************************************************)
THEOREM OneAtATime == Spec => []OneActiveSession
<1>1. Init => OneActiveSession BY DEF Init, OneActiveSession, Final
<1>2. TypeInv /\ WakeInv /\ OneActiveSession /\ [Next]_vars => OneActiveSession'
  <2> SUFFICES ASSUME TypeInv, WakeInv, OneActiveSession, [Next]_vars,
                      NEW s \in Session, NEW n \in Session,
                      session'[s] \notin Final, session'[n] \notin Final
               PROVE  s = n
    BY DEF OneActiveSession, Final
  <2>1. OnlyOneBecomes BY SessionSteps
  <2> QED BY <2>1 DEF OneActiveSession, OnlyOneBecomes
<1> QED BY <1>1, <1>2, AllInit, AllKept, PTL DEF Spec

-------------------------------------------------------------------------------
(* Workstreams and launches belong to a session that is not over, as long as  *)
(* no session has been ended while its clones were made.                      *)

RunsInActive   == \A s \in Session : Running(s) # {} => session[s] \notin Final
ClonesInActive == \A l \in Launcher :
    launcher[l].pc = "cloning" => session[launcher[l].session] \notin Final

\* The session that the recovery is about to end has no workstream, and gets none.
EndsEmpty == wakeup.pc \in {"completed", "failed"} =>
    wakeup.session \notin Making /\ \A x \in Section : ws[wakeup.session][x].status # "running"

InUse == RunsInActive /\ ClonesInActive /\ EndsEmpty

Calm == "early" \notin disturbed

SessionInv == OneActiveSession /\ (Calm => InUse)

NoneRuns(s) == \A x \in Section : ws'[s][x].status # "running"

LEMMA NotEarly ==
  ASSUME Calm', NEW S, NEW kinds, Early(S) \subseteq kinds, Record(kinds)
  PROVE  S \intersect Making = {}
BY DEF Calm, Early, Record

\* Nothing begins to run, no launch begins to clone, and the sessions in use go on.
LEMMA QuietSessions ==
  ASSUME TypeInv, InUse, StatusesStay,
         \A l \in Launcher : launcher'[l].pc = "cloning" => launcher'[l] = launcher[l],
         \A s \in Session : \/ session[s] \notin Final => session'[s] \notin Final
                            \/ NoneRuns(s) /\ s \notin Making
  PROVE  RunsInActive' /\ ClonesInActive'
<1>1. RunsInActive'
  <2> SUFFICES ASSUME NEW s \in Session, NEW x \in Section, ws'[s][x].status = "running"
               PROVE  session'[s] \notin Final
    BY DEF RunsInActive, Running, Final
  <2>1. ws[s][x].status = "running" BY DEF StatusesStay
  <2>2. session[s] \notin Final BY <2>1 DEF InUse, RunsInActive, Running
  <2> QED BY <2>2 DEF NoneRuns
<1>2. ClonesInActive'
  <2> SUFFICES ASSUME NEW l \in Launcher, launcher'[l].pc = "cloning"
               PROVE  session'[launcher'[l].session] \notin Final
    BY DEF ClonesInActive, Final
  <2>1. launcher[l].pc = "cloning" /\ launcher'[l] = launcher[l] OBVIOUS
  <2>2. launcher[l].session \in Session BY <2>1 DEF TypeInv, LaunchesType, LaunchGood
  <2>3. session[launcher[l].session] \notin Final /\ launcher[l].session \in Making
    BY <2>1 DEF InUse, ClonesInActive, Making
  <2> QED BY <2>1, <2>2, <2>3
<1> QED BY <1>1, <1>2

\* A session that is closed has no workstream left to run.
LEMMA ClosedHasNone ==
  ASSUME TypeInv, CloseStale, NEW s \in Session, s \in Active, Stale(s)
  PROVE  NoneRuns(s)
<1> SUFFICES ASSUME NEW x \in Section, ws'[s][x].status = "running" PROVE FALSE
  BY DEF NoneRuns
<1>1. ws[s][x] \in StreamRec BY DEF TypeInv, StreamsType
<1>2. GivenUp(ws[s][x]).status = "failed" BY <1>1, StreamForms
<1>3. ws'[s][x] = IF x \in Orphaned(s) THEN GivenUp(ws[s][x]) ELSE ws[s][x] BY DEF CloseStale
<1>4. x \notin Orphaned(s) /\ x \in Running(s) BY <1>2, <1>3 DEF Running
<1> QED BY <1>4 DEF Stale

LEMMA ClosesKept ==
  ASSUME TypeInv, InUse, Calm', StatusesStay, CloseStale,
         \A l \in Launcher : launcher'[l].pc = "cloning" => launcher'[l] = launcher[l]
  PROVE  RunsInActive' /\ ClonesInActive'
<1> DEFINE ended == {s \in Active : Stale(s)}
<1>1. Record(Early(ended)) BY DEF CloseStale
<1>2. ended \intersect Making = {} BY <1>1, NotEarly
<1>3. ASSUME NEW s \in Session
      PROVE  \/ session[s] \notin Final => session'[s] \notin Final
             \/ NoneRuns(s) /\ s \notin Making
  BY <1>2, CloseSessions, ClosedHasNone
<1> HIDE DEF ended
<1> QED BY <1>3, QuietSessions

\* A step that leaves the sessions alone.
LEMMA SessionsAlone ==
  ASSUME TypeInv, InUse, StatusesStay, UNCHANGED session,
         \A l \in Launcher : launcher'[l].pc = "cloning" => launcher'[l] = launcher[l]
  PROVE  RunsInActive' /\ ClonesInActive'
BY QuietSessions

LEMMA RunnersKeep ==
  ASSUME TypeInv, InUse, NEW r \in Runner,
         RunnerStep(r) \/ Refresh(r) \/ Beat(r) \/ Crash(r) \/ Silent(r) \/ TaskReset(r)
  PROVE  RunsInActive' /\ ClonesInActive'
<1>1. UNCHANGED launcher
  BY DEF RunnerStep, Register, Iterate, Finish, Terminate, Refresh, Beat, Crash, Silent, TaskReset
<1>2. StatusesStay
  <2>1. Register(r) \/ Finish(r) \/ Silent(r) \/ Beat(r) => StatusesStay
    BY DEF Register, Finish, Silent, Beat, StatusesStay
  <2> QED BY <2>1, TerminateTypes, CrashTypes, RefreshTypes, IterateTypes, TaskResetForms
          DEF RunnerStep
<1>3. CASE TaskReset(r)
  <2>1. \A s \in Session : session[s] \notin Final => session'[s] \notin Final
    BY <1>3, TaskResetForms DEF Final
  <2> QED BY <1>1, <1>2, <2>1, QuietSessions
<1>4. CASE UNCHANGED session BY <1>1, <1>2, <1>4, SessionsAlone
<1> QED BY <1>3, <1>4
    DEF RunnerStep, Register, Iterate, Finish, Terminate, Refresh, Beat, Crash, Silent

\* The first session in use is the new one.
LEMMA InsertKeeps ==
  ASSUME TypeInv, InUse, NEW l \in Launcher, Insert(l)
  PROVE  RunsInActive' /\ ClonesInActive'
<1>1. \A k \in Launcher \ {l} : launcher'[k] = launcher[k] BY InsertForms
<1>2. StatusesStay BY InsertTypes
<1>3. CASE UNCHANGED session /\ launcher'[l].pc # "cloning"
  BY <1>1, <1>2, <1>3, SessionsAlone
<1>4. ASSUME Admitted, NEW s \in Session, session' = [session EXCEPT ![s] = "running"],
             launcher'[l].pc = "cloning", launcher'[l].session = s
      PROVE  RunsInActive' /\ ClonesInActive'
  <2>1. session'[s] = "running" BY <1>4 DEF TypeInv, SessionsType
  <2>2. \A n \in Session : session[n] \in Final BY <1>4 DEF Admitted
  <2>3. RunsInActive'
    <3>1. \A n \in Session : Running(n) = {} BY <2>2 DEF InUse, RunsInActive
    <3>2. \A n \in Session, x \in Section : ws'[n][x].status # "running"
      BY <1>2, <3>1 DEF StatusesStay, Running
    <3> QED BY <3>2 DEF RunsInActive, Running
  <2>4. ClonesInActive'
    <3>1. \A k \in Launcher : launcher[k].pc # "cloning"
      BY <2>2 DEF InUse, ClonesInActive, TypeInv, LaunchesType, LaunchGood
    <3> QED BY <1>1, <1>4, <2>1, <3>1 DEF ClonesInActive, Final
  <2> QED BY <2>3, <2>4
<1> QED BY <1>3, <1>4, InsertForms

\* Workstreams are placed in the session of a launch.
LEMMA PlacesKeep ==
  ASSUME TypeInv, InUse, NEW l \in Launcher, Place(l) \/ LaunchFails(l)
  PROVE  RunsInActive' /\ ClonesInActive'
<1> DEFINE s == launcher[l].session
<1>1. launcher[l].pc = "cloning" /\ s \in Session BY PlaceForms, FailsForms
<1>2. session' = session BY DEF Place, LaunchFails
<1>3. session[s] \notin Final BY <1>1 DEF InUse, ClonesInActive
<1>4. UNCHANGED ws \/ \E x \in Section : Becomes(s, x, First) BY PlaceForms, FailsForms
<1>5. \A n \in Session, x \in Section : n = s \/ ws'[n][x] = ws[n][x]
  BY <1>4 DEF Becomes
<1>6. RunsInActive' BY <1>2, <1>3, <1>5 DEF InUse, RunsInActive, Running
<1>7. \A k \in Launcher \ {l} : launcher'[k] = launcher[k] BY PlaceForms, FailsForms
<1>8. launcher'[l].pc = "cloning" => launcher'[l].session = s BY PlaceForms, FailsForms
<1>9. ClonesInActive' BY <1>2, <1>3, <1>7, <1>8 DEF InUse, ClonesInActive
<1> QED BY <1>6, <1>9

LEMMA LaunchersKeep ==
  ASSUME TypeInv, InUse, Calm', NEW l \in Launcher, Start(l) \/ LauncherStep(l) \/ LaunchFails(l)
  PROVE  RunsInActive' /\ ClonesInActive'
<1>1. CASE Start(l)
  <2>1. \A k \in Launcher : launcher'[k] = launcher[k] \/ launcher'[k].pc # "cloning"
    BY <1>1, BeginType DEF Start, TypeInv
  <2>2. StatusesStay /\ UNCHANGED session BY <1>1, StartTypes DEF Start
  <2> QED BY <2>1, <2>2, SessionsAlone
<1>2. CASE Admit(l)
  <2>1. CloseStale BY <1>2 DEF Admit
  <2>2. \A k \in Launcher : launcher'[k].pc = "cloning" => launcher'[k] = launcher[k]
    BY <1>2, GoesOn DEF Admit, TypeInv
  <2>3. StatusesStay BY <1>2, AdmitTypes
  <2> QED BY <2>1, <2>2, <2>3, ClosesKept
<1> QED BY <1>1, <1>2, InsertKeeps, PlacesKeep DEF LauncherStep

LEMMA WakeupKeeps ==
  ASSUME TypeInv, WakeInv, InUse, Calm', WakeupStep
  PROVE  RunsInActive' /\ ClonesInActive'
<1>1. StatusesStay BY MaintainTypes, CheckTypes, RecoverTypes DEF WakeupStep
<1>2. CASE Check \/ Again
  <2>1. UNCHANGED launcher \/ StartRunner BY <1>2 DEF Check, Again
  <2>2. \A l \in Launcher : launcher'[l].pc = "cloning" => launcher'[l] = launcher[l]
    BY <2>1, StartType DEF TypeInv
  <2>3. CloseStale \/ UNCHANGED session BY <1>2 DEF Check, Again
  <2> QED BY <1>1, <2>2, <2>3, ClosesKept, SessionsAlone
<1>3. CASE Block \/ EndSession
  <2>1. UNCHANGED launcher BY <1>3 DEF Block, EndSession
  <2>2. EndSession => NoneRuns(wakeup.session) /\ wakeup.session \notin Making
    BY DEF EndSession, InUse, EndsEmpty, NoneRuns
  <2>3. ASSUME NEW s \in Session
        PROVE  \/ session[s] \notin Final => session'[s] \notin Final
               \/ NoneRuns(s) /\ s \notin Making
    BY <1>3, <2>2, RecoverSessions DEF Final
  <2> QED BY <1>1, <2>1, <2>3, QuietSessions
<1>4. CASE UNCHANGED <<session, launcher>> BY <1>1, <1>4, SessionsAlone
<1> QED BY <1>2, <1>3, <1>4
        DEF WakeupStep, Maintain, Recover, NothingToRecover, Candidates, Probe, Decide, Count, Restart

LEMMA ProjectResetKeeps ==
  ASSUME TypeInv, InUse, Calm', ProjectReset
  PROVE  RunsInActive' /\ ClonesInActive'
<1> DEFINE ended == {s \in Session : session[s] = "running"}
<1>1. /\ StatusesStay /\ \A s \in Session : NoneRuns(s)
      /\ \A s \in Session : session'[s] = IF session[s] = "running" THEN "failed" ELSE session[s]
  BY ProjectResetTypes DEF NoneRuns
<1>2. Record({"project_reset"} \union Early(ended)) /\ UNCHANGED launcher BY DEF ProjectReset
<1>3. ended \intersect Making = {}
  <2> HIDE DEF ended
  <2> QED BY <1>2, NotEarly
<1>4. \A s \in Session : \/ session[s] \notin Final => session'[s] \notin Final
                         \/ NoneRuns(s) /\ s \notin Making
  BY <1>1, <1>3
<1> HIDE DEF ended
<1> QED BY <1>1, <1>2, <1>4, QuietSessions

-------------------------------------------------------------------------------
(* What a launch adds to a session *)

\* A workstream begins to run in a session whose clones are made.
LEMMA RunsFrom ==
  ASSUME TypeInv, WakeInv, [Next]_vars, NEW s \in Session, NEW x \in Section,
         ws'[s][x].status = "running"
  PROVE  ws[s][x].status = "running" \/ s \in Making
<1>1. CASE StatusesStay BY <1>1 DEF StatusesStay
<1>2. ASSUME NEW l \in Launcher, Place(l) \/ LaunchFails(l)
      PROVE  ws[s][x].status = "running" \/ s \in Making
  <2>1. launcher[l].session \in Making BY <1>2, PlaceForms, FailsForms DEF Making
  <2>2. UNCHANGED ws \/ \E y \in Section : Becomes(launcher[l].session, y, First)
    BY <1>2, PlaceForms, FailsForms
  <2> QED BY <2>1, <2>2 DEF Becomes
<1> QED BY <1>1, <1>2, StillOrPlaced

\* A launch makes the clones of the session whose row it has inserted, and of no other.
LEMMA MakesFrom ==
  ASSUME TypeInv, WakeInv, [Next]_vars, NEW s \in Making'
  PROVE  s \in Making \/ (s \in Session /\ session[s] = "none")
<1>1. PICK l \in Launcher : launcher'[l].pc = "cloning" /\ launcher'[l].session = s BY DEF Making
<1>2. CASE launcher'[l] = launcher[l] BY <1>1, <1>2 DEF Making
<1>3. ASSUME NEW k \in Launcher, Insert(k)
      PROVE  s \in Making \/ (s \in Session /\ session[s] = "none")
  BY <1>1, <1>2, <1>3, InsertForms
<1>4. ASSUME NEW k \in Launcher, Place(k) \/ LaunchFails(k)
      PROVE  s \in Making \/ (s \in Session /\ session[s] = "none")
  BY <1>1, <1>2, <1>4, PlaceForms, FailsForms DEF Making
<1>5. ASSUME NEW k \in Launcher, Start(k) \/ Admit(k)
      PROVE  s \in Making \/ (s \in Session /\ session[s] = "none")
  BY <1>1, <1>2, <1>5, BeginType, GoesOn DEF Start, Admit, TypeInv
<1>6. CASE UNCHANGED launcher BY <1>2, <1>6
<1>7. CASE StartRunner BY <1>1, <1>2, <1>7, StartType DEF TypeInv
<1>8. ASSUME NEW r \in Runner,
             RunnerStep(r) \/ Refresh(r) \/ Beat(r) \/ Crash(r) \/ Silent(r) \/ TaskReset(r)
      PROVE  UNCHANGED launcher
  BY <1>8
     DEF RunnerStep, Register, Iterate, Finish, Terminate, Refresh, Beat, Crash, Silent, TaskReset
<1>9. WakeupStep => UNCHANGED launcher \/ StartRunner
  BY DEF WakeupStep, Maintain, Check, Again, Recover, NothingToRecover, Candidates, Probe, Decide,
         Block, Count, EndSession, Restart
<1>10. \A n \in Session, x \in Section : LeaseExpires(n, x) => UNCHANGED launcher
  BY DEF LeaseExpires
<1>11. ProjectReset \/ UNCHANGED vars => UNCHANGED launcher BY DEF ProjectReset, vars
<1> QED BY <1>3, <1>4, <1>5, <1>6, <1>7, <1>8, <1>9, <1>10, <1>11 DEF Next, LauncherStep

LEMMA EndsKept ==
  ASSUME TypeInv, WakeInv, EndsEmpty, Calm', [Next]_vars
  PROVE  EndsEmpty'
<1> SUFFICES ASSUME wakeup'.pc \in {"completed", "failed"}
             PROVE  /\ wakeup'.session \notin Making'
                    /\ \A x \in Section : ws'[wakeup'.session][x].status # "running"
  BY DEF EndsEmpty, Making
<1> DEFINE s == wakeup'.session
<1>1. s \in Session /\ session'[s] # "none" BY WakeKept DEF WakeInv, Recovering
<1>2. (OnlyMarked \/ Count) /\ s = wakeup.session
  <2>1. \A t \in Session : ~Candidates(t) BY DEF Candidates, Resting
  <2>2. \A x \in Section : ~Probe(x) /\ ~Decide(x)
    <3>1. wakeup \in WakeRec /\ AsideType BY DEF TypeInv, AsideType
    <3> QED BY <3>1, AfterType DEF Probe, Decide, WakeRec
  <2> QED BY <2>1, <2>2, WakeGoes DEF WakeSteps, OnlyMarked
<1> HIDE DEF s
<1>3. s \notin Making /\ \A x \in Section : ws[s][x].status # "running"
  <2>1. CASE OnlyMarked BY <1>2, <2>1 DEF OnlyMarked, EndsEmpty
  <2>2. CASE Count
    <3>1. ~GotoRestart BY GotoRestartType DEF TypeInv
    <3>2. Running(s) = {} /\ Record(Early({s})) BY <1>2, <2>2, <3>1 DEF Count
    <3>3. {s} \intersect Making = {} BY <3>2, NotEarly
    <3> QED BY <3>2, <3>3 DEF Running
  <2> QED BY <1>2, <2>1, <2>2
<1>4. session[s] # "none" BY <1>2, <1>3, WakeGoes DEF WakeInv, Recovering, OnlyMarked, Count
<1>5. s \notin Making' BY <1>3, <1>4, MakesFrom
<1>6. \A x \in Section : ws'[s][x].status # "running" BY <1>1, <1>3, RunsFrom
<1> QED BY <1>5, <1>6 DEF s

LEMMA SessionsKept == TypeInv /\ WakeInv /\ SessionInv /\ [Next]_vars => SessionInv'
<1> SUFFICES ASSUME TypeInv, WakeInv, SessionInv, [Next]_vars PROVE SessionInv' OBVIOUS
<1>1. OneActiveSession' BY SessionSteps DEF SessionInv, OneActiveSession, OnlyOneBecomes
<1>2. ASSUME Calm' PROVE InUse'
  <2>1. InUse BY <1>2, MarksStay DEF SessionInv, Calm
  <2>2. ASSUME UNCHANGED vars PROVE RunsInActive' /\ ClonesInActive'
    BY <2>1, <2>2 DEF vars, InUse, RunsInActive, ClonesInActive, Running
  <2>3. ASSUME NEW s \in Session, NEW x \in Section, LeaseExpires(s, x)
        PROVE  RunsInActive' /\ ClonesInActive'
    BY <2>1, <2>3, ExpiresTypes, SessionsAlone DEF LeaseExpires
  <2>4. RunsInActive' /\ ClonesInActive'
    BY <1>2, <2>1, <2>2, <2>3, RunnersKeep, LaunchersKeep, WakeupKeeps, ProjectResetKeeps DEF Next
  <2>5. EndsEmpty' BY <1>2, <2>1, EndsKept DEF InUse
  <2> QED BY <2>4, <2>5 DEF InUse
<1> QED BY <1>1, <1>2 DEF SessionInv

(***************************************************************************)
(* The workstreams that run are those of one session, unless some session  *)
(* is ended while its clones are made: a session is not closed, nor given  *)
(* up, nor the next one admitted, as long as one of its workstreams runs   *)
(* or is still to be placed.  The recovery counts the workstreams of a     *)
(* session in one statement and ends it in another, and none is added in   *)
(* between.                                                                *)
(***************************************************************************)
THEOREM OneSessionAtWork == Spec => []OneSessionRuns
<1>1. Init => SessionInv
  BY DEF Init, SessionInv, OneActiveSession, InUse, RunsInActive, ClonesInActive, EndsEmpty,
         Running, Final, NoStream, NotStarted, Resting
<1>2. SessionInv => OneSessionRuns
  BY DEF SessionInv, OneActiveSession, Calm, InUse, RunsInActive, OneSessionRuns, OneSessionAtOnce
<1> QED BY <1>1, <1>2, SessionsKept, AllInit, AllKept, PTL DEF Spec

===============================================================================
