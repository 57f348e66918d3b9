------------------------ MODULE UsageLimitWaitProofs ------------------------
(***************************************************************************)
(* Proofs about UsageLimitWait: its invariants, for any number of inputs,  *)
(* faults and waits, and that only new input ends a wait early.            *)
(***************************************************************************)
EXTENDS UsageLimitWait, WellFoundedInduction, TLAPS

-----------------------------------------------------------------------------
(* The inductive invariant. *)

Open == {m \in Plain : m > committed}

\* A host that is down has neither timers nor runners nor tasks.
DownIsEmpty == ~up => ~timer.armed /\ runner = "none" /\ handling = {} /\ ~wake

\* A turn that runs, or has just hit the limit, answers some input.
TurnsServe == runner \in {"busy", "walled"} => batch \cup piped # {}

\* The timer is armed exactly while a parked lane waits under a running host.
TimerHolds ==
    /\ timer.armed => up /\ Waiting /\ runner # "walled" /\ timer.left = wait.left
    /\ up /\ Waiting /\ runner # "walled" => timer.armed

\* Behind a runner that goes nothing is open; without one a task will read it.
LaneRests ==
    /\ Waiting => runner \in {"none", "walled", "dying"}
    /\ Waiting /\ runner = "dying" => Open = {}
    /\ up /\ Waiting /\ runner = "none" /\ Open # {} => wake

\* The row has counted every wait in a row; nobody waits for an empty queue.
CountHolds ==
    /\ inARow <= wait.count
    /\ Waiting /\ runner # "walled" /\ Queued = {} => inARow = 0

\* What had arrived when the lane was parked is not open while it waits.
HeldIsParked ==
    /\ \A m \in held : status[m] # "absent"
    /\ runner = "walled" => held = {}
    /\ Waiting => held \cap Open = {}

WaitInv == /\ TypeOK /\ DownIsEmpty /\ TurnsServe /\ TimerHolds /\ LaneRests
           /\ CountHolds /\ HeldIsParked

-----------------------------------------------------------------------------
(* What the helpers return. *)

Statuses == {"absent", "plain", "queued", "done", "cancelled"}
Lefts == 0..(MaxWait + Grace)
Waits == [state : {"none", "waiting", "resumed"}, count : 0..MaxWaits, left : Lefts]
Timers == [armed : BOOLEAN, delay : 0..MaxDelay, left : Lefts]

\* A nonempty set of numbers up to n has a largest member, and Max is it.
LEMMA MaxIs ==
    ASSUME NEW n \in Nat, NEW S \in SUBSET (0..n), S # {}
    PROVE  Max(S) \in S
<1> DEFINE T == {n - x : x \in S}
<1>1. T \subseteq Nat /\ T # {}
  <2>1. \A x \in S : x \in Nat /\ x <= n /\ n - x \in Nat
    OBVIOUS
  <2>2. PICK x \in S : TRUE
    OBVIOUS
  <2>3. n - x \in T
    BY <2>2
  <2> QED BY <2>1, <2>3
<1>2. PICK t \in T : \A u \in T : ~(<<u, t>> \in OpToRel(<, Nat))
  <2> HIDE DEF T
  <2> QED BY <1>1, NatLessThanWellFounded, WFMin
<1>3. PICK x \in S : t = n - x
  OBVIOUS
<1>4. ASSUME NEW y \in S PROVE y <= x
  <2>1. n - y \in T /\ n - y \in Nat /\ t \in Nat
    BY <1>1
  <2>2. ~(n - y < t)
    BY <1>2, <2>1 DEF OpToRel
  <2> QED BY <1>3, <2>2
<1> QED BY <1>4 DEF Max

\* A commit moves the cursor to an input, if at all.
LEMMA CommitIs ==
    ASSUME NEW st, committed \in 0..MaxInputs
    PROVE  CommitPoint(st) \in 0..MaxInputs
<1> DEFINE S == {committed} \cup
                {m \in Inputs : st[m] = "done" /\ \A p \in Inputs : committed < p /\ p <= m => st[p] # "plain"}
<1>1. S \in SUBSET (0..MaxInputs) /\ S # {}
  BY InputsAssumption DEF Inputs
<1>2. CommitPoint(st) = Max(S)
  BY DEF CommitPoint
<1> HIDE DEF S
<1> QED BY <1>1, <1>2, MaxIs, InputsAssumption

\* A timer is armed for the moment it is asked for, its delay bounded.
LEMMA ArmedIs ==
    ASSUME NEW left \in Lefts
    PROVE  Armed(left) \in Timers /\ Armed(left).armed /\ Armed(left).left = left
BY TimeAssumption DEF Armed, Timers, Lefts

\* Whatever ends a wait leaves no timer, and forgets the count unless input did.
LEMMA EndWaitIs ==
    ASSUME TypeOK, TimerHolds, NEW reason, EndWait(reason)
    PROVE  /\ wait' \in Waits /\ wait'.state # "waiting" /\ wait'.left = 0
           /\ timer' \in Timers /\ ~timer'.armed
           /\ wait'.count = IF reason = "new_input" THEN wait.count ELSE 0
<1>1. wait \in Waits /\ timer \in Timers
  BY DEF TypeOK, Waits, Timers, Lefts
<1>2. NoWait \in Waits /\ NoTimer \in Timers
  BY TimeAssumption, BudgetAssumption DEF NoWait, NoTimer, Waits, Timers, Lefts
<1>3. timer' \in Timers /\ ~timer'.armed
  <2>1. CASE wait.state = "none"
    BY <1>1, <2>1 DEF EndWait, TimerHolds, Waiting
  <2>2. CASE wait.state # "none"
    BY <1>2, <2>2 DEF EndWait, Disarmed, NoTimer
  <2> QED BY <2>1, <2>2
<1>4. CASE reason = "new_input"
  BY <1>1, <1>3, <1>4, TimeAssumption DEF EndWait, Resumed, Waiting, Waits, Lefts, TypeOK
<1>5. CASE reason # "new_input"
  BY <1>2, <1>3, <1>5 DEF EndWait, NoWait
<1> QED BY <1>4, <1>5

\* Rows change their status, and nothing becomes one that never arrived.
LEMMA MovedIs ==
    ASSUME status \in [Inputs -> Statuses], NEW set, NEW to \in Statuses \ {"absent"}
    PROVE  /\ Moved(set, to) \in [Inputs -> Statuses]
           /\ \A m \in Inputs : status[m] # "absent" => Moved(set, to)[m] # "absent"
           /\ \A m \in Inputs : Moved(set, to)[m] = IF m \in set THEN to ELSE status[m]
BY DEF Moved, Statuses

\* When nobody waits, the rest of the invariant is about the timer and the count.
LEMMA NobodyWaits ==
    ASSUME TypeOK', DownIsEmpty', TurnsServe', wait'.state # "waiting", ~timer'.armed,
           inARow' <= wait'.count, \A m \in held' : status'[m] # "absent",
           runner' = "walled" => held' = {}
    PROVE  WaitInv'
BY DEF WaitInv, TimerHolds, LaneRests, CountHolds, HeldIsParked, Waiting

-----------------------------------------------------------------------------
(* Initially, and step by step. *)

LEMMA InitInv == Init => WaitInv
<1> SUFFICES ASSUME Init PROVE WaitInv
  OBVIOUS
<1>1. /\ wait \in Waits /\ timer \in Timers /\ wait.state = "none" /\ ~timer.armed
      /\ wait.left = 0 /\ wait.count = 0
  BY TimeAssumption, BudgetAssumption DEF Init, NoWait, NoTimer, Waits, Timers, Lefts
<1>2. status \in [Inputs -> Statuses]
  BY DEF Init, Statuses
<1>3. /\ committed = 0 /\ batch = {} /\ piped = {} /\ handling = {} /\ held = {} /\ stranded = {}
      /\ runner = "none" /\ wake = FALSE /\ up = TRUE /\ inARow = 0 /\ faults = 0
  BY DEF Init
<1>4. TypeOK
  <2>1. wake \in BOOLEAN /\ up \in BOOLEAN
    BY <1>3
  <2>2. committed \in 0..MaxInputs /\ faults \in 0..MaxFaults /\ inARow \in Nat
    BY <1>3, InputsAssumption, FaultsAssumption
  <2>3. /\ batch \subseteq Inputs /\ piped \subseteq Inputs /\ handling \subseteq Inputs
        /\ held \subseteq Inputs /\ stranded \subseteq Inputs
    BY <1>3
  <2> QED
    BY <1>1, <1>2, <1>3, <2>1, <2>2, <2>3 DEF TypeOK, Waits, Timers, Lefts, Statuses
<1> QED
  BY <1>1, <1>3, <1>4 DEF WaitInv, DownIsEmpty, TurnsServe, TimerHolds, LaneRests,
     CountHolds, HeldIsParked, Waiting

LEMMA TickStep == WaitInv /\ Tick => WaitInv'
<1> SUFFICES ASSUME WaitInv, Tick PROVE WaitInv'
  OBVIOUS
<1> USE DEF WaitInv
<1>1. wait' \in Waits /\ wait'.state = wait.state /\ wait'.count = wait.count
      /\ wait'.left = Minus1(wait.left)
  BY TimeAssumption DEF Tick, TypeOK, Waits, Lefts, Minus1
<1>2. timer' \in Timers /\ timer'.armed = timer.armed /\ timer'.left = Minus1(timer.left)
  BY TimeAssumption DEF Tick, TypeOK, Timers, Lefts, Minus1
<1>3. UNCHANGED <<rows, lane, hist, faults>>
  BY DEF Tick
<1>4. TypeOK'
  BY <1>1, <1>2, <1>3 DEF TypeOK, Minus1, Waits, Timers, Lefts, rows, lane, hist
<1> QED
  BY <1>1, <1>2, <1>3, <1>4
  DEF DownIsEmpty, TurnsServe, TimerHolds, LaneRests, CountHolds, HeldIsParked, Waiting,
      Queued, Open, Plain, rows, lane, hist

\* An input that arrives while the lane waits goes to the queue or has a task.
LEMMA ArrivalStep ==
    ASSUME NEW m \in Inputs, WaitInv, ArriveQueued(m) \/ ArriveFromWeb(m) \/ Arrive(m)
    PROVE  WaitInv'
<1> USE DEF WaitInv
<1>1. status \in [Inputs -> Statuses] /\ status[m] = "absent" /\ up
  BY DEF TypeOK, Statuses, ArriveQueued, ArriveFromWeb, Arrive, Arrives
<1>2. UNCHANGED <<committed, wait, timer, batch, up, inARow, held, stranded, faults>>
  BY DEF ArriveQueued, ArriveFromWeb, Arrive, Arrives, hist
<1>3. PICK to \in {"plain", "queued"} : status' = Moved({m}, to)
  BY Zenon DEF ArriveQueued, ArriveFromWeb, Arrive
<1>4. /\ status' \in [Inputs -> Statuses]
      /\ \A k \in Inputs : status[k] # "absent" => status'[k] # "absent"
      /\ \A k \in Inputs : status'[k] = IF k = m THEN to ELSE status[k]
  BY <1>1, <1>3, MovedIs DEF Statuses
<1>5. /\ runner' \in {runner, "busy"} /\ piped' \subseteq Inputs /\ handling' \subseteq Inputs
      /\ wake' \in {wake, TRUE} /\ (runner' # runner => runner = "idle" /\ piped' # {})
      /\ piped \subseteq piped'
  BY DEF ArriveQueued, ArriveFromWeb, Arrive, Readable, Plain, TypeOK
<1>6. TypeOK'
  BY <1>2, <1>4, <1>5 DEF TypeOK, Statuses, ArriveQueued, ArriveFromWeb, Arrive
<1>7. DownIsEmpty' /\ TurnsServe' /\ TimerHolds'
  BY <1>1, <1>2, <1>5 DEF DownIsEmpty, TurnsServe, TimerHolds, Waiting, LaneRests
<1>8. LaneRests'
  <2>1. CASE ArriveQueued(m)
    <3>1. status' = Moved({m}, "queued") /\ UNCHANGED <<runner, wake>>
      BY <2>1 DEF ArriveQueued
    <3>2. \A k \in Inputs : status'[k] = IF k = m THEN "queued" ELSE status[k]
      BY <1>1, <3>1, MovedIs DEF Statuses
    <3>3. Open' \subseteq Open
      BY <1>2, <3>2 DEF Open, Plain
    <3> QED BY <1>1, <1>2, <3>1, <3>3 DEF LaneRests, Waiting
  <2>2. CASE runner = "idle"
    BY <1>2, <2>2 DEF LaneRests, Waiting
  <2>3. CASE Arrive(m) /\ runner # "idle"
    BY <1>1, <1>2, <2>3 DEF LaneRests, Waiting, Arrive, InQuery
  <2> QED BY <2>1, <2>2, <2>3 DEF ArriveFromWeb
<1>9. CountHolds'
  BY <1>1, <1>2, <1>4, <1>5 DEF CountHolds, Waiting, Queued, LaneRests
<1>10. HeldIsParked'
  BY <1>1, <1>2, <1>4, <1>5 DEF HeldIsParked, Waiting, Open, Plain, TypeOK
<1> QED BY <1>6, <1>7, <1>8, <1>9, <1>10

LEMMA PassOnStep ==
    ASSUME NEW m \in Inputs, WaitInv, PassOn(m)
    PROVE  WaitInv'
<1> USE DEF WaitInv
<1>1. UNCHANGED <<status, committed, wait, timer, batch, up, inARow, held, stranded, faults>>
  BY DEF PassOn, rows, hist
<1>2. up
  BY DEF PassOn, DownIsEmpty
<1>3. TypeOK'
  BY <1>1 DEF TypeOK, PassOn
<1>4. DownIsEmpty' /\ TurnsServe' /\ TimerHolds'
  BY <1>1, <1>2 DEF DownIsEmpty, TurnsServe, TimerHolds, Waiting, LaneRests, PassOn
<1>5. LaneRests' /\ CountHolds' /\ HeldIsParked'
  BY <1>1, <1>2 DEF LaneRests, CountHolds, HeldIsParked, Waiting, PassOn, Open, Plain, Queued
<1> QED BY <1>3, <1>4, <1>5

\* A timer that fires too early is armed again; otherwise the wait is over.
LEMMA TimerStep == WaitInv /\ TimerFires => WaitInv'
<1> SUFFICES ASSUME WaitInv, TimerFires PROVE WaitInv'
  OBVIOUS
<1> USE DEF WaitInv
<1>1. /\ UNCHANGED <<committed, batch, piped, handling, runner, up, inARow, held, stranded, faults>>
      /\ up /\ timer.armed /\ Waiting /\ runner # "walled" /\ timer.left = wait.left
  BY DEF TimerFires, TimerHolds, hist
<1>2. wait \in Waits /\ timer.left \in Lefts /\ status \in [Inputs -> Statuses]
  BY DEF TypeOK, Waits, Lefts, Statuses
<1>3. CASE timer.left > 0
  <2>1. timer' = Armed(timer.left) /\ UNCHANGED <<status, wait, wake>>
    BY <1>3 DEF TimerFires
  <2>2. timer' \in Timers /\ timer'.armed /\ timer'.left = timer.left
    BY <1>2, <2>1, ArmedIs
  <2>3. TypeOK'
    BY <1>1, <2>1, <2>2 DEF TypeOK, Timers, Lefts
  <2> QED
    BY <1>1, <2>1, <2>2, <2>3
    DEF DownIsEmpty, TurnsServe, TimerHolds, LaneRests, CountHolds, HeldIsParked, Waiting,
        Queued, Open, Plain
<1>4. CASE ~(timer.left > 0)
  <2>1. Resume
    BY <1>4 DEF TimerFires
  <2>2. timer' \in Timers /\ ~timer'.armed
    BY <2>1, TimeAssumption DEF Resume, Disarmed, NoTimer, Timers, Lefts
  <2>3. wait' \in Waits /\ wait'.state # "waiting" /\ wait'.left = 0 /\ inARow <= wait'.count
    <3>1. CASE Queued = {}
      BY <1>1, <2>1, <3>1, TimeAssumption, BudgetAssumption
      DEF Resume, NoWait, Waits, Lefts, CountHolds
    <3>2. CASE Queued # {}
      BY <1>1, <1>2, <2>1, <3>2, TimeAssumption
      DEF Resume, Resumed, Waits, Lefts, CountHolds
    <3> QED BY <3>1, <3>2
  <2>4. /\ status' \in [Inputs -> Statuses] /\ wake' \in {wake, TRUE}
        /\ \A k \in Inputs : status[k] # "absent" => status'[k] # "absent"
    <3>1. CASE Queued = {}
      BY <1>1, <1>2, <2>1, <3>1 DEF Resume
    <3>2. CASE Queued # {}
      <4>1. (\E part \in Parts(Queued) : status' = Moved(part, "plain")) /\ wake' = TRUE
        BY <1>1, <2>1, <3>2 DEF Resume, Release
      <4> QED BY <1>2, <4>1, MovedIs DEF Statuses
    <3> QED BY <3>1, <3>2
  <2>5. TypeOK'
    BY <1>1, <2>2, <2>3, <2>4 DEF TypeOK, Timers, Waits, Lefts, Statuses
  <2>6. DownIsEmpty' /\ TurnsServe'
    BY <1>1 DEF DownIsEmpty, TurnsServe
  <2>7. (\A m \in held' : status'[m] # "absent") /\ (runner' = "walled" => held' = {})
    BY <1>1, <2>4 DEF HeldIsParked, TypeOK
  <2> QED BY <1>1, <2>2, <2>3, <2>5, <2>6, <2>7, NobodyWaits
<1> QED BY <1>3, <1>4

\* The task of a lane runs without a runner: it starts a turn, joins the wait, or ends it.
LEMMA ColdReadStep == WaitInv /\ ColdRead => WaitInv'
<1> SUFFICES ASSUME WaitInv, ColdRead PROVE WaitInv'
  OBVIOUS
<1> USE DEF WaitInv
<1>1. /\ UNCHANGED <<committed, piped, handling, up, inARow, held, faults>>
      /\ up /\ wake /\ runner = "none" /\ batch = {} /\ piped = {}
  BY DEF ColdRead, TypeOK
<1>2. status \in [Inputs -> Statuses] /\ wait \in Waits
  BY DEF TypeOK, Statuses, Waits, Lefts
<1>3. Readable = Open
  BY <1>1 DEF Readable, Open
<1>4. CASE ReadNothing
  <2>1. UNCHANGED <<status, wait, timer, batch, runner>> /\ wake' = FALSE /\ Readable = {}
        /\ stranded' \subseteq Inputs
    BY <1>4 DEF ReadNothing, Queued, TypeOK
  <2>2. TypeOK'
    BY <1>1, <2>1 DEF TypeOK
  <2> QED
    BY <1>1, <1>3, <2>1, <2>2
    DEF DownIsEmpty, TurnsServe, TimerHolds, LaneRests, CountHolds, HeldIsParked, Waiting,
        Queued, Open, Plain
<1>5. CASE JoinWait
  <2>1. Waiting /\ UNCHANGED <<wait, timer, batch, runner, stranded>>
    BY <1>5 DEF JoinWait
  <2>2. PICK window \in Prefixes(Readable) :
           status' = Moved(window, "queued") /\ wake' = Truncated(window, Readable)
    BY <1>5 DEF JoinWait
  <2>3. /\ status' \in [Inputs -> Statuses]
        /\ \A k \in Inputs : status[k] # "absent" => status'[k] # "absent"
        /\ \A k \in Inputs : status'[k] = IF k \in window THEN "queued" ELSE status[k]
    BY <1>2, <2>2, MovedIs DEF Statuses
  <2>4. window \subseteq Readable /\ window # {} /\ wake' \in BOOLEAN
        /\ (window # Readable => wake')
    <3>1. wake' = (window # Readable)
      BY <2>2 DEF Truncated
    <3>2. window \subseteq Readable /\ window # {}
      BY <2>2 DEF Prefixes, Readable, Plain, Inputs
    <3> QED BY <3>1, <3>2, Zenon
  <2>5. Open' = Open \ window
    BY <1>1, <2>3 DEF Open, Plain
  <2>6. Queued' # {}
    BY <2>3, <2>4 DEF Queued, Readable, Plain
  <2>7. TypeOK'
    BY <1>1, <2>1, <2>3, <2>4 DEF TypeOK, Statuses
  <2>8. LaneRests'
    BY <1>1, <1>3, <2>1, <2>4, <2>5 DEF LaneRests, Waiting
  <2>9. HeldIsParked'
    BY <1>1, <2>1, <2>3, <2>5 DEF HeldIsParked, Waiting, TypeOK
  <2>10. CountHolds'
    BY <1>1, <2>1, <2>6 DEF CountHolds
  <2> QED
    BY <1>1, <2>1, <2>7, <2>8, <2>9, <2>10 DEF DownIsEmpty, TurnsServe, TimerHolds, Waiting
<1>6. CASE ReadNewInput \/ ReadAndRun
  <2>1. /\ wait' \in Waits /\ wait'.state # "waiting" /\ wait'.left = 0 /\ inARow <= wait'.count
        /\ timer' \in Timers /\ ~timer'.armed
        /\ status' \in [Inputs -> Statuses]
        /\ \A k \in Inputs : status[k] # "absent" => status'[k] # "absent"
    <3>1. CASE ReadNewInput
      <4>1. EndWait("new_input")
        BY <3>1 DEF ReadNewInput
      <4>2. status' = status \/ \E part : status' = Moved(part, "plain")
        BY <3>1 DEF ReadNewInput, Release
      <4>3. /\ status' \in [Inputs -> Statuses]
            /\ \A k \in Inputs : status[k] # "absent" => status'[k] # "absent"
        BY <1>2, <4>2, MovedIs DEF Statuses
      <4>4. inARow <= wait'.count
        BY <4>1, EndWaitIs DEF CountHolds
      <4> QED BY <4>1, <4>3, <4>4, EndWaitIs
    <3>2. CASE ReadAndRun
      <4>1. UNCHANGED <<status, wait, timer>> /\ ~Waiting
        BY <3>2 DEF ReadAndRun
      <4> QED
        BY <1>2, <4>1 DEF Waiting, TypeOK, CountHolds, TimerHolds, Timers, Lefts
    <3> QED BY <1>6, <3>1, <3>2
  <2>2. PICK pending \in SUBSET Inputs : Runs(pending) /\ UNCHANGED stranded
    BY <1>6 DEF ReadNewInput, ReadAndRun, Readable, Plain
  <2>3. batch' \subseteq Inputs /\ batch' # {} /\ wake' \in BOOLEAN /\ runner' = "busy"
    <3>1. PICK b \in Prefixes(pending) :
             batch' = b /\ wake' = (b # pending) /\ runner' = "busy"
      BY <2>2 DEF Runs, Truncated
    <3>2. wake' \in BOOLEAN
      BY <3>1, Zenon
    <3>3. b \subseteq Inputs /\ b # {}
      <4>1. PICK k \in pending : b = {p \in pending : p <= k}
        BY <3>1 DEF Prefixes
      <4>2. k \in b
        BY <4>1, InputsAssumption DEF Inputs
      <4> QED BY <4>1, <4>2
    <3> QED BY <3>1, <3>2, <3>3, Zenon
  <2>4. TypeOK'
    BY <1>1, <2>1, <2>2, <2>3 DEF TypeOK, Waits, Timers, Lefts, Statuses
  <2>5. DownIsEmpty' /\ TurnsServe'
    BY <1>1, <2>3 DEF DownIsEmpty, TurnsServe
  <2>6. (\A m \in held' : status'[m] # "absent") /\ runner' # "walled"
    BY <1>1, <2>1, <2>3 DEF HeldIsParked, TypeOK
  <2> QED BY <1>1, <2>1, <2>4, <2>5, <2>6, NobodyWaits
<1> QED BY <1>4, <1>5, <1>6 DEF ColdRead

\* What goes to the runner, or to the cold reader, is a part of the queue.
LEMMA DispatchIs ==
    ASSUME NEW st \in [Inputs -> Statuses], NEW part \in SUBSET Inputs, part # {},
           Dispatch(st, part)
    PROVE  /\ status' \in [Inputs -> Statuses]
           /\ \A k \in Inputs : st[k] # "absent" => status'[k] # "absent"
           /\ \/ runner' = "busy" /\ piped' = part /\ wake' = wake
              \/ runner' = "idle" /\ piped' = {} /\ wake' = TRUE
<1>1. status' = [m \in Inputs |-> IF m \in part THEN "plain" ELSE st[m]]
  BY DEF Dispatch
<1>2. \/ runner' = "busy" /\ piped' = part /\ wake' = wake
      \/ runner' = "idle" /\ piped' = {} /\ wake' = TRUE
  BY DEF Dispatch
<1> QED BY <1>1, <1>2 DEF Statuses

LEMMA AnswerStep == WaitInv /\ Answer => WaitInv'
<1> SUFFICES ASSUME WaitInv, Answer PROVE WaitInv'
  OBVIOUS
<1> USE DEF WaitInv
<1>1. /\ up /\ runner = "busy" /\ batch' = {} /\ inARow' = 0
      /\ UNCHANGED <<timer, handling, up, held, stranded, faults>>
      /\ wait.state # "waiting" /\ ~timer.armed
  BY DEF Answer, LaneRests, TimerHolds, Waiting
<1> DEFINE st == Moved({m \in Served : status[m] = "plain"}, "done")
<1>2. /\ st \in [Inputs -> Statuses]
      /\ \A k \in Inputs : status[k] # "absent" => st[k] # "absent"
  <2>1. status \in [Inputs -> Statuses]
    BY DEF TypeOK, Statuses
  <2> QED BY <2>1, MovedIs DEF Statuses
<1>3. committed' \in 0..MaxInputs
  <2>1. committed' = CommitPoint(st)
    BY DEF Answer
  <2> HIDE DEF st
  <2> QED BY <2>1, CommitIs DEF TypeOK
<1>4. wait' \in Waits /\ wait'.state # "waiting" /\ wait'.left = 0 /\ inARow' <= wait'.count
  BY <1>1, TimeAssumption, BudgetAssumption DEF Answer, NoWait, TypeOK, Waits, Lefts
<1>5. /\ status' \in [Inputs -> Statuses]
      /\ \A k \in Inputs : st[k] # "absent" => status'[k] # "absent"
      /\ piped' \subseteq Inputs /\ runner' \in {"busy", "idle"} /\ wake' \in {wake, TRUE}
      /\ (runner' = "idle" => piped' = {}) /\ (runner' = "busy" => piped' # {})
  <2>1. CASE batch # {} /\ piped # {}
    <3>1. status' = st /\ UNCHANGED <<piped, runner, wake>>
      BY <2>1 DEF Answer
    <3> HIDE DEF st
    <3> QED BY <1>1, <1>2, <2>1, <3>1 DEF TypeOK
  <2>2. CASE ~(batch # {} /\ piped # {}) /\ Queued = {}
    <3>1. status' = st /\ piped' = {} /\ runner' = "idle" /\ UNCHANGED wake
      BY <2>2 DEF Answer
    <3> HIDE DEF st
    <3> QED BY <1>2, <3>1
  <2>3. CASE ~(batch # {} /\ piped # {}) /\ Queued # {}
    <3>1. PICK part \in Parts(Queued) : Dispatch(st, part)
      BY <2>3 DEF Answer
    <3>2. part \in SUBSET Inputs /\ part # {}
      BY <3>1 DEF Parts, Queued
    <3> HIDE DEF st
    <3> QED BY <1>2, <3>1, <3>2, DispatchIs
  <2> QED BY <2>1, <2>2, <2>3
<1>6. TypeOK'
  BY <1>1, <1>3, <1>4, <1>5 DEF TypeOK, Waits, Lefts, Statuses
<1>7. DownIsEmpty' /\ TurnsServe'
  BY <1>1, <1>5 DEF DownIsEmpty, TurnsServe
<1>8. (\A m \in held' : status'[m] # "absent") /\ runner' # "walled"
  <2> HIDE DEF st
  <2> QED BY <1>1, <1>2, <1>5 DEF HeldIsParked, TypeOK
<1> QED BY <1>1, <1>4, <1>6, <1>7, <1>8, NobodyWaits

LEMMA DispatchStep == WaitInv /\ DispatchIdle => WaitInv'
<1> SUFFICES ASSUME WaitInv, DispatchIdle PROVE WaitInv'
  OBVIOUS
<1> USE DEF WaitInv
<1>1. /\ up /\ runner = "idle" /\ batch = {}
      /\ UNCHANGED <<committed, wait, timer, batch, handling, up, inARow, held, stranded, faults>>
      /\ wait.state # "waiting" /\ ~timer.armed
  BY DEF DispatchIdle, LaneRests, TimerHolds, Waiting, TypeOK, hist
<1>2. PICK part \in Parts(Queued) : Dispatch(status, part)
  BY DEF DispatchIdle
<1>3. part \in SUBSET Inputs /\ part # {} /\ status \in [Inputs -> Statuses]
  BY <1>2 DEF Parts, Queued, TypeOK, Statuses
<1>4. /\ status' \in [Inputs -> Statuses]
      /\ \A k \in Inputs : status[k] # "absent" => status'[k] # "absent"
      /\ piped' \subseteq Inputs /\ runner' \in {"busy", "idle"} /\ wake' \in {wake, TRUE}
      /\ (runner' = "idle" => piped' = {}) /\ (runner' = "busy" => piped' # {})
  BY <1>2, <1>3, DispatchIs
<1>5. TypeOK'
  BY <1>1, <1>4 DEF TypeOK, Statuses
<1>6. DownIsEmpty' /\ TurnsServe'
  BY <1>1, <1>4 DEF DownIsEmpty, TurnsServe
<1>7. (\A m \in held' : status'[m] # "absent") /\ runner' # "walled"
  BY <1>1, <1>4 DEF HeldIsParked, TypeOK
<1>8. inARow' <= wait'.count
  BY <1>1 DEF CountHolds
<1> QED BY <1>1, <1>5, <1>6, <1>7, <1>8, NobodyWaits

\* A failed input is settled, its runner on the way out.
LEMMA EndsInputIs ==
    ASSUME TypeOK, EndsInput
    PROVE  /\ status' \in [Inputs -> Statuses] /\ committed' \in 0..MaxInputs
           /\ \A k \in Inputs : status[k] # "absent" => status'[k] # "absent"
           /\ batch' = {} /\ piped' \subseteq Inputs /\ runner' = "dying" /\ inARow' = 0
<1>1. status \in [Inputs -> Statuses]
  BY DEF TypeOK, Statuses
<1>2. PICK set : status' = Moved(set, "done")
  BY DEF EndsInput, Settle
<1>3. committed' = CommitPoint(status')
  BY DEF EndsInput, Settle
<1>4. committed' \in 0..MaxInputs
  BY <1>3, CommitIs DEF TypeOK
<1> QED BY <1>1, <1>2, <1>4, MovedIs DEF EndsInput, Ended, TypeOK, Statuses

LEMMA FailsStep == WaitInv /\ FailsForGood => WaitInv'
<1> SUFFICES ASSUME WaitInv, FailsForGood PROVE WaitInv'
  OBVIOUS
<1> USE DEF WaitInv
<1>1. /\ up /\ runner = "busy" /\ EndsInput /\ faults' \in 0..MaxFaults
      /\ UNCHANGED <<wait, timer, handling, wake, up, held, stranded>>
      /\ wait.state # "waiting" /\ ~timer.armed
  BY FaultsAssumption DEF FailsForGood, Fault, LaneRests, TimerHolds, Waiting, TypeOK
<1>2. TypeOK'
  BY <1>1, EndsInputIs DEF TypeOK, Statuses
<1>3. DownIsEmpty' /\ TurnsServe'
  BY <1>1, EndsInputIs DEF DownIsEmpty, TurnsServe
<1>4. (\A m \in held' : status'[m] # "absent") /\ runner' # "walled"
  BY <1>1, EndsInputIs DEF HeldIsParked, TypeOK
<1>5. inARow' <= wait'.count
  BY <1>1, EndsInputIs DEF TypeOK
<1> QED BY <1>1, <1>2, <1>3, <1>4, <1>5, NobodyWaits

\* A turn that hits the limit waits within both bounds, or its input fails.
LEMMA HitLimitStep ==
    ASSUME NEW reset \in Resets, WaitInv, HitLimit(reset)
    PROVE  WaitInv'
<1> USE DEF WaitInv
<1>1. /\ up /\ runner = "busy" /\ wait.state # "waiting" /\ ~timer.armed
      /\ UNCHANGED <<timer, handling, wake, up, stranded, faults>>
  BY DEF HitLimit, LaneRests, TimerHolds, Waiting
<1>2. CASE MayWait(reset)
  <2>1. /\ wait' = [state |-> "waiting", count |-> wait.count + 1, left |-> reset + Grace]
        /\ inARow' = inARow + 1 /\ runner' = "walled" /\ held' = {}
        /\ UNCHANGED <<rows, batch, piped>>
    BY <1>2 DEF HitLimit
  <2>2. wait' \in Waits /\ wait'.state = "waiting" /\ wait'.count = wait.count + 1
    BY <1>2, <2>1, TimeAssumption, BudgetAssumption DEF MayWait, Waits, Lefts, TypeOK
  <2>3. TypeOK'
    BY <1>1, <2>1, <2>2 DEF TypeOK, Waits, Lefts, rows
  <2>4. CountHolds'
    BY <2>1, <2>2 DEF CountHolds, TypeOK
  <2> QED
    BY <1>1, <2>1, <2>2, <2>3, <2>4
    DEF DownIsEmpty, TurnsServe, TimerHolds, LaneRests, HeldIsParked, Waiting
<1>3. CASE ~MayWait(reset)
  <2>1. wait' = NoWait /\ EndsInput /\ UNCHANGED held
    BY <1>3 DEF HitLimit
  <2>2. wait' \in Waits /\ wait'.state # "waiting" /\ wait'.left = 0 /\ wait'.count = 0
    BY <2>1, TimeAssumption, BudgetAssumption DEF NoWait, Waits, Lefts
  <2>3. TypeOK'
    BY <1>1, <2>1, <2>2, EndsInputIs DEF TypeOK, Statuses, Waits, Lefts
  <2>4. DownIsEmpty' /\ TurnsServe'
    BY <1>1, <2>1, EndsInputIs DEF DownIsEmpty, TurnsServe
  <2>5. (\A m \in held' : status'[m] # "absent") /\ runner' # "walled"
    BY <2>1, EndsInputIs DEF HeldIsParked, TypeOK
  <2>6. inARow' <= wait'.count
    BY <2>1, <2>2, EndsInputIs
  <2> QED BY <1>1, <2>2, <2>3, <2>4, <2>5, <2>6, NobodyWaits
<1> QED BY <1>2, <1>3

\* Parking leaves nothing open, and something in the queue.
LEMMA ParkStep == WaitInv /\ Park => WaitInv'
<1> SUFFICES ASSUME WaitInv, Park PROVE WaitInv'
  OBVIOUS
<1> USE DEF WaitInv
<1>1. /\ up /\ runner = "walled" /\ runner' = "dying" /\ batch' = {} /\ ~timer.armed
      /\ UNCHANGED <<committed, wait, piped, handling, wake, up, inARow, stranded, faults>>
  BY DEF Park, TimerHolds
<1>2. status \in [Inputs -> Statuses] /\ wait.left \in Lefts
  BY DEF TypeOK, Statuses, Lefts
<1>3. CASE Waiting
  <2>1. /\ status' = Moved(Parked, "queued") /\ timer' = Armed(wait.left)
        /\ held' = {m \in Inputs : status[m] # "absent"}
    BY <1>3 DEF Park
  <2>2. /\ status' \in [Inputs -> Statuses]
        /\ \A k \in Inputs : status[k] # "absent" => status'[k] # "absent"
        /\ \A k \in Inputs : status'[k] = IF k \in Parked THEN "queued" ELSE status[k]
    BY <1>2, <2>1, MovedIs DEF Statuses
  <2>3. Open' = {}
    BY <1>1, <2>2 DEF Open, Plain, Parked
  <2>4. Queued' # {}
    <3>1. PICK k \in Inputs : k \in Parked
      BY <1>1 DEF Parked, Served, TurnsServe, TypeOK
    <3> QED BY <2>2, <3>1 DEF Queued
  <2>5. timer' \in Timers /\ timer'.armed /\ timer'.left = wait.left
    BY <1>2, <2>1, ArmedIs
  <2>6. TypeOK'
    BY <1>1, <2>1, <2>2, <2>5 DEF TypeOK, Statuses, Timers, Lefts
  <2>7. HeldIsParked'
    BY <1>1, <2>1, <2>2, <2>3 DEF HeldIsParked
  <2> QED
    BY <1>1, <1>3, <2>3, <2>4, <2>5, <2>6, <2>7
    DEF DownIsEmpty, TurnsServe, TimerHolds, LaneRests, CountHolds, Waiting
<1>4. CASE ~Waiting
  <2>1. UNCHANGED <<status, timer, held>>
    BY <1>4 DEF Park
  <2>2. TypeOK'
    BY <1>1, <2>1 DEF TypeOK
  <2>3. DownIsEmpty' /\ TurnsServe'
    BY <1>1 DEF DownIsEmpty, TurnsServe
  <2> QED
    BY <1>1, <1>4, <2>1, <2>2, <2>3, NobodyWaits DEF HeldIsParked, CountHolds, Waiting
<1> QED BY <1>3, <1>4

\* A runner that goes leaves nothing open in a lane that waits.
LEMMA ExitsStep == WaitInv /\ (RunnerExits \/ RunnerDies) => WaitInv'
<1> SUFFICES ASSUME WaitInv, RunnerExits \/ RunnerDies PROVE WaitInv'
  OBVIOUS
<1> USE DEF WaitInv
<1>1. /\ up /\ runner \in {"idle", "dying", "busy"} /\ Exits /\ faults' \in 0..MaxFaults
  BY FaultsAssumption DEF RunnerExits, RunnerDies, Fault, TypeOK
<1>2. /\ runner' = "none" /\ batch' = {} /\ piped' = {} /\ stranded' \subseteq Inputs
      /\ UNCHANGED <<status, committed, wait, timer, handling, up, inARow, held>>
  BY <1>1 DEF Exits, rows, Queued, TypeOK
<1>3. wake' \in BOOLEAN
  BY <1>1, Zenon DEF Exits
<1>4. TypeOK'
  BY <1>1, <1>2, <1>3 DEF TypeOK
<1>5. LaneRests'
  <2>1. Waiting => Open = {}
    BY <1>1 DEF LaneRests
  <2> QED BY <1>2, <2>1 DEF LaneRests, Waiting, Open, Plain
<1> QED
  BY <1>1, <1>2, <1>4, <1>5
  DEF DownIsEmpty, TurnsServe, TimerHolds, CountHolds, HeldIsParked, Waiting, Queued, Open, Plain

LEMMA SendNowStep == WaitInv /\ SendNow => WaitInv'
<1> SUFFICES ASSUME WaitInv, SendNow PROVE WaitInv'
  OBVIOUS
<1> USE DEF WaitInv
<1>1. /\ up /\ EndWait("new_input") /\ wake' = TRUE
      /\ UNCHANGED <<committed, batch, piped, handling, runner, up, inARow, held, stranded, faults>>
  BY DEF SendNow, hist
<1>2. /\ status' \in [Inputs -> Statuses]
      /\ \A k \in Inputs : status[k] # "absent" => status'[k] # "absent"
  <2>1. \E part : status' = Moved(part, "plain")
    BY DEF SendNow, Release
  <2>2. status \in [Inputs -> Statuses]
    BY DEF TypeOK, Statuses
  <2> QED BY <2>1, <2>2, MovedIs DEF Statuses
<1>3. TypeOK'
  BY <1>1, <1>2, EndWaitIs DEF TypeOK, Statuses, Waits, Timers, Lefts
<1>4. DownIsEmpty' /\ TurnsServe' /\ inARow' <= wait'.count
  BY <1>1, EndWaitIs DEF DownIsEmpty, TurnsServe, CountHolds
<1>5. (\A m \in held' : status'[m] # "absent") /\ (runner' = "walled" => held' = {})
  BY <1>1, <1>2 DEF HeldIsParked, TypeOK
<1> QED BY <1>1, <1>3, <1>4, <1>5, EndWaitIs, NobodyWaits

\* With the last queued row the wait goes, too.
LEMMA CancelStep ==
    ASSUME NEW m \in Inputs, WaitInv, Cancel(m)
    PROVE  WaitInv'
<1> USE DEF WaitInv
<1>1. /\ up /\ m \in Queued /\ status' = Moved({m}, "cancelled")
      /\ UNCHANGED <<committed, batch, piped, handling, runner, wake, up, held, stranded, faults>>
  BY DEF Cancel, lane
<1>2. status \in [Inputs -> Statuses]
  BY DEF TypeOK, Statuses
<1>3. /\ status' \in [Inputs -> Statuses]
      /\ \A k \in Inputs : status[k] # "absent" => status'[k] # "absent"
      /\ \A k \in Inputs : status'[k] = IF k = m THEN "cancelled" ELSE status[k]
  BY <1>1, <1>2, MovedIs DEF Statuses
<1>4. (\A k \in held' : status'[k] # "absent") /\ (runner' = "walled" => held' = {})
  BY <1>1, <1>3 DEF HeldIsParked, TypeOK
<1>5. CASE Queued = {m}
  <2>1. EndWait("cancelled") /\ inARow' = 0
    BY <1>5 DEF Cancel
  <2>2. TypeOK'
    BY <1>1, <1>3, <2>1, EndWaitIs DEF TypeOK, Statuses, Waits, Timers, Lefts
  <2>3. DownIsEmpty' /\ TurnsServe' /\ inARow' <= wait'.count
    BY <1>1, <2>1, EndWaitIs DEF DownIsEmpty, TurnsServe
  <2> QED BY <1>4, <2>1, <2>2, <2>3, EndWaitIs, NobodyWaits
<1>6. CASE Queued # {m}
  <2>1. UNCHANGED <<wait, timer, inARow>>
    BY <1>6 DEF Cancel
  <2>2. TypeOK'
    BY <1>1, <1>3, <2>1 DEF TypeOK, Statuses
  <2>3. Open' \subseteq Open /\ Queued' # {}
    BY <1>1, <1>3, <1>6 DEF Open, Plain, Queued
  <2> QED
    BY <1>1, <1>4, <2>1, <2>2, <2>3
    DEF DownIsEmpty, TurnsServe, TimerHolds, LaneRests, CountHolds, HeldIsParked, Waiting
<1> QED BY <1>5, <1>6

LEMMA StopsStep == WaitInv /\ (Break \/ Stop) => WaitInv'
<1> SUFFICES ASSUME WaitInv, Break \/ Stop PROVE WaitInv'
  OBVIOUS
<1> USE DEF WaitInv
<1>1. /\ up /\ up' = up /\ inARow' = 0 /\ faults' \in 0..MaxFaults /\ UNCHANGED <<handling, held>>
      /\ \E reason \in {"cancelled", "discarded"} : EndWait(reason)
  BY FaultsAssumption DEF Break, Stop, Fault, TypeOK
<1>2. /\ \E q, d \in SUBSET Inputs : status' = [m \in Inputs |-> IF m \in q THEN "cancelled"
                                          ELSE IF m \in d THEN "done" ELSE status[m]]
      /\ committed' = CommitPoint(status')
  <2>1. CASE Break
    <3> DEFINE stopped == IF runner = "busy" THEN {m \in batch \cup piped : status[m] = "plain"} ELSE {}
    <3>1. /\ status' = [m \in Inputs |-> IF m \in Queued THEN "cancelled"
                                          ELSE IF m \in stopped THEN "done" ELSE status[m]]
          /\ committed' = CommitPoint(status')
      BY <2>1 DEF Break
    <3>2. Queued \in SUBSET Inputs /\ stopped \in SUBSET Inputs
      BY DEF Queued, TypeOK
    <3> HIDE DEF stopped
    <3> QED BY <3>1, <3>2, Zenon
  <2>2. CASE Stop
    <3> DEFINE stopped == {m \in batch \cup piped : status[m] = "plain"}
               parked == IF Waiting THEN Queued ELSE {}
    <3>1. /\ status' = [m \in Inputs |-> IF m \in parked THEN "cancelled"
                                          ELSE IF m \in stopped THEN "done" ELSE status[m]]
          /\ committed' = CommitPoint(status')
      BY <2>2 DEF Stop
    <3>2. parked \in SUBSET Inputs /\ stopped \in SUBSET Inputs
      BY DEF Queued, TypeOK
    <3> HIDE DEF stopped, parked
    <3> QED BY <3>1, <3>2, Zenon
  <2> QED BY <2>1, <2>2
<1>3. /\ status' \in [Inputs -> Statuses] /\ committed' \in 0..MaxInputs
      /\ \A k \in Inputs : status[k] # "absent" => status'[k] # "absent"
  <2>1. committed' \in 0..MaxInputs
    BY <1>2, CommitIs DEF TypeOK
  <2> QED BY <1>2, <2>1 DEF TypeOK, Statuses
<1>4. /\ batch' \in {batch, {}} /\ piped' \in {piped, {}} /\ wake' \in {wake, FALSE}
      /\ runner' \in {runner, "idle", "none"} /\ stranded' \subseteq Inputs
      /\ (runner' \in {"idle", "none"} => batch' = {} /\ piped' = {})
      /\ (runner' \notin {"idle", "none"} => runner # "walled" /\ UNCHANGED <<runner, batch, piped>>)
  BY DEF Break, Stop, Queued, TypeOK
<1>5. TypeOK'
  BY <1>1, <1>3, <1>4, EndWaitIs DEF TypeOK, Statuses, Waits, Timers, Lefts
<1>6. DownIsEmpty' /\ TurnsServe' /\ inARow' <= wait'.count
  BY <1>1, <1>4, EndWaitIs DEF DownIsEmpty, TurnsServe
<1>7. (\A m \in held' : status'[m] # "absent") /\ runner' # "walled"
  BY <1>1, <1>3, <1>4 DEF HeldIsParked, TypeOK
<1> QED BY <1>1, <1>5, <1>6, <1>7, EndWaitIs, NobodyWaits

LEMMA CrashStep == WaitInv /\ Crash => WaitInv'
<1> SUFFICES ASSUME WaitInv, Crash PROVE WaitInv'
  OBVIOUS
<1> USE DEF WaitInv
<1>1. /\ up' = FALSE /\ timer' = NoTimer /\ batch' = {} /\ piped' = {} /\ handling' = {}
      /\ runner' = "none" /\ wake' = FALSE /\ faults' \in 0..MaxFaults
      /\ inARow' = (IF runner = "walled" THEN 0 ELSE inARow)
      /\ UNCHANGED <<status, committed, wait, held, stranded>>
  BY FaultsAssumption DEF Crash, Fault, rows, TypeOK
<1>2. timer' \in Timers /\ ~timer'.armed
  BY <1>1, TimeAssumption DEF NoTimer, Timers, Lefts
<1>3. TypeOK'
  BY <1>1, <1>2 DEF TypeOK, Timers, Lefts
<1>4. CountHolds'
  BY <1>1 DEF CountHolds, Waiting, Queued, TypeOK
<1> QED
  BY <1>1, <1>2, <1>3, <1>4
  DEF DownIsEmpty, TurnsServe, TimerHolds, LaneRests, HeldIsParked, Waiting, Open, Plain

\* A restart gives a wait its timer back, or ends it; what is open gets a task.
LEMMA RestartStep == WaitInv /\ Restart => WaitInv'
<1> SUFFICES ASSUME WaitInv, Restart PROVE WaitInv'
  OBVIOUS
<1> USE DEF WaitInv
<1>1. /\ ~up /\ up' = TRUE /\ runner = "none" /\ batch = {} /\ piped = {} /\ ~timer.armed
      /\ UNCHANGED <<committed, batch, piped, handling, runner, inARow, held, stranded, faults>>
  BY DEF Restart, DownIsEmpty, TypeOK, hist
<1>2. status \in [Inputs -> Statuses] /\ wait \in Waits /\ Readable = Open
  BY <1>1 DEF TypeOK, Statuses, Waits, Lefts, Readable, Open
<1>3. wake' = (status' # status \/ Readable # {})
  BY DEF Restart
<1>4. wake' \in BOOLEAN
  BY <1>3, Zenon
<1>5. CASE StillWaits
  <2>1. timer' = Armed(wait.left) /\ UNCHANGED <<status, wait>> /\ Waiting
    BY <1>5 DEF Restart, StillWaits, Rearmed
  <2>2. timer' \in Timers /\ timer'.armed /\ timer'.left = wait.left
    BY <1>2, <2>1, ArmedIs DEF Waits
  <2>3. TypeOK'
    BY <1>1, <1>4, <2>1, <2>2 DEF TypeOK, Timers, Lefts
  <2>4. LaneRests'
    <3>1. Open # {} => wake'
      BY <1>2, <1>3, Zenon
    <3> QED BY <1>1, <2>1, <3>1 DEF LaneRests, Waiting, Open, Plain
  <2> QED
    BY <1>1, <2>1, <2>2, <2>3, <2>4
    DEF DownIsEmpty, TurnsServe, TimerHolds, CountHolds, HeldIsParked, Waiting, Queued, Open, Plain
<1>6. CASE ~StillWaits
  <2>1. wait' = Resumed /\ UNCHANGED timer
    BY <1>6 DEF Restart
  <2>2. wait' \in Waits /\ wait'.state # "waiting" /\ wait'.left = 0 /\ wait'.count = wait.count
    BY <1>2, <2>1, TimeAssumption DEF Resumed, Waiting, Waits, Lefts, TypeOK
  <2>3. /\ status' \in [Inputs -> Statuses]
        /\ \A k \in Inputs : status[k] # "absent" => status'[k] # "absent"
    <3>1. status' = status \/ \E part : status' = Moved(part, "plain")
      BY <1>6 DEF Restart, Release
    <3> QED BY <1>2, <3>1, MovedIs DEF Statuses
  <2>4. TypeOK'
    BY <1>1, <1>4, <2>1, <2>2, <2>3 DEF TypeOK, Statuses, Waits, Lefts
  <2>5. DownIsEmpty' /\ TurnsServe' /\ inARow' <= wait'.count
    BY <1>1, <2>2 DEF DownIsEmpty, TurnsServe, CountHolds
  <2>6. (\A m \in held' : status'[m] # "absent") /\ runner' # "walled"
    BY <1>1, <2>3 DEF HeldIsParked, TypeOK
  <2> QED BY <1>1, <2>1, <2>2, <2>4, <2>5, <2>6, NobodyWaits
<1> QED BY <1>5, <1>6

LEMMA StutterInv == WaitInv /\ UNCHANGED vars => WaitInv'
BY DEF vars, rows, lane, hist, WaitInv, TypeOK, DownIsEmpty, TurnsServe, TimerHolds, LaneRests,
       CountHolds, HeldIsParked, Waiting, Queued, Open, Plain

LEMMA StepInv == WaitInv /\ [Next]_vars => WaitInv'
<1> SUFFICES ASSUME WaitInv, [Next]_vars PROVE WaitInv'
  OBVIOUS
<1>1. CASE User
  BY <1>1, ArrivalStep, CancelStep, SendNowStep, StopsStep DEF User
<1>2. CASE Handler
  BY <1>2, PassOnStep DEF Handler
<1>3. CASE Turn
  BY <1>3, AnswerStep, FailsStep, HitLimitStep DEF Turn
<1>4. CASE ColdRead \/ Park \/ DispatchIdle \/ RunnerExits \/ RunnerDies \/ TimerFires
  BY <1>4, ColdReadStep, ParkStep, DispatchStep, ExitsStep, TimerStep
<1>5. CASE Tick \/ Crash \/ Restart
  BY <1>5, TickStep, CrashStep, RestartStep
<1>6. CASE UNCHANGED vars
  BY <1>6, StutterInv
<1> QED BY <1>1, <1>2, <1>3, <1>4, <1>5, <1>6 DEF Next

-----------------------------------------------------------------------------
(* The theorems. *)

\* The inductive invariant holds in every reachable state.
THEOREM WaitInvHolds == Spec => []WaitInv
<1> QED BY InitInv, StepInv, PTL DEF Spec

\* Every variable keeps its type.
THEOREM WaitTypes == Spec => []TypeOK
<1>1. WaitInv => TypeOK
  BY DEF WaitInv
<1> QED BY <1>1, WaitInvHolds, PTL

\* The timer of a lane is armed, for the moment the durable wait names, exactly
\* while the lane waits with its inputs parked.
THEOREM TimersFit == Spec => []TimerFitsWait
<1>1. WaitInv => TimerFitsWait
  BY DEF WaitInv, TimerHolds, TimerFitsWait
<1> QED BY <1>1, WaitInvHolds, PTL

\* A lane that waits runs nothing, and what it could read has a task.
THEOREM WaitingLanesRest == Spec => []WaitingLaneRests
<1>1. WaitInv => WaitingLaneRests
  <2> SUFFICES ASSUME WaitInv, up, Waiting PROVE WaitingLaneRests
    BY DEF WaitingLaneRests
  <2>1. Readable \subseteq Open
    BY DEF Readable, Open
  <2> QED BY <2>1 DEF WaitInv, LaneRests, WaitingLaneRests
<1> QED BY <1>1, WaitInvHolds, PTL

\* A lane waits at most MaxWaits times in a row.
THEOREM BudgetIsKept == Spec => []BudgetHolds
<1>1. WaitInv => BudgetHolds
  BY BudgetAssumption DEF WaitInv, CountHolds, BudgetHolds, TypeOK
<1> QED BY <1>1, WaitInvHolds, PTL

\* Only the user, or input that arrived since and somebody attends to, ends a
\* wait before its time.
THEOREM OnlyNewInputEndsWaits == Spec => OnlyNewInputEndsWait
<1> DEFINE Step == Waiting /\ wait.left > 0 /\ wait'.state = "resumed"
                     => SendNow \/ (Readable \cap Attended) \ held # {}
<1>1. WaitInv /\ [Next]_vars => [Step]_vars
  <2> SUFFICES ASSUME WaitInv, [Next]_vars, Waiting, wait.left > 0, wait'.state = "resumed"
               PROVE  SendNow \/ (Readable \cap Attended) \ held # {}
    OBVIOUS
  <2>1. wait.state = "waiting" /\ wait' # wait
    BY DEF Waiting
  <2>2. CASE User
    <3>1. ASSUME NEW m \in Inputs PROVE ~(ArriveQueued(m) \/ ArriveFromWeb(m) \/ Arrive(m))
      BY <2>1 DEF ArriveQueued, ArriveFromWeb, Arrive, Arrives
    <3>2. ASSUME NEW m \in Inputs PROVE ~Cancel(m)
      BY <2>1 DEF Cancel, EndWait, NoWait
    <3>3. ~Break /\ ~Stop
      BY <2>1 DEF Break, Stop, EndWait, NoWait
    <3> QED BY <2>2, <3>1, <3>2, <3>3 DEF User
  <2>3. CASE Turn
    BY <2>1, <2>3 DEF Turn, Answer, FailsForGood, HitLimit, WaitInv, LaneRests, Waiting
  <2>4. CASE TimerFires
    BY <2>1, <2>4 DEF TimerFires, WaitInv, TimerHolds
  <2>5. CASE Restart
    <3>1. UNCHANGED wait
      BY <2>5 DEF Restart, StillWaits
    <3> QED BY <2>1, <3>1
  <2>6. CASE Tick
    BY <2>1, <2>6 DEF Tick, WaitInv, TypeOK
  <2>7. CASE ColdRead
    <3>1. ReadNewInput
      BY <2>1, <2>7 DEF ColdRead, ReadNothing, JoinWait, ReadAndRun
    <3>2. PICK window \in Prefixes(Readable) : window \cap Attended # {}
      BY <3>1 DEF ReadNewInput, EndsWait
    <3>3. PICK m \in Readable : m \in Attended
      BY <3>2 DEF Prefixes
    <3>4. m \in Open
      BY <3>3 DEF Readable, Open
    <3> QED BY <3>3, <3>4 DEF WaitInv, HeldIsParked
  <2>8. CASE Handler \/ Park \/ DispatchIdle \/ RunnerExits \/ RunnerDies \/ Crash \/ UNCHANGED vars
    BY <2>1, <2>8 DEF Handler, PassOn, Park, DispatchIdle, RunnerExits, RunnerDies, Exits, Crash, vars
  <2> QED BY <2>2, <2>3, <2>4, <2>5, <2>6, <2>7, <2>8 DEF Next
<1> QED BY <1>1, WaitInvHolds, PTL DEF Spec, OnlyNewInputEndsWait

=============================================================================
