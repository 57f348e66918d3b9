--------------------------- MODULE UsageLimitWait ---------------------------
(***************************************************************************)
(* One session lane waiting out a usage limit.  A turn whose connection    *)
(* has hit its limit reserves a wait; its input and everything pending     *)
(* behind it are parked in the durable follow-up queue, a timer releases   *)
(* them after the reset, and input that arrives meanwhile releases them at *)
(* once.  The wait and the rows are durable, the timer, the runner and the *)
(* lane's task are not.  Time is counted in ticks still to go.             *)
(*                                                                         *)
(* Which cursor moves when is the subject of DeliveryCursor; here one      *)
(* cursor stands for both and warm deliveries are the set they cover.      *)
(***************************************************************************)
EXTENDS Naturals

CONSTANTS MaxInputs,   \* how many inputs the lane receives
          Automation,  \* those nobody attends to: automation and work-item inputs
          Resets,      \* how many ticks away the upstream may say the reset is
          MaxWait,     \* USAGE_LIMIT_MAX_WAIT_MS
          Grace,       \* USAGE_LIMIT_RESUME_GRACE_MS and its jitter
          MaxWaits,    \* USAGE_LIMIT_MAX_WAITS
          MaxDelay,    \* MAX_TIMER_DELAY_MS
          Allowed,     \* what may happen: "die", "crash", "stop", "fail"
          MaxFaults    \* how many times

Inputs == 1..MaxInputs
Attended == Inputs \ Automation

ASSUME InputsAssumption == MaxInputs \in Nat /\ Automation \subseteq Inputs
ASSUME TimeAssumption == /\ Resets \subseteq Nat
                         /\ MaxWait \in Nat /\ Grace \in Nat
                         /\ MaxDelay \in Nat \ {0}
ASSUME BudgetAssumption == MaxWaits \in Nat
ASSUME FaultsAssumption == /\ Allowed \subseteq {"die", "crash", "stop", "fail"}
                           /\ MaxFaults \in Nat

VARIABLES
    status,     \* delivery_status of each message row; "done" once answered or failed
    committed,  \* the cursor behind which no reader looks
    wait,       \* the usage_limit_waits row of the lane
    timer,      \* its entry in timers: the delay, and the wait the callback holds
    batch,      \* the inputs a cold turn runs
    piped,      \* the inputs piped into the warm runner
    handling,   \* Web inputs whose handler awaits the command expander
    runner,     \* "none", "idle", "busy", "walled" (parking is pending) or "dying"
    wake,       \* a task of the lane is queued or its retry is armed
    up,         \* the host runs
    inARow,     \* history: waits reserved since the lane last came through
    held,       \* history: what had arrived when the lane's inputs were parked
    stranded,   \* history: rows a runner left in the queue of a lane that does not wait
    faults

rows == <<status, committed>>
lane == <<batch, piped, handling, runner, wake, up>>
hist == <<inARow, held, stranded>>
vars == <<rows, wait, timer, lane, hist, faults>>

-----------------------------------------------------------------------------
(* Rows. *)

Max(S) == CHOOSE x \in S : \A y \in S : y <= x
Plain == {m \in Inputs : status[m] = "plain"}
Queued == {m \in Inputs : status[m] = "queued"}
Moved(set, to) == [m \in Inputs |-> IF m \in set THEN to ELSE status[m]]

\* getMessagesSince; what is piped lies behind the next-pull cursor.
Readable == {m \in Plain : m > committed} \ piped

\* A batch ends at a change of reply route: any prefix of what a reader found,
\* and of the queue, which the user may reorder, any part.
Prefixes(S) == {{p \in S : p <= k} : k \in S}
Parts(S) == (SUBSET S) \ {{}}

\* The cursor moves over what is settled, up to a visible row that is not.
CommitPoint(st) ==
    Max({committed} \cup
        {m \in Inputs : st[m] = "done" /\ \A p \in Inputs : committed < p /\ p <= m => st[p] # "plain"})

Settle(set) ==
    /\ status' = Moved({m \in set : status[m] = "plain"}, "done")
    /\ committed' = CommitPoint(status')

Fault(kind) == kind \in Allowed /\ faults < MaxFaults /\ faults' = faults + 1

-----------------------------------------------------------------------------
(* The wait of the lane and its timer (usage-limit-wait.ts). *)

NoWait == [state |-> "none", count |-> 0, left |-> 0]
NoTimer == [armed |-> FALSE, delay |-> 0, left |-> 0]
Waiting == wait.state = "waiting"

\* armUsageLimitResume
Armed(left) == [armed |-> TRUE, left |-> left,
                delay |-> IF left > MaxDelay THEN MaxDelay ELSE left]

\* markUsageLimitWaitResumed: the count stays.
\* Mutant: the wait is forgotten with its count.
ResumedAndForgotten == NoWait
Resumed == IF Waiting THEN [state |-> "resumed", count |-> wait.count, left |-> 0] ELSE wait

\* endUsageLimitWait(reason): disarms the timer of any wait there is.
\* Mutant of Disarmed: only the row is updated.
StillArmed == timer
Disarmed == NoTimer
EndWait(reason) ==
    /\ timer' = IF wait.state = "none" THEN timer ELSE Disarmed
    /\ wait' = IF reason = "new_input" THEN Resumed ELSE NoWait

\* releaseQueuedFollowUpsToColdReader: the next batch of the queue.
Release(part) == status' = Moved(part, "plain")

\* resumeUsageLimitWait, from the timer.
Resume ==
    /\ timer' = Disarmed
    /\ IF ~Waiting THEN UNCHANGED <<status, wait, wake>>
       ELSE IF Queued = {} THEN wait' = NoWait /\ UNCHANGED <<status, wake>>
       ELSE /\ wait' = Resumed
            /\ \E part \in Parts(Queued) : Release(part)
            /\ wake' = TRUE

\* A timer whose delay was cut short is armed again.
TimerFires ==
    /\ up /\ timer.armed /\ timer.delay = 0
    /\ IF timer.left > 0
       THEN timer' = Armed(timer.left) /\ UNCHANGED <<status, wait, wake>>
       ELSE Resume
    /\ UNCHANGED <<committed, batch, piped, handling, runner, up, hist, faults>>

Minus1(n) == IF n = 0 THEN 0 ELSE n - 1
Tick ==
    /\ wait.left > 0 \/ timer.delay > 0
    /\ wait' = [wait EXCEPT !.left = Minus1(@)]
    /\ timer' = [armed |-> timer.armed, delay |-> Minus1(timer.delay), left |-> Minus1(timer.left)]
    /\ UNCHANGED <<rows, lane, hist, faults>>

-----------------------------------------------------------------------------
(* Arrivals. *)

InQuery == runner \in {"busy", "walled", "dying"}

Arrives(m) ==
    /\ up
    /\ status[m] = "absent" /\ \A k \in Inputs : k < m => status[k] # "absent"
    /\ UNCHANGED <<committed, wait, timer, batch, up, hist, faults>>

\* handleIncomingFollowUp: behind a query the input waits in the queue.
ArriveQueued(m) ==
    /\ Arrives(m) /\ InQuery
    /\ status' = Moved({m}, "queued")
    /\ UNCHANGED <<piped, handling, runner, wake>>

\* From the Web with a warm runner: its handler awaits the command expander.
ArriveFromWeb(m) ==
    /\ Arrives(m) /\ runner = "idle" /\ m \in Attended
    /\ status' = Moved({m}, "plain")
    /\ handling' = handling \cup {m}
    /\ UNCHANGED <<piped, runner, wake>>

\* Otherwise it is piped with what else is pending, or the lane's task reads it.
Arrive(m) ==
    /\ Arrives(m) /\ ~InQuery
    /\ status' = Moved({m}, "plain")
    /\ UNCHANGED handling
    /\ \/ /\ runner = "idle"
          /\ runner' = "busy" /\ piped' = piped \cup Readable \cup {m}
          /\ UNCHANGED wake
       \/ wake' = TRUE /\ UNCHANGED <<runner, piped>>

\* The handler goes on with the input it was called for.
PassOn(m) ==
    /\ m \in handling
    /\ handling' = handling \ {m}
    /\ \/ /\ runner # "none"
          /\ runner' = (IF runner = "idle" THEN "busy" ELSE runner)
          /\ piped' = piped \cup {m}
          /\ UNCHANGED wake
       \/ wake' = TRUE /\ UNCHANGED <<runner, piped>>
    /\ UNCHANGED <<rows, wait, timer, batch, up, hist, faults>>

-----------------------------------------------------------------------------
(* The lane's task: processAgentConversation. *)

EndsWait(window) == window \cap Attended # {}

\* What one pass does not take is left to a task of its own (agent-channel-next).
\* Mutant of Truncated: that task is forgotten.
NeverTruncated(taken, pending) == FALSE
Truncated(taken, pending) == taken # pending

Runs(pending) ==
    /\ \E b \in Prefixes(pending) : batch' = b /\ wake' = Truncated(b, pending)
    /\ runner' = "busy"

\* Nothing to read.  Rows left in the queue then have nobody to wait for.
ReadNothing ==
    /\ Readable = {}
    /\ wake' = FALSE
    /\ stranded' = IF Waiting THEN stranded ELSE stranded \cup Queued
    /\ UNCHANGED <<status, wait, timer, batch, runner>>

\* Input of a user ends the wait: parked inputs join the batch.
ReadNewInput ==
    /\ Waiting /\ \E window \in Prefixes(Readable) : EndsWait(window)
    /\ EndWait("new_input")
    /\ IF Queued = {} THEN UNCHANGED status
       ELSE \E part \in Parts(Queued) : Release(part)
    /\ Runs({m \in Inputs : status'[m] = "plain" /\ m > committed})
    /\ UNCHANGED stranded

\* Input of automations alone joins the wait.
JoinWait ==
    /\ Waiting
    /\ \E window \in Prefixes(Readable) :
          /\ ~EndsWait(window)
          /\ status' = Moved(window, "queued")
          /\ wake' = Truncated(window, Readable)
    /\ UNCHANGED <<wait, timer, batch, runner, stranded>>

ReadAndRun ==
    /\ ~Waiting /\ Readable # {}
    /\ Runs(Readable)
    /\ UNCHANGED <<status, wait, timer, stranded>>

ColdRead ==
    /\ up /\ wake /\ runner = "none"
    /\ ReadNothing \/ ReadNewInput \/ JoinWait \/ ReadAndRun
    /\ UNCHANGED <<committed, piped, handling, up, inARow, held, faults>>

-----------------------------------------------------------------------------
(* The turn. *)

\* The inputs the turn at hand answers: the batch first, then what was piped.
Served == IF batch # {} THEN batch ELSE piped
Ended == batch' = {} /\ piped' = (IF batch # {} THEN piped ELSE {})

\* dispatchNextQueuedFollowUp: to the runner, or to the cold reader.
Dispatch(st, part) ==
    /\ status' = [m \in Inputs |-> IF m \in part THEN "plain" ELSE st[m]]
    /\ \/ runner' = "busy" /\ piped' = part /\ UNCHANGED wake
       \/ runner' = "idle" /\ piped' = {} /\ wake' = TRUE

\* A healthy turn: the count of waits starts over (settleUsageLimitWaitAfterSuccess)
\* and, when nothing else was piped, the queue's next batch is dispatched.
Answer ==
    /\ up /\ runner = "busy"
    /\ LET st == Moved({m \in Served : status[m] = "plain"}, "done")
       IN /\ committed' = CommitPoint(st)
          /\ batch' = {}
          /\ IF batch # {} /\ piped # {}
             THEN status' = st /\ UNCHANGED <<piped, runner, wake>>
             ELSE IF Queued = {}
             THEN status' = st /\ piped' = {} /\ runner' = "idle" /\ UNCHANGED wake
             ELSE \E part \in Parts(Queued) : Dispatch(st, part)
    /\ wait' = IF wait.state = "resumed" THEN NoWait ELSE wait
    /\ inARow' = 0
    /\ UNCHANGED <<timer, handling, up, held, stranded, faults>>

\* Another lane's query ended, or the user promotes a row: a warm runner that is
\* idle takes the queue's next batch.
DispatchIdle ==
    /\ up /\ runner = "idle"
    /\ \E part \in Parts(Queued) : Dispatch(status, part)
    /\ UNCHANGED <<committed, wait, timer, batch, handling, up, hist, faults>>

\* The failure ends the input: the user is told, the runner is stopped.
EndsInput == /\ Settle(Served) /\ Ended
             /\ runner' = "dying"
             /\ inARow' = 0

\* A failure that is no usage limit, or one whose reset nobody named.
FailsForGood ==
    /\ up /\ Fault("fail") /\ runner = "busy"
    /\ EndsInput
    /\ UNCHANGED <<wait, timer, handling, wake, up, held, stranded>>

\* reserveUsageLimitWaitFor: past either bound the wait is forgotten and the
\* input fails.  The reservation is made before the host hears of the failure.
\* Mutant of MayWait: the bound on the length of one wait only.
MayWaitForever(reset) == reset <= MaxWait
MayWait(reset) == reset <= MaxWait /\ wait.count < MaxWaits

HitLimit(reset) ==
    /\ up /\ runner = "busy"
    /\ IF MayWait(reset)
       THEN /\ wait' = [state |-> "waiting", count |-> wait.count + 1, left |-> reset + Grace]
            /\ inARow' = inARow + 1
            /\ runner' = "walled" /\ held' = {}
            /\ UNCHANGED <<rows, batch, piped>>
       ELSE wait' = NoWait /\ EndsInput /\ UNCHANGED held
    /\ UNCHANGED <<timer, handling, wake, up, stranded, faults>>

\* parkInputForUsageLimitWait, after an await: the failed batch, whatever became of
\* its rows, and everything else still pending, unless the wait is over by then.
\* Mutant of Parked: the failed batch only.
ParkedBatch == Served
Parked == Served \cup {m \in Plain : m > committed}

Park ==
    /\ up /\ runner = "walled"
    /\ runner' = "dying"
    /\ IF Waiting
       THEN /\ status' = Moved(Parked, "queued") /\ timer' = Armed(wait.left)
            /\ held' = {m \in Inputs : status[m] # "absent"}
       ELSE UNCHANGED <<status, timer, held>>
    /\ batch' = {}
    /\ UNCHANGED <<committed, wait, piped, handling, wake, up, inARow, stranded, faults>>

-----------------------------------------------------------------------------
(* The runner goes. *)

\* Deliveries it had not acknowledged are read again, unless the lane waits
\* (onUnacknowledgedIpcDeliveries); a turn it did not finish is retried.
Exits ==
    /\ runner' = "none" /\ batch' = {} /\ piped' = {}
    /\ wake' = (wake \/ batch # {} \/ (piped # {} /\ ~Waiting))
    /\ stranded' = IF Waiting THEN stranded ELSE stranded \cup Queued
    /\ UNCHANGED <<rows, wait, timer, handling, up, inARow, held>>

RunnerExits == up /\ runner \in {"idle", "dying"} /\ Exits /\ UNCHANGED faults
RunnerDies == up /\ Fault("die") /\ runner = "busy" /\ Exits

-----------------------------------------------------------------------------
(* The user. *)

\* promoteFollowUp of a parked row, with no query to steer.
SendNow ==
    /\ up /\ ~InQuery /\ Waiting /\ Queued # {}
    /\ EndWait("new_input")
    /\ \E part \in Parts(Queued) : Release(part)
    /\ wake' = TRUE
    /\ UNCHANGED <<committed, batch, piped, handling, runner, up, hist, faults>>

\* cancelFollowUp: with the last queued row the wait is over.  Not in the moment
\* before the failed inputs are parked: they would stay behind, unparked.
Cancel(m) ==
    /\ up /\ m \in Queued
    /\ Queued = {m} => runner # "walled"
    /\ status' = Moved({m}, "cancelled")
    /\ IF Queued = {m} THEN EndWait("cancelled") /\ inARow' = 0
       ELSE UNCHANGED <<wait, timer, inARow>>
    /\ UNCHANGED <<committed, lane, held, stranded, faults>>

\* /break: the queue is cancelled, the wait is over, the turn is interrupted.
\* Not in the moment before the inputs are parked.
Break ==
    /\ up /\ Fault("stop") /\ runner # "walled"
    /\ LET stopped == IF runner = "busy" THEN {m \in batch \cup piped : status[m] = "plain"} ELSE {}
       IN /\ status' = [m \in Inputs |-> IF m \in Queued THEN "cancelled"
                                          ELSE IF m \in stopped THEN "done" ELSE status[m]]
          /\ committed' = CommitPoint(status')
    /\ EndWait("cancelled")
    /\ IF runner = "busy" THEN runner' = "idle" /\ batch' = {} /\ piped' = {}
       ELSE UNCHANGED <<runner, batch, piped>>
    /\ inARow' = 0
    /\ UNCHANGED <<handling, wake, up, held, stranded>>

\* stopGroup: the lane is discarded (onLaneDiscarded), its runner killed, what it
\* had accepted settled.  A wait takes the rows it parked along.
Stop ==
    /\ up /\ Fault("stop") /\ Readable \subseteq batch /\ handling = {}
    /\ LET stopped == {m \in batch \cup piped : status[m] = "plain"}
           parked == IF Waiting THEN Queued ELSE {}
       IN /\ status' = [m \in Inputs |-> IF m \in parked THEN "cancelled"
                                          ELSE IF m \in stopped THEN "done" ELSE status[m]]
          /\ committed' = CommitPoint(status')
          /\ stranded' = stranded \cup (Queued \ parked)
    /\ EndWait("discarded")
    /\ runner' = "none" /\ batch' = {} /\ piped' = {} /\ wake' = FALSE
    /\ inARow' = 0
    /\ UNCHANGED <<handling, up, held>>

-----------------------------------------------------------------------------
(* The host. *)

Crash ==
    /\ up /\ Fault("crash")
    /\ up' = FALSE
    /\ timer' = NoTimer
    /\ batch' = {} /\ piped' = {} /\ handling' = {} /\ runner' = "none" /\ wake' = FALSE
    /\ inARow' = IF runner = "walled" THEN 0 ELSE inARow
    /\ UNCHANGED <<rows, wait, held, stranded>>

\* rearmUsageLimitWaitsAfterRestart, then recoverDurableFollowUps for the lanes
\* that do not wait any more, then recoverConversationAgents.
StillWaits == Waiting /\ wait.left > 0

\* Mutant of Rearmed: the timers of a lane are not restored.
NotRearmed == NoTimer
Rearmed == Armed(wait.left)

Restart ==
    /\ ~up
    /\ up' = TRUE
    /\ IF StillWaits
       THEN timer' = Rearmed /\ UNCHANGED <<status, wait>>
       ELSE /\ wait' = Resumed
            /\ UNCHANGED timer
            /\ IF Queued = {} THEN UNCHANGED status
               ELSE \E part \in Parts(Queued) : Release(part)
    /\ wake' = (status' # status \/ Readable # {})
    /\ UNCHANGED <<committed, batch, piped, handling, runner, hist, faults>>

-----------------------------------------------------------------------------
Init ==
    /\ status = [m \in Inputs |-> "absent"] /\ committed = 0
    /\ wait = NoWait /\ timer = NoTimer
    /\ batch = {} /\ piped = {} /\ handling = {} /\ runner = "none" /\ wake = FALSE
    /\ up = TRUE /\ inARow = 0 /\ held = {} /\ stranded = {} /\ faults = 0

Handler == \E m \in Inputs : PassOn(m)
Turn == Answer \/ FailsForGood \/ \E reset \in Resets : HitLimit(reset)
User == \/ \E m \in Inputs : ArriveQueued(m) \/ ArriveFromWeb(m) \/ Arrive(m) \/ Cancel(m)
        \/ SendNow \/ Break \/ Stop

Next == \/ User \/ Handler \/ ColdRead \/ Turn \/ Park \/ DispatchIdle
        \/ RunnerExits \/ RunnerDies \/ TimerFires \/ Tick \/ Crash \/ Restart

\* Time passes, timers fire, tasks and handlers run; every turn ends and every
\* runner exits, after its idle timeout or because it is stopped.
Fairness == /\ WF_vars(Tick) /\ WF_vars(TimerFires) /\ WF_vars(Handler) /\ WF_vars(ColdRead)
            /\ WF_vars(Turn) /\ WF_vars(Park) /\ WF_vars(RunnerExits) /\ WF_vars(Restart)

Spec == Init /\ [][Next]_vars /\ Fairness

-----------------------------------------------------------------------------
(* Properties. *)

TypeOK ==
    /\ status \in [Inputs -> {"absent", "plain", "queued", "done", "cancelled"}]
    /\ committed \in 0..MaxInputs
    /\ wait \in [state : {"none", "waiting", "resumed"}, count : 0..MaxWaits,
                 left : 0..(MaxWait + Grace)]
    /\ timer \in [armed : BOOLEAN, delay : 0..MaxDelay, left : 0..(MaxWait + Grace)]
    /\ batch \subseteq Inputs /\ piped \subseteq Inputs /\ handling \subseteq Inputs
    /\ runner \in {"none", "idle", "busy", "walled", "dying"}
    /\ wake \in BOOLEAN /\ up \in BOOLEAN
    /\ inARow \in Nat /\ held \subseteq Inputs /\ stranded \subseteq Inputs /\ faults \in 0..MaxFaults
    /\ wait.state # "waiting" => wait.left = 0
    /\ runner \in {"none", "idle"} => batch = {} /\ piped = {}

\* While the host runs, a lane that waits has its timer, set for the moment the
\* row names, from the moment its inputs are parked; and no timer is armed for a
\* lane that does not wait.  ("this module owns the resume timers, so they
\* survive a restart through the store", usage-limit-wait.ts:13.)
TimerFitsWait ==
    up => /\ timer.armed => Waiting /\ timer.left = wait.left
          /\ Waiting /\ runner # "walled" => timer.armed

\* A lane that waits runs nothing: the only runner it may have is the one that hit
\* the limit, and an input a reader could see has a task that will read it.
WaitingLaneRests ==
    up /\ Waiting =>
        /\ runner \in {"none", "walled", "dying"}
        /\ runner # "walled" /\ Readable # {} => wake

\* A wait that is not over is ended by the user who sends a parked input now, or by
\* an input somebody attends to that arrived after the lane was parked: what the
\* lane already had, and what automations add, waits.  ("so only input that arrives
\* after the wait began can end it", index.ts:2373.)
OnlyNewInputEndsWait ==
    [][Waiting /\ wait.left > 0 /\ wait'.state = "resumed"
         => SendNow \/ (Readable \cap Attended) \ held # {}]_vars

\* Input that ends a wait early, restarts and expired waits keep the count: a lane
\* hits the limit at most MaxWaits times in a row and then fails its input.  (A crash
\* between the reservation and the parking may forget the count: inARow starts over.)
BudgetHolds == inARow <= MaxWaits

\* Every input is answered, failed or cancelled in the end, however often its lane
\* waits, whatever ends the wait.  Known exceptions: a row that a later input
\* overtook while the queue hid it, and rows a runner left in the queue of a lane
\* that does not wait.
Pending(m) == status[m] \in {"plain", "queued"} /\ m > committed /\ m \notin stranded
InputsSettle == \A m \in Inputs : Pending(m) ~> ~Pending(m)
=============================================================================
