----------------------------- MODULE Automations -----------------------------
(***************************************************************************)
(* One automation: its schedule, its runs and the input each run sends to  *)
(* a session lane.  A fire is claimed, the run is prepared over several    *)
(* awaits, its input enters the lane's durable queue, a turn takes it and  *)
(* its end settles the run, which moves the schedule on.  Meanwhile the    *)
(* user edits, stops, resets, rebuilds or deletes, and the service dies.   *)
(*                                                                         *)
(* Automations share nothing but lanes, so one is modelled; the lane is    *)
(* what DeliveryCursor and UsageLimitWait say of it, reduced to one input  *)
(* per run.  Time is counted in ticks since the automation was created.    *)
(***************************************************************************)
EXTENDS Naturals

CONSTANTS MaxTime,    \* the clock stops here
          NextSlot,   \* the next cron slot after each instant
          Interval,   \* intervalMs
          Kinds,      \* the schedules used: "cron", "interval", "once", "manual"
          EndTimes,   \* endAt: None or an instant
          Shapes,     \* what an automation may be: agent or script, bound, pre-checked
          MaxRows,    \* how many run rows there may be
          MaxTries,   \* retries and usage-limit waits there may be
          None,       \* no instant
          Allowed,    \* what users and faults may do
          MaxOps,     \* how often users do it
          MaxFaults   \* how often the service dies or is stopped

Times == 0..MaxTime
Rows == 1..MaxRows
UserOps == {"run", "cancel", "pause", "resume", "complete", "update", "delete",
            "rebuild", "session", "withdraw", "reset"}

ASSUME TimeAssumption ==
    /\ MaxTime \in Nat /\ Interval \in Nat \ {0}
    /\ NextSlot \in [Times -> Nat]
    /\ \A t \in Times : NextSlot[t] > t
    /\ \A s, t \in Times : s <= t => NextSlot[s] <= NextSlot[t]
ASSUME NoneAssumption == None \notin Nat
ASSUME ShapeAssumption ==
    /\ Kinds \subseteq {"cron", "interval", "once", "manual"}
    /\ EndTimes \subseteq Times \cup {None}
    /\ Shapes \subseteq [agent : BOOLEAN, bound : BOOLEAN, check : BOOLEAN]
ASSUME BoundAssumption ==
    /\ MaxRows \in Nat /\ MaxTries \in Nat
    /\ MaxOps \in Nat /\ MaxFaults \in Nat
    /\ Allowed \subseteq UserOps \cup {"crash", "stop"}

VARIABLES
    now,        \* the clock
    auto,       \* the automation's row
    runs,       \* its rows of automation_runs
    input,      \* each run's input in its lane
    session,    \* the session a bound automation answers in exists
    task,       \* what execute(run) awaits, in memory
    rebuild,    \* when the workspace's rebuild began, and whether it paused the automation
    deleting,   \* delete() awaits the disposal of sessions
    resetting,  \* a reset of the lane awaits the stop of its runner
    phase,      \* "down", "booted", "running" (scheduler started) or "stopping"
    tries,      \* times an input went back to the queue
    ops, faults

awaits == <<rebuild, deleting, resetting>>
budget == <<ops, faults>>
vars == <<now, auto, runs, input, session, task, awaits, phase, tries, budget>>

-----------------------------------------------------------------------------
(* The schedule. *)

Quiet == [at |-> None, listed |-> FALSE]

\* computeNextFireAt.  Its two bases agree wherever it is called: `previous'
\* is asked for right after the finish it counts from, at the creation, or of
\* a cron.
Candidate(a) ==
    CASE a.kind = "cron"     -> NextSlot[now]
      [] a.kind = "interval" -> now + Interval
      [] a.kind = "once"     -> a.runAt
      [] a.kind = "manual"   -> None
NextFire(a) ==
    IF Candidate(a) # None /\ a.endAt # None /\ Candidate(a) > a.endAt THEN None ELSE Candidate(a)

Due(a) == a.status = "active" /\ a.next # None /\ a.next <= now
PastEnd(a) == a.endAt # None /\ a.endAt <= now

\* setStatusFields
Closed(a, status, why) == [a EXCEPT !.status = status, !.reason = why, !.next = None]

-----------------------------------------------------------------------------
(* The runs. *)

\* "done" is success, failed or interrupted: which of them changes nothing but
\* the notices.
Finals == {"done", "skipped", "cancelled", "missed"}
Live(rs, r) == rs[r].status \in {"queued", "running"}
Busy(rs) == \E r \in Rows : Live(rs, r)
LiveRun(rs) == CHOOSE r \in Rows : Live(rs, r)

\* Mutant: newRun(automation, trigger, status) called with the two swapped.
RowSwapped(status, trigger, slot) ==
    [status |-> trigger, trigger |-> status, slot |-> slot, linked |-> FALSE]
Row(status, trigger, slot) ==
    [status |-> status, trigger |-> trigger, slot |-> slot, linked |-> FALSE]
Fresh(rs) == {r \in Rows : rs[r].status = "free" /\ \A q \in Rows : q < r => rs[q].status # "free"}
With(rs, r, status, trigger, slot) == [rs EXCEPT ![r] = Row(status, trigger, slot)]

\* What finishRun does to the automation.
\* Mutant: a manual run leaves the schedule where it was.
AfterUnlessManual(a, trigger) ==
    IF a.status # "active" \/ trigger = "manual" THEN a
    ELSE IF a.kind = "once" THEN Closed(a, "completed", "onceDone")
    ELSE [a EXCEPT !.next = NextFire(a)]
After(a, trigger) ==
    IF a.status # "active" THEN a
    ELSE IF a.kind = "once" /\ trigger # "manual" THEN Closed(a, "completed", "onceDone")
    ELSE [a EXCEPT !.next = NextFire(a)]

\* finishRun, of the rows a handler has in its hands.
FinishedIn(rs, r, status) == [rs EXCEPT ![r].status = status]
SettleIn(a, rs, r, status) ==
    auto' = After(a, rs[r].trigger) /\ runs' = FinishedIn(rs, r, status)

\* Mutant: a late settlement overwrites the first.
SettleAgain(r, status) ==
    IF runs[r].status # "deleted" THEN SettleIn(auto, runs, r, status) ELSE UNCHANGED <<auto, runs>>
Settle(r, status) ==
    IF Live(runs, r) THEN SettleIn(auto, runs, r, status) ELSE UNCHANGED <<auto, runs>>

-----------------------------------------------------------------------------
(* Starting a run: execute(run) up to its first await. *)

\* resolveSession
Enter(a, rs, r) ==
    IF a.bound /\ ~session
    THEN /\ auto' = Closed(After(a, rs[r].trigger), "paused", "none")
         /\ runs' = FinishedIn(rs, r, "done")
         /\ task' = [task EXCEPT ![r] = "none"]
    ELSE auto' = a /\ runs' = rs /\ task' = [task EXCEPT ![r] = "open"]

\* Billing or the host policy may refuse the run; a stopped scheduler leaves
\* it queued for the restart.
Begin(a, rs, r) ==
    \/ phase = "stopping" /\ auto' = a /\ runs' = rs /\ UNCHANGED task
    \/ phase # "stopping" /\ SettleIn(a, rs, r, "done") /\ UNCHANGED task
    \/ /\ phase # "stopping" /\ a.agent /\ a.check
       /\ auto' = a /\ runs' = rs /\ task' = [task EXCEPT ![r] = "check"]
    \/ phase # "stopping" /\ ~(a.agent /\ a.check) /\ Enter(a, rs, r)

\* fire: one transaction re-reads the row, writes the run and moves the
\* schedule on.
\* Mutants: a run that is already executing does not count; a claimed cron
\* slot stays due.
OverlappingQueued(rs) == \E r \in Rows : rs[r].status = "queued"
Overlapping(rs) == Busy(rs)
ClaimedStillDue(a) == a
Claimed(a) == [a EXCEPT !.next = IF a.kind = "cron" THEN NextFire(a) ELSE None]

Fire(a, rs, trigger) ==
    \/ /\ Overlapping(rs) /\ a.kind = "once"
       /\ auto' = [a EXCEPT !.next = None] /\ runs' = rs /\ UNCHANGED task
    \/ /\ Overlapping(rs) /\ a.kind # "once"
       /\ \E r \in Fresh(rs) : runs' = With(rs, r, "skipped", trigger, a.next)
       /\ auto' = [a EXCEPT !.next = NextFire(a)] /\ UNCHANGED task
    \/ /\ ~Overlapping(rs)
       /\ \E r \in Fresh(rs) : Begin(Claimed(a), With(rs, r, "queued", trigger, a.next), r)

-----------------------------------------------------------------------------
(* The scheduler. *)

\* An automation is created while the service runs; a once time and an end
\* time lie ahead.
Init ==
    /\ now = 0
    /\ \E k \in Kinds, e \in EndTimes \ {0}, s \in Shapes, t \in Times \ {0} :
          LET a == [agent |-> s.agent, bound |-> s.bound, check |-> s.check,
                    kind |-> k, runAt |-> IF k = "once" THEN t ELSE None, endAt |-> e,
                    status |-> "active", reason |-> "none", next |-> None]
          IN  auto = [a EXCEPT !.next = NextFire(a)]
    /\ runs = [r \in Rows |-> Row("free", "none", None)]
    /\ input = [r \in Rows |-> "none"]
    /\ session = TRUE
    /\ task = [r \in Rows |-> "none"]
    /\ rebuild = Quiet /\ deleting = FALSE /\ resetting = FALSE
    /\ phase = "running"
    /\ tries = 0
    /\ ops = 0 /\ faults = 0

Advance ==
    /\ now < MaxTime /\ now' = now + 1
    /\ UNCHANGED <<auto, runs, input, session, task, awaits, phase, tries, budget>>

\* tick: what has reached its end time completes before anything fires.
Tick ==
    /\ phase = "running"
    /\ \/ /\ auto.status = "active" /\ PastEnd(auto)
          /\ auto' = Closed(auto, "completed", "none") /\ UNCHANGED <<runs, task>>
       \/ Due(auto) /\ ~PastEnd(auto) /\ Fire(auto, runs, "schedule")
    /\ UNCHANGED <<now, input, session, awaits, phase, tries, budget>>

\* isAutomationLaneInputPending
Pending(r) == input[r] \in {"waiting", "parked", "executing", "settled"}
\* Mutant: a recorded input counts as still to come.
SurvivesIfRecorded(r) == auto.agent /\ runs[r].linked
Survives(r) == auto.agent /\ runs[r].linked /\ (~auto.bound \/ session) /\ Pending(r)

\* recover, of the schedule; what has ended the first tick completes.
RecoverSchedule(a, rs) ==
    IF a.status # "active" THEN auto' = a /\ runs' = rs /\ UNCHANGED task
    ELSE IF PastEnd(a)
    THEN auto' = Closed(a, "completed", "none") /\ runs' = rs /\ UNCHANGED task
    ELSE IF Due(a) /\ a.kind = "once" THEN Fire(a, rs, "backfill")
    ELSE IF Due(a)
    THEN /\ \E r \in Fresh(rs) : runs' = With(rs, r, "missed", "schedule", a.next)
         /\ auto' = [a EXCEPT !.next = NextFire(a)] /\ UNCHANGED task
    ELSE /\ auto' = IF a.next = None /\ a.kind # "manual" /\ ~Busy(rs)
                    THEN [a EXCEPT !.next = NextFire(a)] ELSE a
         /\ runs' = rs /\ UNCHANGED task

Start ==
    /\ phase = "booted" /\ phase' = "running"
    /\ \/ /\ \A r \in Rows : Live(runs, r) => Survives(r)
          /\ RecoverSchedule(auto, runs)
       \/ \E r \in Rows :
             /\ Live(runs, r) /\ ~Survives(r)
             /\ RecoverSchedule(After(auto, runs[r].trigger), FinishedIn(runs, r, "done"))
    /\ UNCHANGED <<now, input, session, awaits, tries, budget>>

-----------------------------------------------------------------------------
(* What a run awaits.  Each step re-reads the row: a run that is no longer *)
(* live goes no further.                                                   *)

\* The pre-run check: 0 runs, 2 skips, anything else blocks.
CheckDone(r) ==
    /\ task[r] = "check"
    /\ \/ ~Live(runs, r) /\ task' = [task EXCEPT ![r] = "none"] /\ UNCHANGED <<auto, runs>>
       \/ /\ Live(runs, r)
          /\ \E s \in {"skipped", "done"} : SettleIn(auto, runs, r, s)
          /\ task' = [task EXCEPT ![r] = "none"]
       \/ Live(runs, r) /\ Enter(auto, runs, r)
    /\ UNCHANGED <<now, input, session, awaits, phase, tries, budget>>

\* The session is there; a script starts, a prompt enters the lane.
OpenDone(r) ==
    /\ task[r] = "open"
    /\ \/ /\ ~Live(runs, r)
          /\ task' = [task EXCEPT ![r] = "none"] /\ UNCHANGED <<auto, runs, input>>
       \/ /\ Live(runs, r)
          /\ SettleIn(auto, runs, r, "done")
          /\ task' = [task EXCEPT ![r] = "none"] /\ UNCHANGED input
       \/ /\ Live(runs, r) /\ (auto.bound => session) /\ ~auto.agent
          /\ runs' = [runs EXCEPT ![r].status = "running"]
          /\ task' = [task EXCEPT ![r] = "script"] /\ UNCHANGED <<auto, input>>
       \/ /\ Live(runs, r) /\ (auto.bound => session) /\ auto.agent
          /\ input' = [input EXCEPT ![r] = "waiting"]
          /\ task' = [task EXCEPT ![r] = "record"] /\ UNCHANGED <<auto, runs>>
    /\ UNCHANGED <<now, session, awaits, phase, tries, budget>>

\* cancelAutomationInput: a queued input leaves the queue; an unread one is
\* dropped by the next read, a piped one when its turn comes.
Withdrawable(r) == input[r] \in {"waiting", "parked"}
Withdrawn(r) ==
    \/ Withdrawable(r) /\ input' = [input EXCEPT ![r] = "gone"]
    \/ UNCHANGED input

RecordInput(r) ==
    /\ task[r] = "record" /\ task' = [task EXCEPT ![r] = "none"]
    /\ IF Live(runs, r)
       THEN runs' = [runs EXCEPT ![r].linked = TRUE] /\ UNCHANGED input
       ELSE Withdrawn(r) /\ UNCHANGED runs
    /\ UNCHANGED <<now, auto, session, awaits, phase, tries, budget>>

ScriptDone(r) ==
    /\ task[r] = "script" /\ task' = [task EXCEPT ![r] = "none"]
    /\ Settle(r, "done")
    /\ UNCHANGED <<now, input, session, awaits, phase, tries, budget>>

-----------------------------------------------------------------------------
(* The lane. *)

laneFrame == <<now, session, task, awaits, phase, budget>>

\* A batch is taken for a runner; the input of a run that has ended is
\* consumed instead.
Take(r) ==
    /\ phase # "down" /\ rebuild.at = None /\ Withdrawable(r)
    /\ IF Live(runs, r)
       THEN /\ input' = [input EXCEPT ![r] = "executing"]
            /\ runs' = [runs EXCEPT ![r].status = "running"]
       ELSE input' = [input EXCEPT ![r] = "gone"] /\ UNCHANGED runs
    /\ UNCHANGED <<auto, tries, laneFrame>>

\* The turn reports its outcome, then its cursor commits.
TurnEnds(r) ==
    /\ phase # "down" /\ input[r] = "executing"
    /\ input' = [input EXCEPT ![r] = "settled"]
    /\ \E s \in {"done", "cancelled"} : Settle(r, s)
    /\ UNCHANGED <<tries, laneFrame>>
CommitTurn(r) ==
    /\ phase # "down" /\ input[r] = "settled"
    /\ input' = [input EXCEPT ![r] = "gone"]
    /\ UNCHANGED <<auto, runs, tries, laneFrame>>

\* The cursor commits without a terminal of the run; settleAll ends it when
\* the round does.
TurnConsumed(r) ==
    /\ phase # "down" /\ input[r] = "executing"
    /\ input' = [input EXCEPT ![r] = "committed"]
    /\ UNCHANGED <<auto, runs, tries, laneFrame>>
LateSettle(r) ==
    /\ phase # "down" /\ input[r] = "committed"
    /\ input' = [input EXCEPT ![r] = "gone"]
    /\ Settle(r, "done")
    /\ UNCHANGED <<tries, laneFrame>>

\* The input goes back: the round failed and is retried, or it waits for a
\* usage-limit reset in the durable queue.
TurnRetries(r) ==
    /\ phase # "down" /\ input[r] = "executing" /\ tries < MaxTries
    /\ \E to \in {"waiting", "parked"} : input' = [input EXCEPT ![r] = to]
    /\ tries' = tries + 1
    /\ UNCHANGED <<auto, runs, laneFrame>>
RetriesExhausted(r) ==
    /\ phase # "down" /\ input[r] = "executing"
    /\ input' = [input EXCEPT ![r] = "gone"]
    /\ Settle(r, "done")
    /\ UNCHANGED <<tries, laneFrame>>

-----------------------------------------------------------------------------
(* What users do. *)

Does(op) == op \in Allowed /\ phase # "down" /\ ops < MaxOps /\ ops' = ops + 1
Exists == auto.status # "deleted"

\* startManualRun: whatever the automation's status.
RunNow ==
    /\ Does("run") /\ Exists /\ ~Busy(runs)
    /\ \E r \in Fresh(runs) : Begin(auto, With(runs, r, "queued", "manual", now), r)
    /\ UNCHANGED <<now, input, session, awaits, phase, tries, faults>>

\* cancelRun: the run is cancelled, then its input withdrawn; one that a turn
\* already runs is only stopped if the user asked for it.
Cancelled(r, interrupt) ==
    /\ SettleIn(auto, runs, r, "cancelled")
    /\ IF runs[r].linked /\ (interrupt \/ runs[r].status = "queued")
       THEN Withdrawn(r) ELSE UNCHANGED input
CancelRun(r) ==
    /\ Does("cancel") /\ Exists /\ Live(runs, r) /\ Cancelled(r, TRUE)
    /\ UNCHANGED <<now, session, task, awaits, phase, tries, faults>>

\* A queued input cancelled in the chat, or /break.
Withdraw(r) ==
    /\ Does("withdraw") /\ Withdrawable(r)
    /\ input' = [input EXCEPT ![r] = "gone"] /\ Settle(r, "cancelled")
    /\ UNCHANGED <<now, session, task, awaits, phase, tries, faults>>

Pause ==
    /\ Does("pause") /\ Exists /\ auto.status # "paused"
    /\ auto' = Closed(auto, "paused", "none")
    /\ UNCHANGED <<now, runs, input, session, task, awaits, phase, tries, faults>>
Complete ==
    /\ Does("complete") /\ Exists
    /\ auto' = Closed(auto, "completed", "none")
    /\ UNCHANGED <<now, runs, input, session, task, awaits, phase, tries, faults>>

\* nextFireFromNow: an interval's live run sets the next fire when it ends.
NextFromNow(a, rs) ==
    IF a.kind = "interval" /\ Busy(rs) THEN None ELSE NextFire(a)
CanActivate(a) == ~PastEnd(a) /\ (a.kind = "once" => a.runAt > now)
\* Mutant: a resumed automation is left without a next fire.
ActivatedUnarmed(a, rs) == [a EXCEPT !.status = "active", !.reason = "none"]
Activated(a, rs) ==
    LET active == [a EXCEPT !.status = "active", !.reason = "none"]
    IN  [active EXCEPT !.next = NextFromNow(active, rs)]
Resume ==
    /\ Does("resume") /\ Exists /\ auto.status # "active" /\ CanActivate(auto)
    /\ auto' = Activated(auto, runs)
    /\ UNCHANGED <<now, runs, input, session, task, awaits, phase, tries, faults>>

\* update, of the cadence and of the end time: new instants lie ahead, and an
\* active automation counts its next fire from now.
Retimed(a, rs) == IF a.status = "active" THEN [a EXCEPT !.next = NextFromNow(a, rs)] ELSE a
Reschedule ==
    /\ Does("update") /\ Exists
    /\ \E k \in Kinds, t \in Times :
          /\ k = "once" => t > now
          /\ LET set == [auto EXCEPT !.kind = k, !.runAt = IF k = "once" THEN t ELSE None]
             IN  auto' = Retimed(set, runs)
    /\ UNCHANGED <<now, runs, input, session, task, awaits, phase, tries, faults>>
ChangeEnd ==
    /\ Does("update") /\ Exists
    /\ \E e \in EndTimes :
          /\ e # None => e > now
          /\ auto' = Retimed([auto EXCEPT !.endAt = e], runs)
    /\ UNCHANGED <<now, runs, input, session, task, awaits, phase, tries, faults>>

\* delete: the live run is cancelled unless it is the one deleting its own
\* automation; then sessions are disposed of, and only then do the rows go.
DeleteBegin ==
    /\ Does("delete") /\ Exists /\ ~deleting /\ deleting' = TRUE
    /\ \/ ~Busy(runs) /\ UNCHANGED <<auto, runs, input>>
       \/ \E r \in Rows : Live(runs, r) /\ Cancelled(r, TRUE)
       \/ /\ \E r \in Rows : Live(runs, r) /\ input[r] = "executing"
          /\ UNCHANGED <<auto, runs, input>>
    /\ UNCHANGED <<now, session, task, rebuild, resetting, phase, tries, faults>>
DeleteEnd ==
    /\ phase # "down" /\ deleting /\ deleting' = FALSE
    /\ auto' = Closed(auto, "deleted", "none")
    /\ runs' = [r \in Rows |-> IF runs[r].status = "free" THEN runs[r]
                               ELSE [runs[r] EXCEPT !.status = "deleted"]]
    /\ UNCHANGED <<now, input, session, task, rebuild, resetting, phase, tries, budget>>

\* onSessionDeleted: a bound automation pauses, and the run that opened the
\* session ends with the inputs it held.
Doomed(rs) ==
    {r \in Rows : Live(rs, r) /\ (rs[r].status = "running" \/ input[r] # "none")}
LostAuto(a, rs) ==
    LET left == IF a.bound /\ a.status # "deleted" THEN Closed(a, "paused", "none") ELSE a
    IN  IF Doomed(rs) = {} THEN left ELSE After(left, rs[CHOOSE r \in Doomed(rs) : TRUE].trigger)
\* Mutant: the runs of the session are left to themselves.
LostRunsKept(rs) == rs
LostRuns(rs) ==
    [r \in Rows |-> IF r \in Doomed(rs) THEN [rs[r] EXCEPT !.status = "cancelled"] ELSE rs[r]]
LoseSession ==
    /\ runs' = LostRuns(runs)
    /\ session' = (session /\ ~auto.bound)
    /\ input' = [r \in Rows |-> IF input[r] = "none" THEN "none" ELSE "gone"]
SessionDeleted ==
    /\ Does("session") /\ session /\ LoseSession /\ auto' = LostAuto(auto, runs)
    /\ UNCHANGED <<now, task, awaits, phase, tries, faults>>

\* suspendWorkspace: a rebuild cancels the live run and pauses what was active
\* when it looked.  The lanes stand still until it is over.
Suspend ==
    /\ Does("rebuild") /\ Exists /\ rebuild.at = None
    /\ rebuild' = [at |-> now, listed |-> auto.status = "active"]
    /\ LET ended == IF Busy(runs) THEN After(auto, runs[LiveRun(runs)].trigger) ELSE auto
       IN  auto' = IF auto.status = "active" THEN Closed(ended, "paused", "suspended") ELSE ended
    /\ \/ ~Busy(runs) /\ UNCHANGED <<runs, input>>
       \/ \E r \in Rows :
             /\ Live(runs, r) /\ runs' = FinishedIn(runs, r, "cancelled")
             /\ IF runs[r].linked /\ runs[r].status = "queued"
                THEN Withdrawn(r) ELSE UNCHANGED input
    /\ UNCHANGED <<now, session, task, deleting, resetting, phase, tries, faults>>
\* The rebuild fails, or it goes through and takes the sessions with it; what
\* is still paused for it resumes.
Restored(a, rs) ==
    IF rebuild.listed /\ a.status = "paused" /\ a.reason = "suspended" /\ CanActivate(a)
    THEN Activated(a, rs) ELSE a
Restore ==
    /\ phase # "down" /\ rebuild.at # None /\ rebuild' = Quiet
    /\ \/ auto' = Restored(auto, runs) /\ UNCHANGED <<runs, input, session>>
       \/ LoseSession /\ auto' = Restored(LostAuto(auto, runs), LostRuns(runs))
    /\ UNCHANGED <<now, task, deleting, resetting, phase, tries, budget>>

\* executeSessionReset: the runs whose input the lane has end before its
\* runner stops; then the cursor passes every input the lane has not read.
InLane(r) == input[r] \notin {"none", "gone"}
ResetBegin ==
    /\ Does("reset") /\ phase = "running" /\ session /\ ~resetting /\ resetting' = TRUE
    /\ \/ ~(\E r \in Rows : Live(runs, r) /\ InLane(r)) /\ UNCHANGED <<auto, runs>>
       \/ \E r \in Rows : Live(runs, r) /\ InLane(r) /\ SettleIn(auto, runs, r, "cancelled")
    /\ UNCHANGED <<now, input, session, task, rebuild, deleting, phase, tries, faults>>
ResetEnd ==
    /\ phase # "down" /\ resetting /\ resetting' = FALSE
    /\ input' = [r \in Rows |-> IF input[r] = "waiting" THEN "gone" ELSE input[r]]
    /\ UNCHANGED <<now, auto, runs, session, task, rebuild, deleting, phase, tries, budget>>

-----------------------------------------------------------------------------
(* The service. *)

\* stop() kills checks and scripts and leaves their runs to the restart.
Stop ==
    /\ "stop" \in Allowed /\ phase = "running" /\ faults < MaxFaults
    /\ phase' = "stopping" /\ faults' = faults + 1
    /\ task' = [r \in Rows |-> IF task[r] = "record" THEN "record" ELSE "none"]
    /\ UNCHANGED <<now, auto, runs, input, session, awaits, tries, ops>>

\* What only the process knew goes; an input whose cursor has not committed
\* is read again.
Lost ==
    /\ phase' = "down"
    /\ task' = [r \in Rows |-> "none"]
    /\ input' = [r \in Rows |-> CASE input[r] \in {"executing", "settled"} -> "waiting"
                                  [] input[r] = "committed" -> "gone"
                                  [] OTHER -> input[r]]
    /\ rebuild' = Quiet /\ deleting' = FALSE /\ resetting' = FALSE
Crash ==
    /\ "crash" \in Allowed /\ phase # "down" /\ faults < MaxFaults
    /\ Lost /\ faults' = faults + 1
    /\ UNCHANGED <<now, auto, runs, session, tries, ops>>
Exit ==
    /\ phase = "stopping" /\ Lost
    /\ UNCHANGED <<now, auto, runs, session, tries, budget>>

\* Lanes recover before the scheduler starts.
Boot ==
    /\ phase = "down" /\ phase' = "booted"
    /\ UNCHANGED <<now, auto, runs, input, session, task, awaits, tries, budget>>

-----------------------------------------------------------------------------

RunStep(r) == CheckDone(r) \/ OpenDone(r) \/ RecordInput(r) \/ ScriptDone(r)
TurnStep(r) ==
    \/ TurnEnds(r) \/ CommitTurn(r) \/ TurnConsumed(r) \/ LateSettle(r)
    \/ TurnRetries(r) \/ RetriesExhausted(r)
AwaitEnds == DeleteEnd \/ Restore \/ ResetEnd
ServiceStep == Exit \/ Boot \/ Start
UserStep ==
    \/ RunNow \/ Pause \/ Complete \/ Resume \/ Reschedule \/ ChangeEnd
    \/ DeleteBegin \/ SessionDeleted \/ Suspend \/ ResetBegin
    \/ \E r \in Rows : CancelRun(r) \/ Withdraw(r)

Next ==
    \/ Advance \/ Tick
    \/ \E r \in Rows : RunStep(r) \/ Take(r) \/ TurnStep(r)
    \/ UserStep \/ AwaitEnds
    \/ Stop \/ Crash \/ ServiceStep

Spec == Init /\ [][Next]_vars

\* Commands have time limits, runners an idle limit, parked inputs a reset
\* time, timers fire, and the service is restarted.
Fairness ==
    /\ WF_vars(Advance) /\ WF_vars(Tick) /\ WF_vars(ServiceStep) /\ WF_vars(AwaitEnds)
    /\ \A r \in Rows : WF_vars(RunStep(r)) /\ WF_vars(Take(r)) /\ WF_vars(TurnStep(r))
FairSpec == Spec /\ Fairness

-----------------------------------------------------------------------------
(* Properties. *)

Instants == Nat \cup {None}
RowType == [status : Finals \cup {"free", "queued", "running", "deleted"},
            trigger : {"none", "schedule", "backfill", "manual"},
            slot : Instants, linked : BOOLEAN]
AutoType == [agent : BOOLEAN, bound : BOOLEAN, check : BOOLEAN,
             kind : {"cron", "interval", "once", "manual"},
             runAt : Instants, endAt : Instants,
             status : {"active", "paused", "completed", "deleted"},
             reason : {"none", "onceDone", "suspended"},
             next : Instants]

\* The variables hold what the code stores in them.
TypeOK ==
    /\ now \in Times /\ auto \in AutoType
    /\ runs \in [Rows -> RowType]
    /\ input \in [Rows -> {"none", "waiting", "parked", "executing", "settled", "committed",
                           "gone"}]
    /\ session \in BOOLEAN
    /\ task \in [Rows -> {"none", "check", "open", "record", "script"}]
    /\ rebuild \in [at : Instants, listed : BOOLEAN]
    /\ deleting \in BOOLEAN /\ resetting \in BOOLEAN
    /\ phase \in {"down", "booted", "running", "stopping"}
    /\ tries \in Nat /\ ops \in Nat /\ faults \in Nat

\* An automation never has two queued or running runs, whichever of the tick,
\* the user and the recovery starts them.
OneLiveRun == \A q, r \in Rows : Live(runs, q) /\ Live(runs, r) => q = r

\* No slot of the schedule is claimed twice: not by a tick and the recovery,
\* nor after an edit, a resume or a manual run put the schedule back.
Scheduled(r) == runs[r].status # "free" /\ runs[r].trigger # "manual"
SlotsAreClaimedOnce ==
    \A q, r \in Rows :
        Scheduled(q) /\ Scheduled(r) /\ runs[q].slot = runs[r].slot => q = r

\* An active automation without a live run always knows when it fires next,
\* if its schedule has a next time at all: nothing else would ever wake it.
ScheduleNeverStalls ==
    auto.status = "active" /\ ~Busy(runs) /\ auto.next = None => NextFire(auto) = None

\* While the scheduler runs, a live run is being prepared or its input is
\* still in its lane: one that nothing will settle blocks every later fire.
LiveRunsAreServed ==
    phase = "running" =>
        \A r \in Rows : Live(runs, r) => task[r] # "none" \/ InLane(r)

\* A run that has ended keeps its status, however late its turn, its script
\* or its withdrawal reports.
EndedRunsStayEnded ==
    [][\A r \in Rows : runs[r].status \in Finals =>
          runs'[r].status \in {runs[r].status, "deleted"}]_vars

\* Every live run ends: neither a crash, nor a lost session, nor an input that
\* goes back to the queue leaves it live for good.
RunsEnd == \A r \in Rows : Live(runs, r) ~> ~Live(runs, r)

\* A fire that is due is claimed, or given up by who stops the automation; a
\* once parked behind a manual run comes back.
OnceWaits == auto.status = "active" /\ auto.kind = "once" /\ auto.runAt <= now
Ran == \E r \in Rows : Scheduled(r) /\ runs[r].slot = auto.runAt
OnceIsServed == OnceWaits /\ NextFire(auto) # None ~> Ran \/ auto.status # "active"

-----------------------------------------------------------------------------
(* What documents and comments say, and the code does otherwise. *)

\* README.md: a recurring fire that came due while the service was down is
\* recorded as missed.
DowntimeMissIsRecorded ==
    [][phase = "booted" /\ phase' = "running" /\ Due(auto) /\ ~PastEnd(auto) /\ auto.kind # "once"
       => \E r \in Rows : runs'[r].status = "missed" /\ runs'[r].slot = auto.next]_vars

\* automation.ts: completed means ended on purpose, here because the single
\* run is done.
OnceDoneHasRun ==
    [][auto.reason # "onceDone" /\ auto'.reason = "onceDone"
       => \E r \in Rows : runs'[r].trigger # "manual" /\ runs'[r].slot = auto'.runAt]_vars

\* docs/API.md: a run whose input waits for a usage-limit reset stays queued.
ParkedRunStaysQueued ==
    \A r \in Rows : Live(runs, r) /\ input[r] = "parked" => runs[r].status = "queued"

\* commands.ts: a reset skips every input of the session, so their runs end.
ResetEndsItsRuns ==
    [][\A r \in Rows : resetting /\ input[r] = "waiting" /\ input'[r] = "gone"
          => ~Live(runs', r)]_vars

\* automation-service.ts: after a rebuild an automation stays paused only if
\* its end or run time passed during the rebuild.
RebuildResumes ==
    [][rebuild.listed /\ ~rebuild'.listed /\ phase' # "down" /\ auto'.reason = "suspended"
       => \/ auto.kind = "once" /\ auto.runAt > rebuild.at
          \/ auto.endAt # None /\ auto.endAt > rebuild.at]_vars

=============================================================================
