------------------------------ MODULE GroupQueue ------------------------------
(***************************************************************************)
(* The host's runner scheduler, class GroupQueue of src/group-queue.ts.    *)
(*                                                                         *)
(* A lane is one conversation (a Session's runtime JID).  The queue starts *)
(* at most one runner per serialization key, keeps work that cannot start  *)
(* in the lane's pendingTasks, bounds the containers that run at once, and *)
(* gates whole workspaces (mutation pauses, safety blocks) or single lanes *)
(* (holds) while their configuration changes.                              *)
(*                                                                         *)
(* The host is one JavaScript thread: the code between two awaits runs to  *)
(* completion.  An action is one such segment.  The loops and nested calls *)
(* at the end of a segment are kept in agenda, one entry per call still to *)
(* be made; no other action happens before the agenda is empty.            *)
(***************************************************************************)
EXTENDS Integers, FiniteSets, SequencesExt

CONSTANTS
  Lane, Workspace, User,
  WorkspaceOf,          \* lane -> workspace family its mutation key names
  KeyOf,                \* lane -> serialization key (folder#agentId)
  OwnerOf,              \* lane -> user whose runner limit the lane counts for
  HostLane,             \* lanes whose workspace runs in host mode
  UserLimit,            \* user -> concurrent runners billing allows
  MaxContainers,        \* maxConcurrentContainers
  MaxRetries,           \* MAX_RETRIES (5 in the code)
  Task,                 \* task ids
  NoTask,               \* no task
  RecoveryTask,         \* agent-delivery-recovery:<agentId>
  RestartTask,          \* agent-restart:<agentId>
  NoInputTask,          \* tasks with acceptsInput = false (terminal warm-up)
  Token,                \* mutation pause tokens that may be live at once
  Source,               \* sources of runtime safety blocks
  MaxHolds,             \* bound on the holders of one lane
  OwesOutside           \* lanes the host's idle-reclaim blocker vetoes

(* What the environment of a run does: the lanes it pipes input to, stops, *)
(* holds, restarts, retires and defers stops of; the tasks that may fail;  *)
(* whether it deletes workspaces, a force-kill can time out, and the host  *)
(* shuts down.                                                             *)
CONSTANTS
  PipedLane, StoppedLane, HeldLane, RestartedLane, RetiredLane, DeferredLane,
  FailingTask, MayDelete, MayTimeOut, MayShutDown

ASSUME LaneAssumption ==
  /\ IsFiniteSet(Lane)
  /\ WorkspaceOf \in [Lane -> Workspace]
  /\ OwnerOf \in [Lane -> User]
  /\ HostLane \subseteq Lane
  /\ OwesOutside \subseteq Lane
  /\ \A a, b \in Lane : KeyOf[a] = KeyOf[b] =>
        /\ WorkspaceOf[a] = WorkspaceOf[b]
        /\ a \in HostLane <=> b \in HostLane

(* Lanes are held by their session's own runtime JID, the only one the host *)
(* enqueues the session's work under.                                      *)
ASSUME HeldAssumption ==
  /\ HeldLane \subseteq Lane
  /\ \A h \in HeldLane, l \in Lane : KeyOf[h] = KeyOf[l] => h = l

ASSUME LimitAssumption ==
  /\ UserLimit \in [User -> Nat]
  /\ MaxContainers \in Nat
  /\ MaxRetries \in Nat
  /\ MaxHolds \in Nat

ASSUME EnvironmentAssumption ==
  /\ {PipedLane, StoppedLane, RestartedLane, RetiredLane, DeferredLane}
       \subseteq SUBSET Lane
  /\ FailingTask \subseteq Task

ASSUME TaskAssumption ==
  /\ NoTask \notin Task
  /\ {RecoveryTask, RestartTask} \subseteq Task
  /\ NoInputTask \subseteq Task \ {RecoveryTask, RestartTask}

VARIABLES
  groups,                \* lane -> GroupState
  waitingGroups,         \* lanes waiting for a runner, a gate or a slot
  activeContainerCount,  \* container runners the counter says are active
  heldLanes,             \* lane -> number of holders
  mutationPauseTokens,   \* live token -> paused workspaces ({}: not live)
  runtimeSafetyBlocks,   \* workspace -> sources that block it
  terminalDiscards,      \* workspaces deleted for this process lifetime
  preserveStops,         \* lanes with a preserving stop in progress
  queryEndDeferrals,     \* keys whose stops wait for the query to end
  shuttingDown,
  agenda                 \* calls the running segment still has to make

gateVars == <<heldLanes, mutationPauseTokens, runtimeSafetyBlocks,
              terminalDiscards>>
modeVars == <<preserveStops, queryEndDeferrals, shuttingDown>>
vars == <<groups, waitingGroups, activeContainerCount, gateVars, modeVars,
          agenda>>

-----------------------------------------------------------------------------
(* The state of one lane and the state a lane has when it is first seen.   *)

GroupState ==
  [active        : BOOLEAN,
   registered    : BOOLEAN,               \* registerProcess named its IPC directory
   finishing     : BOOLEAN,               \* the task resolved false; retry bookkeeping awaits
   activeTask    : Task \union {NoTask},
   pendingTasks  : Seq(Task),
   stopRequested : BOOLEAN,
   restarting    : BOOLEAN,
   retryCount    : 0..MaxRetries,
   retryTask     : Task \union {NoTask},  \* the armed timer's task
   queuedRetry   : Task \union {NoTask},  \* fired, not started yet
   query         : {"none", "inFlight", "reserved", "idle", "unsettled"},
   closing       : {"no", "reclaim", "after_query"},
   drainSentinelWritten : BOOLEAN,
   ipcOwed       : BOOLEAN]               \* pendingIpcDeliveries is not empty

FreshGroup ==
  [active |-> FALSE, registered |-> FALSE, finishing |-> FALSE,
   activeTask |-> NoTask, pendingTasks |-> <<>>, stopRequested |-> FALSE,
   restarting |-> FALSE, retryCount |-> 0, retryTask |-> NoTask,
   queuedRetry |-> NoTask, query |-> "none", closing |-> "no",
   drainSentinelWritten |-> FALSE, ipcOwed |-> FALSE]

(* Entries of the agenda: the operation and the lanes it is about.         *)
Call == [op : {"drainGroup", "visit", "reclaim", "recover", "releaseLane",
               "resumeGroups", "finishRestart"},
         lanes : SUBSET Lane]

Calling(op, lanes) == <<[op |-> op, lanes |-> lanes]>>
(* Mutant of DrainWaiting: a freed slot is offered to nobody.              *)
FreedSlotLost(waiting) == <<>>

DrainWaiting(waiting) == Calling("visit", waiting)

Quiet == agenda = <<>>
Running(op) == ~Quiet /\ Head(agenda).op = op
Args == Head(agenda).lanes

-----------------------------------------------------------------------------
(* Gates, runners and capacity.                                            *)

TokenPaused(l) ==
  \E k \in Token : WorkspaceOf[l] \in mutationPauseTokens[k]

(* Mutant of Paused: only whole workspaces are gated.                      *)
PausedForgetsHolds(l) ==
  TokenPaused(l) \/ runtimeSafetyBlocks[WorkspaceOf[l]] # {}

Paused(l) ==
  \/ heldLanes[l] > 0
  \/ TokenPaused(l)
  \/ runtimeSafetyBlocks[WorkspaceOf[l]] # {}

Discarded(l) == WorkspaceOf[l] \in terminalDiscards

LanesOf(workspaces) == {l \in Lane : WorkspaceOf[l] \in workspaces}

Runners(l) == {r \in Lane : groups[r].active /\ KeyOf[r] = KeyOf[l]}

(* The lane whose runner an operation on l is about: findActiveRunnerFor,  *)
(* or l itself.                                                            *)
Targets(l) == IF Runners(l) = {} THEN {l} ELSE Runners(l)

RegisteredRunners(l) == {r \in Runners(l) : groups[r].registered}

LaneHasQueuedTasks(l) ==
  \E m \in Lane : KeyOf[m] = KeyOf[l] /\ groups[m].pendingTasks # <<>>

InQuery(st) == st.query \in {"inFlight", "reserved"}

ActiveOf(user) == {l \in Lane : groups[l].active /\ OwnerOf[l] = user}
UserAllows(l) == Cardinality(ActiveOf(OwnerOf[l])) < UserLimit[OwnerOf[l]]
GlobalAtLimit == activeContainerCount >= MaxContainers

(* Mutants of HasCapacityFor: one of the two limits is not asked.          *)
PoolOnlyCapacity(l) == l \in HostLane \/ ~GlobalAtLimit
UserOnlyCapacity(l) == l \in HostLane \/ UserAllows(l)

HasCapacityFor(l) ==
  l \in HostLane \/ (~GlobalAtLimit /\ UserAllows(l))

-----------------------------------------------------------------------------
(* What the code does to one lane's state.                                 *)

CancelRetryTimer(st) == [st EXCEPT !.retryTask = NoTask]

ClearRetryTimer(st) ==
  [st EXCEPT !.retryTask = NoTask, !.queuedRetry = NoTask, !.retryCount = 0]

(* Mutants of DiscardWork: the queue, or the armed timer, survives.        *)
DiscardKeepsQueue(st) == ClearRetryTimer(st)
DiscardKeepsTimer(st) == [st EXCEPT !.pendingTasks = <<>>]

DiscardWork(st) == [ClearRetryTimer(st) EXCEPT !.pendingTasks = <<>>]

(* Mutants of ParkTask: park even when nothing runs; overwrite the queue.  *)
ParkNothing(st) ==
  [CancelRetryTimer(st) EXCEPT !.pendingTasks = Cons(st.activeTask, @)]
ParkOverQueue(st) ==
  [CancelRetryTimer(st) EXCEPT
     !.pendingTasks = IF st.activeTask = NoTask THEN @ ELSE <<st.activeTask>>]

ParkTask(st) ==
  LET t == IF st.activeTask # NoTask THEN st.activeTask ELSE st.retryTask
  IN  [CancelRetryTimer(st) EXCEPT
         !.pendingTasks = IF t = NoTask \/ t \in ToSet(@) THEN @ ELSE Cons(t, @)]

RetireAfterQuery(st) ==
  [st EXCEPT !.closing = IF @ = "no" THEN "after_query" ELSE @]

CanScheduleRetry(st) == ~shuttingDown /\ ~st.stopRequested /\ ~st.restarting

Started(st, t) ==
  [st EXCEPT !.active = TRUE, !.activeTask = t, !.stopRequested = FALSE,
             !.retryTask = NoTask,
             !.queuedRetry = IF @ = t THEN NoTask ELSE @,
             !.query = IF t \in NoInputTask THEN "idle" ELSE "inFlight"]

(* Mutant of Exited: the next runner finds the last one's task.            *)
ExitedKeepsTask(st) ==
  [st EXCEPT !.active = FALSE, !.registered = FALSE, !.finishing = FALSE,
             !.query = "none", !.closing = "no", !.drainSentinelWritten = FALSE]

Exited(st) ==
  [st EXCEPT !.active = FALSE, !.registered = FALSE, !.finishing = FALSE,
             !.activeTask = NoTask, !.query = "none", !.closing = "no",
             !.drainSentinelWritten = FALSE]

(* runTask: start t on lane l, whose state is st.  Put back at the head of *)
(* the queue when the lane is paused or already runs a task.               *)
RunTask(l, t, st) ==
  IF Paused(l) \/ st.active
  THEN /\ groups' = [groups EXCEPT ![l] =
                       [st EXCEPT !.pendingTasks = Cons(t, @)]]
       /\ waitingGroups' = waitingGroups \union {l}
       /\ UNCHANGED activeContainerCount
  ELSE /\ groups' = [groups EXCEPT ![l] = Started(st, t)]
       /\ waitingGroups' = waitingGroups \ {l}
       /\ activeContainerCount' =
            activeContainerCount + (IF l \in HostLane THEN 0 ELSE 1)

(* Mutant of Refuses: a deleted workspace still takes work.                *)
RefusesNotDeleted(l, t) == shuttingDown \/ t \in ToSet(groups[l].pendingTasks)

(* Mutant of Refuses: work is admitted while the host shuts down.          *)
RefusesUntilDeleted(l, t) == Discarded(l) \/ t \in ToSet(groups[l].pendingTasks)

(* admitTask refuses a task without queueing it.                           *)
Refuses(l, t) ==
  \/ shuttingDown
  \/ Discarded(l)
  \/ t \in ToSet(groups[l].pendingTasks)

(* Mutant of MustWait: only the lane itself, not its key, is looked at.    *)
MustWaitForItself(l) == Paused(l) \/ groups[l].active \/ ~HasCapacityFor(l)

MustWait(l) == Paused(l) \/ Runners(l) # {} \/ ~HasCapacityFor(l)

(* Append t to lane l; queued behind a runner that serves no input, it     *)
(* retires that runner.                                                    *)
Queued(l, t, st) ==
  [g \in Lane |->
     LET own == IF g = l THEN [st EXCEPT !.pendingTasks = Append(@, t)]
                ELSE groups[g]
     IN  IF ~Paused(l) /\ g \in Runners(l) /\ own.activeTask \in NoInputTask
         THEN RetireAfterQuery(own)
         ELSE own]

(* admitTask for a task it does not refuse; next is what the segment still *)
(* has to do.                                                              *)
Admit(l, t, st, next) ==
  IF MustWait(l)
  THEN /\ groups' = Queued(l, t, st)
       /\ waitingGroups' = waitingGroups \union {l}
       /\ agenda' = (IF Paused(l) \/ Runners(l) # {}
                     THEN <<>> ELSE Calling("reclaim", {l})) \o next
       /\ UNCHANGED activeContainerCount
  ELSE /\ RunTask(l, t, st)
       /\ agenda' = next

-----------------------------------------------------------------------------
Init ==
  /\ groups = [l \in Lane |-> FreshGroup]
  /\ waitingGroups = {}
  /\ activeContainerCount = 0
  /\ heldLanes = [l \in Lane |-> 0]
  /\ mutationPauseTokens = [k \in Token |-> {}]
  /\ runtimeSafetyBlocks = [w \in Workspace |-> {}]
  /\ terminalDiscards = {}
  /\ preserveStops = {}
  /\ queryEndDeferrals = {}
  /\ shuttingDown = FALSE
  /\ agenda = <<>>

-----------------------------------------------------------------------------
(* The calls a segment ends with.                                          *)

(* drainGroup: the lane's runner is gone, start its next task, or forget   *)
(* the lane and let the waiting lanes have the slot.                       *)
DrainGroup ==
  /\ Running("drainGroup")
  /\ \E l \in Args :
       LET st       == groups[l]
           hasTasks == st.pendingTasks # <<>>
           idle     == /\ ~st.active /\ ~st.restarting /\ ~st.ipcOwed
                       /\ st.retryTask = NoTask
       IN  \/ /\ shuttingDown
              /\ agenda' = Tail(agenda)
              /\ UNCHANGED <<groups, waitingGroups, activeContainerCount>>
           \/ /\ ~shuttingDown /\ Paused(l)
              /\ waitingGroups' = waitingGroups \union (IF hasTasks THEN {l} ELSE {})
              /\ agenda' = DrainWaiting(waitingGroups') \o Tail(agenda)
              /\ UNCHANGED <<groups, activeContainerCount>>
           \/ /\ ~shuttingDown /\ ~Paused(l)
              /\ Runners(l) \ {l} # {} \/ ~HasCapacityFor(l)
              /\ waitingGroups' = waitingGroups \union {l}
              /\ agenda' = Tail(agenda)
              /\ UNCHANGED <<groups, activeContainerCount>>
           \/ /\ ~shuttingDown /\ ~Paused(l)
              /\ Runners(l) \ {l} = {} /\ HasCapacityFor(l)
              /\ IF hasTasks
                 THEN /\ RunTask(l, Head(st.pendingTasks),
                                 [st EXCEPT !.pendingTasks = Tail(@)])
                      /\ agenda' = Tail(agenda)
                 ELSE /\ groups' = IF idle THEN [groups EXCEPT ![l] = FreshGroup]
                                            ELSE groups
                      /\ waitingGroups' = waitingGroups \ {l}
                      /\ agenda' = DrainWaiting(waitingGroups') \o Tail(agenda)
                      /\ UNCHANGED activeContainerCount
  /\ UNCHANGED <<gateVars, modeVars>>

(* One turn of drainWaiting's loop over the lanes that waited when it      *)
(* began.  Any order: the insertion order of waitingGroups is abstracted.  *)
VisitWaiting ==
  /\ Running("visit")
  /\ Args # {}
  /\ \E l \in Args :
       LET st == groups[l] IN
       /\ agenda' = Calling("visit", Args \ {l}) \o Tail(agenda)
       /\ IF Paused(l) \/ Runners(l) # {} \/ ~HasCapacityFor(l)
          THEN UNCHANGED <<groups, waitingGroups, activeContainerCount>>
          ELSE IF st.pendingTasks # <<>>
          THEN RunTask(l, Head(st.pendingTasks),
                       [st EXCEPT !.pendingTasks = Tail(@)])
          ELSE /\ waitingGroups' = waitingGroups \ {l}
               /\ UNCHANGED <<groups, activeContainerCount>>
  /\ UNCHANGED <<gateVars, modeVars>>

(* The end of drainWaiting: whoever still waits may reclaim an idle runner. *)
EndVisits ==
  /\ Running("visit")
  /\ Args = {}
  /\ agenda' = (IF waitingGroups # {} THEN Calling("reclaim", {}) ELSE <<>>)
                  \o Tail(agenda)
  /\ UNCHANGED <<groups, waitingGroups, activeContainerCount, gateVars, modeVars>>

IsIdleContainerRunner(l) ==
  LET st == groups[l] IN
  /\ st.active /\ st.registered /\ l \notin HostLane
  /\ st.query = "idle" /\ st.closing = "no"
  /\ ~st.stopRequested /\ ~st.restarting
  /\ ~st.drainSentinelWritten /\ ~st.ipcOwed
  /\ ~Paused(l) /\ ~LaneHasQueuedTasks(l)

(* reclaimIdleContainerRunner on behalf of one of the lanes in blocked:    *)
(* the idle runners it may close.  Which of them idled longest is not      *)
(* modelled; those of the blocked lane's owner go first.                   *)
ReclaimVictims(blocked) ==
  LET userAtLimit == {b \in blocked : b \notin HostLane /\ ~UserAllows(b)}
      competes(l) ==
        GlobalAtLimit \/ \E b \in userAtLimit : OwnerOf[l] = OwnerOf[b]
      idle    == {l \in Lane : IsIdleContainerRunner(l)}
      closing == {l \in Lane : /\ groups[l].active
                               /\ groups[l].closing = "reclaim"
                               /\ competes(l)}
      demand  == {l \in waitingGroups : /\ groups[l].pendingTasks # <<>>
                                        /\ Runners(l) = {}
                                        /\ l \notin HostLane
                                        /\ ~Paused(l)
                                        /\ competes(l)}
      able    == {l \in idle \ OwesOutside : competes(l)}
      own     == {l \in able : \E b \in userAtLimit : OwnerOf[l] = OwnerOf[b]}
  IN  IF \/ ~GlobalAtLimit /\ userAtLimit = {}
         \/ Cardinality(closing) >= Cardinality(demand)
      THEN {}
      ELSE IF own # {} THEN own ELSE able

(* The lanes the reclaim may act for: the one named, or any waiting lane   *)
(* without capacity.                                                       *)
BlockedLanes ==
  IF Args # {} THEN {Args}
  ELSE LET some == {l \in waitingGroups : l \notin HostLane /\ ~HasCapacityFor(l)}
       IN  IF some = {} THEN {{}} ELSE {{l} : l \in some}

ReclaimIdleRunner ==
  /\ Running("reclaim")
  /\ agenda' = Tail(agenda)
  /\ \E blocked \in BlockedLanes :
       LET victims == IF shuttingDown THEN {} ELSE ReclaimVictims(blocked) IN
       \/ /\ victims = {}
          /\ UNCHANGED groups
       \/ \E v \in victims :
            groups' = [groups EXCEPT ![v] = [@ EXCEPT !.closing = "reclaim"]]
  /\ UNCHANGED <<waitingGroups, activeContainerCount, gateVars, modeVars>>

(* recoverUnacknowledgedIpcDeliveries of lanes without a runner: the host  *)
(* enqueues each lane's delivery recovery, the receipts are forgotten.     *)
RecoverDeliveries ==
  /\ Running("recover")
  /\ \E l \in Args :
       LET st   == [groups[l] EXCEPT !.ipcOwed = FALSE]
           next == (IF Args = {l} THEN <<>> ELSE Calling("recover", Args \ {l}))
                     \o Tail(agenda)
       IN  IF Refuses(l, RecoveryTask)
           THEN /\ groups' = [groups EXCEPT ![l] = st]
                /\ agenda' = next
                /\ UNCHANGED <<waitingGroups, activeContainerCount>>
           ELSE Admit(l, RecoveryTask, st, next)
  /\ UNCHANGED <<gateVars, modeVars>>

(* The end of releaseLane.                                                 *)
ReleasedLane ==
  /\ Running("releaseLane")
  /\ waitingGroups' = waitingGroups \union
                        {l \in Args : groups[l].pendingTasks # <<>>}
  /\ agenda' = DrainWaiting(waitingGroups') \o Tail(agenda)
  /\ UNCHANGED <<groups, activeContainerCount, gateVars, modeVars>>

(* The second loop of resumeGroupsAfterMutation: lanes of deleted          *)
(* workspaces lose their work, the others wait for a runner.               *)
ResumedGroups ==
  LET gone == {l \in Args : Discarded(l)} IN
  /\ Running("resumeGroups")
  /\ groups' = [l \in Lane |-> IF l \in gone THEN DiscardWork(groups[l])
                                            ELSE groups[l]]
  /\ waitingGroups' = (waitingGroups \ gone) \union
                        {l \in Args \ gone : groups[l].pendingTasks # <<>>}
  /\ agenda' = (IF Args = gone THEN <<>> ELSE DrainWaiting(waitingGroups'))
                  \o Tail(agenda)
  /\ UNCHANGED <<activeContainerCount, gateVars, modeVars>>

(* The end of restartGroup: the host's lane starter enqueues the lane's    *)
(* restart task, then the lane is no longer restarting.                    *)
FinishRestart ==
  /\ Running("finishRestart")
  /\ \E l \in Args :
       LET st == [groups[l] EXCEPT !.restarting = FALSE] IN
       IF Refuses(l, RestartTask)
       THEN /\ groups' = [groups EXCEPT ![l] = st]
            /\ agenda' = Tail(agenda)
            /\ UNCHANGED <<waitingGroups, activeContainerCount>>
       ELSE Admit(l, RestartTask, st, Tail(agenda))
  /\ UNCHANGED <<gateVars, modeVars>>

AgendaStep ==
  \/ DrainGroup \/ VisitWaiting \/ EndVisits \/ ReclaimIdleRunner
  \/ RecoverDeliveries \/ ReleasedLane \/ ResumedGroups \/ FinishRestart

-----------------------------------------------------------------------------
(* Admission and the life of a runner.                                     *)

EnqueueTask(l, t) ==
  /\ Quiet
  /\ t \notin {RecoveryTask, RestartTask}
  /\ ~Refuses(l, t)
  /\ Admit(l, t, groups[l], <<>>)
  /\ UNCHANGED <<gateVars, modeVars>>

(* The runner's process names its IPC directory; from now on input can be  *)
(* piped to it and a close can be asked of it.                             *)
RegisterProcess(l) ==
  /\ Quiet
  /\ groups[l].active /\ ~groups[l].registered /\ ~groups[l].finishing
  /\ groups' = [groups EXCEPT ![l] = [@ EXCEPT !.registered = TRUE]]
  /\ UNCHANGED <<waitingGroups, activeContainerCount, gateVars, modeVars, agenda>>

(* runTask's finally: st is the lane's state once the task's outcome is    *)
(* recorded.  Deliveries the runner still owes are replayed through a      *)
(* recovery task, or kept for the end of the mutation that stopped it.     *)
RunnerExits(l, st) ==
  LET kept     == l \in preserveStops /\ Paused(l)
      replayed == st.registered /\ st.ipcOwed /\ ~kept
      enqueued == replayed /\ ~Refuses(l, RecoveryTask)
  IN  /\ groups' = [groups EXCEPT ![l] =
             [Exited(st) EXCEPT
                !.pendingTasks = IF enqueued THEN Append(@, RecoveryTask) ELSE @,
                !.ipcOwed = @ /\ ~replayed]]
      /\ waitingGroups' = waitingGroups \union (IF enqueued THEN {l} ELSE {})
      /\ activeContainerCount' =
           activeContainerCount - (IF l \in HostLane THEN 0 ELSE 1)
      /\ agenda' = IF st.restarting THEN <<>>
                   ELSE IF ~st.stopRequested THEN Calling("drainGroup", {l})
                   ELSE IF Paused(l) THEN DrainWaiting(waitingGroups')
                   ELSE <<>>
      /\ UNCHANGED <<gateVars, modeVars>>

TaskSucceeds(l) ==
  /\ Quiet
  /\ groups[l].active /\ ~groups[l].finishing
  /\ RunnerExits(l, ClearRetryTimer(groups[l]))

TaskThrows(l) ==
  /\ Quiet
  /\ groups[l].active /\ ~groups[l].finishing
  /\ groups[l].activeTask \in FailingTask
  /\ RunnerExits(l, groups[l])

(* The task resolves false: scheduleRetry arms its timer, gives up after   *)
(* MaxRetries rounds, or is suppressed by a stop, a restart or a shutdown. *)
TaskFails(l) ==
  LET st   == CancelRetryTimer(groups[l])
      next == groups[l].retryCount + 1
  IN  /\ Quiet
      /\ groups[l].active /\ ~groups[l].finishing
      /\ groups[l].activeTask \in FailingTask
      /\ groups' = [groups EXCEPT ![l] = [
            (IF ~CanScheduleRetry(groups[l]) THEN groups[l]
             ELSE IF next > MaxRetries THEN [st EXCEPT !.retryCount = 0]
             ELSE [st EXCEPT !.retryCount = next, !.retryTask = st.activeTask])
            EXCEPT !.finishing = TRUE]]
      /\ UNCHANGED <<waitingGroups, activeContainerCount, gateVars, modeVars,
                     agenda>>

FailedRunnerExits(l) ==
  /\ Quiet
  /\ groups[l].active /\ groups[l].finishing
  /\ RunnerExits(l, groups[l])

RetryTimerFires(l) ==
  LET t  == groups[l].retryTask
      st == [groups[l] EXCEPT !.retryTask = NoTask]
  IN  /\ Quiet
      /\ t # NoTask
      /\ ~groups[l].finishing      \* the delay outlasts the failed run's exit
      /\ IF CanScheduleRetry(st) /\ ~Refuses(l, t)
         THEN Admit(l, t, [st EXCEPT !.queuedRetry = t], <<>>)
         ELSE /\ groups' = [groups EXCEPT ![l] =
                  IF CanScheduleRetry(st) THEN [st EXCEPT !.queuedRetry = NoTask]
                                          ELSE st]
              /\ UNCHANGED <<waitingGroups, activeContainerCount, agenda>>
      /\ UNCHANGED <<gateVars, modeVars>>

-----------------------------------------------------------------------------
(* Queries and input piped into a running runner.                          *)

Serving(r) ==
  groups[r].active /\ groups[r].registered /\ ~groups[r].finishing

(* Mutant of SendMessage: a runner asked to exit still takes input.        *)
SendToClosing(l) ==
  /\ Quiet
  /\ ~Discarded(l) /\ ~Paused(l)
  /\ \E r \in RegisteredRunners(l) :
       /\ groups[r].activeTask \notin NoInputTask
       /\ groups' = [groups EXCEPT ![r] = [@ EXCEPT !.ipcOwed = TRUE,
                                                   !.query = "inFlight"]]
  /\ UNCHANGED <<waitingGroups, activeContainerCount, gateVars, modeVars, agenda>>

(* sendMessage with a durable delivery receipt: the only piped input here. *)
SendMessage(l) ==
  /\ Quiet
  /\ ~Discarded(l) /\ ~Paused(l)
  /\ \E r \in RegisteredRunners(l) :
       /\ groups[r].closing = "no"
       /\ groups[r].activeTask \notin NoInputTask
       /\ groups' = [groups EXCEPT ![r] =
            [@ EXCEPT !.ipcOwed = TRUE,
                      !.query = IF InQuery(groups[r]) THEN groups[r].query
                                                      ELSE "inFlight"]]
  /\ UNCHANGED <<waitingGroups, activeContainerCount, gateVars, modeVars, agenda>>

AcknowledgeIpcDeliveries(r) ==
  /\ Quiet
  /\ Serving(r) /\ groups[r].ipcOwed
  /\ groups' = [groups EXCEPT ![r] = [@ EXCEPT !.ipcOwed = FALSE]]
  /\ UNCHANGED <<waitingGroups, activeContainerCount, gateVars, modeVars, agenda>>

(* The runner reports its query idle.  A truncation or auto continuation   *)
(* ends no query while deliveries are owed, and is never reclaimed after.  *)
MarkRunnerQueryIdle(r, continuation) ==
  /\ Quiet
  /\ Serving(r) /\ InQuery(groups[r])
  /\ continuation => ~groups[r].ipcOwed
  /\ groups' = [groups EXCEPT ![r] =
       [@ EXCEPT !.query = IF continuation THEN "unsettled" ELSE "idle"]]
  /\ agenda' = IF waitingGroups # {} THEN Calling("reclaim", {}) ELSE <<>>
  /\ UNCHANGED <<waitingGroups, activeContainerCount, gateVars, modeVars>>

ReserveNextQuery(r) ==
  /\ Quiet
  /\ groups[r].active /\ groups[r].registered
  /\ ~InQuery(groups[r])
  /\ groups[r].closing = "no"
  /\ groups[r].activeTask \notin NoInputTask
  /\ groups' = [groups EXCEPT ![r] = [@ EXCEPT !.query = "reserved"]]
  /\ UNCHANGED <<waitingGroups, activeContainerCount, gateVars, modeVars, agenda>>

ReleaseQueryReservation(r) ==
  /\ Quiet
  /\ groups[r].active /\ groups[r].registered
  /\ groups[r].query = "reserved"
  /\ groups' = [groups EXCEPT ![r] = [@ EXCEPT !.query = "unsettled"]]
  /\ UNCHANGED <<waitingGroups, activeContainerCount, gateVars, modeVars, agenda>>

(* interruptQuery of a running query cancels a timer armed by the attempt  *)
(* that is just finishing, without resetting its count.                    *)
InterruptQuery(l) ==
  /\ Quiet
  /\ groups[l].active /\ InQuery(groups[l])
  /\ groups[l].retryTask # NoTask
  /\ groups' = [groups EXCEPT ![l] = CancelRetryTimer(@)]
  /\ UNCHANGED <<waitingGroups, activeContainerCount, gateVars, modeVars, agenda>>

(* An explicit stop between failed attempts ends the lane's retries: the   *)
(* timed one and the one that fired and still waits.                       *)
StopArmedRetry(l) ==
  LET st      == groups[l]
      queued  == {i \in DOMAIN st.pendingTasks : st.pendingTasks[i] = st.queuedRetry}
      without == {RemoveAt(st.pendingTasks, i) : i \in queued}
  IN  /\ Quiet
      /\ ~st.active
      /\ st.retryTask # NoTask \/ queued # {}
      /\ \E tasks \in IF queued = {} THEN {st.pendingTasks} ELSE without :
           /\ groups' = [groups EXCEPT ![l] =
                [ClearRetryTimer(st) EXCEPT !.pendingTasks = tasks]]
           /\ waitingGroups' = IF queued # {} /\ tasks = <<>>
                               THEN waitingGroups \ {l} ELSE waitingGroups
      /\ UNCHANGED <<activeContainerCount, gateVars, modeVars, agenda>>

-----------------------------------------------------------------------------
(* Retiring a runner without stopping it.                                  *)

RetireRunnerAfterQuery(l) ==
  /\ Quiet
  /\ Runners(l) # {}
  /\ groups' = [g \in Lane |-> IF g \in Runners(l) THEN RetireAfterQuery(groups[g])
                                                 ELSE groups[g]]
  /\ UNCHANGED <<waitingGroups, activeContainerCount, gateVars, modeVars, agenda>>

RequestDrain(r) ==
  /\ Quiet
  /\ groups[r].active /\ groups[r].registered
  /\ groups' = [groups EXCEPT ![r] = [@ EXCEPT !.drainSentinelWritten = TRUE]]
  /\ UNCHANGED <<waitingGroups, activeContainerCount, gateVars, modeVars, agenda>>

BeginDeferral(l) ==
  /\ Quiet
  /\ queryEndDeferrals' = queryEndDeferrals \union {KeyOf[l]}
  /\ UNCHANGED <<groups, waitingGroups, activeContainerCount, gateVars,
                 preserveStops, shuttingDown, agenda>>

EndDeferral(l) ==
  /\ Quiet
  /\ queryEndDeferrals' = queryEndDeferrals \ {KeyOf[l]}
  /\ UNCHANGED <<groups, waitingGroups, activeContainerCount, gateVars,
                 preserveStops, shuttingDown, agenda>>

-----------------------------------------------------------------------------
(* stopGroup and restartGroup.  The segment up to the first await; the     *)
(* runner's exit is RunnerExits, the segment after it a Returns action.    *)

(* An ordinary stop drops the lane's work and commits what its runner has  *)
(* not acknowledged as abandoned.                                          *)
StopGroup(l) ==
  LET hit == {l} \union Targets(l) IN
  /\ Quiet
  /\ groups' = [g \in Lane |->
       IF g \in hit
       THEN [DiscardWork(groups[g]) EXCEPT
               !.stopRequested = TRUE, !.ipcOwed = @ /\ g \notin Targets(l)]
       ELSE groups[g]]
  /\ waitingGroups' = waitingGroups \ hit
  /\ UNCHANGED <<activeContainerCount, gateVars, modeVars, agenda>>

(* Whether a caller's own gate, a token or a hold, is on the lane.  The    *)
(* callers of preserving stops take one, await the stops under it and only *)
(* then release it: by then every stop has returned, and its runner is     *)
(* gone unless the force-kill timed out.                                   *)
GateOwned(l) == heldLanes[l] > 0 \/ TokenPaused(l)

StopsReturned(lanes) ==
  \A l \in lanes :
    /\ l \notin preserveStops
    /\ groups[l].active /\ groups[l].stopRequested => MayTimeOut

(* A stop that keeps the work parks the running or retrying task at the    *)
(* head of its lane.                                                       *)
PreservingStop(l) ==
  LET hit == {l} \union Targets(l) IN
  /\ Quiet
  /\ Paused(l) /\ GateOwned(l)
  /\ Runners(l) = {} \/ KeyOf[l] \notin queryEndDeferrals
  /\ groups' = [g \in Lane |->
       IF g \in hit THEN [ParkTask(groups[g]) EXCEPT !.stopRequested = TRUE]
                    ELSE groups[g]]
  /\ waitingGroups' = waitingGroups \union
                        {g \in hit : ParkTask(groups[g]).pendingTasks # <<>>}
  /\ preserveStops' = IF Runners(l) = {} THEN preserveStops \ {l}
                                          ELSE preserveStops \union Runners(l)
  /\ UNCHANGED <<activeContainerCount, gateVars, queryEndDeferrals, shuttingDown,
                 agenda>>

(* The runner whose own tool call commits the mutation finishes its query  *)
(* first and takes no other.                                               *)
DeferredStop(l) ==
  /\ Quiet
  /\ Paused(l) /\ GateOwned(l)
  /\ Runners(l) # {} /\ KeyOf[l] \in queryEndDeferrals
  /\ groups' = [g \in Lane |->
       IF g \in Runners(l) THEN [groups[g] EXCEPT !.closing = "after_query"]
                           ELSE groups[g]]
  /\ UNCHANGED <<waitingGroups, activeContainerCount, gateVars, modeVars, agenda>>

(* The preserving stop's last segment: its runner is gone, or the          *)
(* force-kill timed out and stopGroup throws.                              *)
PreservingStopReturns(l) ==
  /\ Quiet
  /\ l \in preserveStops
  /\ groups[l].active => MayTimeOut
  /\ preserveStops' = preserveStops \ {l}
  /\ UNCHANGED <<groups, waitingGroups, activeContainerCount, gateVars,
                 queryEndDeferrals, shuttingDown, agenda>>

RestartGroup(l) ==
  /\ Quiet
  /\ \E r \in Targets(l) :
       /\ ~groups[r].restarting
       /\ groups' = [groups EXCEPT ![r] =
            [ClearRetryTimer(@) EXCEPT !.restarting = TRUE]]
  /\ UNCHANGED <<waitingGroups, activeContainerCount, gateVars, modeVars, agenda>>

RestartReturns(l) ==
  /\ Quiet
  /\ groups[l].restarting /\ ~groups[l].active
  /\ agenda' = Calling("drainGroup", {l}) \o Calling("finishRestart", {l})
  /\ UNCHANGED <<groups, waitingGroups, activeContainerCount, gateVars, modeVars>>

(* The force-kill did not end the runner: restartGroup throws.             *)
RestartTimesOut(l) ==
  /\ Quiet
  /\ MayTimeOut
  /\ groups[l].restarting /\ groups[l].active
  /\ groups' = [groups EXCEPT ![l] = [@ EXCEPT !.restarting = FALSE]]
  /\ UNCHANGED <<waitingGroups, activeContainerCount, gateVars, modeVars, agenda>>

-----------------------------------------------------------------------------
(* Gates: mutation pauses, safety blocks and lane holds.                   *)

PauseGroups(k, workspaces) ==
  /\ Quiet
  /\ mutationPauseTokens[k] = {} /\ workspaces # {}
  /\ mutationPauseTokens' = [mutationPauseTokens EXCEPT ![k] = workspaces]
  /\ UNCHANGED <<groups, waitingGroups, activeContainerCount, heldLanes,
                 runtimeSafetyBlocks, terminalDiscards, modeVars, agenda>>

(* The workspaces no other token pauses once k is gone.                    *)
ReleasedBy(k) ==
  {w \in mutationPauseTokens[k] :
     \A j \in Token \ {k} : w \notin mutationPauseTokens[j]}

(* Mutant of Unsettled: the end of a gate replays no delivery.             *)
NothingUnsettled(lanes) == {}

(* Lanes without a runner whose stopped runner left deliveries unsettled.  *)
Unsettled(lanes) == {l \in lanes : ~groups[l].active /\ groups[l].ipcOwed}

Recovering(lanes) ==
  IF Unsettled(lanes) = {} THEN <<>> ELSE Calling("recover", Unsettled(lanes))

ResumeGroups(k) ==
  LET released == LanesOf(ReleasedBy(k))
      free     == {l \in released : heldLanes[l] = 0}
  IN  /\ Quiet
      /\ mutationPauseTokens[k] # {}
      /\ StopsReturned(free)
      /\ mutationPauseTokens' = [mutationPauseTokens EXCEPT ![k] = {}]
      /\ agenda' = IF ReleasedBy(k) = {} THEN <<>>
                   ELSE Recovering(free) \o Calling("resumeGroups", released)
      /\ UNCHANGED <<groups, waitingGroups, activeContainerCount, heldLanes,
                     runtimeSafetyBlocks, terminalDiscards, modeVars>>

(* The workspaces of the token were deleted.  The caller stopped their     *)
(* runners under the token first.                                          *)
DiscardGroups(k) ==
  LET gone == LanesOf(mutationPauseTokens[k]) IN
  /\ Quiet
  /\ mutationPauseTokens[k] # {}
  /\ \A l \in gone : ~groups[l].active
  /\ mutationPauseTokens' = [mutationPauseTokens EXCEPT ![k] = {}]
  /\ terminalDiscards' = terminalDiscards \union mutationPauseTokens[k]
  /\ groups' = [l \in Lane |->
       IF l \in gone THEN [DiscardWork(groups[l]) EXCEPT !.ipcOwed = FALSE]
                     ELSE groups[l]]
  /\ waitingGroups' = waitingGroups \ gone
  /\ preserveStops' = preserveStops \ gone
  /\ UNCHANGED <<activeContainerCount, heldLanes, runtimeSafetyBlocks,
                 queryEndDeferrals, shuttingDown, agenda>>

BlockForSafety(w, source) ==
  /\ Quiet
  /\ runtimeSafetyBlocks' = [runtimeSafetyBlocks EXCEPT ![w] = @ \union {source}]
  /\ UNCHANGED <<groups, waitingGroups, activeContainerCount, heldLanes,
                 mutationPauseTokens, terminalDiscards, modeVars, agenda>>

(* Mutant of UnblockForSafety: the work behind the block is not drained.   *)
UnblockWithoutDrain(w, source) ==
  /\ Quiet
  /\ source \in runtimeSafetyBlocks[w]
  /\ runtimeSafetyBlocks' = [runtimeSafetyBlocks EXCEPT ![w] = @ \ {source}]
  /\ UNCHANGED <<groups, waitingGroups, activeContainerCount, heldLanes,
                 mutationPauseTokens, terminalDiscards, modeVars, agenda>>

UnblockForSafety(w, source) ==
  LET lastSource == runtimeSafetyBlocks[w] = {source} IN
  /\ Quiet
  /\ source \in runtimeSafetyBlocks[w]
  /\ runtimeSafetyBlocks' = [runtimeSafetyBlocks EXCEPT ![w] = @ \ {source}]
  /\ waitingGroups' = IF lastSource
       THEN waitingGroups \union {l \in LanesOf({w}) : groups[l].pendingTasks # <<>>}
       ELSE waitingGroups
  /\ agenda' = IF lastSource THEN DrainWaiting(waitingGroups') ELSE <<>>
  /\ UNCHANGED <<groups, activeContainerCount, heldLanes, mutationPauseTokens,
                 terminalDiscards, modeVars>>

HoldLane(l) ==
  /\ Quiet
  /\ heldLanes[l] < MaxHolds
  /\ heldLanes' = [heldLanes EXCEPT ![l] = @ + 1]
  /\ UNCHANGED <<groups, waitingGroups, activeContainerCount, mutationPauseTokens,
                 runtimeSafetyBlocks, terminalDiscards, modeVars, agenda>>

(* releaseLaneHold: the last holder also ends the lane's preserving stop.  *)
ReleaseHold(l) ==
  /\ heldLanes' = [heldLanes EXCEPT ![l] = @ - 1]
  /\ preserveStops' = IF heldLanes[l] = 1 THEN preserveStops \ {l}
                                          ELSE preserveStops
  /\ UNCHANGED <<mutationPauseTokens, runtimeSafetyBlocks, terminalDiscards,
                 queryEndDeferrals, shuttingDown, activeContainerCount>>

ReleaseLane(l) ==
  /\ Quiet
  /\ heldLanes[l] > 0
  /\ heldLanes[l] > 1 \/ TokenPaused(l) \/ StopsReturned({l})
  /\ ReleaseHold(l)
  /\ agenda' = IF heldLanes[l] > 1 THEN <<>>
               ELSE Recovering({l}) \o Calling("releaseLane", {l})
  /\ UNCHANGED <<groups, waitingGroups>>

(* The held lane's session was deleted: its work goes.  The caller stopped *)
(* the lane under its hold first.                                          *)
DiscardHeldLane(l) ==
  /\ Quiet
  /\ heldLanes[l] > 0
  /\ heldLanes[l] > 1 \/ TokenPaused(l) \/ StopsReturned({l})
  /\ ReleaseHold(l)
  /\ groups' = [groups EXCEPT ![l] = [DiscardWork(@) EXCEPT !.ipcOwed = FALSE]]
  /\ waitingGroups' = waitingGroups \ {l}
  /\ agenda' = DrainWaiting(waitingGroups')

-----------------------------------------------------------------------------
Shutdown ==
  /\ Quiet
  /\ ~shuttingDown
  /\ shuttingDown' = TRUE
  /\ groups' = [l \in Lane |-> DiscardWork(groups[l])]
  /\ waitingGroups' = {}
  /\ UNCHANGED <<activeContainerCount, gateVars, preserveStops,
                 queryEndDeferrals, agenda>>

-----------------------------------------------------------------------------
(* What the host's runners, timers and pending calls do on their own.      *)
RunnerStep(l) ==
  \/ RegisterProcess(l)
  \/ TaskSucceeds(l) \/ TaskThrows(l) \/ TaskFails(l) \/ FailedRunnerExits(l)
  \/ RetryTimerFires(l)
  \/ AcknowledgeIpcDeliveries(l)
  \/ MarkRunnerQueryIdle(l, FALSE)
  \/ PreservingStopReturns(l)
  \/ RestartReturns(l) \/ RestartTimesOut(l)

(* What users, routes and other subsystems ask of the queue.               *)
InputRequest ==
  \/ \E l \in Lane, t \in Task : EnqueueTask(l, t)
  \/ \E l \in PipedLane :
       \/ SendMessage(l) \/ MarkRunnerQueryIdle(l, TRUE)
       \/ ReserveNextQuery(l) \/ ReleaseQueryReservation(l)

StopRequest ==
  \/ \E l \in StoppedLane : StopGroup(l) \/ InterruptQuery(l) \/ StopArmedRetry(l)
  \/ \E l \in RestartedLane : RestartGroup(l)
  \/ \E l \in RetiredLane : RetireRunnerAfterQuery(l) \/ RequestDrain(l)
  \/ MayShutDown /\ Shutdown

MutationRequest ==
  \/ \E k \in Token :
       \/ \E ws \in SUBSET Workspace : PauseGroups(k, ws)
       \/ ResumeGroups(k)
       \/ MayDelete /\ DiscardGroups(k)
  \/ \E w \in Workspace, src \in Source :
       BlockForSafety(w, src) \/ UnblockForSafety(w, src)
  \/ \E l \in HeldLane :
       \/ HoldLane(l) \/ ReleaseLane(l)
       \/ MayDelete /\ DiscardHeldLane(l)
  \/ \E l \in Lane : PreservingStop(l)
  \/ \E l \in DeferredLane : BeginDeferral(l) \/ EndDeferral(l) \/ DeferredStop(l)

Next ==
  \/ AgendaStep
  \/ \E l \in Lane : RunnerStep(l)
  \/ InputRequest \/ StopRequest \/ MutationRequest

Spec == Init /\ [][Next]_vars

-----------------------------------------------------------------------------
(* Properties.                                                             *)

TypeOK ==
  /\ groups \in [Lane -> GroupState]
  /\ waitingGroups \subseteq Lane
  /\ activeContainerCount \in Int
  /\ heldLanes \in [Lane -> Nat]
  /\ mutationPauseTokens \in [Token -> SUBSET Workspace]
  /\ runtimeSafetyBlocks \in [Workspace -> SUBSET Source]
  /\ terminalDiscards \subseteq Workspace
  /\ preserveStops \subseteq Lane
  /\ queryEndDeferrals \subseteq {KeyOf[l] : l \in Lane}
  /\ shuttingDown \in BOOLEAN
  /\ agenda \in Seq(Call)

(* At most one runner serves a serialization key, whichever of admission,  *)
(* drain, retry timer, restart and release starts it: a second one would   *)
(* answer twice and overwrite the first one's process handle.              *)
OneRunnerPerKey ==
  \A a, b \in Lane :
    groups[a].active /\ groups[b].active /\ KeyOf[a] = KeyOf[b] => a = b

(* The container counter never drifts from the runners it counts, and      *)
(* neither the pool nor a user's billing limit is ever overrun.  Host      *)
(* lanes are outside both limits, so a user with host lanes is not bounded.*)
CapacityRespected ==
  /\ activeContainerCount = Cardinality({l \in Lane \ HostLane : groups[l].active})
  /\ activeContainerCount <= MaxContainers
  /\ \A u \in User :
       (\A l \in HostLane : OwnerOf[l] # u) => Cardinality(ActiveOf(u)) <= UserLimit[u]

(* An armed retry timer belongs to a lane that is neither running another  *)
(* attempt nor stopped, restarting or shutting down: a timer that outlives *)
(* one of these would start work that a user or the host has ended.        *)
RetryIsExclusive ==
  \A l \in Lane : groups[l].retryTask # NoTask =>
    /\ groups[l].active => groups[l].finishing
    /\ ~groups[l].stopRequested
    /\ ~groups[l].restarting
    /\ ~shuttingDown

(* Between two segments, a lane with queued work and no runner is in       *)
(* waitingGroups, where every drain looks for it, or about to be drained   *)
(* by the restart in progress: no path forgets a lane.                     *)
QueuedLanesWait ==
  Quiet => \A l \in Lane :
    groups[l].pendingTasks # <<>> =>
      groups[l].active \/ l \in waitingGroups \/ groups[l].restarting

(* Deliveries a stopped runner left unacknowledged are never stranded:     *)
(* a lane without a runner owes some only while a pause or a hold, whose   *)
(* release replays or abandons them, is still on it.                       *)
NoDeliveryStranded ==
  Quiet => \A l \in Lane :
    groups[l].ipcOwed /\ ~groups[l].active => GateOwned(l)

(* A deleted workspace stays dead whatever callbacks, timers, releases and *)
(* late enqueues still arrive: no runner, no queued work, no armed retry.  *)
DeletedWorkspaceIsDead ==
  \A l \in Lane : Discarded(l) =>
    /\ ~groups[l].active
    /\ groups[l].pendingTasks = <<>>
    /\ groups[l].retryTask = NoTask

(* The queue is work-conserving: between two segments no lane that could   *)
(* start its queued work is left without a runner, unless a restart in     *)
(* progress is about to drain.                                             *)
NoWorkStranded ==
  Quiet /\ (\A l \in Lane : ~groups[l].restarting) =>
    \A l \in Lane : groups[l].pendingTasks # <<>> => MustWait(l)

(* While a gate is on a lane no runner starts there, whatever starts it.   *)
GatedLaneStartsNothing ==
  [][\A l \in Lane : ~groups[l].active /\ groups[l].active' =>
       /\ heldLanes'[l] = 0
       /\ \A k \in Token : WorkspaceOf[l] \notin mutationPauseTokens'[k]
       /\ runtimeSafetyBlocks'[WorkspaceOf[l]] = {}]_vars

(* A runner asked to exit takes no further query: input that arrives then  *)
(* waits for a fresh runner instead of dying with the old one.             *)
ClosingRunnerTakesNoQuery ==
  [][\A l \in Lane :
       groups[l].active /\ groups[l].closing # "no" /\ ~InQuery(groups[l])
         => ~groups[l].active' \/ ~InQuery(groups[l])']_vars

(* A task that is queued leaves the queue only by starting.  Of a          *)
(* configuration in which nobody stops, deletes or shuts down: mutations   *)
(* alone lose no work.                                                     *)
QueuedTaskLeavesByStarting ==
  [][\A l \in Lane : \A t \in ToSet(groups[l].pendingTasks) :
       t \in ToSet(groups[l].pendingTasks)' \/ groups[l].activeTask' = t]_vars

(* No runner starts once the host shuts down: "prevent containers from     *)
(* restarting during the shutdown", says shutdown().                       *)
ShutdownStartsNothing ==
  [][\A l \in Lane : shuttingDown /\ groups[l].active' => groups[l].active]_vars

(* The queue implements RunnerPool: a lane is served the task its runner   *)
(* was started for, and is gated while any pause, block or hold is on it.  *)
Pool == INSTANCE RunnerPool WITH
  serving <- [l \in Lane |-> groups[l].activeTask],
  gated   <- {l \in Lane : Paused(l)},
  removed <- {l \in Lane : Discarded(l)}

(* Whatever admissions, retries, restarts, stops and gates interleave, the *)
(* rest of the host sees a pool of runners: one task at a time in each     *)
(* conversation, never swapped under a runner, begun only where no gate is *)
(* and there is room, and never again in a deleted workspace.              *)
ServesAsPool == Pool!Spec
=============================================================================
