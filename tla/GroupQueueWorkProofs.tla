------------------------ MODULE GroupQueueWorkProofs ------------------------
(* What GroupQueue may not do with the work of a lane: a retry timer that  *)
(* outlives what ended it, and anything in a deleted workspace.            *)
EXTENDS GroupQueueProofs

-----------------------------------------------------------------------------
(* The inductive invariant.  It says of one lane's state st, of a host that *)
(* is shutting down or not and of a workspace that is gone or not: an armed *)
(* timer is live, only a runner has a running task (what a mutation parks   *)
(* comes from it), and a gone workspace's lane is dead.                     *)

RetryLive(st, down) ==
  st.retryTask # NoTask =>
    /\ st.active => st.finishing
    /\ ~st.stopRequested /\ ~st.restarting /\ ~down

TaskRuns(st) == ~st.active => st.activeTask = NoTask

Dead(st) == ~st.active /\ st.pendingTasks = <<>> /\ st.retryTask = NoTask

LaneInv(st, down, gone) ==
  RetryLive(st, down) /\ TaskRuns(st) /\ (gone => Dead(st))

WorkInv == \A l \in Lane : LaneInv(groups[l], shuttingDown, Discarded(l))

(* What an update of one lane's state has to leave alone.                  *)
SameWork(old, new) ==
  /\ new.active = old.active /\ new.finishing = old.finishing
  /\ new.activeTask = old.activeTask /\ new.pendingTasks = old.pendingTasks
  /\ new.stopRequested = old.stopRequested /\ new.restarting = old.restarting
  /\ new.retryTask = old.retryTask

-----------------------------------------------------------------------------
(* The operators on one lane's state.                                      *)

LEMMA SameWorkInv ==
  ASSUME NEW old, NEW new, NEW down, NEW gone,
         SameWork(old, new), LaneInv(old, down, gone)
  PROVE  LaneInv(new, down, gone)
BY DEF SameWork, LaneInv, RetryLive, TaskRuns, Dead

LEMMA OwedWork ==
  ASSUME NEW st \in GroupState, NEW owed \in BOOLEAN
  PROVE  SameWork(st, [st EXCEPT !.ipcOwed = owed])
BY DEF SameWork, GroupState

LEMMA OwedFields ==
  ASSUME NEW st \in GroupState, NEW owed \in BOOLEAN
  PROVE  LET new == [st EXCEPT !.ipcOwed = owed]
         IN  /\ new \in GroupState /\ new.ipcOwed = owed
             /\ \A f \in {"active", "activeTask", "registered", "query", "closing",
                          "pendingTasks", "stopRequested", "restarting"} :
                  new[f] = st[f]
BY DEF GroupState

LEMMA PendingWork ==
  ASSUME NEW st \in GroupState, NEW tasks \in Seq(Task), NEW down,
         LaneInv(st, down, FALSE)
  PROVE  LaneInv([st EXCEPT !.pendingTasks = tasks], down, FALSE)
BY DEF LaneInv, RetryLive, TaskRuns, GroupState

(* Discarding a lane's work makes it dead as soon as it has no runner.     *)
LEMMA DiscardFields ==
  ASSUME NEW st \in GroupState
  PROVE  /\ DiscardWork(st).retryTask = NoTask
         /\ DiscardWork(st).pendingTasks = <<>>
         /\ DiscardWork(st).active = st.active
         /\ DiscardWork(st).activeTask = st.activeTask
BY DEF DiscardWork, ClearRetryTimer, GroupState

LEMMA DiscardedWork ==
  ASSUME NEW st \in GroupState, TaskRuns(st), NEW down, NEW gone, gone => ~st.active
  PROVE  LaneInv(DiscardWork(st), down, gone)
BY DiscardFields DEF LaneInv, RetryLive, TaskRuns, Dead

LEMMA ParkFields ==
  ASSUME NEW st \in GroupState
  PROVE  LET t == IF st.activeTask # NoTask THEN st.activeTask ELSE st.retryTask
         IN  /\ ParkTask(st) \in GroupState
             /\ ParkTask(st).retryTask = NoTask
             /\ ParkTask(st).pendingTasks =
                  IF t = NoTask \/ t \in ToSet(st.pendingTasks)
                  THEN st.pendingTasks ELSE Cons(t, st.pendingTasks)
             /\ \A f \in {"active", "activeTask", "registered", "query", "closing",
                          "stopRequested", "restarting", "ipcOwed"} :
                  ParkTask(st)[f] = st[f]
<1> DEFINE t     == IF st.activeTask # NoTask THEN st.activeTask ELSE st.retryTask
           tasks == IF t = NoTask \/ t \in ToSet(st.pendingTasks)
                    THEN st.pendingTasks ELSE Cons(t, st.pendingTasks)
           bare  == CancelRetryTimer(st)
<1>1. /\ bare \in GroupState /\ bare.retryTask = NoTask
      /\ bare.pendingTasks = st.pendingTasks
  BY CancelType DEF CancelRetryTimer, GroupState
<1>2. \A f \in {"active", "activeTask", "registered", "query", "closing",
                "stopRequested", "restarting", "ipcOwed"} : bare[f] = st[f]
  BY DEF CancelRetryTimer, GroupState
<1>3. ParkTask(st) = [bare EXCEPT !.pendingTasks = tasks]
  BY <1>1 DEF ParkTask
<1>4. ParkTask(st) \in GroupState
  BY ParkType
<1> HIDE DEF bare, tasks
<1>5. /\ ParkTask(st).retryTask = NoTask /\ ParkTask(st).pendingTasks = tasks
      /\ \A f \in {"active", "activeTask", "registered", "query", "closing",
                   "stopRequested", "restarting", "ipcOwed"} : ParkTask(st)[f] = bare[f]
  BY <1>1, <1>3 DEF GroupState
<1> QED
  BY <1>2, <1>4, <1>5 DEF tasks

(* Parking takes the timer's task and leaves no timer; a dead lane has     *)
(* nothing to park.                                                        *)
LEMMA ParkedWork ==
  ASSUME NEW st \in GroupState, NEW down, NEW gone, LaneInv(st, down, gone)
  PROVE  LaneInv([ParkTask(st) EXCEPT !.stopRequested = TRUE], down, gone)
<1> DEFINE t      == IF st.activeTask # NoTask THEN st.activeTask ELSE st.retryTask
           parked == ParkTask(st)
           tasks  == IF t = NoTask \/ t \in ToSet(st.pendingTasks)
                     THEN st.pendingTasks ELSE Cons(t, st.pendingTasks)
<1>1. /\ parked \in GroupState
      /\ parked.retryTask = NoTask
      /\ parked.active = st.active /\ parked.activeTask = st.activeTask
      /\ parked.pendingTasks = tasks
  BY ParkFields
<1>2. gone => t = NoTask
  BY DEF LaneInv, TaskRuns, Dead
<1>3. gone => tasks = st.pendingTasks
  BY <1>2
<1> HIDE DEF parked, tasks, t
<1>4. LaneInv(parked, down, gone)
  BY <1>1, <1>3 DEF LaneInv, RetryLive, TaskRuns, Dead
<1>5. [parked EXCEPT !.stopRequested = TRUE].retryTask = NoTask
  BY <1>1 DEF GroupState
<1> QED
  BY <1>1, <1>4, <1>5 DEF LaneInv, RetryLive, TaskRuns, Dead, GroupState, parked

LEMMA StartedWork ==
  ASSUME NEW st \in GroupState, NEW t \in Task, NEW down
  PROVE  LaneInv(Started(st, t), down, FALSE)
BY DEF Started, LaneInv, RetryLive, TaskRuns, GroupState

LEMMA FreshWork ==
  ASSUME NEW down, NEW gone
  PROVE  LaneInv(FreshGroup, down, gone)
BY DEF FreshGroup, LaneInv, RetryLive, TaskRuns, Dead

-----------------------------------------------------------------------------
(* Steps that rewrite the lanes.                                           *)

(* A step that rewrites one lane, or every lane, and closes no workspace.  *)
LEMMA OneLaneWork ==
  ASSUME TypeOK, WorkInv, NEW l \in Lane, NEW st,
         groups' = [groups EXCEPT ![l] = st],
         LaneInv(st, shuttingDown, Discarded(l)),
         UNCHANGED <<shuttingDown, terminalDiscards>>
  PROVE  WorkInv'
<1> SUFFICES ASSUME NEW g \in Lane
             PROVE  LaneInv(groups'[g], shuttingDown, Discarded(g))
  BY DEF WorkInv, Discarded
<1>1. groups'[g] = IF g = l THEN st ELSE groups[g]
  BY DEF TypeOK
<1> QED
  BY <1>1 DEF WorkInv

LEMMA AllLanesWork ==
  ASSUME TypeOK, WorkInv,
         \A g \in Lane : \/ groups'[g] = groups[g]
                         \/ LaneInv(groups'[g], shuttingDown, Discarded(g)),
         UNCHANGED <<shuttingDown, terminalDiscards>>
  PROVE  WorkInv'
BY DEF WorkInv, Discarded

LEMMA NoLaneWork ==
  ASSUME WorkInv, UNCHANGED <<groups, shuttingDown, terminalDiscards>>
  PROVE  WorkInv'
BY DEF WorkInv, Discarded

LEMMA RunTaskWork ==
  ASSUME TypeOK, WorkInv, NEW l \in Lane, NEW t \in Task, NEW st \in GroupState,
         LaneInv(st, shuttingDown, FALSE), ~Discarded(l),
         RunTask(l, t, st), UNCHANGED <<shuttingDown, terminalDiscards>>
  PROVE  WorkInv'
<1>1. CASE Paused(l) \/ st.active
  <2> DEFINE back == [st EXCEPT !.pendingTasks = Cons(t, @)]
  <2>1. Cons(t, st.pendingTasks) \in Seq(Task)
    BY DEF GroupState, Cons
  <2>2. LaneInv(back, shuttingDown, FALSE)
    BY <2>1, PendingWork
  <2>3. groups' = [groups EXCEPT ![l] = back]
    BY <1>1 DEF RunTask
  <2> HIDE DEF back
  <2>4. LaneInv(back, shuttingDown, Discarded(l))
    BY <2>2 DEF LaneInv
  <2> QED
    BY <2>3, <2>4, OneLaneWork
<1>2. CASE ~(Paused(l) \/ st.active)
  <2>1. LaneInv(Started(st, t), shuttingDown, Discarded(l))
    BY StartedWork DEF LaneInv
  <2>2. groups' = [groups EXCEPT ![l] = Started(st, t)]
    BY <1>2 DEF RunTask
  <2> QED
    BY <2>1, <2>2, OneLaneWork
<1> QED
  BY <1>1, <1>2

LEMMA AdmitWork ==
  ASSUME TypeOK, WorkInv, NEW l \in Lane, NEW t \in Task, NEW st \in GroupState,
         LaneInv(st, shuttingDown, FALSE), ~Refuses(l, t), NEW next,
         Admit(l, t, st, next), UNCHANGED <<shuttingDown, terminalDiscards>>
  PROVE  WorkInv'
<1>1. ~Discarded(l)
  BY DEF Refuses
<1>2. CASE MustWait(l)
  <2> DEFINE own(g)  == IF g = l THEN [st EXCEPT !.pendingTasks = Append(@, t)]
                        ELSE groups[g]
  <2> SUFFICES ASSUME NEW g \in Lane
               PROVE  LaneInv(groups'[g], shuttingDown, Discarded(g))
    BY AllLanesWork
  <2>1. own(g) \in GroupState /\ LaneInv(own(g), shuttingDown, Discarded(g))
    <3>1. CASE g = l
      <4>1. Append(st.pendingTasks, t) \in Seq(Task)
        BY DEF GroupState
      <4>2. /\ [st EXCEPT !.pendingTasks = Append(@, t)] \in GroupState
            /\ LaneInv([st EXCEPT !.pendingTasks = Append(@, t)], shuttingDown, FALSE)
        BY <4>1, PendingWork, PendingType
      <4> QED
        BY <1>1, <3>1, <4>2 DEF LaneInv
    <3>2. CASE g # l
      BY <3>2 DEF WorkInv, TypeOK
    <3> QED
      BY <3>1, <3>2
  <2>2. groups'[g] = own(g) \/ groups'[g] = RetireAfterQuery(own(g))
    BY <1>2 DEF Admit, Queued
  <2> HIDE DEF own
  <2>3. SameWork(own(g), RetireAfterQuery(own(g)))
    BY <2>1 DEF SameWork, RetireAfterQuery, GroupState
  <2> QED
    BY <2>1, <2>2, <2>3, SameWorkInv
<1>3. CASE ~MustWait(l)
  BY <1>1, <1>3, RunTaskWork DEF Admit
<1> QED
  BY <1>2, <1>3

-----------------------------------------------------------------------------
(* The calls a segment ends with.                                          *)

(* A lane with queued work is in no deleted workspace.                     *)
LEMMA QueuedIsAlive ==
  ASSUME TypeOK, WorkInv, NEW l \in Lane, groups[l].pendingTasks # <<>>
  PROVE  /\ ~Discarded(l)
         /\ Head(groups[l].pendingTasks) \in Task
         /\ [groups[l] EXCEPT !.pendingTasks = Tail(@)] \in GroupState
         /\ LaneInv([groups[l] EXCEPT !.pendingTasks = Tail(@)], shuttingDown, FALSE)
<1>1. groups[l] \in GroupState /\ LaneInv(groups[l], shuttingDown, Discarded(l))
  BY DEF WorkInv, TypeOK
<1>2. ~Discarded(l)
  BY <1>1 DEF LaneInv, Dead
<1>3. groups[l].pendingTasks \in Seq(Task)
  BY <1>1 DEF GroupState
<1>4. Tail(groups[l].pendingTasks) \in Seq(Task)
  BY <1>3
<1>5. LaneInv(groups[l], shuttingDown, FALSE)
  BY <1>1 DEF LaneInv
<1> QED
  BY <1>1, <1>2, <1>4, <1>5, FirstTaskType, PendingWork

LEMMA AgendaWork == TypeOK /\ WorkInv /\ AgendaStep => WorkInv'
<1> SUFFICES ASSUME TypeOK, WorkInv, AgendaStep PROVE WorkInv'
  OBVIOUS
<1>0. UNCHANGED <<shuttingDown, terminalDiscards>>
  BY DEF AgendaStep, DrainGroup, VisitWaiting, EndVisits, ReclaimIdleRunner,
         RecoverDeliveries, ReleasedLane, ResumedGroups, FinishRestart, gateVars,
         modeVars
<1>1. CASE DrainGroup
  <2>1. PICK l \in Lane :
          \/ UNCHANGED groups
          \/ groups[l].pendingTasks # <<>> /\ RunTask(l, Head(groups[l].pendingTasks),
                [groups[l] EXCEPT !.pendingTasks = Tail(@)])
          \/ groups' = [groups EXCEPT ![l] = FreshGroup]
    BY <1>1, PoppedType DEF DrainGroup
  <2>2. CASE groups' = [groups EXCEPT ![l] = FreshGroup]
    BY <1>0, <2>2, FreshWork, OneLaneWork
  <2> QED
    BY <1>0, <2>1, <2>2, NoLaneWork, QueuedIsAlive, RunTaskWork
<1>2. CASE VisitWaiting
  <2>1. PICK l \in Lane :
          \/ UNCHANGED groups
          \/ groups[l].pendingTasks # <<>> /\ RunTask(l, Head(groups[l].pendingTasks),
                [groups[l] EXCEPT !.pendingTasks = Tail(@)])
    BY <1>2, PoppedType DEF VisitWaiting
  <2> QED
    BY <1>0, <2>1, NoLaneWork, QueuedIsAlive, RunTaskWork
<1>3. CASE EndVisits
  BY <1>0, <1>3, NoLaneWork DEF EndVisits
<1>4. CASE ReclaimIdleRunner
  <2>1. \/ UNCHANGED groups
        \/ \E v \in Lane : groups' = [groups EXCEPT ![v] = [@ EXCEPT !.closing = "reclaim"]]
    BY <1>4 DEF ReclaimIdleRunner, ReclaimVictims
  <2>2. ASSUME NEW v \in Lane,
               groups' = [groups EXCEPT ![v] = [@ EXCEPT !.closing = "reclaim"]]
        PROVE  WorkInv'
    <3>1. SameWork(groups[v], [groups[v] EXCEPT !.closing = "reclaim"])
      BY DEF SameWork, TypeOK, GroupState
    <3>2. LaneInv([groups[v] EXCEPT !.closing = "reclaim"], shuttingDown, Discarded(v))
      BY <3>1, SameWorkInv DEF WorkInv
    <3> QED
      BY <1>0, <2>2, <3>2, OneLaneWork
  <2> QED
    BY <1>0, <2>1, <2>2, NoLaneWork
<1>5. CASE RecoverDeliveries
  <2>1. PICK l \in Args :
          LET st == [groups[l] EXCEPT !.ipcOwed = FALSE]
          IN  \/ groups' = [groups EXCEPT ![l] = st]
              \/ /\ ~Refuses(l, RecoveryTask)
                 /\ \E next : Admit(l, RecoveryTask, st, next)
    BY <1>5 DEF RecoverDeliveries
  <2> DEFINE st == [groups[l] EXCEPT !.ipcOwed = FALSE]
  <2>2. l \in Lane
    BY <1>5, PoppedType DEF RecoverDeliveries
  <2>3. st \in GroupState /\ SameWork(groups[l], st)
    <3>1. groups[l] \in GroupState
      BY <2>2 DEF TypeOK
    <3> QED
      BY <3>1, OwedType, OwedWork
  <2>4. \/ groups' = [groups EXCEPT ![l] = st]
        \/ ~Refuses(l, RecoveryTask) /\ \E next : Admit(l, RecoveryTask, st, next)
    BY <2>1
  <2> HIDE DEF st
  <2>5. LaneInv(st, shuttingDown, Discarded(l)) /\ LaneInv(st, shuttingDown, FALSE)
    BY <2>2, <2>3, SameWorkInv DEF WorkInv, LaneInv
  <2> QED
    BY <1>0, <2>2, <2>3, <2>4, <2>5, OneLaneWork, AdmitWork, TaskAssumption
       DEF TaskAssumption
<1>6. CASE ReleasedLane
  BY <1>0, <1>6, NoLaneWork DEF ReleasedLane
<1>7. CASE ResumedGroups
  <2> SUFFICES ASSUME NEW g \in Lane, groups'[g] # groups[g]
               PROVE  LaneInv(groups'[g], shuttingDown, Discarded(g))
    BY <1>0, AllLanesWork
  <2>1. groups'[g] = DiscardWork(groups[g])
    BY <1>7 DEF ResumedGroups
  <2>2. groups[g] \in GroupState /\ LaneInv(groups[g], shuttingDown, Discarded(g))
    BY DEF TypeOK, WorkInv
  <2> QED
    BY <2>1, <2>2, DiscardedWork DEF LaneInv, Dead
<1>8. CASE FinishRestart
  <2>1. PICK l \in Args :
          LET st == [groups[l] EXCEPT !.restarting = FALSE]
          IN  \/ groups' = [groups EXCEPT ![l] = st]
              \/ ~Refuses(l, RestartTask) /\ Admit(l, RestartTask, st, Tail(agenda))
    BY <1>8 DEF FinishRestart
  <2> DEFINE st == [groups[l] EXCEPT !.restarting = FALSE]
  <2>2. l \in Lane
    BY <1>8, PoppedType DEF FinishRestart
  <2>3. groups[l] \in GroupState /\ LaneInv(groups[l], shuttingDown, Discarded(l))
    BY <2>2 DEF TypeOK, WorkInv
  <2>4. /\ st \in GroupState
        /\ LaneInv(st, shuttingDown, Discarded(l)) /\ LaneInv(st, shuttingDown, FALSE)
    BY <2>3 DEF LaneInv, RetryLive, TaskRuns, Dead, GroupState
  <2>5. \/ groups' = [groups EXCEPT ![l] = st]
        \/ ~Refuses(l, RestartTask) /\ Admit(l, RestartTask, st, Tail(agenda))
    BY <2>1
  <2> HIDE DEF st
  <2> QED
    BY <1>0, <2>2, <2>4, <2>5, OneLaneWork, AdmitWork, TaskAssumption
       DEF TaskAssumption
<1> QED
  BY <1>1, <1>2, <1>3, <1>4, <1>5, <1>6, <1>7, <1>8 DEF AgendaStep

-----------------------------------------------------------------------------
(* Runners, timers and pending calls.                                      *)

(* The exit of a runner: st is its lane's state with the outcome recorded. *)
LEMMA ExitWork ==
  ASSUME TypeOK, WorkInv, NEW l \in Lane, NEW st \in GroupState,
         groups[l].active, st.retryTask # NoTask => RetryLive(st, shuttingDown),
         RunnerExits(l, st)
  PROVE  WorkInv'
<1> DEFINE kept     == l \in preserveStops /\ Paused(l)
           replayed == st.registered /\ st.ipcOwed /\ ~kept
           enqueued == replayed /\ ~Refuses(l, RecoveryTask)
           tasks    == IF enqueued THEN Append(st.pendingTasks, RecoveryTask)
                                   ELSE st.pendingTasks
           left     == [Exited(st) EXCEPT !.pendingTasks = tasks]
           final    == [left EXCEPT !.ipcOwed = left.ipcOwed /\ ~replayed]
<1>1. ~Discarded(l)
  BY DEF WorkInv, LaneInv, Dead
<1>2. tasks \in Seq(Task)
  BY TaskAssumption DEF TaskAssumption, GroupState
<1>3. Exited(st) \in GroupState /\ LaneInv(Exited(st), shuttingDown, FALSE)
  <2>1. Exited(st) \in GroupState
    BY ExitedType
  <2>2. /\ ~Exited(st).active /\ Exited(st).activeTask = NoTask
        /\ Exited(st).retryTask = st.retryTask
        /\ Exited(st).stopRequested = st.stopRequested
        /\ Exited(st).restarting = st.restarting
    BY DEF Exited, GroupState
  <2> QED
    BY <2>1, <2>2 DEF LaneInv, RetryLive, TaskRuns
<1>4. left \in GroupState /\ LaneInv(left, shuttingDown, FALSE)
  BY <1>2, <1>3, PendingWork, PendingType
<1>5. groups' = [groups EXCEPT ![l] = final]
  BY DEF RunnerExits, Exited, GroupState
<1> HIDE DEF left, replayed
<1>6. SameWork(left, final)
  BY <1>4 DEF SameWork, GroupState
<1>7. LaneInv(final, shuttingDown, Discarded(l))
  BY <1>1, <1>4, <1>6, SameWorkInv DEF LaneInv
<1>8. UNCHANGED <<shuttingDown, terminalDiscards>>
  BY DEF RunnerExits, gateVars, modeVars
<1> HIDE DEF final
<1> QED
  BY <1>5, <1>7, <1>8, OneLaneWork

LEMMA TaskFailsWork ==
  ASSUME TypeOK, WorkInv, NEW l \in Lane, TaskFails(l)
  PROVE  WorkInv'
<1> DEFINE old   == groups[l]
           next  == old.retryCount + 1
           held  == [CancelRetryTimer(old) EXCEPT !.retryCount = 0]
           armed == [CancelRetryTimer(old) EXCEPT
                       !.retryCount = next,
                       !.retryTask = CancelRetryTimer(old).activeTask]
           kept  == IF ~CanScheduleRetry(old) THEN old
                    ELSE IF next > MaxRetries THEN held ELSE armed
           final == [kept EXCEPT !.finishing = TRUE]
<1>1. /\ old \in GroupState /\ old.active /\ ~old.finishing
      /\ LaneInv(old, shuttingDown, Discarded(l))
  BY DEF TypeOK, WorkInv, TaskFails
<1>2. ~Discarded(l) /\ old.retryTask = NoTask
  BY <1>1 DEF LaneInv, RetryLive, Dead
<1>3. groups' = [groups EXCEPT ![l] = final]
  BY DEF TaskFails
<1>4. final.active /\ final.finishing
  BY <1>1 DEF CancelRetryTimer, GroupState
<1>5. final.retryTask # NoTask =>
        ~final.stopRequested /\ ~final.restarting /\ ~shuttingDown
  BY <1>1, <1>2 DEF CancelRetryTimer, CanScheduleRetry, GroupState
<1>6. UNCHANGED <<shuttingDown, terminalDiscards>>
  BY DEF TaskFails, gateVars, modeVars
<1> HIDE DEF final
<1> QED
  BY <1>2, <1>3, <1>4, <1>5, <1>6, OneLaneWork DEF LaneInv, RetryLive, TaskRuns

LEMMA RetryTimerWork ==
  ASSUME TypeOK, WorkInv, NEW l \in Lane, RetryTimerFires(l)
  PROVE  WorkInv'
<1> DEFINE t     == groups[l].retryTask
           st    == [groups[l] EXCEPT !.retryTask = NoTask]
           fired == [st EXCEPT !.queuedRetry = t]
           spent == [st EXCEPT !.queuedRetry = NoTask]
<1>1. groups[l] \in GroupState /\ LaneInv(groups[l], shuttingDown, Discarded(l))
  BY DEF TypeOK, WorkInv
<1>2. t \in Task /\ ~Discarded(l)
  BY <1>1 DEF RetryTimerFires, GroupState, LaneInv, Dead
<1>3. st \in GroupState /\ LaneInv(st, shuttingDown, FALSE)
  BY <1>1 DEF LaneInv, RetryLive, TaskRuns, GroupState
<1>4. \/ ~Refuses(l, t) /\ Admit(l, t, fired, <<>>)
      \/ groups' = [groups EXCEPT ![l] = spent]
      \/ groups' = [groups EXCEPT ![l] = st]
  BY DEF RetryTimerFires
<1>5. UNCHANGED <<shuttingDown, terminalDiscards>>
  BY DEF RetryTimerFires, gateVars, modeVars
<1> HIDE DEF st, t
<1>6. /\ fired \in GroupState
      /\ SameWork(st, fired) /\ SameWork(st, spent)
  BY <1>2, <1>3 DEF SameWork, GroupState
<1> HIDE DEF fired, spent
<1>7. /\ LaneInv(fired, shuttingDown, FALSE)
      /\ LaneInv(spent, shuttingDown, FALSE)
  BY <1>3, <1>6, SameWorkInv
<1>8. /\ LaneInv(st, shuttingDown, Discarded(l))
      /\ LaneInv(spent, shuttingDown, Discarded(l))
  BY <1>2, <1>3, <1>7 DEF LaneInv
<1> QED
  BY <1>2, <1>4, <1>5, <1>6, <1>7, <1>8, OneLaneWork, AdmitWork

(* Steps that only rewrite one lane's query, registration or debts.        *)
LEMMA SameLaneWork ==
  ASSUME TypeOK, WorkInv, NEW l \in Lane, NEW st,
         groups' = [groups EXCEPT ![l] = st], SameWork(groups[l], st),
         UNCHANGED <<shuttingDown, terminalDiscards>>
  PROVE  WorkInv'
BY SameWorkInv, OneLaneWork DEF WorkInv

LEMMA QueryIdleWork ==
  ASSUME TypeOK, WorkInv, NEW l \in Lane, NEW continuation \in BOOLEAN,
         MarkRunnerQueryIdle(l, continuation)
  PROVE  WorkInv'
<1> DEFINE st == [groups[l] EXCEPT
                    !.query = IF continuation THEN "unsettled" ELSE "idle"]
<1>1. SameWork(groups[l], st)
  BY DEF SameWork, TypeOK, GroupState
<1>2. groups' = [groups EXCEPT ![l] = st]
  BY DEF MarkRunnerQueryIdle
<1> HIDE DEF st
<1> QED
  BY <1>1, <1>2, SameLaneWork DEF MarkRunnerQueryIdle, gateVars, modeVars

LEMMA RunnerWork ==
  ASSUME TypeOK, WorkInv, NEW l \in Lane, RunnerStep(l)
  PROVE  WorkInv'
<1> USE DEF gateVars, modeVars
<1>1. groups[l] \in GroupState /\ LaneInv(groups[l], shuttingDown, Discarded(l))
  BY DEF TypeOK, WorkInv
<1>2. CASE RegisterProcess(l)
  <2>1. SameWork(groups[l], [groups[l] EXCEPT !.registered = TRUE])
    BY <1>1 DEF SameWork, GroupState
  <2> QED
    BY <1>2, <2>1, SameLaneWork DEF RegisterProcess
<1>3. CASE TaskSucceeds(l)
  <2>1. ClearRetryTimer(groups[l]) \in GroupState
    BY <1>1, ClearType
  <2>2. ClearRetryTimer(groups[l]).retryTask = NoTask
    BY <1>1 DEF ClearRetryTimer, GroupState
  <2> QED
    BY <1>3, <2>1, <2>2, ExitWork DEF TaskSucceeds
<1>4. CASE TaskThrows(l) \/ FailedRunnerExits(l)
  BY <1>1, <1>4, ExitWork DEF TaskThrows, FailedRunnerExits, LaneInv
<1>5. CASE AcknowledgeIpcDeliveries(l)
  <2>1. SameWork(groups[l], [groups[l] EXCEPT !.ipcOwed = FALSE])
    BY <1>1 DEF SameWork, GroupState
  <2> QED
    BY <1>5, <2>1, SameLaneWork DEF AcknowledgeIpcDeliveries
<1>6. CASE PreservingStopReturns(l) \/ RestartReturns(l)
  BY <1>6, NoLaneWork DEF PreservingStopReturns, RestartReturns
<1>7. CASE RestartTimesOut(l)
  <2> DEFINE st == [groups[l] EXCEPT !.restarting = FALSE]
  <2>1. LaneInv(st, shuttingDown, Discarded(l))
    BY <1>1 DEF LaneInv, RetryLive, TaskRuns, Dead, GroupState
  <2>2. groups' = [groups EXCEPT ![l] = st]
    BY <1>7 DEF RestartTimesOut
  <2> HIDE DEF st
  <2> QED
    BY <1>7, <2>1, <2>2, OneLaneWork DEF RestartTimesOut
<1> QED
  BY <1>2, <1>3, <1>4, <1>5, <1>6, <1>7, TaskFailsWork, RetryTimerWork,
     QueryIdleWork DEF RunnerStep

-----------------------------------------------------------------------------
(* What users, routes and other subsystems ask of the queue.               *)

LEMMA InputWork == TypeOK /\ WorkInv /\ InputRequest => WorkInv'
<1> SUFFICES ASSUME TypeOK, WorkInv, InputRequest PROVE WorkInv'
  OBVIOUS
<1> USE DEF gateVars, modeVars
<1>0. \A l \in Lane : groups[l] \in GroupState
  BY DEF TypeOK
<1>1. ASSUME NEW l \in Lane, NEW t \in Task, EnqueueTask(l, t)
      PROVE  WorkInv'
  <2>1. LaneInv(groups[l], shuttingDown, FALSE)
    BY DEF WorkInv, LaneInv
  <2> QED
    BY <1>0, <1>1, <2>1, AdmitWork DEF EnqueueTask
<1>2. ASSUME NEW l, SendMessage(l)
      PROVE  WorkInv'
  <2> DEFINE q(r)    == IF InQuery(groups[r]) THEN groups[r].query ELSE "inFlight"
             sent(r) == [groups[r] EXCEPT !.ipcOwed = TRUE, !.query = q(r)]
  <2>1. PICK r \in Lane : groups' = [groups EXCEPT ![r] = sent(r)]
    BY <1>2 DEF SendMessage, RegisteredRunners, Runners
  <2>2. SameWork(groups[r], sent(r))
    BY <1>0 DEF SameWork, GroupState
  <2> HIDE DEF sent
  <2> QED
    BY <1>2, <2>1, <2>2, SameLaneWork DEF SendMessage
<1>3. ASSUME NEW l \in PipedLane, ReserveNextQuery(l) \/ ReleaseQueryReservation(l)
      PROVE  WorkInv'
  <2>1. l \in Lane
    BY EnvironmentAssumption DEF EnvironmentAssumption
  <2>2. \A q : SameWork(groups[l], [groups[l] EXCEPT !.query = q])
    BY <1>0, <2>1 DEF SameWork, GroupState
  <2>3. \E q : groups' = [groups EXCEPT ![l] = [groups[l] EXCEPT !.query = q]]
    BY <1>3 DEF ReserveNextQuery, ReleaseQueryReservation
  <2> QED
    BY <1>3, <2>1, <2>2, <2>3, SameLaneWork
       DEF ReserveNextQuery, ReleaseQueryReservation
<1>4. ASSUME NEW l \in PipedLane, MarkRunnerQueryIdle(l, TRUE)
      PROVE  WorkInv'
  BY <1>4, QueryIdleWork, EnvironmentAssumption DEF EnvironmentAssumption
<1> QED
  BY <1>1, <1>2, <1>3, <1>4 DEF InputRequest

(* A stop between attempts drops the queued retry only of a lane that has  *)
(* queued work, and a dead lane has none.                                  *)
LEMMA StopArmedWork ==
  ASSUME TypeOK, WorkInv, NEW l \in Lane, StopArmedRetry(l)
  PROVE  WorkInv'
<1> DEFINE st     == groups[l]
           queued == {i \in DOMAIN st.pendingTasks : st.pendingTasks[i] = st.queuedRetry}
           final(tasks) == [ClearRetryTimer(st) EXCEPT !.pendingTasks = tasks]
<1>1. /\ st \in GroupState /\ LaneInv(st, shuttingDown, Discarded(l))
      /\ ~st.active
  BY DEF TypeOK, WorkInv, StopArmedRetry
<1>2. st.pendingTasks = <<>> => queued = {}
  OBVIOUS
<1>3. PICK tasks : /\ queued = {} => tasks = st.pendingTasks
                   /\ groups' = [groups EXCEPT ![l] = final(tasks)]
  BY DEF StopArmedRetry
<1>4. /\ final(tasks).active = st.active
      /\ final(tasks).activeTask = st.activeTask
      /\ final(tasks).retryTask = NoTask
      /\ final(tasks).pendingTasks = tasks
  BY <1>1 DEF ClearRetryTimer, GroupState
<1>5. UNCHANGED <<shuttingDown, terminalDiscards>>
  BY DEF StopArmedRetry, gateVars, modeVars
<1> HIDE DEF final, queued
<1>6. LaneInv(final(tasks), shuttingDown, Discarded(l))
  BY <1>1, <1>2, <1>3, <1>4 DEF LaneInv, RetryLive, TaskRuns, Dead
<1> QED
  BY <1>3, <1>5, <1>6, OneLaneWork

LEMMA StopWork == TypeOK /\ WorkInv /\ StopRequest => WorkInv'
<1> SUFFICES ASSUME TypeOK, WorkInv, StopRequest PROVE WorkInv'
  OBVIOUS
<1> USE DEF gateVars, modeVars
<1>0. \A l \in Lane : /\ groups[l] \in GroupState
                      /\ LaneInv(groups[l], shuttingDown, Discarded(l))
                      /\ TaskRuns(groups[l]) /\ (Discarded(l) => ~groups[l].active)
  BY DEF TypeOK, WorkInv, LaneInv, Dead
<1>1. ASSUME NEW l \in Lane, StopGroup(l)
      PROVE  WorkInv'
  <2> SUFFICES ASSUME NEW g \in Lane, groups'[g] # groups[g]
               PROVE  LaneInv(groups'[g], shuttingDown, Discarded(g))
    BY <1>1, AllLanesWork DEF StopGroup
  <2> DEFINE work == DiscardWork(groups[g])
             owed == [work EXCEPT !.stopRequested = TRUE].ipcOwed /\ g \notin Targets(l)
             new  == [work EXCEPT !.stopRequested = TRUE, !.ipcOwed = owed]
  <2>1. groups'[g] = new
    BY <1>1 DEF StopGroup
  <2>2. /\ work \in GroupState /\ work.retryTask = NoTask
        /\ LaneInv(work, shuttingDown, Discarded(g))
    BY <1>0, DiscardType, DiscardFields, DiscardedWork
  <2> HIDE DEF work, owed
  <2>3. /\ new.retryTask = work.retryTask /\ new.active = work.active
        /\ new.activeTask = work.activeTask /\ new.pendingTasks = work.pendingTasks
    BY <2>2 DEF GroupState
  <2> HIDE DEF new
  <2> QED
    BY <2>1, <2>2, <2>3 DEF LaneInv, RetryLive, TaskRuns, Dead
<1>2. ASSUME NEW l \in Lane, InterruptQuery(l)
      PROVE  WorkInv'
  <2>1. LaneInv(CancelRetryTimer(groups[l]), shuttingDown, Discarded(l))
    BY <1>0 DEF CancelRetryTimer, LaneInv, RetryLive, TaskRuns, Dead, GroupState
  <2> QED
    BY <1>2, <2>1, OneLaneWork DEF InterruptQuery
<1>3. ASSUME NEW l \in Lane, RestartGroup(l)
      PROVE  WorkInv'
  <2> DEFINE cleared(r) == ClearRetryTimer(groups[r])
             new(r)     == [cleared(r) EXCEPT !.restarting = TRUE]
  <2>1. PICK r \in Lane : groups' = [groups EXCEPT ![r] = new(r)]
    BY <1>3 DEF RestartGroup, Targets, Runners
  <2>2. /\ new(r).retryTask = NoTask /\ new(r).active = groups[r].active
        /\ new(r).activeTask = groups[r].activeTask
        /\ new(r).pendingTasks = groups[r].pendingTasks
    BY <1>0 DEF ClearRetryTimer, GroupState
  <2> HIDE DEF new
  <2>3. LaneInv(new(r), shuttingDown, Discarded(r))
    BY <1>0, <2>2 DEF LaneInv, RetryLive, TaskRuns, Dead
  <2> QED
    BY <1>3, <2>1, <2>3, OneLaneWork DEF RestartGroup
<1>4. ASSUME NEW l \in Lane, RetireRunnerAfterQuery(l)
      PROVE  WorkInv'
  <2>1. \A g \in Lane : SameWork(groups[g], RetireAfterQuery(groups[g]))
    BY <1>0 DEF SameWork, RetireAfterQuery, GroupState
  <2>2. \A g \in Lane : LaneInv(RetireAfterQuery(groups[g]), shuttingDown, Discarded(g))
    BY <1>0, <2>1, SameWorkInv
  <2> QED
    BY <1>4, <2>2, AllLanesWork DEF RetireRunnerAfterQuery
<1>5. ASSUME NEW l \in Lane, RequestDrain(l)
      PROVE  WorkInv'
  <2>1. SameWork(groups[l], [groups[l] EXCEPT !.drainSentinelWritten = TRUE])
    BY <1>0 DEF SameWork, GroupState
  <2> QED
    BY <1>5, <2>1, SameLaneWork DEF RequestDrain
<1>6. CASE Shutdown
  <2>1. \A g \in Lane : LaneInv(DiscardWork(groups[g]), TRUE, Discarded(g))
    BY <1>0, DiscardedWork
  <2> QED
    BY <1>6, <2>1 DEF Shutdown, WorkInv, Discarded
<1> QED
  BY <1>1, <1>2, <1>3, <1>4, <1>5, <1>6, StopArmedWork, EnvironmentAssumption
     DEF StopRequest, EnvironmentAssumption

(* Deletion: the caller has stopped the workspace's runners, so discarding *)
(* its lanes' work leaves nothing there.                                   *)
LEMMA DiscardGroupsWork ==
  ASSUME TypeOK, WorkInv, NEW k \in Token, DiscardGroups(k)
  PROVE  WorkInv'
<1> SUFFICES ASSUME NEW l \in Lane
             PROVE  LaneInv(groups'[l], shuttingDown, Discarded(l)')
  BY DEF WorkInv, DiscardGroups
<1> DEFINE work == DiscardWork(groups[l])
           new  == [work EXCEPT !.ipcOwed = FALSE]
<1>1. /\ groups[l] \in GroupState
      /\ LaneInv(groups[l], shuttingDown, Discarded(l)) /\ TaskRuns(groups[l])
  BY DEF TypeOK, WorkInv, LaneInv
<1>2. CASE l \in LanesOf(mutationPauseTokens[k])
  <2>1. groups'[l] = new /\ ~groups[l].active
    BY <1>2 DEF DiscardGroups
  <2>2. work \in GroupState /\ LaneInv(work, shuttingDown, Discarded(l)')
    BY <1>1, <2>1, DiscardType, DiscardedWork
  <2> HIDE DEF work
  <2>3. SameWork(work, new)
    BY <2>2 DEF SameWork, GroupState
  <2> QED
    BY <2>1, <2>2, <2>3, SameWorkInv
<1>3. CASE l \notin LanesOf(mutationPauseTokens[k])
  <2>1. groups'[l] = groups[l]
    BY <1>3 DEF DiscardGroups
  <2>2. Discarded(l)' = Discarded(l)
    BY <1>3 DEF DiscardGroups, Discarded, LanesOf
  <2> QED
    BY <1>1, <2>1, <2>2
<1> QED
  BY <1>2, <1>3

LEMMA MutationWork == TypeOK /\ WorkInv /\ MutationRequest => WorkInv'
<1> SUFFICES ASSUME TypeOK, WorkInv, MutationRequest PROVE WorkInv'
  OBVIOUS
<1> USE DEF gateVars, modeVars
<1>0. \A l \in Lane : /\ groups[l] \in GroupState
                      /\ LaneInv(groups[l], shuttingDown, Discarded(l))
                      /\ TaskRuns(groups[l]) /\ (Discarded(l) => ~groups[l].active)
  BY DEF TypeOK, WorkInv, LaneInv, Dead
<1>1. ASSUME NEW l, HoldLane(l) \/ ReleaseLane(l) \/ BeginDeferral(l) \/ EndDeferral(l)
      PROVE  WorkInv'
  BY <1>1, NoLaneWork DEF HoldLane, ReleaseLane, ReleaseHold, BeginDeferral, EndDeferral
<1>2. ASSUME NEW k, NEW ws, PauseGroups(k, ws) \/ ResumeGroups(k)
      PROVE  WorkInv'
  BY <1>2, NoLaneWork DEF PauseGroups, ResumeGroups
<1>3. ASSUME NEW w, NEW src, BlockForSafety(w, src) \/ UnblockForSafety(w, src)
      PROVE  WorkInv'
  BY <1>3, NoLaneWork DEF BlockForSafety, UnblockForSafety
<1>4. ASSUME NEW l \in HeldLane, DiscardHeldLane(l)
      PROVE  WorkInv'
  <2> DEFINE work == DiscardWork(groups[l])
             new  == [work EXCEPT !.ipcOwed = FALSE]
  <2>1. l \in Lane
    BY HeldAssumption DEF HeldAssumption
  <2>2. work \in GroupState /\ LaneInv(work, shuttingDown, Discarded(l))
    BY <1>0, <2>1, DiscardType, DiscardedWork
  <2>3. groups' = [groups EXCEPT ![l] = new]
    BY <1>4 DEF DiscardHeldLane
  <2> HIDE DEF work
  <2>4. LaneInv(new, shuttingDown, Discarded(l))
    BY <2>2, SameWorkInv DEF SameWork, GroupState
  <2> QED
    BY <1>4, <2>1, <2>3, <2>4, OneLaneWork DEF DiscardHeldLane, ReleaseHold
<1>5. ASSUME NEW l \in Lane, PreservingStop(l)
      PROVE  WorkInv'
  <2>1. \A g \in Lane : LaneInv([ParkTask(groups[g]) EXCEPT !.stopRequested = TRUE],
                                shuttingDown, Discarded(g))
    BY <1>0, ParkedWork
  <2> QED
    BY <1>5, <2>1, AllLanesWork DEF PreservingStop
<1>6. ASSUME NEW l \in Lane, DeferredStop(l)
      PROVE  WorkInv'
  <2>1. \A g \in Lane : SameWork(groups[g], [groups[g] EXCEPT !.closing = "after_query"])
    BY <1>0 DEF SameWork, GroupState
  <2>2. \A g \in Lane : LaneInv([groups[g] EXCEPT !.closing = "after_query"],
                                shuttingDown, Discarded(g))
    BY <1>0, <2>1, SameWorkInv
  <2> QED
    BY <1>6, <2>2, AllLanesWork DEF DeferredStop
<1> QED
  BY <1>1, <1>2, <1>3, <1>4, <1>5, <1>6, DiscardGroupsWork, EnvironmentAssumption
     DEF MutationRequest, EnvironmentAssumption

-----------------------------------------------------------------------------
(* The theorems.                                                           *)

LEMMA InitWork == Init => WorkInv
BY FreshWork DEF Init, WorkInv

LEMMA WorkStep == TypeOK /\ WorkInv /\ [Next]_vars => WorkInv'
<1> SUFFICES ASSUME TypeOK, WorkInv, [Next]_vars PROVE WorkInv'
  OBVIOUS
<1>1. CASE UNCHANGED vars
  BY <1>1, NoLaneWork DEF vars, gateVars, modeVars
<1> QED
  BY <1>1, AgendaWork, RunnerWork, InputWork, StopWork, MutationWork DEF Next

(* No retry timer outlives what ended its lane's attempts: a stop, a       *)
(* restart, the next attempt or the host's shutdown.                       *)
THEOREM RetryExclusive == Spec => []RetryIsExclusive
<1>1. WorkInv => RetryIsExclusive
  BY DEF WorkInv, LaneInv, RetryLive, RetryIsExclusive
<1> QED
  BY <1>1, InitWork, WorkStep, TypeCorrect, PTL DEF Spec

(* Whatever callbacks, timers, releases, stops and late enqueues arrive,   *)
(* a deleted workspace has no runner, no queued work and no armed retry.   *)
THEOREM DeletedDead == Spec => []DeletedWorkspaceIsDead
<1>1. WorkInv => DeletedWorkspaceIsDead
  BY DEF WorkInv, LaneInv, Dead, DeletedWorkspaceIsDead
<1> QED
  BY <1>1, InitWork, WorkStep, TypeCorrect, PTL DEF Spec
=============================================================================
