-------------------------- MODULE GroupQueueProofs --------------------------
(* Theorems about GroupQueue, for every set of lanes, tasks, tokens and    *)
(* limits that satisfies the module's assumptions.                         *)
EXTENDS GroupQueue, FiniteSetTheorems, SequenceTheorems, TLAPS

-----------------------------------------------------------------------------
(* The operators on one lane's state keep its type.                        *)

LEMMA PendingType ==
  ASSUME NEW st \in GroupState, NEW tasks \in Seq(Task)
  PROVE  [st EXCEPT !.pendingTasks = tasks] \in GroupState
BY DEF GroupState

LEMMA OwedType ==
  ASSUME NEW st \in GroupState, NEW owed \in BOOLEAN
  PROVE  [st EXCEPT !.ipcOwed = owed] \in GroupState
BY DEF GroupState

LEMMA CancelType ==
  ASSUME NEW st \in GroupState
  PROVE  CancelRetryTimer(st) \in GroupState
BY DEF CancelRetryTimer, GroupState

LEMMA ClearType ==
  ASSUME NEW st \in GroupState
  PROVE  ClearRetryTimer(st) \in GroupState
BY LimitAssumption, 0 \in 0..MaxRetries DEF LimitAssumption, ClearRetryTimer, GroupState

LEMMA DiscardType ==
  ASSUME NEW st \in GroupState
  PROVE  DiscardWork(st) \in GroupState
<1> DEFINE cleared == ClearRetryTimer(st)
<1>1. cleared \in GroupState
  BY ClearType
<1>2. DiscardWork(st) = [cleared EXCEPT !.pendingTasks = <<>>]
  BY DEF DiscardWork
<1>3. <<>> \in Seq(Task)
  OBVIOUS
<1> HIDE DEF cleared
<1> QED
  BY <1>1, <1>2, <1>3, PendingType

LEMMA ParkType ==
  ASSUME NEW st \in GroupState
  PROVE  ParkTask(st) \in GroupState
<1> DEFINE t == IF st.activeTask # NoTask THEN st.activeTask ELSE st.retryTask
           q == IF t = NoTask \/ t \in ToSet(st.pendingTasks)
                THEN st.pendingTasks ELSE Cons(t, st.pendingTasks)
<1>1. t \in Task \union {NoTask} /\ st.pendingTasks \in Seq(Task)
  BY DEF GroupState
<1>2. q \in Seq(Task)
  <2>1. CASE t \in Task
    BY <1>1, <2>1 DEF Cons
  <2> QED BY <1>1, <2>1
<1>3. ParkTask(st) = [CancelRetryTimer(st) EXCEPT !.pendingTasks = q]
  BY DEF ParkTask, CancelRetryTimer, GroupState
<1> HIDE DEF q
<1> QED
  BY <1>2, <1>3, CancelType, PendingType

LEMMA RetireType ==
  ASSUME NEW st \in GroupState
  PROVE  RetireAfterQuery(st) \in GroupState
BY DEF RetireAfterQuery, GroupState

LEMMA StartedType ==
  ASSUME NEW st \in GroupState, NEW t \in Task
  PROVE  Started(st, t) \in GroupState
BY DEF Started, GroupState

LEMMA ExitedType ==
  ASSUME NEW st \in GroupState
  PROVE  Exited(st) \in GroupState
BY DEF Exited, GroupState

LEMMA FreshType == FreshGroup \in GroupState
BY LimitAssumption DEF LimitAssumption, FreshGroup, GroupState

-----------------------------------------------------------------------------
(* The calls of the agenda.                                                *)

LEMMA CallingType ==
  ASSUME NEW lanes \in SUBSET Lane,
         NEW op \in {"drainGroup", "visit", "reclaim", "recover", "releaseLane",
                     "resumeGroups", "finishRestart"}
  PROVE  Calling(op, lanes) \in Seq(Call)
BY DEF Calling, Call

LEMMA VisitType ==
  ASSUME NEW lanes \in SUBSET Lane
  PROVE  DrainWaiting(lanes) \in Seq(Call)
BY CallingType DEF DrainWaiting

LEMMA PoppedType ==
  ASSUME TypeOK, NEW op, Running(op)
  PROVE  Tail(agenda) \in Seq(Call) /\ Args \in SUBSET Lane
<1>1. agenda \in Seq(Call) /\ agenda # <<>>
  BY DEF TypeOK, Running, Quiet
<1>2. Head(agenda) \in Call
  BY <1>1
<1> QED
  BY <1>1, <1>2 DEF Args, Call

LEMMA FirstTaskType ==
  ASSUME NEW st \in GroupState, st.pendingTasks # <<>>
  PROVE  /\ Head(st.pendingTasks) \in Task
         /\ [st EXCEPT !.pendingTasks = Tail(@)] \in GroupState
         /\ [st EXCEPT !.pendingTasks = Tail(@)].active = st.active
<1>1. st.pendingTasks \in Seq(Task)
  BY DEF GroupState
<1>2. Head(st.pendingTasks) \in Task /\ Tail(st.pendingTasks) \in Seq(Task)
  BY <1>1
<1>3. [st EXCEPT !.pendingTasks = Tail(@)].active = st.active
  BY DEF GroupState
<1> QED
  BY <1>2, <1>3, PendingType

-----------------------------------------------------------------------------
(* Starting and admitting a task.                                          *)

LEMMA RunTaskType ==
  ASSUME TypeOK, NEW l \in Lane, NEW t \in Task, NEW st \in GroupState,
         RunTask(l, t, st)
  PROVE  /\ groups' \in [Lane -> GroupState]
         /\ waitingGroups' \subseteq Lane
         /\ activeContainerCount' \in Int
<1>1. CASE Paused(l) \/ st.active
  <2>1. Cons(t, st.pendingTasks) \in Seq(Task)
    BY DEF GroupState, Cons
  <2>2. [st EXCEPT !.pendingTasks = Cons(t, @)] \in GroupState
    BY <2>1, PendingType
  <2> QED
    BY <1>1, <2>2 DEF RunTask, TypeOK
<1>2. CASE ~(Paused(l) \/ st.active)
  BY <1>2, StartedType DEF RunTask, TypeOK
<1> QED
  BY <1>1, <1>2

LEMMA QueuedType ==
  ASSUME TypeOK, NEW l \in Lane, NEW t \in Task, NEW st \in GroupState
  PROVE  Queued(l, t, st) \in [Lane -> GroupState]
<1>1. Append(st.pendingTasks, t) \in Seq(Task)
  BY DEF GroupState
<1>2. [st EXCEPT !.pendingTasks = Append(@, t)] \in GroupState
  BY <1>1, PendingType
<1> QED
  BY <1>2, RetireType DEF Queued, TypeOK

LEMMA AdmitType ==
  ASSUME TypeOK, NEW l \in Lane, NEW t \in Task, NEW st \in GroupState,
         NEW next \in Seq(Call), Admit(l, t, st, next)
  PROVE  /\ groups' \in [Lane -> GroupState]
         /\ waitingGroups' \subseteq Lane
         /\ activeContainerCount' \in Int
         /\ agenda' \in Seq(Call)
<1>1. CASE MustWait(l)
  <2>1. <<>> \in Seq(Call) /\ Calling("reclaim", {l}) \in Seq(Call)
    BY CallingType
  <2>2. agenda' \in Seq(Call)
    BY <1>1, <2>1, ConcatProperties DEF Admit
  <2> QED
    BY <1>1, <2>2, QueuedType DEF Admit, TypeOK
<1>2. CASE ~MustWait(l)
  BY <1>2, RunTaskType DEF Admit
<1> QED
  BY <1>1, <1>2

-----------------------------------------------------------------------------
(* Every step keeps the type of every variable.                            *)

LEMMA DrainGroupType == TypeOK /\ DrainGroup => TypeOK'
<1> SUFFICES ASSUME TypeOK, DrainGroup PROVE TypeOK'
  OBVIOUS
<1> USE DEF gateVars, modeVars
<1>1. Tail(agenda) \in Seq(Call) /\ Args \in SUBSET Lane
  BY PoppedType DEF DrainGroup
<1>2. PICK l \in Args :
        \/ /\ agenda' = Tail(agenda)
           /\ UNCHANGED <<groups, waitingGroups, activeContainerCount>>
        \/ /\ waitingGroups' \in SUBSET Lane
           /\ agenda' = DrainWaiting(waitingGroups') \o Tail(agenda)
           /\ UNCHANGED <<groups, activeContainerCount>>
        \/ /\ waitingGroups' \in SUBSET Lane
           /\ agenda' = Tail(agenda)
           /\ UNCHANGED <<groups, activeContainerCount>>
        \/ /\ groups[l].pendingTasks # <<>>
           /\ RunTask(l, Head(groups[l].pendingTasks),
                      [groups[l] EXCEPT !.pendingTasks = Tail(@)])
           /\ agenda' = Tail(agenda)
        \/ /\ groups' = [groups EXCEPT ![l] = FreshGroup] \/ groups' = groups
           /\ waitingGroups' \in SUBSET Lane
           /\ agenda' = DrainWaiting(waitingGroups') \o Tail(agenda)
           /\ UNCHANGED activeContainerCount
  BY <1>1 DEF DrainGroup, TypeOK
<1>3. l \in Lane /\ groups[l] \in GroupState
  BY <1>1 DEF TypeOK
<1>4. ASSUME waitingGroups' \in SUBSET Lane
      PROVE  DrainWaiting(waitingGroups') \o Tail(agenda) \in Seq(Call)
  BY <1>1, <1>4, VisitType, ConcatProperties
<1>5. /\ groups' \in [Lane -> GroupState]
      /\ waitingGroups' \subseteq Lane
      /\ activeContainerCount' \in Int
      /\ agenda' \in Seq(Call)
  <2>1. CASE /\ groups[l].pendingTasks # <<>>
             /\ RunTask(l, Head(groups[l].pendingTasks),
                        [groups[l] EXCEPT !.pendingTasks = Tail(@)])
             /\ agenda' = Tail(agenda)
    BY <1>1, <1>3, <2>1, FirstTaskType, RunTaskType
  <2> QED
    BY <1>1, <1>2, <1>3, <1>4, <2>1, FreshType DEF TypeOK
<1> QED
  BY <1>5 DEF TypeOK, DrainGroup

LEMMA VisitWaitingType == TypeOK /\ VisitWaiting => TypeOK'
<1> SUFFICES ASSUME TypeOK, VisitWaiting PROVE TypeOK'
  OBVIOUS
<1> USE DEF gateVars, modeVars
<1>1. Tail(agenda) \in Seq(Call) /\ Args \in SUBSET Lane
  BY PoppedType DEF VisitWaiting
<1>2. PICK l \in Args :
        /\ agenda' = Calling("visit", Args \ {l}) \o Tail(agenda)
        /\ \/ UNCHANGED <<groups, waitingGroups, activeContainerCount>>
           \/ /\ groups[l].pendingTasks # <<>>
              /\ RunTask(l, Head(groups[l].pendingTasks),
                         [groups[l] EXCEPT !.pendingTasks = Tail(@)])
           \/ /\ waitingGroups' = waitingGroups \ {l}
              /\ UNCHANGED <<groups, activeContainerCount>>
  BY DEF VisitWaiting
<1>3. l \in Lane /\ groups[l] \in GroupState
  BY <1>1 DEF TypeOK
<1>4. agenda' \in Seq(Call)
  BY <1>1, <1>2, CallingType, ConcatProperties
<1>5. /\ groups' \in [Lane -> GroupState]
      /\ waitingGroups' \subseteq Lane
      /\ activeContainerCount' \in Int
  <2>1. CASE /\ groups[l].pendingTasks # <<>>
             /\ RunTask(l, Head(groups[l].pendingTasks),
                        [groups[l] EXCEPT !.pendingTasks = Tail(@)])
    BY <1>3, <2>1, FirstTaskType, RunTaskType
  <2> QED
    BY <1>2, <2>1 DEF TypeOK
<1> QED
  BY <1>4, <1>5 DEF TypeOK, VisitWaiting

LEMMA EndVisitsType == TypeOK /\ EndVisits => TypeOK'
<1> SUFFICES ASSUME TypeOK, EndVisits PROVE TypeOK'
  OBVIOUS
<1>1. Tail(agenda) \in Seq(Call)
  BY PoppedType DEF EndVisits
<1>2. <<>> \in Seq(Call) /\ Calling("reclaim", {}) \in Seq(Call)
  BY CallingType
<1>3. agenda' \in Seq(Call)
  BY <1>1, <1>2, ConcatProperties DEF EndVisits
<1> QED
  BY <1>3 DEF EndVisits, TypeOK, gateVars, modeVars

LEMMA ReclaimType == TypeOK /\ ReclaimIdleRunner => TypeOK'
<1> SUFFICES ASSUME TypeOK, ReclaimIdleRunner PROVE TypeOK'
  OBVIOUS
<1>1. Tail(agenda) \in Seq(Call)
  BY PoppedType DEF ReclaimIdleRunner
<1> DEFINE closed(v) == [groups[v] EXCEPT !.closing = "reclaim"]
<1>2. UNCHANGED groups \/ \E v \in Lane : groups' = [groups EXCEPT ![v] = closed(v)]
  BY DEF ReclaimIdleRunner, ReclaimVictims
<1>3. ASSUME NEW v \in Lane PROVE closed(v) \in GroupState
  <2>1. groups[v] \in GroupState
    BY DEF TypeOK
  <2> QED
    BY <2>1 DEF GroupState
<1> HIDE DEF closed
<1>4. groups' \in [Lane -> GroupState]
  BY <1>2, <1>3 DEF TypeOK
<1> QED
  BY <1>1, <1>4 DEF ReclaimIdleRunner, TypeOK, gateVars, modeVars

LEMMA RecoverType == TypeOK /\ RecoverDeliveries => TypeOK'
<1> SUFFICES ASSUME TypeOK, RecoverDeliveries PROVE TypeOK'
  OBVIOUS
<1> USE DEF gateVars, modeVars
<1>1. Tail(agenda) \in Seq(Call) /\ Args \in SUBSET Lane
  BY PoppedType DEF RecoverDeliveries
<1> DEFINE settled(l) == [groups[l] EXCEPT !.ipcOwed = FALSE]
           next(l) == (IF Args = {l} THEN <<>> ELSE Calling("recover", Args \ {l}))
                        \o Tail(agenda)
<1>2. PICK l \in Args :
        \/ /\ groups' = [groups EXCEPT ![l] = settled(l)]
           /\ agenda' = next(l)
           /\ UNCHANGED <<waitingGroups, activeContainerCount>>
        \/ Admit(l, RecoveryTask, settled(l), next(l))
  BY DEF RecoverDeliveries
<1>3. l \in Lane /\ RecoveryTask \in Task /\ settled(l) \in GroupState
  <2>1. l \in Lane /\ groups[l] \in GroupState
    BY <1>1 DEF TypeOK
  <2> QED
    BY <2>1, TaskAssumption DEF TaskAssumption, GroupState
<1>4. next(l) \in Seq(Call)
  <2>1. <<>> \in Seq(Call) /\ Calling("recover", Args \ {l}) \in Seq(Call)
    BY <1>1, CallingType
  <2> QED
    BY <1>1, <2>1, ConcatProperties
<1> HIDE DEF settled, next
<1>5. /\ groups' \in [Lane -> GroupState]
      /\ waitingGroups' \subseteq Lane
      /\ activeContainerCount' \in Int
      /\ agenda' \in Seq(Call)
  BY <1>2, <1>3, <1>4, AdmitType DEF TypeOK
<1> QED
  BY <1>5 DEF TypeOK, RecoverDeliveries

LEMMA ReleasedLaneType == TypeOK /\ ReleasedLane => TypeOK'
<1> SUFFICES ASSUME TypeOK, ReleasedLane PROVE TypeOK'
  OBVIOUS
<1>1. Tail(agenda) \in Seq(Call) /\ Args \in SUBSET Lane
  BY PoppedType DEF ReleasedLane
<1>2. waitingGroups' \in SUBSET Lane
  BY <1>1 DEF ReleasedLane, TypeOK
<1>3. agenda' \in Seq(Call)
  BY <1>1, <1>2, VisitType, ConcatProperties DEF ReleasedLane
<1> QED
  BY <1>2, <1>3 DEF ReleasedLane, TypeOK, gateVars, modeVars

LEMMA ResumedGroupsType == TypeOK /\ ResumedGroups => TypeOK'
<1> SUFFICES ASSUME TypeOK, ResumedGroups PROVE TypeOK'
  OBVIOUS
<1>1. Tail(agenda) \in Seq(Call) /\ Args \in SUBSET Lane
  BY PoppedType DEF ResumedGroups
<1>2. waitingGroups' \in SUBSET Lane
  BY <1>1 DEF ResumedGroups, TypeOK
<1>3. agenda' \in Seq(Call)
  <2>1. <<>> \in Seq(Call) /\ DrainWaiting(waitingGroups') \in Seq(Call)
    BY <1>2, VisitType
  <2> QED
    BY <1>1, <2>1, ConcatProperties DEF ResumedGroups
<1>4. groups' \in [Lane -> GroupState]
  BY DiscardType DEF ResumedGroups, TypeOK
<1> QED
  BY <1>2, <1>3, <1>4 DEF ResumedGroups, TypeOK, gateVars, modeVars

LEMMA FinishRestartType == TypeOK /\ FinishRestart => TypeOK'
<1> SUFFICES ASSUME TypeOK, FinishRestart PROVE TypeOK'
  OBVIOUS
<1>1. Tail(agenda) \in Seq(Call) /\ Args \in SUBSET Lane
  BY PoppedType DEF FinishRestart
<1> DEFINE restarted(l) == [groups[l] EXCEPT !.restarting = FALSE]
<1>2. PICK l \in Args :
        \/ /\ groups' = [groups EXCEPT ![l] = restarted(l)]
           /\ agenda' = Tail(agenda)
           /\ UNCHANGED <<waitingGroups, activeContainerCount>>
        \/ Admit(l, RestartTask, restarted(l), Tail(agenda))
  BY DEF FinishRestart
<1>3. l \in Lane /\ RestartTask \in Task /\ restarted(l) \in GroupState
  <2>1. l \in Lane /\ groups[l] \in GroupState
    BY <1>1 DEF TypeOK
  <2> QED
    BY <2>1, TaskAssumption DEF TaskAssumption, GroupState
<1> HIDE DEF restarted
<1>4. /\ groups' \in [Lane -> GroupState]
      /\ waitingGroups' \subseteq Lane
      /\ activeContainerCount' \in Int
      /\ agenda' \in Seq(Call)
  BY <1>1, <1>2, <1>3, AdmitType DEF TypeOK
<1> QED
  BY <1>4 DEF TypeOK, FinishRestart, gateVars, modeVars

LEMMA EnqueueType ==
  ASSUME TypeOK, NEW l \in Lane, NEW t \in Task, EnqueueTask(l, t)
  PROVE  TypeOK'
<1>1. groups[l] \in GroupState /\ <<>> \in Seq(Call)
  BY DEF TypeOK
<1>2. /\ groups' \in [Lane -> GroupState]
      /\ waitingGroups' \subseteq Lane
      /\ activeContainerCount' \in Int
      /\ agenda' \in Seq(Call)
  BY <1>1, AdmitType DEF EnqueueTask
<1> QED
  BY <1>2 DEF EnqueueTask, TypeOK, gateVars, modeVars

LEMMA ExitType ==
  ASSUME TypeOK, NEW l \in Lane, NEW st \in GroupState, RunnerExits(l, st)
  PROVE  TypeOK'
<1> DEFINE kept     == l \in preserveStops /\ Paused(l)
           replayed == st.registered /\ st.ipcOwed /\ ~kept
           enqueued == replayed /\ ~Refuses(l, RecoveryTask)
           tasks    == IF enqueued THEN Append(st.pendingTasks, RecoveryTask)
                                   ELSE st.pendingTasks
           left     == [Exited(st) EXCEPT !.pendingTasks = tasks]
           owed     == left.ipcOwed /\ ~replayed
           final    == [left EXCEPT !.ipcOwed = owed]
<1>1. tasks \in Seq(Task)
  BY TaskAssumption DEF TaskAssumption, GroupState
<1>2. left \in GroupState
  BY <1>1, ExitedType, PendingType
<1>3. owed \in BOOLEAN
  OBVIOUS
<1>4. groups' = [groups EXCEPT ![l] = final]
  BY DEF RunnerExits, Exited, GroupState
<1> HIDE DEF left, owed
<1>5. final \in GroupState
  BY <1>2, <1>3, OwedType
<1>6. groups' \in [Lane -> GroupState]
  BY <1>4, <1>5 DEF TypeOK
<1>7. waitingGroups' \in SUBSET Lane
  BY DEF RunnerExits, TypeOK
<1>8. agenda' \in Seq(Call)
  <2>1. /\ <<>> \in Seq(Call)
        /\ Calling("drainGroup", {l}) \in Seq(Call)
        /\ DrainWaiting(waitingGroups') \in Seq(Call)
    BY <1>7, CallingType, VisitType
  <2> QED
    BY <2>1 DEF RunnerExits
<1> QED
  BY <1>6, <1>7, <1>8 DEF RunnerExits, TypeOK, gateVars, modeVars

LEMMA TaskFailsType ==
  ASSUME TypeOK, NEW l \in Lane, TaskFails(l)
  PROVE  TypeOK'
<1> DEFINE old  == groups[l]
           next == old.retryCount + 1
           held == [CancelRetryTimer(old) EXCEPT !.retryCount = 0]
           armed == [CancelRetryTimer(old) EXCEPT
                       !.retryCount = next,
                       !.retryTask = CancelRetryTimer(old).activeTask]
           kept == IF ~CanScheduleRetry(old) THEN old
                   ELSE IF next > MaxRetries THEN held ELSE armed
<1>1. old \in GroupState
  BY DEF TypeOK
<1>2. kept \in GroupState
  <2>1. old.retryCount \in 0..MaxRetries /\ old.activeTask \in Task \union {NoTask}
    BY <1>1 DEF GroupState
  <2>2. held \in GroupState
    <3>1. 0 \in 0..MaxRetries
      BY LimitAssumption DEF LimitAssumption
    <3>2. CancelRetryTimer(old) \in GroupState
      BY <1>1, CancelType
    <3> QED
      BY <3>1, <3>2 DEF GroupState
  <2>3. CASE ~(next > MaxRetries)
    <3>1. next \in 0..MaxRetries
      BY <2>1, <2>3, LimitAssumption DEF LimitAssumption
    <3>2. armed \in GroupState
      BY <1>1, <3>1, CancelType DEF CancelRetryTimer, GroupState
    <3> QED
      BY <1>1, <2>2, <3>2
  <2> QED
    BY <1>1, <2>2, <2>3
<1>3. groups' = [groups EXCEPT ![l] = [kept EXCEPT !.finishing = TRUE]]
  BY DEF TaskFails
<1> HIDE DEF kept
<1>4. [kept EXCEPT !.finishing = TRUE] \in GroupState
  BY <1>2 DEF GroupState
<1> QED
  BY <1>3, <1>4 DEF TaskFails, TypeOK, gateVars, modeVars

LEMMA RetryTimerType ==
  ASSUME TypeOK, NEW l \in Lane, RetryTimerFires(l)
  PROVE  TypeOK'
<1> DEFINE t     == groups[l].retryTask
           st    == [groups[l] EXCEPT !.retryTask = NoTask]
           fired == [st EXCEPT !.queuedRetry = t]
           spent == [st EXCEPT !.queuedRetry = NoTask]
<1>1. groups[l] \in GroupState
  BY DEF TypeOK
<1>2. t \in Task
  BY <1>1 DEF RetryTimerFires, GroupState
<1>3. st \in GroupState
  BY <1>1 DEF GroupState
<1>4. \/ Admit(l, t, fired, <<>>)
      \/ /\ groups' = [groups EXCEPT ![l] = spent]
             \/ groups' = [groups EXCEPT ![l] = st]
         /\ UNCHANGED <<waitingGroups, activeContainerCount, agenda>>
  BY DEF RetryTimerFires
<1> HIDE DEF t, st
<1>5. fired \in GroupState /\ spent \in GroupState
  BY <1>2, <1>3 DEF GroupState
<1>6. <<>> \in Seq(Call)
  OBVIOUS
<1> HIDE DEF fired, spent
<1>7. /\ groups' \in [Lane -> GroupState]
      /\ waitingGroups' \subseteq Lane
      /\ activeContainerCount' \in Int
      /\ agenda' \in Seq(Call)
  BY <1>2, <1>3, <1>4, <1>5, <1>6, AdmitType DEF TypeOK
<1> QED
  BY <1>7 DEF RetryTimerFires, TypeOK, gateVars, modeVars

LEMMA RunnerType ==
  ASSUME TypeOK, NEW l \in Lane, RunnerStep(l)
  PROVE  TypeOK'
<1>0. groups[l] \in GroupState
  BY DEF TypeOK
<1>1. CASE RegisterProcess(l)
  <2>1. [groups[l] EXCEPT !.registered = TRUE] \in GroupState
    BY <1>0 DEF GroupState
  <2> QED
    BY <1>1, <2>1 DEF RegisterProcess, TypeOK, gateVars, modeVars
<1>2. CASE TaskSucceeds(l)
  BY <1>0, <1>2, ClearType, ExitType DEF TaskSucceeds
<1>3. CASE TaskThrows(l)
  BY <1>0, <1>3, ExitType DEF TaskThrows
<1>4. CASE TaskFails(l)
  BY <1>4, TaskFailsType
<1>5. CASE FailedRunnerExits(l)
  BY <1>0, <1>5, ExitType DEF FailedRunnerExits
<1>6. CASE RetryTimerFires(l)
  BY <1>6, RetryTimerType
<1>7. CASE AcknowledgeIpcDeliveries(l)
  BY <1>0, <1>7, OwedType
     DEF AcknowledgeIpcDeliveries, TypeOK, gateVars, modeVars
<1>8. CASE MarkRunnerQueryIdle(l, FALSE)
  <2>1. [groups[l] EXCEPT !.query = "idle"] \in GroupState
    BY <1>0 DEF GroupState
  <2>2. agenda' \in Seq(Call)
    BY <1>8, CallingType DEF MarkRunnerQueryIdle
  <2> QED
    BY <1>8, <2>1, <2>2 DEF MarkRunnerQueryIdle, TypeOK, gateVars, modeVars
<1>9. CASE PreservingStopReturns(l)
  BY <1>9 DEF PreservingStopReturns, TypeOK, gateVars
<1>10. CASE RestartReturns(l)
  <2>1. agenda' \in Seq(Call)
    BY <1>10, CallingType, ConcatProperties DEF RestartReturns
  <2> QED
    BY <1>10, <2>1 DEF RestartReturns, TypeOK, gateVars, modeVars
<1>11. CASE RestartTimesOut(l)
  <2>1. [groups[l] EXCEPT !.restarting = FALSE] \in GroupState
    BY <1>0 DEF GroupState
  <2> QED
    BY <1>11, <2>1 DEF RestartTimesOut, TypeOK, gateVars, modeVars
<1> QED
  BY <1>1, <1>2, <1>3, <1>4, <1>5, <1>6, <1>7, <1>8, <1>9, <1>10, <1>11
     DEF RunnerStep

LEMMA InputType ==
  ASSUME TypeOK, InputRequest
  PROVE  TypeOK'
<1> USE DEF gateVars, modeVars
<1>1. CASE \E l \in Lane, t \in Task : EnqueueTask(l, t)
  BY <1>1, EnqueueType
<1>2. ASSUME NEW l \in PipedLane, SendMessage(l)
      PROVE  TypeOK'
  <2> DEFINE q(r)    == IF InQuery(groups[r]) THEN groups[r].query ELSE "inFlight"
             sent(r) == [groups[r] EXCEPT !.ipcOwed = TRUE, !.query = q(r)]
  <2>1. PICK r \in Lane : groups' = [groups EXCEPT ![r] = sent(r)]
    BY <1>2 DEF SendMessage, RegisteredRunners, Runners
  <2>2. groups[r] \in GroupState
    BY DEF TypeOK
  <2>3. sent(r) \in GroupState
    BY <2>2 DEF GroupState
  <2> HIDE DEF sent
  <2> QED
    BY <1>2, <2>1, <2>3 DEF SendMessage, TypeOK
<1>3. ASSUME NEW l \in PipedLane,
             \/ MarkRunnerQueryIdle(l, TRUE)
             \/ ReserveNextQuery(l)
             \/ ReleaseQueryReservation(l)
      PROVE  TypeOK'
  <2>1. l \in Lane /\ groups[l] \in GroupState
    BY EnvironmentAssumption DEF EnvironmentAssumption, TypeOK
  <2>2. \A q \in {"reserved", "unsettled"} :
          [groups[l] EXCEPT !.query = q] \in GroupState
    BY <2>1 DEF GroupState
  <2>3. agenda' \in Seq(Call)
    <3>1. <<>> \in Seq(Call) /\ Calling("reclaim", {}) \in Seq(Call)
      BY CallingType
    <3> QED
      BY <1>3, <3>1
         DEF MarkRunnerQueryIdle, ReserveNextQuery, ReleaseQueryReservation, TypeOK
  <2>4. groups' \in [Lane -> GroupState]
    BY <1>3, <2>2
       DEF MarkRunnerQueryIdle, ReserveNextQuery, ReleaseQueryReservation, TypeOK
  <2> QED
    BY <1>3, <2>3, <2>4
       DEF MarkRunnerQueryIdle, ReserveNextQuery, ReleaseQueryReservation, TypeOK
<1> QED
  BY <1>1, <1>2, <1>3 DEF InputRequest

LEMMA StopArmedType ==
  ASSUME TypeOK, NEW l \in Lane, StopArmedRetry(l)
  PROVE  TypeOK'
<1> DEFINE st == groups[l]
           queued == {i \in DOMAIN st.pendingTasks : st.pendingTasks[i] = st.queuedRetry}
           without == {RemoveAt(st.pendingTasks, i) : i \in queued}
<1>1. st \in GroupState /\ st.pendingTasks \in Seq(Task)
  BY DEF TypeOK, GroupState
<1>2. \A i \in DOMAIN st.pendingTasks : RemoveAt(st.pendingTasks, i) \in Seq(Task)
  <2> TAKE i \in DOMAIN st.pendingTasks
  <2>1. i \in 1..Len(st.pendingTasks)
    BY <1>1
  <2>2. /\ SubSeq(st.pendingTasks, 1, i - 1) \in Seq(Task)
        /\ SubSeq(st.pendingTasks, i + 1, Len(st.pendingTasks)) \in Seq(Task)
    BY <1>1, <2>1, SubSeqProperties
  <2> QED
    BY <2>2, ConcatProperties DEF RemoveAt
<1>3. PICK tasks \in IF queued = {} THEN {st.pendingTasks} ELSE without :
        /\ groups' = [groups EXCEPT ![l] =
             [ClearRetryTimer(st) EXCEPT !.pendingTasks = tasks]]
        /\ waitingGroups' = IF queued # {} /\ tasks = <<>>
                            THEN waitingGroups \ {l} ELSE waitingGroups
  BY DEF StopArmedRetry
<1>4. tasks \in Seq(Task)
  BY <1>1, <1>2, <1>3
<1>5. [ClearRetryTimer(st) EXCEPT !.pendingTasks = tasks] \in GroupState
  BY <1>1, <1>4, ClearType, PendingType
<1>6. groups' \in [Lane -> GroupState] /\ waitingGroups' \subseteq Lane
  BY <1>3, <1>5 DEF TypeOK
<1> QED
  BY <1>6 DEF StopArmedRetry, TypeOK, gateVars, modeVars

LEMMA StopType ==
  ASSUME TypeOK, StopRequest
  PROVE  TypeOK'
<1> USE DEF gateVars, modeVars
<1>1. ASSUME NEW l \in Lane, StopGroup(l)
      PROVE  TypeOK'
  <2> DEFINE stopped(g) == [DiscardWork(groups[g]) EXCEPT !.stopRequested = TRUE]
             owed(g)    == stopped(g).ipcOwed /\ g \notin Targets(l)
  <2>1. ASSUME NEW g \in Lane
        PROVE  /\ stopped(g) \in GroupState
               /\ [stopped(g) EXCEPT !.ipcOwed = owed(g)] \in GroupState
    <3>1. DiscardWork(groups[g]) \in GroupState
      BY DiscardType DEF TypeOK
    <3>2. stopped(g) \in GroupState
      BY <3>1 DEF GroupState
    <3>3. owed(g) \in BOOLEAN
      OBVIOUS
    <3> QED
      BY <3>2, <3>3, OwedType
  <2>2. groups' = [g \in Lane |->
          IF g \in {l} \union Targets(l)
          THEN [stopped(g) EXCEPT !.ipcOwed = owed(g)] ELSE groups[g]]
    BY <1>1 DEF StopGroup
  <2> HIDE DEF stopped, owed
  <2>3. groups' \in [Lane -> GroupState]
    BY <2>1, <2>2 DEF TypeOK
  <2> QED
    BY <1>1, <2>3 DEF StopGroup, TypeOK
<1>2. ASSUME NEW l \in Lane, InterruptQuery(l)
      PROVE  TypeOK'
  BY <1>2, CancelType DEF InterruptQuery, TypeOK
<1>3. ASSUME NEW l \in Lane, RestartGroup(l)
      PROVE  TypeOK'
  <2> DEFINE restarted(r) == [ClearRetryTimer(groups[r]) EXCEPT !.restarting = TRUE]
  <2>1. PICK r \in Lane : groups' = [groups EXCEPT ![r] = restarted(r)]
    BY <1>3 DEF RestartGroup, Targets, Runners
  <2>2. ClearRetryTimer(groups[r]) \in GroupState
    BY ClearType DEF TypeOK
  <2>3. restarted(r) \in GroupState
    BY <2>2 DEF GroupState
  <2> HIDE DEF restarted
  <2> QED
    BY <1>3, <2>1, <2>3 DEF RestartGroup, TypeOK
<1>4. ASSUME NEW l \in Lane, RetireRunnerAfterQuery(l)
      PROVE  TypeOK'
  BY <1>4, RetireType DEF RetireRunnerAfterQuery, TypeOK
<1>5. ASSUME NEW l \in Lane, RequestDrain(l)
      PROVE  TypeOK'
  <2>1. groups[l] \in GroupState
    BY DEF TypeOK
  <2>2. [groups[l] EXCEPT !.drainSentinelWritten = TRUE] \in GroupState
    BY <2>1 DEF GroupState
  <2> QED
    BY <1>5, <2>2 DEF RequestDrain, TypeOK
<1>6. CASE Shutdown
  BY <1>6, DiscardType DEF Shutdown, TypeOK
<1> QED
  BY <1>1, <1>2, <1>3, <1>4, <1>5, <1>6, StopArmedType, EnvironmentAssumption
     DEF StopRequest, EnvironmentAssumption

LEMMA DiscardGroupsType ==
  ASSUME TypeOK, NEW k \in Token, DiscardGroups(k)
  PROVE  TypeOK'
<1> DEFINE dropped(l) == [DiscardWork(groups[l]) EXCEPT !.ipcOwed = FALSE]
<1>1. \A l \in Lane : dropped(l) \in GroupState
  BY DiscardType, OwedType DEF TypeOK
<1>2. groups' = [l \in Lane |-> IF l \in LanesOf(mutationPauseTokens[k])
                                THEN dropped(l) ELSE groups[l]]
  BY DEF DiscardGroups
<1> HIDE DEF dropped
<1>3. groups' \in [Lane -> GroupState]
  BY <1>1, <1>2 DEF TypeOK
<1> QED
  BY <1>3 DEF DiscardGroups, TypeOK

LEMMA HoldType ==
  ASSUME TypeOK, NEW l \in HeldLane,
         HoldLane(l) \/ ReleaseLane(l) \/ DiscardHeldLane(l)
  PROVE  TypeOK'
<1>1. l \in Lane /\ heldLanes[l] \in Nat
  BY HeldAssumption DEF HeldAssumption, TypeOK
<1>2. CASE HoldLane(l)
  BY <1>1, <1>2 DEF HoldLane, TypeOK, modeVars
<1>3. CASE ReleaseLane(l)
  <2>1. <<>> \in Seq(Call) /\ Recovering({l}) \in Seq(Call)
    BY <1>1, CallingType DEF Recovering, Unsettled
  <2>2. Calling("releaseLane", {l}) \in Seq(Call)
    BY <1>1, CallingType
  <2>3. agenda' \in Seq(Call)
    BY <1>3, <2>1, <2>2, ConcatProperties DEF ReleaseLane
  <2>4. heldLanes' \in [Lane -> Nat]
    BY <1>1, <1>3 DEF ReleaseLane, ReleaseHold, TypeOK
  <2> QED
    BY <1>3, <2>3, <2>4 DEF ReleaseLane, ReleaseHold, TypeOK
<1>4. CASE DiscardHeldLane(l)
  <2>1. heldLanes' \in [Lane -> Nat]
    BY <1>1, <1>4 DEF DiscardHeldLane, ReleaseHold, TypeOK
  <2>2. [DiscardWork(groups[l]) EXCEPT !.ipcOwed = FALSE] \in GroupState
    BY <1>1, DiscardType, OwedType DEF TypeOK
  <2>3. groups' \in [Lane -> GroupState]
    BY <1>4, <2>2 DEF DiscardHeldLane, TypeOK
  <2>4. waitingGroups' \in SUBSET Lane
    BY <1>4 DEF DiscardHeldLane, TypeOK
  <2>5. agenda' \in Seq(Call)
    BY <1>4, <2>4, VisitType DEF DiscardHeldLane
  <2> QED
    BY <1>4, <2>1, <2>3, <2>4, <2>5 DEF DiscardHeldLane, ReleaseHold, TypeOK
<1> QED
  BY <1>2, <1>3, <1>4

LEMMA MutationType ==
  ASSUME TypeOK, MutationRequest
  PROVE  TypeOK'
<1>1. ASSUME NEW k \in Token, NEW ws \in SUBSET Workspace, PauseGroups(k, ws)
      PROVE  TypeOK'
  BY <1>1 DEF PauseGroups, TypeOK, modeVars
<1>2. ASSUME NEW k \in Token, ResumeGroups(k)
      PROVE  TypeOK'
  <2> DEFINE released == LanesOf(ReleasedBy(k))
             free     == {l \in released : heldLanes[l] = 0}
  <2>1. released \in SUBSET Lane /\ Unsettled(free) \in SUBSET Lane
    BY DEF LanesOf, Unsettled
  <2>2. <<>> \in Seq(Call) /\ Recovering(free) \in Seq(Call)
    BY <2>1, CallingType DEF Recovering
  <2>3. Calling("resumeGroups", released) \in Seq(Call)
    BY <2>1, CallingType
  <2>4. agenda' \in Seq(Call)
    BY <1>2, <2>2, <2>3, ConcatProperties DEF ResumeGroups
  <2> QED
    BY <1>2, <2>4 DEF ResumeGroups, TypeOK, modeVars
<1>3. ASSUME NEW w \in Workspace, NEW src \in Source,
             BlockForSafety(w, src) \/ UnblockForSafety(w, src)
      PROVE  TypeOK'
  <2>1. waitingGroups' \in SUBSET Lane
    BY <1>3 DEF BlockForSafety, UnblockForSafety, LanesOf, TypeOK
  <2>2. agenda' \in Seq(Call)
    <3>1. DrainWaiting(waitingGroups') \in Seq(Call) /\ <<>> \in Seq(Call)
      BY <2>1, VisitType
    <3> QED
      BY <1>3, <3>1 DEF BlockForSafety, UnblockForSafety, TypeOK
  <2> QED
    BY <1>3, <2>1, <2>2 DEF BlockForSafety, UnblockForSafety, TypeOK, modeVars
<1>4. ASSUME NEW l \in Lane, PreservingStop(l)
      PROVE  TypeOK'
  <2> DEFINE parked(g) == [ParkTask(groups[g]) EXCEPT !.stopRequested = TRUE]
  <2>1. ASSUME NEW g \in Lane PROVE parked(g) \in GroupState
    <3>1. ParkTask(groups[g]) \in GroupState
      BY ParkType DEF TypeOK
    <3> QED
      BY <3>1 DEF GroupState
  <2>2. groups' = [g \in Lane |-> IF g \in {l} \union Targets(l)
                                  THEN parked(g) ELSE groups[g]]
    BY <1>4 DEF PreservingStop
  <2> HIDE DEF parked
  <2>3. groups' \in [Lane -> GroupState]
    BY <2>1, <2>2 DEF TypeOK
  <2>4. waitingGroups' \subseteq Lane /\ preserveStops' \subseteq Lane
    BY <1>4 DEF PreservingStop, Targets, Runners, TypeOK
  <2> QED
    BY <1>4, <2>3, <2>4 DEF PreservingStop, TypeOK, gateVars
<1>5. ASSUME NEW l \in Lane, BeginDeferral(l) \/ EndDeferral(l)
      PROVE  TypeOK'
  BY <1>5 DEF BeginDeferral, EndDeferral, TypeOK, gateVars
<1>6. ASSUME NEW l \in Lane, DeferredStop(l)
      PROVE  TypeOK'
  <2> DEFINE closed(g) == [groups[g] EXCEPT !.closing = "after_query"]
  <2>1. ASSUME NEW g \in Lane PROVE closed(g) \in GroupState
    <3>1. groups[g] \in GroupState
      BY DEF TypeOK
    <3> QED
      BY <3>1 DEF GroupState
  <2>2. groups' = [g \in Lane |-> IF g \in Runners(l) THEN closed(g) ELSE groups[g]]
    BY <1>6 DEF DeferredStop
  <2> HIDE DEF closed
  <2> QED
    BY <1>6, <2>1, <2>2 DEF DeferredStop, TypeOK, gateVars, modeVars
<1> QED
  BY <1>1, <1>2, <1>3, <1>4, <1>5, <1>6, DiscardGroupsType, HoldType,
     EnvironmentAssumption DEF MutationRequest, EnvironmentAssumption

LEMMA TypeStep == TypeOK /\ [Next]_vars => TypeOK'
<1> SUFFICES ASSUME TypeOK, [Next]_vars PROVE TypeOK'
  OBVIOUS
<1>1. CASE AgendaStep
  BY <1>1, DrainGroupType, VisitWaitingType, EndVisitsType, ReclaimType,
     RecoverType, ReleasedLaneType, ResumedGroupsType, FinishRestartType
     DEF AgendaStep
<1>2. CASE UNCHANGED vars
  BY <1>2 DEF vars, gateVars, modeVars, TypeOK
<1> QED
  BY <1>1, <1>2, RunnerType, InputType, StopType, MutationType DEF Next

LEMMA InitType == Init => TypeOK
<1> SUFFICES ASSUME Init PROVE TypeOK
  OBVIOUS
<1>1. groups \in [Lane -> GroupState]
  BY FreshType DEF Init
<1>2. agenda \in Seq(Call)
  BY DEF Init
<1>3. /\ heldLanes \in [Lane -> Nat]
      /\ mutationPauseTokens \in [Token -> SUBSET Workspace]
      /\ runtimeSafetyBlocks \in [Workspace -> SUBSET Source]
  BY DEF Init
<1>4. activeContainerCount \in Int
  BY DEF Init
<1>5. /\ waitingGroups \subseteq Lane
      /\ terminalDiscards \subseteq Workspace
      /\ preserveStops \subseteq Lane
      /\ queryEndDeferrals \subseteq {KeyOf[l] : l \in Lane}
      /\ shuttingDown \in BOOLEAN
  BY DEF Init
<1> QED
  BY <1>1, <1>2, <1>3, <1>4, <1>5 DEF TypeOK

(* The scheduler's state always has its type: in particular every call a   *)
(* segment still has to make names lanes of the queue.                     *)
THEOREM TypeCorrect == Spec => []TypeOK
BY InitType, TypeStep, PTL DEF Spec

-----------------------------------------------------------------------------
(* How a step may change the set of runners: not at all, by one that starts *)
(* on a lane that is free to start, or by one that exits.                  *)

Occupied == {l \in Lane : groups[l].active}
Slot(l) == IF l \in HostLane THEN 0 ELSE 1

SameRunners == UNCHANGED <<Occupied, activeContainerCount>>

Starts(l) ==
  /\ Runners(l) = {} /\ ~Paused(l) /\ HasCapacityFor(l)
  /\ UNCHANGED gateVars
  /\ Occupied' = Occupied \union {l}
  /\ activeContainerCount' = activeContainerCount + Slot(l)

Exits(l) ==
  /\ l \in Occupied
  /\ Occupied' = Occupied \ {l}
  /\ activeContainerCount' = activeContainerCount - Slot(l)

LEMMA KeepActive ==
  ASSUME NEW st \in GroupState
  PROVE  /\ CancelRetryTimer(st).active = st.active
         /\ ClearRetryTimer(st).active = st.active
         /\ DiscardWork(st).active = st.active
         /\ ParkTask(st).active = st.active
         /\ RetireAfterQuery(st).active = st.active
         /\ Exited(st).active = FALSE
         /\ \A t : Started(st, t).active = TRUE
BY DEF CancelRetryTimer, ClearRetryTimer, DiscardWork, ParkTask,
       RetireAfterQuery, Exited, Started, GroupState

(* The lanes of a step that changes one lane's state but not its runner.   *)
LEMMA SameByOne ==
  ASSUME TypeOK, NEW l \in Lane, NEW st, st.active = groups[l].active,
         groups' = [groups EXCEPT ![l] = st], UNCHANGED activeContainerCount
  PROVE  SameRunners
BY DEF SameRunners, Occupied, TypeOK

LEMMA SameByAll ==
  ASSUME \A l \in Lane : groups'[l].active = groups[l].active,
         UNCHANGED activeContainerCount
  PROVE  SameRunners
BY DEF SameRunners, Occupied

LEMMA RunTaskShape ==
  ASSUME TypeOK, NEW l \in Lane, NEW t \in Task, NEW st \in GroupState,
         st.active = groups[l].active,
         Runners(l) \ {l} = {}, HasCapacityFor(l),
         UNCHANGED gateVars, RunTask(l, t, st)
  PROVE  SameRunners \/ Starts(l)
<1>1. CASE Paused(l) \/ st.active
  <2> DEFINE new == [st EXCEPT !.pendingTasks = Cons(t, @)]
  <2>1. new.active = groups[l].active
    BY DEF GroupState
  <2>2. groups' = [groups EXCEPT ![l] = new] /\ UNCHANGED activeContainerCount
    BY <1>1 DEF RunTask
  <2> HIDE DEF new
  <2> QED
    BY <2>1, <2>2, SameByOne
<1>2. CASE ~(Paused(l) \/ st.active)
  <2>1. /\ groups' = [groups EXCEPT ![l] = Started(st, t)]
        /\ activeContainerCount' = activeContainerCount + Slot(l)
    BY <1>2 DEF RunTask, Slot
  <2>2. Started(st, t).active = TRUE
    BY KeepActive
  <2>3. Occupied' = Occupied \union {l}
    BY <2>1, <2>2 DEF Occupied, TypeOK
  <2>4. Runners(l) = {}
    BY <1>2 DEF Runners
  <2> QED
    BY <1>2, <2>1, <2>3, <2>4 DEF Starts
<1> QED
  BY <1>1, <1>2

LEMMA AdmitShape ==
  ASSUME TypeOK, NEW l \in Lane, NEW t \in Task, NEW st \in GroupState,
         st.active = groups[l].active, NEW next,
         UNCHANGED gateVars, Admit(l, t, st, next)
  PROVE  SameRunners \/ Starts(l)
<1>1. CASE MustWait(l)
  <2> DEFINE own(g) == IF g = l THEN [st EXCEPT !.pendingTasks = Append(@, t)]
                       ELSE groups[g]
  <2>1. ASSUME NEW g \in Lane
        PROVE  own(g) \in GroupState /\ own(g).active = groups[g].active
    <3>1. [st EXCEPT !.pendingTasks = Append(@, t)] \in GroupState
      <4>1. Append(st.pendingTasks, t) \in Seq(Task)
        BY DEF GroupState
      <4> QED
        BY <4>1, PendingType
    <3>2. [st EXCEPT !.pendingTasks = Append(@, t)].active = st.active
      BY DEF GroupState
    <3> QED
      BY <3>1, <3>2 DEF TypeOK
  <2>2. \A g \in Lane : groups'[g] = own(g) \/ groups'[g] = RetireAfterQuery(own(g))
    BY <1>1 DEF Admit, Queued
  <2> HIDE DEF own
  <2>3. ASSUME NEW g \in Lane
        PROVE  groups'[g].active = groups[g].active
    <3>1. RetireAfterQuery(own(g)).active = own(g).active
      BY <2>1, KeepActive
    <3> QED
      BY <2>1, <2>2, <3>1
  <2> QED
    BY <1>1, <2>3, SameByAll DEF Admit
<1>2. CASE ~MustWait(l)
  BY <1>2, RunTaskShape DEF Admit, MustWait
<1> QED
  BY <1>1, <1>2

LEMMA ExitShape ==
  ASSUME TypeOK, NEW l \in Lane, groups[l].active, NEW st \in GroupState,
         RunnerExits(l, st)
  PROVE  Exits(l)
<1> DEFINE left == groups'[l]
<1>1. /\ groups'[l].active = FALSE
      /\ \A g \in Lane \ {l} : groups'[g] = groups[g]
  BY DEF RunnerExits, Exited, TypeOK, GroupState
<1>2. activeContainerCount' = activeContainerCount - Slot(l)
  BY DEF RunnerExits, Slot
<1> QED
  BY <1>1, <1>2 DEF Exits, Occupied

LEMMA AgendaShape ==
  ASSUME TypeOK, AgendaStep
  PROVE  SameRunners \/ \E l \in Lane : Starts(l)
<1>0. \A op : Running(op) => Args \in SUBSET Lane
  BY PoppedType
<1>1. UNCHANGED gateVars
  BY DEF AgendaStep, DrainGroup, VisitWaiting, EndVisits, ReclaimIdleRunner,
         RecoverDeliveries, ReleasedLane, ResumedGroups, FinishRestart
<1>2. ASSUME NEW l \in Lane, groups[l].pendingTasks # <<>>,
             Runners(l) \ {l} = {}, HasCapacityFor(l),
             RunTask(l, Head(groups[l].pendingTasks),
                     [groups[l] EXCEPT !.pendingTasks = Tail(@)])
      PROVE  SameRunners \/ Starts(l)
  <2> DEFINE st == [groups[l] EXCEPT !.pendingTasks = Tail(@)]
             t == Head(groups[l].pendingTasks)
  <2>1. groups[l] \in GroupState
    BY DEF TypeOK
  <2>2. t \in Task /\ st \in GroupState
    BY <1>2, <2>1, FirstTaskType
  <2>3. st.active = groups[l].active
    BY <2>1 DEF GroupState
  <2>4. RunTask(l, t, st)
    BY <1>2
  <2> HIDE DEF st, t
  <2> QED
    BY <1>1, <1>2, <2>2, <2>3, <2>4, RunTaskShape
<1>3. CASE DrainGroup
  <2>1. PICK l \in Lane :
          \/ UNCHANGED <<groups, activeContainerCount>>
          \/ /\ groups[l].pendingTasks # <<>>
             /\ Runners(l) \ {l} = {} /\ HasCapacityFor(l)
             /\ RunTask(l, Head(groups[l].pendingTasks),
                        [groups[l] EXCEPT !.pendingTasks = Tail(@)])
          \/ /\ groups' = [groups EXCEPT ![l] = FreshGroup] /\ ~groups[l].active
             /\ UNCHANGED activeContainerCount
    BY <1>0, <1>3 DEF DrainGroup
  <2>2. FreshGroup.active = FALSE
    BY DEF FreshGroup
  <2>3. groups[l].active \in BOOLEAN
    BY DEF TypeOK, GroupState
  <2> QED
    BY <1>2, <2>1, <2>2, <2>3, SameByOne, SameByAll
<1>4. CASE VisitWaiting
  <2>1. PICK l \in Lane :
          \/ UNCHANGED <<groups, activeContainerCount>>
          \/ /\ groups[l].pendingTasks # <<>>
             /\ Runners(l) = {} /\ HasCapacityFor(l)
             /\ RunTask(l, Head(groups[l].pendingTasks),
                        [groups[l] EXCEPT !.pendingTasks = Tail(@)])
    BY <1>0, <1>4 DEF VisitWaiting
  <2> QED
    BY <1>2, <2>1, SameByAll
<1>5. CASE EndVisits \/ ReleasedLane
  BY <1>5, SameByAll DEF EndVisits, ReleasedLane
<1>6. CASE ReclaimIdleRunner
  <2>1. CASE UNCHANGED groups
    BY <1>6, <2>1, SameByAll DEF ReclaimIdleRunner
  <2>2. ASSUME NEW v \in Lane,
               groups' = [groups EXCEPT ![v] = [@ EXCEPT !.closing = "reclaim"]]
        PROVE  SameRunners
    <3>1. [groups[v] EXCEPT !.closing = "reclaim"].active = groups[v].active
      BY DEF TypeOK, GroupState
    <3> QED
      BY <1>6, <2>2, <3>1, SameByOne DEF ReclaimIdleRunner
  <2> QED
    BY <1>6, <2>1, <2>2 DEF ReclaimIdleRunner, ReclaimVictims
<1>7. CASE RecoverDeliveries
  <2> DEFINE settled(l) == [groups[l] EXCEPT !.ipcOwed = FALSE]
  <2>1. PICK l \in Lane :
          \/ groups' = [groups EXCEPT ![l] = settled(l)] /\ UNCHANGED activeContainerCount
          \/ \E next : Admit(l, RecoveryTask, settled(l), next)
    BY <1>0, <1>7 DEF RecoverDeliveries
  <2>2. groups[l] \in GroupState /\ RecoveryTask \in Task
    BY TaskAssumption DEF TaskAssumption, TypeOK
  <2>3. settled(l) \in GroupState /\ settled(l).active = groups[l].active
    BY <2>2 DEF GroupState
  <2> HIDE DEF settled
  <2> QED
    BY <1>1, <2>1, <2>2, <2>3, AdmitShape, SameByOne
<1>8. CASE ResumedGroups
  <2>1. \A l \in Lane : groups'[l].active = groups[l].active
    BY <1>8, KeepActive DEF ResumedGroups, TypeOK
  <2> QED
    BY <1>8, <2>1, SameByAll DEF ResumedGroups
<1>9. CASE FinishRestart
  <2> DEFINE restarted(l) == [groups[l] EXCEPT !.restarting = FALSE]
  <2>1. PICK l \in Lane :
          \/ groups' = [groups EXCEPT ![l] = restarted(l)] /\ UNCHANGED activeContainerCount
          \/ \E next : Admit(l, RestartTask, restarted(l), next)
    BY <1>0, <1>9 DEF FinishRestart
  <2>2. groups[l] \in GroupState /\ RestartTask \in Task
    BY TaskAssumption DEF TaskAssumption, TypeOK
  <2>3. restarted(l) \in GroupState /\ restarted(l).active = groups[l].active
    BY <2>2 DEF GroupState
  <2> HIDE DEF restarted
  <2> QED
    BY <1>1, <2>1, <2>2, <2>3, AdmitShape, SameByOne
<1> QED
  BY <1>3, <1>4, <1>5, <1>6, <1>7, <1>8, <1>9 DEF AgendaStep

LEMMA RunnerStepShape ==
  ASSUME TypeOK, NEW l \in Lane, RunnerStep(l)
  PROVE  SameRunners \/ Starts(l) \/ Exits(l)
<1>0. groups[l] \in GroupState
  BY DEF TypeOK
<1>1. CASE TaskSucceeds(l)
  <2>1. ClearRetryTimer(groups[l]) \in GroupState
    BY <1>0, ClearType
  <2> QED
    BY <1>1, <2>1, ExitShape DEF TaskSucceeds
<1>2. CASE TaskThrows(l) \/ FailedRunnerExits(l)
  BY <1>0, <1>2, ExitShape DEF TaskThrows, FailedRunnerExits
<1>3. CASE TaskFails(l)
  <2> DEFINE old  == groups[l]
             kept == IF ~CanScheduleRetry(old) THEN old
                     ELSE IF old.retryCount + 1 > MaxRetries
                     THEN [CancelRetryTimer(old) EXCEPT !.retryCount = 0]
                     ELSE [CancelRetryTimer(old) EXCEPT
                             !.retryCount = old.retryCount + 1,
                             !.retryTask = CancelRetryTimer(old).activeTask]
  <2>1. groups' = [groups EXCEPT ![l] = [kept EXCEPT !.finishing = TRUE]]
    BY <1>3 DEF TaskFails
  <2>2. [kept EXCEPT !.finishing = TRUE].active = groups[l].active
    BY <1>0 DEF CancelRetryTimer, GroupState
  <2>3. UNCHANGED activeContainerCount
    BY <1>3 DEF TaskFails
  <2> HIDE DEF kept
  <2> QED
    BY <2>1, <2>2, <2>3, SameByOne
<1>4. CASE RetryTimerFires(l)
  <2> DEFINE t     == groups[l].retryTask
             st    == [groups[l] EXCEPT !.retryTask = NoTask]
             fired == [st EXCEPT !.queuedRetry = t]
             spent == [st EXCEPT !.queuedRetry = NoTask]
  <2>1. t \in Task
    BY <1>0, <1>4 DEF RetryTimerFires, GroupState
  <2>2. st \in GroupState /\ st.active = groups[l].active
    BY <1>0 DEF GroupState
  <2>3. \/ Admit(l, t, fired, <<>>)
        \/ /\ groups' = [groups EXCEPT ![l] = spent]
               \/ groups' = [groups EXCEPT ![l] = st]
           /\ UNCHANGED activeContainerCount
    BY <1>4 DEF RetryTimerFires
  <2> HIDE DEF t, st
  <2>4. /\ fired \in GroupState /\ fired.active = st.active
        /\ spent.active = st.active
    BY <2>1, <2>2 DEF GroupState
  <2>5. UNCHANGED gateVars
    BY <1>4 DEF RetryTimerFires
  <2> HIDE DEF fired, spent
  <2> QED
    BY <2>1, <2>2, <2>3, <2>4, <2>5, AdmitShape, SameByOne
<1>5. CASE \/ RegisterProcess(l) \/ AcknowledgeIpcDeliveries(l)
           \/ MarkRunnerQueryIdle(l, FALSE) \/ RestartTimesOut(l)
  <2>1. /\ [groups[l] EXCEPT !.registered = TRUE].active = groups[l].active
        /\ [groups[l] EXCEPT !.ipcOwed = FALSE].active = groups[l].active
        /\ [groups[l] EXCEPT !.query = "idle"].active = groups[l].active
        /\ [groups[l] EXCEPT !.restarting = FALSE].active = groups[l].active
    BY <1>0 DEF GroupState
  <2> QED
    BY <1>5, <2>1, SameByOne
       DEF RegisterProcess, AcknowledgeIpcDeliveries, MarkRunnerQueryIdle,
           RestartTimesOut
<1>6. CASE PreservingStopReturns(l) \/ RestartReturns(l)
  BY <1>6, SameByAll DEF PreservingStopReturns, RestartReturns
<1> QED
  BY <1>1, <1>2, <1>3, <1>4, <1>5, <1>6 DEF RunnerStep

LEMMA InputShape ==
  ASSUME TypeOK, InputRequest
  PROVE  SameRunners \/ \E l \in Lane : Starts(l)
<1>1. ASSUME NEW l \in Lane, NEW t \in Task, EnqueueTask(l, t)
      PROVE  SameRunners \/ Starts(l)
  <2>1. groups[l] \in GroupState
    BY DEF TypeOK
  <2> QED
    BY <1>1, <2>1, AdmitShape DEF EnqueueTask
<1>2. ASSUME NEW l \in PipedLane, SendMessage(l)
      PROVE  SameRunners
  <2> DEFINE q(r)    == IF InQuery(groups[r]) THEN groups[r].query ELSE "inFlight"
             sent(r) == [groups[r] EXCEPT !.ipcOwed = TRUE, !.query = q(r)]
  <2>1. PICK r \in Lane : groups' = [groups EXCEPT ![r] = sent(r)]
    BY <1>2 DEF SendMessage, RegisteredRunners, Runners
  <2>2. sent(r).active = groups[r].active
    BY DEF TypeOK, GroupState
  <2> HIDE DEF sent
  <2> QED
    BY <1>2, <2>1, <2>2, SameByOne DEF SendMessage
<1>3. ASSUME NEW l \in PipedLane,
             \/ MarkRunnerQueryIdle(l, TRUE)
             \/ ReserveNextQuery(l)
             \/ ReleaseQueryReservation(l)
      PROVE  SameRunners
  <2>1. l \in Lane /\ groups[l] \in GroupState
    BY EnvironmentAssumption DEF EnvironmentAssumption, TypeOK
  <2>2. \A q : [groups[l] EXCEPT !.query = q].active = groups[l].active
    BY <2>1 DEF GroupState
  <2>3. \E q : groups' = [groups EXCEPT ![l] = [@ EXCEPT !.query = q]]
    BY <1>3
       DEF MarkRunnerQueryIdle, ReserveNextQuery, ReleaseQueryReservation
  <2> QED
    BY <1>3, <2>1, <2>2, <2>3, SameByOne
       DEF MarkRunnerQueryIdle, ReserveNextQuery, ReleaseQueryReservation
<1> QED
  BY <1>1, <1>2, <1>3 DEF InputRequest

LEMMA StopShape ==
  ASSUME TypeOK, StopRequest
  PROVE  SameRunners
<1>0. \A l \in Lane : groups[l] \in GroupState
  BY DEF TypeOK
<1>1. ASSUME NEW l \in Lane, StopGroup(l)
      PROVE  SameRunners
  <2>1. ASSUME NEW g \in Lane PROVE groups'[g].active = groups[g].active
    <3>1. DiscardWork(groups[g]) \in GroupState
      BY <1>0, DiscardType
    <3>2. DiscardWork(groups[g]).active = groups[g].active
      BY <1>0, KeepActive
    <3> DEFINE work == DiscardWork(groups[g])
    <3>3. groups'[g] = [work EXCEPT !.stopRequested = TRUE,
                                    !.ipcOwed = [work EXCEPT !.stopRequested = TRUE].ipcOwed
                                                  /\ g \notin Targets(l)]
          \/ groups'[g] = groups[g]
      BY <1>1 DEF StopGroup
    <3> HIDE DEF work
    <3> QED
      BY <3>1, <3>2, <3>3 DEF GroupState, work
  <2> QED
    BY <1>1, <2>1, SameByAll DEF StopGroup
<1>2. ASSUME NEW l \in Lane, InterruptQuery(l)
      PROVE  SameRunners
  <2>1. CancelRetryTimer(groups[l]).active = groups[l].active
    BY <1>0, KeepActive
  <2> QED
    BY <1>2, <2>1, SameByOne DEF InterruptQuery
<1>3. ASSUME NEW l \in Lane, StopArmedRetry(l)
      PROVE  SameRunners
  <2>1. PICK tasks : groups' = [groups EXCEPT ![l] =
               [ClearRetryTimer(groups[l]) EXCEPT !.pendingTasks = tasks]]
    BY <1>3 DEF StopArmedRetry
  <2>2. /\ ClearRetryTimer(groups[l]) \in GroupState
        /\ ClearRetryTimer(groups[l]).active = groups[l].active
    BY <1>0, ClearType, KeepActive
  <2>3. [ClearRetryTimer(groups[l]) EXCEPT !.pendingTasks = tasks].active
          = groups[l].active
    BY <2>2 DEF GroupState
  <2> QED
    BY <1>3, <2>1, <2>3, SameByOne DEF StopArmedRetry
<1>4. ASSUME NEW l \in Lane, RestartGroup(l)
      PROVE  SameRunners
  <2> DEFINE cleared(r) == ClearRetryTimer(groups[r])
  <2>1. PICK r \in Lane :
          groups' = [groups EXCEPT ![r] = [cleared(r) EXCEPT !.restarting = TRUE]]
    BY <1>4 DEF RestartGroup, Targets, Runners
  <2>2. cleared(r) \in GroupState /\ cleared(r).active = groups[r].active
    BY <1>0, ClearType, KeepActive
  <2> HIDE DEF cleared
  <2>3. [cleared(r) EXCEPT !.restarting = TRUE].active = groups[r].active
    BY <2>2 DEF GroupState
  <2> QED
    BY <1>4, <2>1, <2>3, SameByOne DEF RestartGroup
<1>5. ASSUME NEW l \in Lane, RetireRunnerAfterQuery(l)
      PROVE  SameRunners
  <2>1. \A g \in Lane : RetireAfterQuery(groups[g]).active = groups[g].active
    BY <1>0, KeepActive
  <2> QED
    BY <1>5, <2>1, SameByAll DEF RetireRunnerAfterQuery
<1>6. ASSUME NEW l \in Lane, RequestDrain(l)
      PROVE  SameRunners
  <2>1. [groups[l] EXCEPT !.drainSentinelWritten = TRUE].active = groups[l].active
    BY <1>0 DEF GroupState
  <2> QED
    BY <1>6, <2>1, SameByOne DEF RequestDrain
<1>7. CASE Shutdown
  <2>1. \A g \in Lane : DiscardWork(groups[g]).active = groups[g].active
    BY <1>0, KeepActive
  <2> QED
    BY <1>7, <2>1, SameByAll DEF Shutdown
<1> QED
  BY <1>1, <1>2, <1>3, <1>4, <1>5, <1>6, <1>7, EnvironmentAssumption
     DEF StopRequest, EnvironmentAssumption

LEMMA MutationShape ==
  ASSUME TypeOK, MutationRequest
  PROVE  SameRunners
<1>0. \A l \in Lane : groups[l] \in GroupState
  BY DEF TypeOK
<1>1. ASSUME UNCHANGED <<groups, activeContainerCount>>
      PROVE  SameRunners
  BY <1>1, SameByAll
<1>2. ASSUME NEW k \in Token, DiscardGroups(k)
      PROVE  SameRunners
  <2>1. ASSUME NEW g \in Lane PROVE groups'[g].active = groups[g].active
    <3> DEFINE work == DiscardWork(groups[g])
    <3>1. work \in GroupState /\ work.active = groups[g].active
      BY <1>0, DiscardType, KeepActive
    <3>2. groups'[g] = [work EXCEPT !.ipcOwed = FALSE] \/ groups'[g] = groups[g]
      BY <1>2 DEF DiscardGroups
    <3> HIDE DEF work
    <3> QED
      BY <3>1, <3>2 DEF GroupState
  <2> QED
    BY <1>2, <2>1, SameByAll DEF DiscardGroups
<1>3. ASSUME NEW l \in HeldLane, DiscardHeldLane(l)
      PROVE  SameRunners
  <2> DEFINE work == DiscardWork(groups[l])
  <2>1. l \in Lane /\ work \in GroupState /\ work.active = groups[l].active
    BY <1>0, HeldAssumption, DiscardType, KeepActive DEF HeldAssumption
  <2>2. groups' = [groups EXCEPT ![l] = [work EXCEPT !.ipcOwed = FALSE]]
    BY <1>3 DEF DiscardHeldLane
  <2> HIDE DEF work
  <2>3. [work EXCEPT !.ipcOwed = FALSE].active = groups[l].active
    BY <2>1 DEF GroupState
  <2> QED
    BY <1>3, <2>1, <2>2, <2>3, SameByOne DEF DiscardHeldLane, ReleaseHold
<1>4. ASSUME NEW l \in Lane, PreservingStop(l)
      PROVE  SameRunners
  <2>1. ASSUME NEW g \in Lane PROVE groups'[g].active = groups[g].active
    <3> DEFINE parked == ParkTask(groups[g])
    <3>1. parked \in GroupState /\ parked.active = groups[g].active
      BY <1>0, ParkType, KeepActive
    <3>2. groups'[g] = [parked EXCEPT !.stopRequested = TRUE] \/ groups'[g] = groups[g]
      BY <1>4 DEF PreservingStop
    <3> HIDE DEF parked
    <3> QED
      BY <3>1, <3>2 DEF GroupState
  <2> QED
    BY <1>4, <2>1, SameByAll DEF PreservingStop
<1>5. ASSUME NEW l \in Lane, DeferredStop(l)
      PROVE  SameRunners
  <2>1. ASSUME NEW g \in Lane PROVE groups'[g].active = groups[g].active
    BY <1>0, <1>5 DEF DeferredStop, GroupState
  <2> QED
    BY <1>5, <2>1, SameByAll DEF DeferredStop
<1>6. ASSUME NEW l, HoldLane(l) \/ ReleaseLane(l) \/ BeginDeferral(l) \/ EndDeferral(l)
      PROVE  SameRunners
  BY <1>1, <1>6 DEF HoldLane, ReleaseLane, ReleaseHold, BeginDeferral, EndDeferral
<1>7. ASSUME NEW k, NEW ws, PauseGroups(k, ws) \/ ResumeGroups(k)
      PROVE  SameRunners
  BY <1>1, <1>7 DEF PauseGroups, ResumeGroups
<1>8. ASSUME NEW w, NEW src, BlockForSafety(w, src) \/ UnblockForSafety(w, src)
      PROVE  SameRunners
  BY <1>1, <1>8 DEF BlockForSafety, UnblockForSafety
<1> QED
  BY <1>2, <1>3, <1>4, <1>5, <1>6, <1>7, <1>8, EnvironmentAssumption
     DEF MutationRequest, EnvironmentAssumption

LEMMA StepShape ==
  ASSUME TypeOK, [Next]_vars
  PROVE  SameRunners \/ \E l \in Lane : Starts(l) \/ Exits(l)
<1>1. CASE UNCHANGED vars
  BY <1>1 DEF vars, SameRunners, Occupied
<1> QED
  BY <1>1, AgendaShape, RunnerStepShape, InputShape, StopShape, MutationShape
     DEF Next

-----------------------------------------------------------------------------
(* The theorems.                                                           *)

(* At most one runner ever serves a serialization key, whatever admissions, *)
(* drains, retries, restarts, gates and stops interleave.                  *)
THEOREM OneRunner == Spec => []OneRunnerPerKey
<1>1. Init => OneRunnerPerKey
  BY DEF Init, OneRunnerPerKey, FreshGroup
<1>2. TypeOK /\ OneRunnerPerKey /\ [Next]_vars => OneRunnerPerKey'
  <2> SUFFICES ASSUME TypeOK, OneRunnerPerKey, [Next]_vars
               PROVE  OneRunnerPerKey'
    OBVIOUS
  <2>1. OneRunnerPerKey <=>
          \A a, b \in Occupied : KeyOf[a] = KeyOf[b] => a = b
    BY DEF OneRunnerPerKey, Occupied
  <2>2. OneRunnerPerKey' <=>
          \A a, b \in Occupied' : KeyOf[a] = KeyOf[b] => a = b
    BY DEF OneRunnerPerKey, Occupied
  <2>3. CASE SameRunners
    BY <2>1, <2>2, <2>3 DEF SameRunners
  <2>4. ASSUME NEW l \in Lane, Starts(l) PROVE OneRunnerPerKey'
    <3>1. \A a \in Occupied : KeyOf[a] # KeyOf[l]
      BY <2>4 DEF Starts, Runners, Occupied
    <3> QED
      BY <2>1, <2>2, <2>4, <3>1 DEF Starts
  <2>5. ASSUME NEW l \in Lane, Exits(l) PROVE OneRunnerPerKey'
    BY <2>1, <2>2, <2>5 DEF Exits
  <2> QED
    BY <2>3, <2>4, <2>5, StepShape
<1> QED
  BY <1>1, <1>2, TypeCorrect, PTL DEF Spec

(* While a mutation pause, a safety block or a hold is on a lane, no       *)
(* runner starts there: a step that starts one checks the gates and        *)
(* changes none of them.                                                   *)
THEOREM GatesHold == Spec => GatedLaneStartsNothing
<1>1. TypeOK /\ [Next]_vars =>
        [\A l \in Lane : ~groups[l].active /\ groups[l].active' =>
           /\ heldLanes'[l] = 0
           /\ \A k \in Token : WorkspaceOf[l] \notin mutationPauseTokens'[k]
           /\ runtimeSafetyBlocks'[WorkspaceOf[l]] = {}]_vars
  <2> SUFFICES ASSUME TypeOK, [Next]_vars,
                      NEW l \in Lane, ~groups[l].active, groups'[l].active
               PROVE  /\ heldLanes'[l] = 0
                      /\ \A k \in Token :
                           WorkspaceOf[l] \notin mutationPauseTokens'[k]
                      /\ runtimeSafetyBlocks'[WorkspaceOf[l]] = {}
    OBVIOUS
  <2>1. l \in Occupied' /\ l \notin Occupied
    BY DEF Occupied
  <2>2. Starts(l)
    BY <2>1, StepShape DEF SameRunners, Starts, Exits
  <2>3. heldLanes[l] \in Nat
    BY DEF TypeOK
  <2> QED
    BY <2>2, <2>3 DEF Starts, Paused, TokenPaused, gateVars
<1> QED
  BY <1>1, TypeCorrect, PTL DEF Spec, GatedLaneStartsNothing

(* The container counter counts the container runners, and neither the     *)
(* container pool nor a user's limit is ever overrun.                      *)
THEOREM Capacity == Spec => []CapacityRespected
<1> DEFINE Containers == Occupied \ HostLane
           Owned(u)   == {l \in Occupied : OwnerOf[l] = u}
           Users      == {u \in User : \A l \in HostLane : OwnerOf[l] # u}
           CInv == /\ activeContainerCount = Cardinality(Containers)
                   /\ activeContainerCount <= MaxContainers
                   /\ \A u \in Users : Cardinality(Owned(u)) <= UserLimit[u]
<1>1. CapacityRespected <=> CInv
  <2>1. Containers = {l \in Lane \ HostLane : groups[l].active}
    BY DEF Occupied
  <2>2. \A u : Owned(u) = ActiveOf(u)
    BY DEF Occupied, ActiveOf
  <2> QED
    BY <2>1, <2>2 DEF CapacityRespected
<1>2. Init => CInv
  <2> SUFFICES ASSUME Init PROVE CInv
    OBVIOUS
  <2>1. Containers = {} /\ \A u : Owned(u) = {}
    BY DEF Init, Occupied, FreshGroup
  <2>2. Cardinality({}) = 0
    BY FS_EmptySet
  <2> QED
    <3>1. 0 <= MaxContainers /\ \A u \in Users : 0 <= UserLimit[u]
      BY LimitAssumption DEF LimitAssumption
    <3>2. activeContainerCount = 0
      BY DEF Init
    <3> QED
      BY <2>1, <2>2, <3>1, <3>2
<1>3. TypeOK /\ CInv /\ [Next]_vars => CInv'
  <2> SUFFICES ASSUME TypeOK, CInv, [Next]_vars PROVE CInv'
    OBVIOUS
  <2>1. /\ IsFiniteSet(Occupied) /\ IsFiniteSet(Containers)
        /\ \A u : IsFiniteSet(Owned(u))
    BY FS_Subset, LaneAssumption DEF LaneAssumption, Occupied
  <2>2. Occupied \subseteq Lane
    BY DEF Occupied
  <2>3. UserLimit \in [User -> Nat] /\ MaxContainers \in Nat
    BY LimitAssumption DEF LimitAssumption
  <2>4. CASE SameRunners
    BY <2>4 DEF SameRunners
  <2>5. ASSUME NEW l \in Lane, Starts(l) PROVE CInv'
    <3>1. l \notin Occupied
      BY <2>5 DEF Starts, Runners, Occupied
    <3>2. CASE l \in HostLane
      <4>1. Containers' = Containers /\ activeContainerCount' = activeContainerCount
        BY <2>5, <3>2, <2>1, FS_CardinalityType DEF Starts, Slot
      <4>2. \A u \in Users : Owned(u)' = Owned(u)
        BY <2>5, <3>2 DEF Starts
      <4> QED
        BY <4>1, <4>2
    <3>3. CASE l \notin HostLane
      <4>1. /\ Containers' = Containers \union {l}
            /\ activeContainerCount' = activeContainerCount + 1
        BY <2>5, <3>3 DEF Starts, Slot
      <4>2. ~GlobalAtLimit /\ UserAllows(l)
        BY <2>5, <3>3 DEF Starts, HasCapacityFor
      <4>3. Cardinality(Containers') = Cardinality(Containers) + 1
        BY <2>1, <3>1, <4>1, FS_AddElement
      <4>4. activeContainerCount + 1 <= MaxContainers
        BY <2>1, <2>3, <4>2, FS_CardinalityType DEF GlobalAtLimit
      <4>5. ASSUME NEW u \in Users PROVE Cardinality(Owned(u)') <= UserLimit[u]
        <5>1. CASE OwnerOf[l] = u
          <6>1. Owned(u)' = Owned(u) \union {l}
            BY <2>5, <5>1 DEF Starts
          <6>2. Cardinality(Owned(u)') = Cardinality(Owned(u)) + 1
            <7>1. IsFiniteSet(Owned(u)) /\ l \notin Owned(u)
              BY <2>1, <3>1
            <7> HIDE DEF Owned
            <7> QED
              BY <6>1, <7>1, FS_AddElement
          <6>3. Owned(u) = ActiveOf(u)
            BY DEF Occupied, ActiveOf
          <6>4. Cardinality(Owned(u)) < UserLimit[u]
            BY <4>2, <5>1, <6>3 DEF UserAllows
          <6>5. Cardinality(Owned(u)) \in Nat /\ UserLimit[u] \in Nat
            BY <2>1, <2>3, FS_CardinalityType
          <6> QED
            BY <6>2, <6>4, <6>5
        <5>2. CASE OwnerOf[l] # u
          <6>1. Owned(u)' = Owned(u)
            BY <2>5, <5>2 DEF Starts
          <6> QED
            BY <6>1
        <5> QED
          BY <5>1, <5>2
      <4> QED
        BY <4>1, <4>3, <4>4, <4>5
    <3> QED
      BY <3>2, <3>3
  <2>6. ASSUME NEW l \in Lane, Exits(l) PROVE CInv'
    <3>1. Cardinality(Containers) \in Nat
      BY <2>1, FS_CardinalityType
    <3>2. ASSUME NEW u \in Users PROVE Cardinality(Owned(u)') <= UserLimit[u]
      <4>1. Owned(u)' \subseteq Owned(u)
        BY <2>6 DEF Exits
      <4>2. /\ Cardinality(Owned(u)') <= Cardinality(Owned(u))
            /\ Cardinality(Owned(u)') \in Nat /\ Cardinality(Owned(u)) \in Nat
        BY <2>1, <4>1, FS_Subset, FS_CardinalityType
      <4>3. UserLimit[u] \in Nat
        BY <2>3
      <4> QED
        BY <4>2, <4>3
    <3>3. /\ activeContainerCount' = Cardinality(Containers')
          /\ activeContainerCount' <= MaxContainers
      <4>1. CASE l \in HostLane
        <5>1. Containers' = Containers /\ activeContainerCount' = activeContainerCount
          BY <2>6, <3>1, <4>1 DEF Exits, Slot
        <5> QED
          BY <5>1
      <4>2. CASE l \notin HostLane
        <5>1. /\ Containers' = Containers \ {l} /\ l \in Containers
              /\ activeContainerCount' = activeContainerCount - 1
          BY <2>6, <4>2 DEF Exits, Slot
        <5>2. Cardinality(Containers') = Cardinality(Containers) - 1
          BY <2>1, <5>1, FS_RemoveElement
        <5> QED
          BY <2>3, <3>1, <5>1, <5>2
      <4> QED
        BY <4>1, <4>2
    <3> QED
      BY <3>2, <3>3
  <2> QED
    BY <2>4, <2>5, <2>6, StepShape
<1> HIDE DEF CInv
<1> QED
  BY <1>1, <1>2, <1>3, TypeCorrect, PTL DEF Spec
=============================================================================
