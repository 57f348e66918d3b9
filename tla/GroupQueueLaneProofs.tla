------------------------ MODULE GroupQueueLaneProofs ------------------------
(* What happens to a lane's queue, its runner and the deliveries it owes:  *)
(* work is never forgotten, deliveries are never stranded, a closing runner *)
(* takes no query, a shutdown starts nothing.                              *)
EXTENDS GroupQueueWorkProofs

-----------------------------------------------------------------------------
(* What one step may do to a lane.  The proofs below are about these eight *)
(* kinds of change and not about the actions: StepLanes shows that every   *)
(* step changes every lane in one of these ways.                           *)

(* The lane keeps its runner, no query starts where one closes, and only a *)
(* restart request begins a restart.                                       *)
SameRunner(o, n) ==
  /\ n.active = o.active /\ n.activeTask = o.activeTask
  /\ o.registered => n.registered
  /\ InQuery(n) => InQuery(o) \/ o.closing = "no"
  /\ n.restarting => o.restarting \/ RestartedLane # {}

(* Calls the running segment still has to make for lane l.                 *)
DrainDue(l)   == [op |-> "drainGroup", lanes |-> {l}] \in ToSet(agenda)
FinishDue(l)  == \E c \in ToSet(agenda) : c.op = "finishRestart" /\ l \in c.lanes
RecoverDue(l) == \E c \in ToSet(agenda) : c.op = "recover" /\ l \in c.lanes

(* Its queue stays.                                                        *)
Keeps(g) ==
  LET o == groups[g]
      n == groups'[g]
  IN  /\ SameRunner(o, n)
      /\ n.pendingTasks = o.pendingTasks /\ n.stopRequested = o.stopRequested
      /\ g \in waitingGroups => g \in waitingGroups' \/ o.pendingTasks = <<>>
      /\ o.restarting => n.restarting \/ o.active \/ FinishDue(g)
      /\ n.ipcOwed => o.ipcOwed \/ (o.active /\ o.registered)

(* A task is admitted and queued.                                          *)
Joins(g) ==
  LET o == groups[g]
      n == groups'[g]
  IN  /\ SameRunner(o, n) /\ n.stopRequested = o.stopRequested
      /\ \E t \in Task : ~Refuses(g, t) /\ n.pendingTasks = Append(o.pendingTasks, t)
      /\ MustWait(g)
      /\ g \in waitingGroups'
      /\ o.restarting => n.restarting \/ FinishDue(g)
      /\ n.ipcOwed => o.ipcOwed

(* A runner starts, on an admitted task or on the first of the queue.      *)
Begins(g) ==
  LET o == groups[g]
      n == groups'[g]
  IN  /\ ~o.active /\ n.active /\ ~n.stopRequested /\ ~Paused(g)
      /\ n.restarting => o.restarting
      /\ n.activeTask # NoTask
      /\ \/ n.pendingTasks = o.pendingTasks /\ ~Refuses(g, n.activeTask)
         \/ /\ o.pendingTasks # <<>> /\ n.activeTask = Head(o.pendingTasks)
            /\ n.pendingTasks = Tail(o.pendingTasks)
      /\ n.ipcOwed => o.ipcOwed /\ ~Running("recover") /\ ~Running("reclaim")

(* The runner exits; what it owes is replayed, or kept by the stop that    *)
(* ends it.                                                                *)
Ends(g) ==
  LET o == groups[g]
      n == groups'[g]
  IN  /\ Quiet /\ o.active /\ ~n.active /\ n.restarting = o.restarting
      /\ \A h \in Lane \ {g} : groups'[h] = groups[h]
      /\ agenda' = IF o.restarting THEN <<>>
                   ELSE IF ~o.stopRequested THEN Calling("drainGroup", {g})
                   ELSE IF Paused(g) THEN DrainWaiting(waitingGroups')
                   ELSE <<>>
      /\ g \in waitingGroups => g \in waitingGroups'
      /\ \/ n.pendingTasks = o.pendingTasks
         \/ /\ n.pendingTasks = Append(o.pendingTasks, RecoveryTask)
            /\ ~Refuses(g, RecoveryTask) /\ g \in waitingGroups'
      /\ n.ipcOwed => o.ipcOwed /\ (o.registered => g \in preserveStops)
      /\ UNCHANGED gateVars

(* A stop, a deletion or the shutdown drops its queue.                     *)
Drops(g) ==
  LET o == groups[g]
      n == groups'[g]
  IN  /\ SameRunner(o, n) /\ n.pendingTasks = <<>> /\ (n.ipcOwed => o.ipcOwed)
      /\ n.restarting = o.restarting
      /\ StoppedLane # {} \/ MayShutDown \/ MayDelete \/ Discarded(g)
      /\ n.stopRequested => o.stopRequested \/ StoppedLane # {}

(* A preserving stop puts its running or retrying task back.               *)
Parks(g) ==
  LET o == groups[g]
      n == groups'[g]
      t == IF o.activeTask # NoTask THEN o.activeTask ELSE o.retryTask
  IN  /\ \E l \in Lane : PreservingStop(l) /\ g \in {l} \union Runners(l)
      /\ SameRunner(o, n) /\ n.ipcOwed = o.ipcOwed /\ n.restarting = o.restarting
      /\ \/ n.pendingTasks = o.pendingTasks
         \/ /\ t \in Task \ ToSet(o.pendingTasks)
            /\ n.pendingTasks = Cons(t, o.pendingTasks)
      /\ n.pendingTasks # <<>> => g \in waitingGroups'

(* An idle lane without work is forgotten.                                 *)
Forgets(g) ==
  /\ ~groups[g].active /\ ~groups[g].restarting /\ groups[g].pendingTasks = <<>>
  /\ groups'[g] = FreshGroup

(* A stop between attempts takes the fired retry out of the queue.         *)
Unqueues(g) ==
  LET o == groups[g]
      n == groups'[g]
  IN  /\ StoppedLane # {} /\ SameRunner(o, n) /\ ~o.active
      /\ Len(n.pendingTasks) <= Len(o.pendingTasks)
      /\ n.pendingTasks # <<>> => (g \in waitingGroups => g \in waitingGroups')
      /\ o.restarting => n.restarting
      /\ n.ipcOwed => o.ipcOwed

LaneStep(g) ==
  \/ Keeps(g) \/ Joins(g) \/ Begins(g) \/ Ends(g)
  \/ Drops(g) \/ Parks(g) \/ Forgets(g) \/ Unqueues(g)

-----------------------------------------------------------------------------
(* Updates of one lane's state that leave its runner and its queue alone.  *)

SameLane(o, n) ==
  /\ SameRunner(o, n)
  /\ n.pendingTasks = o.pendingTasks /\ n.stopRequested = o.stopRequested
  /\ n.restarting = o.restarting
  /\ n.ipcOwed => o.ipcOwed

LEMMA KeptLane ==
  ASSUME NEW g \in Lane, SameLane(groups[g], groups'[g]),
         g \in waitingGroups => g \in waitingGroups'
  PROVE  LaneStep(g)
BY DEF SameLane, LaneStep, Keeps

LEMMA UntouchedLane ==
  ASSUME NEW g \in Lane, groups'[g] = groups[g],
         g \in waitingGroups => g \in waitingGroups'
  PROVE  LaneStep(g)
BY DEF LaneStep, Keeps, SameRunner

(* A step that rewrites lane l and takes no other out of waitingGroups.    *)
LEMMA OneLane ==
  ASSUME TypeOK, NEW l \in Lane, NEW st, groups' = [groups EXCEPT ![l] = st],
         waitingGroups \ {l} \subseteq waitingGroups',
         groups'[l] = st => LaneStep(l),
         NEW g \in Lane
  PROVE  LaneStep(g)
<1>1. groups'[g] = IF g = l THEN st ELSE groups[g]
  BY DEF TypeOK
<1> QED
  BY <1>1, UntouchedLane

LEMMA ConsOfTail ==
  ASSUME NEW s \in Seq(Task), s # <<>>
  PROVE  Cons(Head(s), Tail(s)) = s
<1>1. /\ Cons(Head(s), Tail(s)) \in Seq(Task)
      /\ Len(Cons(Head(s), Tail(s))) = Len(s)
      /\ \A i \in 1..Len(s) : Cons(Head(s), Tail(s))[i] = s[i]
  BY DEF Cons
<1> QED
  BY <1>1, SeqEqual

LEMMA EmptyToSet ==
  ASSUME NEW s \in Seq(Task), ToSet(s) = {}
  PROVE  s = <<>>
<1>1. \A i \in 1..Len(s) : FALSE
  BY DEF ToSet
<1> QED
  BY <1>1

(* Starting the first task of the queue.                                   *)
LEMMA FirstTaskLanes ==
  ASSUME TypeOK, NEW l \in Lane, groups[l].pendingTasks # <<>>, ~Paused(l),
         ~Running("recover"), ~Running("reclaim"),
         RunTask(l, Head(groups[l].pendingTasks),
                 [groups[l] EXCEPT !.pendingTasks = Tail(@)]),
         NEW g \in Lane
  PROVE  LaneStep(g)
<1> DEFINE o  == groups[l]
           t  == Head(o.pendingTasks)
           st == [o EXCEPT !.pendingTasks = Tail(@)]
<1>1. o \in GroupState /\ o.pendingTasks \in Seq(Task)
  BY DEF TypeOK, GroupState
<1>2. st \in GroupState /\ st.pendingTasks = Tail(o.pendingTasks) /\ st.active = o.active
  BY <1>1, FirstTaskType DEF GroupState
<1>3. CASE o.active
  <2> DEFINE back == [st EXCEPT !.pendingTasks = Cons(t, @)]
  <2>1. back = o
    <3>1. Cons(t, Tail(o.pendingTasks)) = o.pendingTasks
      BY <1>1, ConsOfTail
    <3> QED
      BY <1>1, <1>2, <3>1 DEF GroupState
  <2>2. groups' = [groups EXCEPT ![l] = back] /\ waitingGroups' = waitingGroups \union {l}
    BY <1>2, <1>3 DEF RunTask
  <2> HIDE DEF back
  <2>3. groups' = [groups EXCEPT ![l] = o]
    BY <2>1, <2>2
  <2> QED
    BY <2>2, <2>3, UntouchedLane DEF TypeOK
<1>4. CASE ~o.active
  <2> DEFINE started == Started(st, t)
  <2>1. /\ groups' = [groups EXCEPT ![l] = started]
        /\ waitingGroups' = waitingGroups \ {l}
    BY <1>2, <1>4 DEF RunTask
  <2>2. /\ started.active = TRUE /\ started.stopRequested = FALSE
        /\ started.activeTask = t /\ started.pendingTasks = Tail(o.pendingTasks)
        /\ started.ipcOwed = o.ipcOwed /\ started.restarting = o.restarting
    BY <1>1, <1>2 DEF Started, GroupState
  <2>3. t # NoTask
    BY <1>1, TaskAssumption DEF TaskAssumption
  <2> HIDE DEF started, st
  <2>4. groups'[l] = started => LaneStep(l)
    BY <1>4, <2>2, <2>3 DEF LaneStep, Begins
  <2> QED
    BY <2>1, <2>4, OneLane
<1> QED
  BY <1>1, <1>3, <1>4 DEF GroupState

(* Admitting a task: st is the lane's state with an edit that leaves its   *)
(* runner and its queue alone.                                             *)
LEMMA AdmitLanes ==
  ASSUME TypeOK, NEW l \in Lane, NEW t \in Task, NEW st \in GroupState, NEW next,
         ~Refuses(l, t), Admit(l, t, st, next),
         st.active = groups[l].active, st.activeTask = groups[l].activeTask,
         st.registered = groups[l].registered, st.query = groups[l].query,
         st.closing = groups[l].closing,
         st.pendingTasks = groups[l].pendingTasks,
         st.stopRequested = groups[l].stopRequested,
         st.restarting => groups[l].restarting,
         groups[l].restarting => st.restarting \/ FinishDue(l),
         st.ipcOwed => groups[l].ipcOwed /\ ~Running("recover") /\ ~Running("reclaim"),
         NEW g \in Lane
  PROVE  LaneStep(g)
<1>1. CASE MustWait(l)
  <2> DEFINE joined == [st EXCEPT !.pendingTasks = Append(@, t)]
             own    == IF g = l THEN joined ELSE groups[g]
  <2>1. groups'[g] = own \/ groups'[g] = RetireAfterQuery(own)
    BY <1>1 DEF Admit, Queued
  <2>2. waitingGroups' = waitingGroups \union {l}
    BY <1>1 DEF Admit
  <2>3. CASE g = l
    <3>1. Append(st.pendingTasks, t) \in Seq(Task)
      BY DEF GroupState
    <3>2. /\ joined \in GroupState
          /\ joined.active = st.active /\ joined.activeTask = st.activeTask
          /\ joined.registered = st.registered /\ joined.query = st.query
          /\ joined.stopRequested = st.stopRequested /\ joined.ipcOwed = st.ipcOwed
          /\ joined.restarting = st.restarting
          /\ joined.pendingTasks = Append(st.pendingTasks, t)
      BY <3>1, PendingType DEF GroupState
    <3> HIDE DEF joined
    <3>3. /\ groups'[g].active = st.active /\ groups'[g].activeTask = st.activeTask
          /\ groups'[g].registered = st.registered /\ groups'[g].query = st.query
          /\ groups'[g].stopRequested = st.stopRequested
          /\ groups'[g].ipcOwed = st.ipcOwed
          /\ groups'[g].restarting = st.restarting
          /\ groups'[g].pendingTasks = Append(st.pendingTasks, t)
      BY <2>1, <2>3, <3>2 DEF RetireAfterQuery, GroupState
    <3> QED
      BY <1>1, <2>2, <2>3, <3>3 DEF LaneStep, Joins, SameRunner, InQuery
  <2>4. CASE g # l
    <3>1. groups[g] \in GroupState
      BY DEF TypeOK
    <3>2. SameLane(groups[g], groups'[g])
      BY <2>1, <2>4, <3>1 DEF SameLane, SameRunner, InQuery, RetireAfterQuery, GroupState
    <3> QED
      BY <2>2, <3>2, KeptLane
  <2> QED
    BY <2>3, <2>4
<1>2. CASE ~MustWait(l)
  <2> DEFINE started == Started(st, t)
  <2>1. ~Paused(l) /\ ~groups[l].active
    BY <1>2 DEF MustWait, Runners
  <2>2. /\ groups' = [groups EXCEPT ![l] = started]
        /\ waitingGroups' = waitingGroups \ {l}
    BY <1>2, <2>1 DEF Admit, RunTask
  <2>3. /\ started.active = TRUE /\ started.stopRequested = FALSE
        /\ started.activeTask = t /\ started.pendingTasks = st.pendingTasks
        /\ started.ipcOwed = st.ipcOwed /\ started.restarting = st.restarting
    BY DEF Started, GroupState
  <2> HIDE DEF started
  <2>4. groups'[l] = started => LaneStep(l)
    BY <2>1, <2>3, TaskAssumption DEF TaskAssumption, LaneStep, Begins
  <2> QED
    BY <2>2, <2>4, OneLane
<1> QED
  BY <1>1, <1>2

LEMMA DiscardedLane ==
  ASSUME NEW st \in GroupState
  PROVE  /\ SameRunner(st, DiscardWork(st))
         /\ DiscardWork(st).pendingTasks = <<>>
         /\ DiscardWork(st).ipcOwed = st.ipcOwed
         /\ DiscardWork(st).stopRequested = st.stopRequested
         /\ DiscardWork(st).restarting = st.restarting
BY DEF SameRunner, InQuery, DiscardWork, ClearRetryTimer, GroupState

-----------------------------------------------------------------------------
(* Every step is a LaneStep of every lane.                                 *)

LEMMA AgendaLanes ==
  ASSUME TypeOK, WorkInv, AgendaStep, NEW g \in Lane
  PROVE  LaneStep(g)
<1>0. \A op : Running(op) => Args \in SUBSET Lane
  BY PoppedType
<1>1. \A l \in Lane : groups[l] \in GroupState
  BY DEF TypeOK
<1>2. CASE DrainGroup
  <2>1. PICK l \in Lane :
          \/ UNCHANGED groups /\ waitingGroups \subseteq waitingGroups'
          \/ /\ groups[l].pendingTasks # <<>> /\ ~Paused(l)
             /\ RunTask(l, Head(groups[l].pendingTasks),
                        [groups[l] EXCEPT !.pendingTasks = Tail(@)])
          \/ /\ groups[l].pendingTasks = <<>>
             /\ \/ groups' = groups
                \/ /\ groups' = [groups EXCEPT ![l] = FreshGroup]
                   /\ ~groups[l].active /\ ~groups[l].restarting
             /\ waitingGroups' = waitingGroups \ {l}
    BY <1>0, <1>2 DEF DrainGroup
  <2>2. ~Running("recover") /\ ~Running("reclaim")
    BY <1>2 DEF DrainGroup, Running
  <2>3. ASSUME groups[l].pendingTasks = <<>>,
               groups' = groups, waitingGroups' = waitingGroups \ {l}
        PROVE  LaneStep(g)
    BY <2>3 DEF LaneStep, Keeps, SameRunner
  <2>4. ASSUME groups[l].pendingTasks = <<>>,
               ~groups[l].active, ~groups[l].restarting,
               groups' = [groups EXCEPT ![l] = FreshGroup],
               waitingGroups' = waitingGroups \ {l}
        PROVE  LaneStep(g)
    <3>1. groups'[l] = FreshGroup => LaneStep(l)
      BY <2>4 DEF LaneStep, Forgets
    <3> QED
      BY <2>4, <3>1, OneLane
  <2> QED
    BY <2>1, <2>2, <2>3, <2>4, FirstTaskLanes, UntouchedLane
<1>3. CASE VisitWaiting
  <2>1. PICK l \in Lane :
          \/ UNCHANGED <<groups, waitingGroups>>
          \/ /\ groups[l].pendingTasks # <<>> /\ ~Paused(l)
             /\ RunTask(l, Head(groups[l].pendingTasks),
                        [groups[l] EXCEPT !.pendingTasks = Tail(@)])
          \/ /\ groups[l].pendingTasks = <<>>
             /\ groups' = groups /\ waitingGroups' = waitingGroups \ {l}
    BY <1>0, <1>3 DEF VisitWaiting
  <2>2. ~Running("recover") /\ ~Running("reclaim")
    BY <1>3 DEF VisitWaiting, Running
  <2>3. ASSUME groups[l].pendingTasks = <<>>,
               groups' = groups, waitingGroups' = waitingGroups \ {l}
        PROVE  LaneStep(g)
    BY <2>3 DEF LaneStep, Keeps, SameRunner
  <2> QED
    BY <2>1, <2>2, <2>3, FirstTaskLanes, UntouchedLane
<1>4. CASE EndVisits \/ ReleasedLane
  BY <1>4, UntouchedLane DEF EndVisits, ReleasedLane
<1>5. CASE ReclaimIdleRunner
  <2>1. ASSUME NEW v \in Lane,
               groups' = [groups EXCEPT ![v] = [@ EXCEPT !.closing = "reclaim"]]
        PROVE  LaneStep(g)
    <3>1. SameLane(groups[v], [groups[v] EXCEPT !.closing = "reclaim"])
      BY <1>1 DEF SameLane, SameRunner, InQuery, GroupState
    <3>2. UNCHANGED waitingGroups
      BY <1>5 DEF ReclaimIdleRunner
    <3> QED
      BY <2>1, <3>1, <3>2, KeptLane, OneLane
  <2>2. UNCHANGED groups \/ \E v \in Lane :
          groups' = [groups EXCEPT ![v] = [@ EXCEPT !.closing = "reclaim"]]
    BY <1>5 DEF ReclaimIdleRunner, ReclaimVictims
  <2> QED
    BY <1>5, <2>1, <2>2, UntouchedLane DEF ReclaimIdleRunner
<1>6. CASE RecoverDeliveries
  <2> DEFINE settled(l) == [groups[l] EXCEPT !.ipcOwed = FALSE]
  <2>1. PICK l \in Lane :
          \/ groups' = [groups EXCEPT ![l] = settled(l)] /\ UNCHANGED waitingGroups
          \/ ~Refuses(l, RecoveryTask)
             /\ \E next : Admit(l, RecoveryTask, settled(l), next)
    BY <1>0, <1>6 DEF RecoverDeliveries
  <2>2. RecoveryTask \in Task
    BY TaskAssumption DEF TaskAssumption
  <2>3. /\ settled(l) \in GroupState /\ settled(l).ipcOwed = FALSE
        /\ settled(l).active = groups[l].active
        /\ settled(l).activeTask = groups[l].activeTask
        /\ settled(l).registered = groups[l].registered
        /\ settled(l).query = groups[l].query
        /\ settled(l).closing = groups[l].closing
        /\ settled(l).pendingTasks = groups[l].pendingTasks
        /\ settled(l).stopRequested = groups[l].stopRequested
        /\ settled(l).restarting = groups[l].restarting
    BY <1>1, OwedFields
  <2>4. SameLane(groups[l], settled(l))
    BY <2>3 DEF SameLane, SameRunner, InQuery
  <2> HIDE DEF settled
  <2>5. ASSUME groups' = [groups EXCEPT ![l] = settled(l)], UNCHANGED waitingGroups
        PROVE  LaneStep(g)
    BY <2>4, <2>5, KeptLane, OneLane
  <2> QED
    BY <2>1, <2>2, <2>3, <2>5, AdmitLanes
<1>7. CASE ResumedGroups
  <2>1. CASE g \in Args /\ Discarded(g)
    <3>1. groups'[g] = DiscardWork(groups[g])
      BY <1>7, <2>1 DEF ResumedGroups
    <3>2. SameRunner(groups[g], DiscardWork(groups[g]))
          /\ DiscardWork(groups[g]).pendingTasks = <<>>
          /\ DiscardWork(groups[g]).ipcOwed = groups[g].ipcOwed
          /\ DiscardWork(groups[g]).stopRequested = groups[g].stopRequested
          /\ DiscardWork(groups[g]).restarting = groups[g].restarting
      BY <1>1, DiscardedLane
    <3> QED
      BY <2>1, <3>1, <3>2 DEF LaneStep, Drops
  <2>2. CASE ~(g \in Args /\ Discarded(g))
    BY <1>7, <2>2, UntouchedLane DEF ResumedGroups
  <2> QED
    BY <2>1, <2>2
<1>8. CASE FinishRestart
  <2> DEFINE restarted(l) == [groups[l] EXCEPT !.restarting = FALSE]
  <2>1. PICK l \in Args :
          \/ groups' = [groups EXCEPT ![l] = restarted(l)] /\ UNCHANGED waitingGroups
          \/ ~Refuses(l, RestartTask)
             /\ \E next : Admit(l, RestartTask, restarted(l), next)
    BY <1>8 DEF FinishRestart
  <2>2. RestartTask \in Task /\ l \in Lane
    BY <1>0, <1>8, <2>1, TaskAssumption DEF TaskAssumption, FinishRestart
  <2>3. /\ restarted(l) \in GroupState
        /\ restarted(l).ipcOwed = groups[l].ipcOwed
        /\ restarted(l).active = groups[l].active
        /\ restarted(l).activeTask = groups[l].activeTask
        /\ restarted(l).registered = groups[l].registered
        /\ restarted(l).query = groups[l].query
        /\ restarted(l).closing = groups[l].closing
        /\ restarted(l).pendingTasks = groups[l].pendingTasks
        /\ restarted(l).stopRequested = groups[l].stopRequested
        /\ ~restarted(l).restarting
    BY <1>1, <2>2 DEF GroupState
  <2>4. /\ FinishDue(l)
        /\ ~Running("recover") /\ ~Running("reclaim")
    <3>1. agenda \in Seq(Call) /\ agenda # <<>> /\ Head(agenda).op = "finishRestart"
      BY <1>8 DEF FinishRestart, Running, Quiet, TypeOK
    <3>2. Head(agenda) \in ToSet(agenda)
      BY <3>1 DEF ToSet
    <3> QED
      BY <2>1, <3>1, <3>2 DEF FinishDue, Args, Running
  <2> HIDE DEF restarted
  <2>5. ASSUME groups' = [groups EXCEPT ![l] = restarted(l)], UNCHANGED waitingGroups
        PROVE  LaneStep(g)
    <3>1. groups'[l] = restarted(l) => LaneStep(l)
      BY <2>3, <2>4, <2>5 DEF LaneStep, Keeps, SameRunner, InQuery
    <3> QED
      BY <2>2, <2>5, <3>1, OneLane
  <2> QED
    BY <2>1, <2>2, <2>3, <2>4, <2>5, AdmitLanes
<1> QED
  BY <1>2, <1>3, <1>4, <1>5, <1>6, <1>7, <1>8 DEF AgendaStep

(* A runner's exit: st is the lane's state once the outcome is recorded.   *)
LEMMA ExitLanes ==
  ASSUME TypeOK, Quiet, NEW l \in Lane, groups[l].active, NEW st \in GroupState,
         st.pendingTasks = groups[l].pendingTasks,
         st.stopRequested = groups[l].stopRequested,
         st.restarting = groups[l].restarting,
         st.registered = groups[l].registered, st.ipcOwed = groups[l].ipcOwed,
         RunnerExits(l, st), NEW g \in Lane
  PROVE  LaneStep(g)
<1> DEFINE kept     == l \in preserveStops /\ Paused(l)
           replayed == st.registered /\ st.ipcOwed /\ ~kept
           enqueued == replayed /\ ~Refuses(l, RecoveryTask)
           tasks    == IF enqueued THEN Append(st.pendingTasks, RecoveryTask)
                                   ELSE st.pendingTasks
           final    == [Exited(st) EXCEPT !.pendingTasks = tasks,
                                          !.ipcOwed = st.ipcOwed /\ ~replayed]
<1>1. groups' = [groups EXCEPT ![l] = final]
  BY DEF RunnerExits, Exited, GroupState
<1>2. /\ final.active = FALSE /\ final.pendingTasks = tasks
      /\ final.restarting = st.restarting
      /\ final.ipcOwed = (st.ipcOwed /\ ~replayed)
  BY DEF Exited, GroupState
<1> HIDE DEF final
<1>3. waitingGroups' = waitingGroups \union (IF enqueued THEN {l} ELSE {})
  BY DEF RunnerExits
<1>4. /\ agenda' = IF st.restarting THEN <<>>
                   ELSE IF ~st.stopRequested THEN Calling("drainGroup", {l})
                   ELSE IF Paused(l) THEN DrainWaiting(waitingGroups')
                   ELSE <<>>
      /\ UNCHANGED gateVars
  BY DEF RunnerExits
<1>5. groups'[l] = final => Ends(l)
  <2>1. /\ st.restarting \in BOOLEAN /\ st.stopRequested \in BOOLEAN
        /\ st.ipcOwed \in BOOLEAN /\ st.registered \in BOOLEAN
    BY DEF GroupState
  <2>2. \A h \in Lane \ {l} : groups'[h] = groups[h]
    BY <1>1
  <2> QED
    BY <1>2, <1>3, <1>4, <2>1, <2>2 DEF Ends
<1> QED
  BY <1>1, <1>3, <1>5, OneLane DEF LaneStep

LEMMA RetryTimerLanes ==
  ASSUME TypeOK, WorkInv, NEW l \in Lane, RetryTimerFires(l), NEW g \in Lane
  PROVE  LaneStep(g)
<1> DEFINE t     == groups[l].retryTask
           st    == [groups[l] EXCEPT !.retryTask = NoTask]
           fired == [st EXCEPT !.queuedRetry = t]
           spent == [st EXCEPT !.queuedRetry = NoTask]
           Same(n) == /\ n.active = groups[l].active
                      /\ n.activeTask = groups[l].activeTask
                      /\ n.registered = groups[l].registered
                      /\ n.query = groups[l].query
                      /\ n.closing = groups[l].closing
                      /\ n.pendingTasks = groups[l].pendingTasks
                      /\ n.stopRequested = groups[l].stopRequested
                      /\ n.restarting = groups[l].restarting
                      /\ n.ipcOwed = groups[l].ipcOwed
<1>1. groups[l] \in GroupState
  BY DEF TypeOK
<1>2. t \in Task
  BY <1>1 DEF RetryTimerFires, GroupState
<1>3. st \in GroupState /\ Same(st)
  BY <1>1 DEF GroupState
<1>4. \/ ~Refuses(l, t) /\ Admit(l, t, fired, <<>>)
      \/ /\ groups' = [groups EXCEPT ![l] = spent] \/ groups' = [groups EXCEPT ![l] = st]
         /\ UNCHANGED waitingGroups
  BY DEF RetryTimerFires
<1>5. ~Running("recover") /\ ~Running("reclaim")
  BY DEF RetryTimerFires, Running
<1> HIDE DEF st, t
<1>6. fired \in GroupState /\ Same(fired) /\ Same(spent)
  BY <1>2, <1>3 DEF GroupState
<1> HIDE DEF fired, spent
<1>7. \A n : Same(n) => SameLane(groups[l], n)
  BY DEF SameLane, SameRunner, InQuery
<1>8. ASSUME NEW n, Same(n), groups' = [groups EXCEPT ![l] = n], UNCHANGED waitingGroups
      PROVE  LaneStep(g)
  BY <1>7, <1>8, KeptLane, OneLane
<1> QED
  BY <1>2, <1>3, <1>4, <1>5, <1>6, <1>8, AdmitLanes

LEMMA RunnerLanes ==
  ASSUME TypeOK, WorkInv, NEW l \in Lane, RunnerStep(l), NEW g \in Lane
  PROVE  LaneStep(g)
<1>1. groups[l] \in GroupState
  BY DEF TypeOK
<1>2. ASSUME NEW n, SameLane(groups[l], n), groups' = [groups EXCEPT ![l] = n],
             UNCHANGED waitingGroups
      PROVE  LaneStep(g)
  BY <1>2, KeptLane, OneLane
<1>3. CASE RegisterProcess(l)
  <2>1. SameLane(groups[l], [groups[l] EXCEPT !.registered = TRUE])
    BY <1>1 DEF SameLane, SameRunner, InQuery, GroupState
  <2> QED
    BY <1>2, <1>3, <2>1 DEF RegisterProcess
<1>4. CASE TaskSucceeds(l)
  <2> DEFINE st == ClearRetryTimer(groups[l])
  <2>1. /\ st \in GroupState /\ st.pendingTasks = groups[l].pendingTasks
        /\ st.stopRequested = groups[l].stopRequested
        /\ st.restarting = groups[l].restarting
        /\ st.registered = groups[l].registered /\ st.ipcOwed = groups[l].ipcOwed
    BY <1>1, ClearType DEF ClearRetryTimer, GroupState
  <2>2. Quiet /\ groups[l].active /\ RunnerExits(l, st)
    BY <1>4 DEF TaskSucceeds
  <2> HIDE DEF st
  <2> QED
    BY <2>1, <2>2, ExitLanes
<1>5. CASE TaskThrows(l) \/ FailedRunnerExits(l)
  BY <1>1, <1>5, ExitLanes DEF TaskThrows, FailedRunnerExits
<1>6. CASE TaskFails(l)
  <2> DEFINE old   == groups[l]
             st    == CancelRetryTimer(old)
             next  == old.retryCount + 1
             kept  == IF ~CanScheduleRetry(old) THEN old
                      ELSE IF next > MaxRetries THEN [st EXCEPT !.retryCount = 0]
                      ELSE [st EXCEPT !.retryCount = next, !.retryTask = st.activeTask]
             final == [kept EXCEPT !.finishing = TRUE]
  <2>1. groups' = [groups EXCEPT ![l] = final] /\ UNCHANGED waitingGroups
    BY <1>6 DEF TaskFails
  <2>2. SameLane(old, final)
    <3>1. CASE kept = old
      BY <1>1, <3>1 DEF SameLane, SameRunner, InQuery, GroupState
    <3>2. CASE kept = [st EXCEPT !.retryCount = 0]
      BY <1>1, <3>2 DEF SameLane, SameRunner, InQuery, CancelRetryTimer, GroupState
    <3>3. CASE kept = [st EXCEPT !.retryCount = next, !.retryTask = st.activeTask]
      BY <1>1, <3>3 DEF SameLane, SameRunner, InQuery, CancelRetryTimer, GroupState
    <3> QED
      BY <3>1, <3>2, <3>3
  <2> HIDE DEF final
  <2> QED
    BY <1>2, <2>1, <2>2
<1>7. CASE RetryTimerFires(l)
  BY <1>7, RetryTimerLanes
<1>8. CASE AcknowledgeIpcDeliveries(l)
  <2>1. SameLane(groups[l], [groups[l] EXCEPT !.ipcOwed = FALSE])
    BY <1>1 DEF SameLane, SameRunner, InQuery, GroupState
  <2> QED
    BY <1>2, <1>8, <2>1 DEF AcknowledgeIpcDeliveries
<1>9. CASE MarkRunnerQueryIdle(l, FALSE)
  <2>1. SameLane(groups[l], [groups[l] EXCEPT !.query = "idle"])
    BY <1>1 DEF SameLane, SameRunner, InQuery, GroupState
  <2> QED
    BY <1>2, <1>9, <2>1 DEF MarkRunnerQueryIdle
<1>10. CASE PreservingStopReturns(l) \/ RestartReturns(l)
  BY <1>10, UntouchedLane DEF PreservingStopReturns, RestartReturns
<1>11. CASE RestartTimesOut(l)
  <2> DEFINE n == [groups[l] EXCEPT !.restarting = FALSE]
  <2>1. groups' = [groups EXCEPT ![l] = n] /\ UNCHANGED waitingGroups /\ groups[l].active
    BY <1>11 DEF RestartTimesOut
  <2>2. /\ SameRunner(groups[l], n)
        /\ n.pendingTasks = groups[l].pendingTasks
        /\ n.stopRequested = groups[l].stopRequested /\ n.ipcOwed = groups[l].ipcOwed
    BY <1>1 DEF SameRunner, InQuery, GroupState
  <2> HIDE DEF n
  <2>3. groups'[l] = n => LaneStep(l)
    BY <2>1, <2>2 DEF LaneStep, Keeps
  <2> QED
    BY <2>1, <2>3, OneLane
<1> QED
  BY <1>3, <1>4, <1>5, <1>6, <1>7, <1>8, <1>9, <1>10, <1>11 DEF RunnerStep

LEMMA InputLanes ==
  ASSUME TypeOK, InputRequest, NEW g \in Lane
  PROVE  LaneStep(g)
<1>0. \A l \in Lane : groups[l] \in GroupState
  BY DEF TypeOK
<1>1. ASSUME NEW l \in Lane, NEW t \in Task, EnqueueTask(l, t)
      PROVE  LaneStep(g)
  <2>1. ~Running("recover") /\ ~Running("reclaim")
    BY <1>1 DEF EnqueueTask, Running
  <2> QED
    BY <1>0, <1>1, <2>1, AdmitLanes DEF EnqueueTask
<1>2. ASSUME NEW l \in PipedLane, SendMessage(l)
      PROVE  LaneStep(g)
  <2> DEFINE q(r)    == IF InQuery(groups[r]) THEN groups[r].query ELSE "inFlight"
             sent(r) == [groups[r] EXCEPT !.ipcOwed = TRUE, !.query = q(r)]
  <2>1. PICK r \in Lane : /\ groups' = [groups EXCEPT ![r] = sent(r)]
                          /\ groups[r].active /\ groups[r].registered
                          /\ groups[r].closing = "no"
    BY <1>2 DEF SendMessage, RegisteredRunners, Runners
  <2>2. /\ SameRunner(groups[r], sent(r))
        /\ sent(r).pendingTasks = groups[r].pendingTasks
        /\ sent(r).stopRequested = groups[r].stopRequested
        /\ sent(r).restarting = groups[r].restarting
    BY <1>0, <2>1 DEF SameRunner, GroupState
  <2> HIDE DEF sent
  <2>3. groups'[r] = sent(r) /\ UNCHANGED waitingGroups => LaneStep(r)
    BY <2>1, <2>2 DEF LaneStep, Keeps
  <2> QED
    BY <1>2, <2>1, <2>3, OneLane DEF SendMessage
<1>3. ASSUME NEW l \in PipedLane,
             \/ MarkRunnerQueryIdle(l, TRUE) \/ ReserveNextQuery(l)
             \/ ReleaseQueryReservation(l)
      PROVE  LaneStep(g)
  <2>1. l \in Lane
    BY EnvironmentAssumption DEF EnvironmentAssumption
  <2>2. PICK q : /\ groups' = [groups EXCEPT ![l] = [groups[l] EXCEPT !.query = q]]
                 /\ q = "reserved" => groups[l].closing = "no"
                 /\ q # "inFlight"
    BY <1>3 DEF MarkRunnerQueryIdle, ReserveNextQuery, ReleaseQueryReservation
  <2>3. SameLane(groups[l], [groups[l] EXCEPT !.query = q])
    BY <1>0, <2>1, <2>2 DEF SameLane, SameRunner, InQuery, GroupState
  <2>4. UNCHANGED waitingGroups
    BY <1>3 DEF MarkRunnerQueryIdle, ReserveNextQuery, ReleaseQueryReservation
  <2> QED
    BY <2>1, <2>2, <2>3, <2>4, KeptLane, OneLane
<1> QED
  BY <1>1, <1>2, <1>3 DEF InputRequest

LEMMA StopArmedLanes ==
  ASSUME TypeOK, NEW l \in Lane, StoppedLane # {}, StopArmedRetry(l), NEW g \in Lane
  PROVE  LaneStep(g)
<1> DEFINE st     == groups[l]
           queued == {i \in DOMAIN st.pendingTasks : st.pendingTasks[i] = st.queuedRetry}
           final(tasks) == [ClearRetryTimer(st) EXCEPT !.pendingTasks = tasks]
<1>1. st \in GroupState /\ st.pendingTasks \in Seq(Task) /\ ~st.active
  BY DEF TypeOK, GroupState, StopArmedRetry
<1>2. \A i \in DOMAIN st.pendingTasks :
        Len(RemoveAt(st.pendingTasks, i)) <= Len(st.pendingTasks)
  <2> DEFINE s == st.pendingTasks
  <2> TAKE i \in DOMAIN s
  <2>1. s \in Seq(Task) /\ i \in 1..Len(s) /\ Len(s) \in Nat
    BY <1>1
  <2> HIDE DEF s
  <2>2. /\ SubSeq(s, 1, i - 1) \in Seq(Task) /\ Len(SubSeq(s, 1, i - 1)) = i - 1
        /\ SubSeq(s, i + 1, Len(s)) \in Seq(Task)
        /\ Len(SubSeq(s, i + 1, Len(s))) = Len(s) - i
    BY <2>1, SubSeqProperties
  <2> QED
    BY <2>1, <2>2, ConcatProperties DEF RemoveAt, s
<1>3. PICK tasks :
        /\ \/ tasks = st.pendingTasks
           \/ \E i \in DOMAIN st.pendingTasks : tasks = RemoveAt(st.pendingTasks, i)
        /\ groups' = [groups EXCEPT ![l] = final(tasks)]
        /\ waitingGroups' = IF queued # {} /\ tasks = <<>>
                            THEN waitingGroups \ {l} ELSE waitingGroups
  BY DEF StopArmedRetry
<1>4. Len(tasks) <= Len(st.pendingTasks)
  BY <1>1, <1>2, <1>3
<1>5. /\ SameRunner(st, final(tasks))
      /\ final(tasks).pendingTasks = tasks
      /\ final(tasks).restarting = st.restarting
      /\ final(tasks).ipcOwed = st.ipcOwed
  BY <1>1 DEF SameRunner, InQuery, ClearRetryTimer, GroupState
<1> HIDE DEF final, queued
<1>6. groups'[l] = final(tasks) => LaneStep(l)
  BY <1>1, <1>3, <1>4, <1>5 DEF LaneStep, Unqueues
<1> QED
  BY <1>3, <1>6, OneLane

LEMMA StopLanes ==
  ASSUME TypeOK, StopRequest, NEW g \in Lane
  PROVE  LaneStep(g)
<1>0. \A l \in Lane : groups[l] \in GroupState
  BY DEF TypeOK
<1>1. ASSUME NEW l \in StoppedLane, StopGroup(l)
      PROVE  LaneStep(g)
  <2>1. CASE groups'[g] = groups[g]
    <3>1. g \notin {l} \union Targets(l) \/ groups[g].pendingTasks = <<>>
      <4> DEFINE work == DiscardWork(groups[g])
                 new  == [work EXCEPT !.stopRequested = TRUE,
                            !.ipcOwed = @ /\ g \notin Targets(l)]
      <4>1. g \in {l} \union Targets(l) => groups'[g] = new
        BY <1>1 DEF StopGroup
      <4>2. work \in GroupState /\ work.pendingTasks = <<>>
        BY <1>0, DiscardType, DiscardFields
      <4> HIDE DEF work
      <4>3. new.pendingTasks = <<>>
        BY <4>2 DEF GroupState
      <4> QED
        BY <2>1, <4>1, <4>3
    <3>2. g \in waitingGroups =>
            g \in waitingGroups' \/ groups[g].pendingTasks = <<>>
      BY <1>1, <3>1 DEF StopGroup
    <3> QED
      BY <2>1, <3>2 DEF LaneStep, Keeps, SameRunner
  <2>2. CASE groups'[g] # groups[g]
    <3> DEFINE work == DiscardWork(groups[g])
               owed == [work EXCEPT !.stopRequested = TRUE].ipcOwed /\ g \notin Targets(l)
               new  == [work EXCEPT !.stopRequested = TRUE, !.ipcOwed = owed]
    <3>1. groups'[g] = new
      BY <1>1, <2>2 DEF StopGroup
    <3>2. /\ work \in GroupState /\ SameRunner(groups[g], work)
          /\ work.pendingTasks = <<>> /\ work.ipcOwed = groups[g].ipcOwed
          /\ work.restarting = groups[g].restarting
      BY <1>0, DiscardType, DiscardedLane
    <3> HIDE DEF work
    <3>3. owed => groups[g].ipcOwed
      BY <3>2 DEF GroupState
    <3> HIDE DEF owed
    <3>4. /\ SameRunner(groups[g], new)
          /\ new.pendingTasks = <<>> /\ new.ipcOwed = owed
          /\ new.restarting = groups[g].restarting
      BY <3>2 DEF SameRunner, InQuery, GroupState
    <3> HIDE DEF new
    <3> QED
      BY <1>1, <3>1, <3>3, <3>4 DEF LaneStep, Drops
  <2> QED
    BY <2>1, <2>2
<1>2. ASSUME NEW l \in Lane, InterruptQuery(l)
      PROVE  LaneStep(g)
  <2>1. SameLane(groups[l], CancelRetryTimer(groups[l]))
    BY <1>0 DEF SameLane, SameRunner, InQuery, CancelRetryTimer, GroupState
  <2> QED
    BY <1>2, <2>1, KeptLane, OneLane DEF InterruptQuery
<1>3. ASSUME NEW l \in RestartedLane, RestartGroup(l)
      PROVE  LaneStep(g)
  <2> DEFINE new(r) == [ClearRetryTimer(groups[r]) EXCEPT !.restarting = TRUE]
  <2>1. PICK r \in Lane : groups' = [groups EXCEPT ![r] = new(r)]
    BY <1>3, EnvironmentAssumption
       DEF RestartGroup, Targets, Runners, EnvironmentAssumption
  <2>2. /\ SameRunner(groups[r], new(r)) /\ new(r).restarting
        /\ new(r).pendingTasks = groups[r].pendingTasks
        /\ new(r).stopRequested = groups[r].stopRequested
        /\ new(r).ipcOwed = groups[r].ipcOwed
    BY <1>0 DEF SameRunner, InQuery, ClearRetryTimer, GroupState
  <2> HIDE DEF new
  <2>3. groups'[r] = new(r) /\ UNCHANGED waitingGroups => LaneStep(r)
    BY <1>3, <2>2 DEF LaneStep, Keeps
  <2> QED
    BY <1>3, <2>1, <2>3, OneLane DEF RestartGroup
<1>4. ASSUME NEW l \in Lane, RetireRunnerAfterQuery(l)
      PROVE  LaneStep(g)
  <2>1. SameLane(groups[g], RetireAfterQuery(groups[g]))
    BY <1>0 DEF SameLane, SameRunner, InQuery, RetireAfterQuery, GroupState
  <2> QED
    BY <1>4, <2>1, KeptLane, UntouchedLane DEF RetireRunnerAfterQuery
<1>5. ASSUME NEW l \in Lane, RequestDrain(l)
      PROVE  LaneStep(g)
  <2>1. SameLane(groups[l], [groups[l] EXCEPT !.drainSentinelWritten = TRUE])
    BY <1>0 DEF SameLane, SameRunner, InQuery, GroupState
  <2> QED
    BY <1>5, <2>1, KeptLane, OneLane DEF RequestDrain
<1>6. CASE MayShutDown /\ Shutdown
  BY <1>0, <1>6, DiscardedLane DEF Shutdown, LaneStep, Drops
<1> QED
  BY <1>1, <1>2, <1>3, <1>4, <1>5, <1>6, StopArmedLanes, EnvironmentAssumption
     DEF StopRequest, EnvironmentAssumption

LEMMA ParkedLane ==
  ASSUME TypeOK, NEW g \in Lane, NEW l \in Lane, PreservingStop(l),
         g \in {l} \union Runners(l),
         groups'[g] = [ParkTask(groups[g]) EXCEPT !.stopRequested = TRUE],
         ParkTask(groups[g]).pendingTasks # <<>> => g \in waitingGroups'
  PROVE  LaneStep(g)
<1> DEFINE o      == groups[g]
           parked == ParkTask(o)
           new    == [parked EXCEPT !.stopRequested = TRUE]
           t      == IF o.activeTask # NoTask THEN o.activeTask ELSE o.retryTask
           tasks  == IF t = NoTask \/ t \in ToSet(o.pendingTasks)
                     THEN o.pendingTasks ELSE Cons(t, o.pendingTasks)
<1>1. o \in GroupState /\ t \in Task \union {NoTask}
  BY DEF TypeOK, GroupState
<1>2. /\ parked \in GroupState /\ SameRunner(o, parked)
      /\ parked.pendingTasks = tasks /\ parked.ipcOwed = o.ipcOwed
      /\ parked.restarting = o.restarting
  BY <1>1, ParkFields DEF SameRunner, InQuery
<1> HIDE DEF parked
<1>3. /\ SameRunner(o, new) /\ new.pendingTasks = parked.pendingTasks
      /\ new.ipcOwed = o.ipcOwed /\ new.restarting = o.restarting
  BY <1>2 DEF SameRunner, InQuery, GroupState
<1>4. tasks = o.pendingTasks
        \/ (t \in Task \ ToSet(o.pendingTasks) /\ tasks = Cons(t, o.pendingTasks))
  BY <1>1
<1>5. groups'[g] = new /\ (parked.pendingTasks # <<>> => g \in waitingGroups')
  BY DEF parked
<1> HIDE DEF new, tasks
<1> QED
  BY <1>2, <1>3, <1>4, <1>5 DEF LaneStep, Parks

LEMMA MutationLanes ==
  ASSUME TypeOK, MutationRequest, NEW g \in Lane
  PROVE  LaneStep(g)
<1>0. \A l \in Lane : groups[l] \in GroupState
  BY DEF TypeOK
<1>1. ASSUME NEW l, HoldLane(l) \/ ReleaseLane(l) \/ BeginDeferral(l) \/ EndDeferral(l)
      PROVE  LaneStep(g)
  BY <1>1, UntouchedLane DEF HoldLane, ReleaseLane, ReleaseHold, BeginDeferral, EndDeferral
<1>2. ASSUME NEW k, NEW ws, PauseGroups(k, ws) \/ ResumeGroups(k)
      PROVE  LaneStep(g)
  BY <1>2, UntouchedLane DEF PauseGroups, ResumeGroups
<1>3. ASSUME NEW w, NEW src, BlockForSafety(w, src) \/ UnblockForSafety(w, src)
      PROVE  LaneStep(g)
  BY <1>3, UntouchedLane DEF BlockForSafety, UnblockForSafety
<1>4. ASSUME NEW l \in Lane, MayDelete, NEW st, groups' = [groups EXCEPT ![l] = st],
             st = [DiscardWork(groups[l]) EXCEPT !.ipcOwed = FALSE],
             waitingGroups \ {l} \subseteq waitingGroups'
      PROVE  LaneStep(g)
  <2>1. /\ DiscardWork(groups[l]) \in GroupState
        /\ SameRunner(groups[l], DiscardWork(groups[l]))
        /\ DiscardWork(groups[l]).pendingTasks = <<>>
        /\ DiscardWork(groups[l]).stopRequested = groups[l].stopRequested
        /\ DiscardWork(groups[l]).restarting = groups[l].restarting
    BY <1>0, DiscardType, DiscardedLane
  <2>2. /\ SameRunner(groups[l], st) /\ st.pendingTasks = <<>> /\ ~st.ipcOwed
        /\ st.stopRequested = groups[l].stopRequested
        /\ st.restarting = groups[l].restarting
    BY <1>4, <2>1 DEF SameRunner, InQuery, GroupState
  <2>3. groups'[l] = st => LaneStep(l)
    BY <1>4, <2>2 DEF LaneStep, Drops
  <2> QED
    BY <1>4, <2>3, OneLane
<1>5. ASSUME NEW l \in HeldLane, MayDelete, DiscardHeldLane(l)
      PROVE  LaneStep(g)
  BY <1>4, <1>5, HeldAssumption DEF HeldAssumption, DiscardHeldLane
<1>6. ASSUME NEW k \in Token, MayDelete, DiscardGroups(k)
      PROVE  LaneStep(g)
  <2>1. CASE g \in LanesOf(mutationPauseTokens[k])
    <3> DEFINE new == [DiscardWork(groups[g]) EXCEPT !.ipcOwed = FALSE]
    <3>1. groups'[g] = new
      BY <1>6, <2>1 DEF DiscardGroups
    <3>2. /\ DiscardWork(groups[g]) \in GroupState
          /\ SameRunner(groups[g], DiscardWork(groups[g]))
          /\ DiscardWork(groups[g]).pendingTasks = <<>>
          /\ DiscardWork(groups[g]).stopRequested = groups[g].stopRequested
          /\ DiscardWork(groups[g]).restarting = groups[g].restarting
      BY <1>0, DiscardType, DiscardedLane
    <3>3. /\ SameRunner(groups[g], new) /\ new.pendingTasks = <<>> /\ ~new.ipcOwed
          /\ new.stopRequested = groups[g].stopRequested
          /\ new.restarting = groups[g].restarting
      BY <3>2 DEF SameRunner, InQuery, GroupState
    <3> HIDE DEF new
    <3> QED
      BY <1>6, <3>1, <3>3 DEF LaneStep, Drops
  <2>2. CASE g \notin LanesOf(mutationPauseTokens[k])
    BY <1>6, <2>2, UntouchedLane DEF DiscardGroups
  <2> QED
    BY <2>1, <2>2
<1>7. ASSUME NEW l \in Lane, PreservingStop(l)
      PROVE  LaneStep(g)
  <2> DEFINE hit == {l} \union Targets(l)
             parked(r) == [ParkTask(groups[r]) EXCEPT !.stopRequested = TRUE]
  <2>1. hit = {l} \union Runners(l)
    BY DEF Targets
  <2>2. /\ groups' = [r \in Lane |-> IF r \in hit THEN parked(r) ELSE groups[r]]
        /\ waitingGroups' = waitingGroups \union
                              {r \in hit : ParkTask(groups[r]).pendingTasks # <<>>}
    BY <1>7 DEF PreservingStop
  <2> HIDE DEF hit
  <2> QED
    BY <1>7, <2>1, <2>2, ParkedLane, UntouchedLane
<1>8. ASSUME NEW l \in Lane, DeferredStop(l)
      PROVE  LaneStep(g)
  <2>1. SameLane(groups[g], [groups[g] EXCEPT !.closing = "after_query"])
    BY <1>0 DEF SameLane, SameRunner, InQuery, GroupState
  <2> QED
    BY <1>8, <2>1, KeptLane, UntouchedLane DEF DeferredStop
<1> QED
  BY <1>1, <1>2, <1>3, <1>5, <1>6, <1>7, <1>8, EnvironmentAssumption
     DEF MutationRequest, EnvironmentAssumption

LEMMA StepLanes ==
  ASSUME TypeOK, WorkInv, [Next]_vars, NEW g \in Lane
  PROVE  LaneStep(g)
<1>1. CASE UNCHANGED vars
  BY <1>1, UntouchedLane DEF vars
<1> QED
  BY <1>1, AgendaLanes, RunnerLanes, InputLanes, StopLanes, MutationLanes DEF Next

(* A runner that has been asked to exit is handed no further query.        *)
THEOREM ClosingTakesNoQuery == Spec => ClosingRunnerTakesNoQuery
<1>1. TypeOK /\ WorkInv /\ [Next]_vars =>
        [\A l \in Lane :
           groups[l].active /\ groups[l].closing # "no" /\ ~InQuery(groups[l])
             => ~groups[l].active' \/ ~InQuery(groups[l])']_vars
  <2> SUFFICES ASSUME TypeOK, WorkInv, [Next]_vars, NEW l \in Lane,
                      groups[l].active, groups[l].closing # "no",
                      ~InQuery(groups[l])
               PROVE  ~groups'[l].active \/ ~InQuery(groups'[l])
    BY DEF InQuery
  <2>1. LaneStep(l)
    BY StepLanes
  <2> QED
    BY <2>1 DEF LaneStep, Keeps, Joins, Begins, Ends, Drops, Parks, Forgets,
                Unqueues, SameRunner
<1> QED
  BY <1>1, InitWork, WorkStep, TypeCorrect, PTL DEF Spec, ClosingRunnerTakesNoQuery

(* Where nobody stops a lane, deletes or shuts down, a queued task leaves  *)
(* its queue only by starting: whatever pauses, holds, preserving stops,   *)
(* restarts, retries and timeouts interleave, they lose no work.           *)
THEOREM QueuedTaskStarts ==
  ASSUME StoppedLane = {}, ~MayDelete, ~MayShutDown
  PROVE  Spec => QueuedTaskLeavesByStarting
<1> DEFINE NoneGone == terminalDiscards = {}
<1>1. Init => NoneGone
  BY DEF Init
<1>2. NoneGone /\ [Next]_vars => NoneGone'
  <2>1. \A l : RunnerStep(l) => UNCHANGED terminalDiscards
    BY DEF RunnerStep, RegisterProcess, TaskSucceeds, TaskThrows, TaskFails,
           FailedRunnerExits, RunnerExits, RetryTimerFires,
           AcknowledgeIpcDeliveries, MarkRunnerQueryIdle, PreservingStopReturns,
           RestartReturns, RestartTimesOut, gateVars, modeVars
  <2>2. AgendaStep => UNCHANGED terminalDiscards
    BY DEF AgendaStep, DrainGroup, VisitWaiting, EndVisits, ReclaimIdleRunner,
           RecoverDeliveries, ReleasedLane, ResumedGroups, FinishRestart, gateVars
  <2>3. InputRequest => UNCHANGED terminalDiscards
    BY DEF InputRequest, EnqueueTask, SendMessage, MarkRunnerQueryIdle,
           ReserveNextQuery, ReleaseQueryReservation, gateVars
  <2>4. StopRequest => UNCHANGED terminalDiscards
    BY DEF StopRequest, StopGroup, InterruptQuery, StopArmedRetry, RestartGroup,
           RetireRunnerAfterQuery, RequestDrain, Shutdown, gateVars
  <2>5. MutationRequest => UNCHANGED terminalDiscards
    BY DEF MutationRequest, PauseGroups, ResumeGroups, BlockForSafety,
           UnblockForSafety, HoldLane, ReleaseLane, ReleaseHold, PreservingStop,
           BeginDeferral, EndDeferral, DeferredStop, gateVars
  <2> QED
    BY <2>1, <2>2, <2>3, <2>4, <2>5 DEF Next, vars, gateVars
<1>3. TypeOK /\ WorkInv /\ NoneGone /\ [Next]_vars =>
        [\A l \in Lane : \A t \in ToSet(groups[l].pendingTasks) :
           t \in ToSet(groups[l].pendingTasks)' \/ groups[l].activeTask' = t]_vars
  <2> SUFFICES ASSUME TypeOK, WorkInv, NoneGone, [Next]_vars, NEW l \in Lane,
                      NEW t \in ToSet(groups[l].pendingTasks)
               PROVE  \/ t \in ToSet(groups'[l].pendingTasks)
                      \/ groups'[l].activeTask = t
    BY DEF ToSet
  <2> DEFINE s == groups[l].pendingTasks
  <2>1. s \in Seq(Task)
    BY DEF TypeOK, GroupState
  <2>2. PICK i \in 1..Len(s) : t = s[i]
    BY <2>1 DEF ToSet
  <2>3. LaneStep(l) /\ ~Drops(l) /\ ~Unqueues(l)
    BY StepLanes DEF Drops, Unqueues, Discarded
  <2>4. CASE Keeps(l)
    BY <2>4 DEF Keeps
  <2>5. ASSUME NEW r \in Task, groups'[l].pendingTasks = Append(s, r)
        PROVE  t \in ToSet(groups'[l].pendingTasks)
    BY <2>1, <2>2, <2>5 DEF ToSet
  <2>6. ASSUME NEW r \in Task, groups'[l].pendingTasks = Cons(r, s)
        PROVE  t \in ToSet(groups'[l].pendingTasks)
    <3>1. /\ Len(Cons(r, s)) = Len(s) + 1
          /\ Cons(r, s)[i + 1] = s[i]
      BY <2>1, <2>2 DEF Cons
    <3> QED
      BY <2>1, <2>2, <2>6, <3>1 DEF ToSet
  <2>7. ASSUME s # <<>>, groups'[l].activeTask = Head(s),
               groups'[l].pendingTasks = Tail(s)
        PROVE  \/ t \in ToSet(groups'[l].pendingTasks)
               \/ groups'[l].activeTask = t
    <3>1. CASE i = 1
      BY <2>1, <2>2, <2>7, <3>1
    <3>2. CASE i # 1
      <4>1. i - 1 \in 1..Len(Tail(s)) /\ Tail(s)[i - 1] = s[i]
        BY <2>1, <2>2, <3>2
      <4> QED
        BY <2>1, <2>2, <2>7, <4>1 DEF ToSet
    <3> QED
      BY <3>1, <3>2
  <2>8. RecoveryTask \in Task
    BY TaskAssumption DEF TaskAssumption
  <2>9. CASE Joins(l) \/ Ends(l)
    BY <2>5, <2>8, <2>9 DEF Joins, Ends
  <2>10. CASE Begins(l)
    BY <2>7, <2>10 DEF Begins
  <2>11. CASE Parks(l)
    BY <2>6, <2>11 DEF Parks
  <2>12. ~Forgets(l)
    BY <2>2 DEF Forgets, ToSet
  <2> QED
    BY <2>3, <2>4, <2>9, <2>10, <2>11, <2>12 DEF LaneStep
<1> QED
  BY <1>1, <1>2, <1>3, InitWork, WorkStep, TypeCorrect, PTL
     DEF Spec, QueuedTaskLeavesByStarting

-----------------------------------------------------------------------------
(* The calls of the agenda, as sets.                                       *)

LEMMA ToSetConcat ==
  ASSUME NEW a \in Seq(Call), NEW b \in Seq(Call)
  PROVE  ToSet(a \o b) = ToSet(a) \union ToSet(b)
<1>1. ToSet(a \o b) \subseteq ToSet(a) \union ToSet(b)
  BY DEF ToSet
<1>2. ToSet(a) \subseteq ToSet(a \o b)
  <2> SUFFICES ASSUME NEW i \in 1..Len(a) PROVE a[i] \in ToSet(a \o b)
    BY DEF ToSet
  <2>1. i \in 1..Len(a \o b) /\ (a \o b)[i] = a[i]
    OBVIOUS
  <2> QED
    BY <2>1 DEF ToSet
<1>3. ToSet(b) \subseteq ToSet(a \o b)
  <2> SUFFICES ASSUME NEW i \in 1..Len(b) PROVE b[i] \in ToSet(a \o b)
    BY DEF ToSet
  <2>1. Len(a) + i \in 1..Len(a \o b) /\ (a \o b)[Len(a) + i] = b[i]
    OBVIOUS
  <2> QED
    BY <2>1 DEF ToSet
<1> QED
  BY <1>1, <1>2, <1>3

LEMMA ToSetOne ==
  ASSUME NEW lanes \in SUBSET Lane, NEW op
  PROVE  ToSet(Calling(op, lanes)) = {[op |-> op, lanes |-> lanes]}
BY DEF ToSet, Calling

LEMMA ToSetNone == ToSet(<<>>) = {}
BY DEF ToSet

LEMMA ToSetTwo ==
  ASSUME NEW a \in SUBSET Lane, NEW b \in SUBSET Lane,
         NEW p \in {"drainGroup", "reclaim", "recover"},
         NEW q \in {"recover", "releaseLane", "resumeGroups", "finishRestart"}
  PROVE  ToSet(Calling(p, a) \o Calling(q, b))
           = {[op |-> p, lanes |-> a], [op |-> q, lanes |-> b]}
<1>1. Calling(p, a) \in Seq(Call)
  BY CallingType
<1>2. Calling(q, b) \in Seq(Call)
  BY CallingType
<1> QED
  BY <1>1, <1>2, ToSetConcat, ToSetOne

LEMMA ToSetPop ==
  ASSUME TypeOK, NEW op, Running(op)
  PROVE  /\ Head(agenda) \in ToSet(agenda) /\ Head(agenda).op = op
         /\ ToSet(agenda) = {Head(agenda)} \union ToSet(Tail(agenda))
<1>1. agenda \in Seq(Call) /\ agenda # <<>> /\ Head(agenda).op = op
  BY DEF TypeOK, Running, Quiet
<1>2. Head(agenda) \in ToSet(agenda)
  BY <1>1 DEF ToSet
<1>3. \A i \in 1..Len(Tail(agenda)) :
        i + 1 \in 1..Len(agenda) /\ Tail(agenda)[i] = agenda[i + 1]
  BY <1>1
<1>4. ToSet(Tail(agenda)) \subseteq ToSet(agenda)
  BY <1>1, <1>3 DEF ToSet
<1>5. \A i \in 2..Len(agenda) :
        i - 1 \in 1..Len(Tail(agenda)) /\ agenda[i] = Tail(agenda)[i - 1]
  BY <1>1
<1>6. ToSet(agenda) \subseteq {Head(agenda)} \union ToSet(Tail(agenda))
  <2> SUFFICES ASSUME NEW i \in 1..Len(agenda)
               PROVE  agenda[i] \in {Head(agenda)} \union ToSet(Tail(agenda))
    BY <1>1 DEF ToSet
  <2>1. CASE i = 1
    BY <1>1, <2>1
  <2>2. CASE i # 1
    <3>1. i \in 2..Len(agenda)
      BY <1>1, <2>2
    <3>2. i - 1 \in 1..Len(Tail(agenda)) /\ agenda[i] = Tail(agenda)[i - 1]
      BY <1>5, <3>1
    <3>3. Tail(agenda)[i - 1] \in ToSet(Tail(agenda))
      <4> DEFINE rest == Tail(agenda)
      <4>1. rest \in Seq(Call)
        BY <1>1
      <4> HIDE DEF rest
      <4>2. \A j \in 1..Len(rest) : rest[j] \in ToSet(rest)
        BY <4>1 DEF ToSet
      <4> QED
        BY <3>2, <4>2 DEF rest
    <3> QED
      BY <3>2, <3>3
  <2> QED
    BY <2>1, <2>2
<1> QED
  BY <1>1, <1>2, <1>4, <1>6

(* What a call of the agenda puts in its own place: nothing, one call that *)
(* visits or reclaims, or the rest of a recovery.                          *)
Follows(new) ==
  \/ new = <<>>
  \/ \E lanes \in SUBSET Lane : new \in {Calling("visit", lanes), Calling("reclaim", lanes)}
  \/ /\ Running("recover")
     /\ \E lanes, one \in SUBSET Lane :
          new \in {Calling("recover", lanes),
                   Calling("reclaim", one) \o Calling("recover", lanes)}

LEMMA AdmitFollows ==
  ASSUME NEW l \in Lane, NEW t, NEW st, NEW next, Admit(l, t, st, next)
  PROVE  \/ agenda' = next
         \/ agenda' = <<>> \o next
         \/ agenda' = Calling("reclaim", {l}) \o next
BY DEF Admit

LEMMA AgendaFollows ==
  ASSUME TypeOK, AgendaStep
  PROVE  \E new \in Seq(Call) : Follows(new) /\ agenda' = new \o Tail(agenda)
<1>0. \A op : Running(op) => Tail(agenda) \in Seq(Call) /\ Args \in SUBSET Lane
  BY PoppedType
<1>1. ASSUME Tail(agenda) \in Seq(Call), agenda' = Tail(agenda)
      PROVE  \E new \in Seq(Call) : Follows(new) /\ agenda' = new \o Tail(agenda)
  <2>1. <<>> \in Seq(Call) /\ <<>> \o Tail(agenda) = Tail(agenda)
    BY <1>1
  <2> QED
    BY <1>1, <2>1 DEF Follows
<1>2. ASSUME NEW lanes \in SUBSET Lane, NEW op \in {"visit", "reclaim"},
             agenda' = Calling(op, lanes) \o Tail(agenda)
      PROVE  \E new \in Seq(Call) : Follows(new) /\ agenda' = new \o Tail(agenda)
  BY <1>2, CallingType DEF Follows
<1>3. CASE DrainGroup
  <2>1. \/ agenda' = Tail(agenda)
        \/ agenda' = DrainWaiting(waitingGroups') \o Tail(agenda)
    BY <1>3 DEF DrainGroup
  <2>2. waitingGroups' \in SUBSET Lane
    BY <1>3, DrainGroupType DEF TypeOK
  <2> QED
    BY <1>0, <1>1, <1>2, <1>3, <2>1, <2>2 DEF DrainGroup, DrainWaiting
<1>4. CASE VisitWaiting
  BY <1>0, <1>2, <1>4 DEF VisitWaiting
<1>5. CASE EndVisits
  <2>1. \/ agenda' = Calling("reclaim", {}) \o Tail(agenda)
        \/ agenda' = <<>> \o Tail(agenda)
    BY <1>5 DEF EndVisits
  <2>2. Tail(agenda) \in Seq(Call)
    BY <1>0, <1>5 DEF EndVisits
  <2> QED
    BY <1>1, <1>2, <2>1, <2>2, ConcatEmptySeq
<1>6. CASE ReclaimIdleRunner
  BY <1>0, <1>1, <1>6 DEF ReclaimIdleRunner
<1>7. CASE RecoverDeliveries
  <2> DEFINE next(l) == (IF Args = {l} THEN <<>> ELSE Calling("recover", Args \ {l}))
                          \o Tail(agenda)
  <2>0. Running("recover") /\ Args \in SUBSET Lane
    BY <1>0, <1>7 DEF RecoverDeliveries
  <2>1. PICK l \in Args : \/ agenda' = next(l)
                          \/ agenda' = <<>> \o next(l)
                          \/ agenda' = Calling("reclaim", {l}) \o next(l)
    <3>1. PICK l \in Args :
            \/ agenda' = next(l)
            \/ \E st : Admit(l, RecoveryTask, st, next(l))
      BY <1>7 DEF RecoverDeliveries
    <3> HIDE DEF next
    <3> QED
      BY <2>0, <3>1, AdmitFollows
  <2>2. Running("recover") /\ Tail(agenda) \in Seq(Call) /\ l \in Lane
        /\ Args \in SUBSET Lane
    BY <1>0, <1>7, <2>1 DEF RecoverDeliveries
  <2> DEFINE rest == Calling("recover", Args \ {l})
             head == Calling("reclaim", {l})
  <2>3. rest \in Seq(Call) /\ head \in Seq(Call) /\ <<>> \in Seq(Call)
    BY <2>2, CallingType
  <2>4. CASE Args = {l}
    <3>1. next(l) = Tail(agenda) /\ <<>> \o next(l) = Tail(agenda)
      BY <2>2, <2>4, ConcatEmptySeq
    <3>2. \/ agenda' = Tail(agenda)
          \/ agenda' = Calling("reclaim", {l}) \o Tail(agenda)
      BY <2>1, <3>1
    <3>3. {l} \in SUBSET Lane
      BY <2>2
    <3> QED
      BY <1>1, <1>2, <2>2, <3>2, <3>3
  <2>5. CASE Args # {l}
    <3>0. next(l) = rest \o Tail(agenda) /\ <<>> \o next(l) = next(l)
      BY <2>2, <2>3, <2>5, ConcatProperties, ConcatEmptySeq
    <3>1. \/ agenda' = rest \o Tail(agenda)
          \/ agenda' = head \o (rest \o Tail(agenda))
      BY <2>1, <3>0
    <3>2. head \o (rest \o Tail(agenda)) = (head \o rest) \o Tail(agenda)
      BY <2>2, <2>3, ConcatAssociative
    <3>3. head \o rest \in Seq(Call)
      BY <2>3, ConcatProperties
    <3>4. Follows(rest) /\ Follows(head \o rest)
      <4>1. Args \ {l} \in SUBSET Lane /\ {l} \in SUBSET Lane
        BY <2>2
      <4> QED
        BY <2>2, <4>1 DEF Follows
    <3> QED
      BY <2>3, <3>1, <3>2, <3>3, <3>4
  <2> QED
    BY <2>4, <2>5
<1>8. CASE ReleasedLane
  <2>1. waitingGroups' \in SUBSET Lane
    BY <1>8, ReleasedLaneType DEF TypeOK
  <2> QED
    BY <1>2, <1>8, <2>1 DEF ReleasedLane, DrainWaiting
<1>9. CASE ResumedGroups
  <2>1. waitingGroups' \in SUBSET Lane
    BY <1>9, ResumedGroupsType DEF TypeOK
  <2>2. \/ agenda' = <<>> \o Tail(agenda)
        \/ agenda' = DrainWaiting(waitingGroups') \o Tail(agenda)
    BY <1>9 DEF ResumedGroups
  <2>3. Tail(agenda) \in Seq(Call)
    BY <1>0, <1>9 DEF ResumedGroups
  <2> QED
    BY <1>1, <1>2, <2>1, <2>2, <2>3 DEF DrainWaiting
<1>10. CASE FinishRestart
  <2>1. Tail(agenda) \in Seq(Call) /\ Args \in SUBSET Lane
    BY <1>0, <1>10 DEF FinishRestart
  <2>2. PICK l \in Args :
          \/ agenda' = Tail(agenda)
          \/ \E st : Admit(l, RestartTask, st, Tail(agenda))
    BY <1>10 DEF FinishRestart
  <2>3. l \in Lane /\ {l} \in SUBSET Lane
    BY <2>1, <2>2
  <2>4. \/ agenda' = Tail(agenda)
        \/ agenda' = <<>> \o Tail(agenda)
        \/ agenda' = Calling("reclaim", {l}) \o Tail(agenda)
    BY <2>2, <2>3, AdmitFollows
  <2> QED
    BY <1>1, <1>2, <2>1, <2>3, <2>4, ConcatEmptySeq
<1> QED
  BY <1>3, <1>4, <1>5, <1>6, <1>7, <1>8, <1>9, <1>10 DEF AgendaStep

(* The calls a segment that starts leaves to be made: none; one; the drain *)
(* and the end of a restart; or the replay of what the lanes of a lifted   *)
(* gate owe, before its end.                                               *)
Opens(s) ==
  \/ s = <<>>
  \/ \E l \in Lane : /\ groups[l].active /\ ~groups'[l].active
                    /\ s = Calling("drainGroup", {l})
  \/ \E op \in {"visit", "reclaim", "resumeGroups", "releaseLane"},
        lanes \in SUBSET Lane : s = Calling(op, lanes)
  \/ \E l \in Lane :
        /\ groups[l].restarting
        /\ s = Calling("drainGroup", {l}) \o Calling("finishRestart", {l})
  \/ \E op \in {"resumeGroups", "releaseLane"}, owing, lanes \in SUBSET Lane :
        s = Calling("recover", owing) \o Calling(op, lanes)

LEMMA AdmitOpens ==
  ASSUME NEW l \in Lane, NEW t, NEW st, Admit(l, t, st, <<>>)
  PROVE  Opens(agenda')
<1>1. {l} \in SUBSET Lane /\ Calling("reclaim", {l}) \in Seq(Call) /\ <<>> \in Seq(Call)
  BY CallingType
<1>2. \/ agenda' = <<>>
      \/ agenda' = <<>> \o <<>>
      \/ agenda' = Calling("reclaim", {l}) \o <<>>
  BY AdmitFollows
<1> QED
  BY <1>1, <1>2, ConcatEmptySeq DEF Opens

LEMMA ExitOpens ==
  ASSUME TypeOK, NEW l \in Lane, groups[l].active, NEW st \in GroupState,
         RunnerExits(l, st)
  PROVE  Opens(agenda')
<1>1. waitingGroups' \in SUBSET Lane
  BY DEF RunnerExits, TypeOK
<1>2. \/ agenda' = <<>>
      \/ agenda' = Calling("drainGroup", {l})
      \/ agenda' = Calling("visit", waitingGroups')
  BY DEF RunnerExits, DrainWaiting
<1>3. ~groups'[l].active
  <2>1. Exited(st) \in GroupState /\ ~Exited(st).active
    BY ExitedType, KeepActive
  <2> DEFINE left(tasks, owed) ==
               [Exited(st) EXCEPT !.pendingTasks = tasks, !.ipcOwed = owed]
  <2>2. \A tasks, owed : ~left(tasks, owed).active
    BY <2>1 DEF GroupState
  <2>3. \E tasks, owed : groups' = [groups EXCEPT ![l] = left(tasks, owed)]
    BY DEF RunnerExits
  <2> HIDE DEF left
  <2> QED
    BY <2>2, <2>3 DEF TypeOK
<1> QED
  BY <1>1, <1>2, <1>3 DEF Opens

LEMMA RecoveringOpens ==
  ASSUME NEW owing \in SUBSET Lane, NEW lanes \in SUBSET Lane,
         NEW op \in {"resumeGroups", "releaseLane"}
  PROVE  Opens(Recovering(owing) \o Calling(op, lanes))
<1>1. Unsettled(owing) \in SUBSET Lane /\ Calling(op, lanes) \in Seq(Call)
  BY CallingType DEF Unsettled
<1>2. <<>> \o Calling(op, lanes) = Calling(op, lanes)
  BY <1>1, ConcatEmptySeq
<1> QED
  BY <1>1, <1>2 DEF Recovering, Opens

LEMMA RunnerOpens ==
  ASSUME TypeOK, NEW l \in Lane, RunnerStep(l)
  PROVE  Quiet /\ Opens(agenda')
<1>1. Quiet
  BY DEF RunnerStep, RegisterProcess, TaskSucceeds, TaskThrows, TaskFails,
         FailedRunnerExits, RetryTimerFires, AcknowledgeIpcDeliveries,
         MarkRunnerQueryIdle, PreservingStopReturns, RestartReturns, RestartTimesOut
<1>2. CASE UNCHANGED agenda
  BY <1>1, <1>2 DEF Quiet, Opens
<1>3. CASE TaskSucceeds(l) \/ TaskThrows(l) \/ FailedRunnerExits(l)
  <2>1. groups[l] \in GroupState /\ ClearRetryTimer(groups[l]) \in GroupState
    BY ClearType DEF TypeOK
  <2> QED
    BY <1>3, <2>1, ExitOpens DEF TaskSucceeds, TaskThrows, FailedRunnerExits
<1>4. CASE RetryTimerFires(l)
  BY <1>2, <1>4, AdmitOpens DEF RetryTimerFires
<1>5. CASE MarkRunnerQueryIdle(l, FALSE)
  BY <1>5 DEF MarkRunnerQueryIdle, Opens
<1>6. CASE RestartReturns(l)
  BY <1>6 DEF RestartReturns, Opens
<1> QED
  BY <1>1, <1>2, <1>3, <1>4, <1>5, <1>6
     DEF RunnerStep, RegisterProcess, TaskFails, AcknowledgeIpcDeliveries,
         PreservingStopReturns, RestartTimesOut

LEMMA RequestOpens ==
  ASSUME TypeOK, InputRequest \/ StopRequest \/ MutationRequest
  PROVE  Quiet /\ Opens(agenda')
<1>1. Quiet /\ UNCHANGED agenda => Opens(agenda')
  BY DEF Quiet, Opens
<1>2. CASE InputRequest
  <2>1. \A l \in Lane : \A t : EnqueueTask(l, t) => Quiet /\ Opens(agenda')
    BY AdmitOpens DEF EnqueueTask
  <2>2. \A l : MarkRunnerQueryIdle(l, TRUE) => Quiet /\ Opens(agenda')
    BY DEF MarkRunnerQueryIdle, Opens
  <2> QED
    BY <1>1, <1>2, <2>1, <2>2
       DEF InputRequest, SendMessage, ReserveNextQuery, ReleaseQueryReservation
<1>3. CASE StopRequest
  BY <1>1, <1>3 DEF StopRequest, StopGroup, InterruptQuery, StopArmedRetry,
         RestartGroup, RetireRunnerAfterQuery, RequestDrain, Shutdown
<1>4. CASE MutationRequest
  <2>1. ASSUME NEW k, ResumeGroups(k)
        PROVE  Quiet /\ Opens(agenda')
    <3> DEFINE released == LanesOf(ReleasedBy(k))
               free     == {l \in released : heldLanes[l] = 0}
    <3>1. released \in SUBSET Lane /\ free \in SUBSET Lane
      BY DEF LanesOf
    <3>2. \/ agenda' = <<>>
          \/ agenda' = Recovering(free) \o Calling("resumeGroups", released)
      BY <2>1 DEF ResumeGroups
    <3>3. Opens(<<>>)
      BY DEF Opens
    <3> HIDE DEF released, free
    <3> QED
      BY <2>1, <3>1, <3>2, <3>3, RecoveringOpens DEF ResumeGroups
  <2>2. ASSUME NEW l \in Lane, ReleaseLane(l)
        PROVE  Quiet /\ Opens(agenda')
    <3>1. {l} \in SUBSET Lane
      OBVIOUS
    <3>2. \/ agenda' = <<>>
          \/ agenda' = Recovering({l}) \o Calling("releaseLane", {l})
      BY <2>2 DEF ReleaseLane
    <3>3. Opens(<<>>)
      BY DEF Opens
    <3> QED
      BY <2>2, <3>1, <3>2, <3>3, RecoveringOpens DEF ReleaseLane
  <2>3. ASSUME NEW l \in Lane, DiscardHeldLane(l)
        PROVE  Quiet /\ Opens(agenda')
    <3>1. waitingGroups' \in SUBSET Lane
      BY <2>3 DEF DiscardHeldLane, TypeOK
    <3> QED
      BY <2>3, <3>1 DEF DiscardHeldLane, DrainWaiting, Opens
  <2>4. ASSUME NEW w, NEW src, UnblockForSafety(w, src)
        PROVE  Quiet /\ Opens(agenda')
    <3>1. waitingGroups' \in SUBSET Lane
      BY <2>4 DEF UnblockForSafety, LanesOf, TypeOK
    <3> QED
      BY <2>4, <3>1 DEF UnblockForSafety, DrainWaiting, Opens
  <2> QED
    BY <1>1, <1>4, <2>1, <2>2, <2>3, <2>4, HeldAssumption
       DEF MutationRequest, HeldAssumption, PauseGroups, DiscardGroups,
           BlockForSafety, HoldLane, PreservingStop, BeginDeferral, EndDeferral,
           DeferredStop
<1> QED
  BY <1>2, <1>3, <1>4

(* A step that pops no call opens a segment, or changes nothing.           *)
LEMMA OtherSteps ==
  ASSUME TypeOK, [Next]_vars, ~AgendaStep
  PROVE  UNCHANGED vars \/ (Quiet /\ Opens(agenda'))
BY RunnerOpens, RequestOpens DEF Next

-----------------------------------------------------------------------------
(* What becomes of the calls that are due.                                 *)

LEMMA PoppedCalls ==
  ASSUME TypeOK, AgendaStep
  PROVE  /\ Tail(agenda) \in Seq(Call) /\ Args \in SUBSET Lane
         /\ ToSet(agenda) = {Head(agenda)} \union ToSet(Tail(agenda))
         /\ \E new \in Seq(Call) :
              /\ Follows(new) /\ agenda' = new \o Tail(agenda)
              /\ ToSet(agenda') = ToSet(new) \union ToSet(Tail(agenda))
<1>1. PICK op : Running(op)
  BY DEF AgendaStep, DrainGroup, VisitWaiting, EndVisits, ReclaimIdleRunner,
         RecoverDeliveries, ReleasedLane, ResumedGroups, FinishRestart
<1>2. Tail(agenda) \in Seq(Call) /\ Args \in SUBSET Lane
  BY <1>1, PoppedType
<1> QED
  BY <1>1, <1>2, ToSetPop, AgendaFollows, ToSetConcat

LEMMA FollowingCalls ==
  ASSUME NEW new, Follows(new), NEW c \in ToSet(new)
  PROVE  c.op \in {"visit", "reclaim", "recover"}
<1>1. CASE new = <<>>
  BY <1>1, ToSetNone
<1>2. ASSUME NEW lanes \in SUBSET Lane, NEW op \in {"visit", "reclaim", "recover"},
             new = Calling(op, lanes)
      PROVE  c.op \in {"visit", "reclaim", "recover"}
  <2>1. c = [op |-> op, lanes |-> lanes]
    BY <1>2, ToSetOne
  <2> QED
    BY <2>1
<1>3. ASSUME NEW lanes \in SUBSET Lane, NEW one \in SUBSET Lane,
             new = Calling("reclaim", one) \o Calling("recover", lanes)
      PROVE  c.op \in {"visit", "reclaim", "recover"}
  <2>1. c \in {[op |-> "reclaim", lanes |-> one], [op |-> "recover", lanes |-> lanes]}
    BY <1>3, ToSetTwo
  <2> QED
    BY <2>1
<1> QED
  BY <1>1, <1>2, <1>3 DEF Follows

LEMMA OpenedCalls ==
  ASSUME NEW s, Opens(s), NEW c \in ToSet(s), c.op = "finishRestart"
  PROVE  \E l \in Lane : s = Calling("drainGroup", {l}) \o Calling("finishRestart", {l})
<1>1. s # <<>>
  BY ToSetNone
<1>2. ASSUME NEW lanes \in SUBSET Lane,
             NEW op \in {"drainGroup", "visit", "reclaim", "resumeGroups", "releaseLane"},
             s = Calling(op, lanes)
      PROVE  FALSE
  <2>1. c = [op |-> op, lanes |-> lanes]
    BY <1>2, ToSetOne
  <2> QED
    BY <2>1
<1>3. ASSUME NEW op \in {"resumeGroups", "releaseLane"},
             NEW owing \in SUBSET Lane, NEW lanes \in SUBSET Lane,
             s = Calling("recover", owing) \o Calling(op, lanes)
      PROVE  FALSE
  <2>1. c \in {[op |-> "recover", lanes |-> owing], [op |-> op, lanes |-> lanes]}
    BY <1>3, ToSetTwo
  <2> QED
    BY <2>1
<1> QED
  BY <1>1, <1>2, <1>3 DEF Opens

(* The restart of lane l is finished only after its drain.                 *)
LEMMA FinishMoves ==
  ASSUME TypeOK, [Next]_vars, NEW l \in Lane, FinishDue(l)'
  PROVE  FinishDue(l) \/ DrainDue(l)'
<1>1. PICK c \in ToSet(agenda') : c.op = "finishRestart" /\ l \in c.lanes
  BY DEF FinishDue
<1>2. CASE AgendaStep
  <2>1. PICK new \in Seq(Call) :
          /\ Follows(new)
          /\ ToSet(agenda') = ToSet(new) \union ToSet(Tail(agenda))
    BY <1>2, PoppedCalls
  <2>2. c \notin ToSet(new)
    BY <1>1, <2>1, FollowingCalls
  <2> QED
    BY <1>1, <1>2, <2>1, <2>2, PoppedCalls DEF FinishDue
<1>3. CASE UNCHANGED vars
  BY <1>1, <1>3 DEF vars, FinishDue
<1>4. CASE Quiet /\ Opens(agenda')
  <2>1. PICK r \in Lane :
          agenda' = Calling("drainGroup", {r}) \o Calling("finishRestart", {r})
    BY <1>1, <1>4, OpenedCalls
  <2>2. {r} \in SUBSET Lane
    OBVIOUS
  <2>3. ToSet(agenda')
          = {[op |-> "drainGroup", lanes |-> {r}], [op |-> "finishRestart", lanes |-> {r}]}
    BY <2>1, <2>2, ToSetTwo
  <2> QED
    BY <1>1, <2>3 DEF DrainDue
<1> QED
  BY <1>2, <1>3, <1>4, OtherSteps

(* A drain that is due takes place, and it starts the lane's next task,    *)
(* leaves the lane waiting or finds nothing to do.                         *)
LEMMA DrainMoves ==
  ASSUME TypeOK, [Next]_vars, NEW l \in Lane, DrainDue(l)
  PROVE  \/ DrainDue(l)' \/ shuttingDown \/ l \in waitingGroups'
         \/ groups'[l].pendingTasks = <<>>
         \/ groups'[l].active /\ ~groups'[l].stopRequested
<1> DEFINE due == [op |-> "drainGroup", lanes |-> {l}]
<1>1. due \in ToSet(agenda)
  BY DEF DrainDue
<1>2. CASE UNCHANGED vars
  BY <1>1, <1>2 DEF vars, DrainDue
<1>3. ~Quiet
  BY <1>1, ToSetNone DEF Quiet
<1>4. CASE AgendaStep /\ due # Head(agenda)
  BY <1>1, <1>4, PoppedCalls DEF DrainDue
<1>5. CASE AgendaStep /\ due = Head(agenda)
  <2>1. DrainGroup /\ Args = {l}
    <3>1. Head(agenda).op = "drainGroup" /\ Args = {l}
      BY <1>5 DEF Args
    <3>2. \A op : Running(op) => op = "drainGroup"
      BY <3>1 DEF Running
    <3> QED
      BY <1>5, <3>1, <3>2
         DEF AgendaStep, VisitWaiting, EndVisits, ReclaimIdleRunner,
             RecoverDeliveries, ReleasedLane, ResumedGroups, FinishRestart
  <2>2. groups[l] \in GroupState
    BY DEF TypeOK
  <2>3. \/ shuttingDown \/ l \in waitingGroups'
        \/ /\ groups[l].pendingTasks = <<>>
           /\ groups' = [groups EXCEPT ![l] = FreshGroup] \/ groups' = groups
        \/ /\ groups[l].pendingTasks # <<>>
           /\ RunTask(l, Head(groups[l].pendingTasks),
                      [groups[l] EXCEPT !.pendingTasks = Tail(@)])
    <3>1. PICK r \in {l} :
            \/ shuttingDown
            \/ waitingGroups' = waitingGroups \union
                  (IF groups[r].pendingTasks # <<>> THEN {r} ELSE {}) /\ groups' = groups
            \/ waitingGroups' = waitingGroups \union {r}
            \/ /\ groups[r].pendingTasks = <<>>
               /\ groups' = [groups EXCEPT ![r] = FreshGroup] \/ groups' = groups
            \/ /\ groups[r].pendingTasks # <<>>
               /\ RunTask(r, Head(groups[r].pendingTasks),
                          [groups[r] EXCEPT !.pendingTasks = Tail(@)])
      BY <2>1 DEF DrainGroup
    <3> QED
      BY <3>1
  <2>4. FreshGroup.pendingTasks = <<>>
    BY DEF FreshGroup
  <2>5. ASSUME groups[l].pendingTasks # <<>>,
               RunTask(l, Head(groups[l].pendingTasks),
                       [groups[l] EXCEPT !.pendingTasks = Tail(@)])
        PROVE  l \in waitingGroups' \/ (groups'[l].active /\ ~groups'[l].stopRequested)
    <3> DEFINE st == [groups[l] EXCEPT !.pendingTasks = Tail(@)]
               started == Started(st, Head(groups[l].pendingTasks))
    <3>1. st \in GroupState
      BY <2>2, <2>5, FirstTaskType
    <3>2. l \in waitingGroups' \/ groups' = [groups EXCEPT ![l] = started]
      BY <2>5 DEF RunTask
    <3> HIDE DEF st
    <3>3. started.active /\ ~started.stopRequested
      BY <3>1 DEF Started, GroupState
    <3> HIDE DEF started
    <3> QED
      BY <3>2, <3>3 DEF TypeOK
  <2> QED
    BY <2>3, <2>4, <2>5 DEF TypeOK
<1> QED
  BY <1>2, <1>3, <1>4, <1>5, OtherSteps

(* The shutdown drops every queue, and is never taken back.                *)
LEMMA HostMoves ==
  ASSUME TypeOK, [Next]_vars
  PROVE  /\ shuttingDown => shuttingDown'
         /\ shuttingDown' => \/ shuttingDown
                             \/ \A l \in Lane : groups'[l].pendingTasks = <<>>
<1>1. CASE UNCHANGED shuttingDown
  BY <1>1
<1>2. CASE Shutdown
  BY <1>2, DiscardFields DEF Shutdown, TypeOK
<1>3. AgendaStep => UNCHANGED shuttingDown
  BY DEF AgendaStep, DrainGroup, VisitWaiting, EndVisits, ReclaimIdleRunner,
         RecoverDeliveries, ReleasedLane, ResumedGroups, FinishRestart, modeVars
<1>4. \A l : RunnerStep(l) => UNCHANGED shuttingDown
  BY DEF RunnerStep, RegisterProcess, TaskSucceeds, TaskThrows, TaskFails,
         FailedRunnerExits, RunnerExits, RetryTimerFires, AcknowledgeIpcDeliveries,
         MarkRunnerQueryIdle, PreservingStopReturns, RestartReturns, RestartTimesOut,
         modeVars
<1>5. InputRequest => UNCHANGED shuttingDown
  BY DEF InputRequest, EnqueueTask, SendMessage, MarkRunnerQueryIdle,
         ReserveNextQuery, ReleaseQueryReservation, modeVars
<1>6. StopRequest => Shutdown \/ UNCHANGED shuttingDown
  BY DEF StopRequest, StopGroup, InterruptQuery, StopArmedRetry, RestartGroup,
         RetireRunnerAfterQuery, RequestDrain, modeVars
<1>7. MutationRequest => UNCHANGED shuttingDown
  BY DEF MutationRequest, PauseGroups, ResumeGroups, DiscardGroups, BlockForSafety,
         UnblockForSafety, HoldLane, ReleaseLane, DiscardHeldLane, ReleaseHold,
         PreservingStop, BeginDeferral, EndDeferral, DeferredStop, modeVars
<1> QED
  BY <1>1, <1>2, <1>3, <1>4, <1>5, <1>6, <1>7 DEF Next, vars, modeVars

-----------------------------------------------------------------------------
(* Queued work is never forgotten.  The inductive invariant: a lane with    *)
(* queued work waits, or will be drained when its runner exits, by a call  *)
(* of the agenda or when its restart returns.  A stopped runner's lane has *)
(* to wait already, since its exit drains nothing; and while the host      *)
(* shuts down drains start nothing, so a queue holds at most the task a    *)
(* preserving stop puts back.                                              *)

Minded(l) ==
  \/ l \in waitingGroups
  \/ IF groups[l].active THEN ~groups[l].stopRequested
     ELSE DrainDue(l) \/ (groups[l].restarting /\ ~FinishDue(l))

Down(l) ==
  shuttingDown =>
    /\ Len(groups[l].pendingTasks) <= 1
    /\ groups[l].pendingTasks # <<>> => l \in waitingGroups
    /\ groups[l].active => ToSet(groups[l].pendingTasks) \subseteq {groups[l].activeTask}

WaitInv == \A l \in Lane : Down(l) /\ (groups[l].pendingTasks # <<>> => Minded(l))

LEMMA MindedStep ==
  ASSUME TypeOK, WorkInv, WaitInv, [Next]_vars, NEW l \in Lane,
         groups'[l].pendingTasks # <<>>
  PROVE  Minded(l)'
<1> DEFINE o == groups[l]
           n == groups'[l]
<1>1. /\ o \in GroupState /\ n \in GroupState
      /\ o.pendingTasks \in Seq(Task)
  BY TypeStep DEF TypeOK, GroupState
<1>2. Down(l) /\ (o.pendingTasks # <<>> => Minded(l))
  BY DEF WaitInv
<1>3. LaneStep(l)
  BY StepLanes
<1>4. FinishDue(l)' => FinishDue(l) \/ DrainDue(l)'
  BY FinishMoves
<1>5. DrainDue(l) => \/ DrainDue(l)' \/ shuttingDown \/ l \in waitingGroups'
                     \/ n.active /\ ~n.stopRequested
  BY DrainMoves
<1>6. CASE Keeps(l)
  <2>1. /\ n.active = o.active /\ n.stopRequested = o.stopRequested
        /\ o.pendingTasks # <<>>
        /\ l \in waitingGroups => l \in waitingGroups'
        /\ o.restarting => n.restarting \/ o.active \/ FinishDue(l)
    BY <1>6 DEF Keeps, SameRunner
  <2> QED
    BY <1>2, <1>4, <1>5, <2>1 DEF Minded, Down
<1>7. CASE Joins(l) \/ Parks(l)
  BY <1>7 DEF Joins, Parks, Minded
<1>8. CASE Begins(l)
  BY <1>8 DEF Begins, Minded
<1>9. CASE Ends(l)
  <2>1. CASE o.restarting
    <3>1. n.restarting /\ ~n.active /\ agenda' = <<>>
      BY <1>9, <2>1 DEF Ends
    <3>2. ~FinishDue(l)'
      BY <3>1, ToSetNone DEF FinishDue
    <3> QED
      BY <3>1, <3>2 DEF Minded
  <2>2. CASE ~o.restarting /\ ~o.stopRequested
    <3>1. ~n.active /\ agenda' = Calling("drainGroup", {l})
      BY <1>9, <2>2 DEF Ends
    <3>2. DrainDue(l)'
      BY <3>1, ToSetOne DEF DrainDue
    <3> QED
      BY <3>1, <3>2 DEF Minded
  <2>3. CASE o.stopRequested
    <3>1. o.pendingTasks # <<>> => l \in waitingGroups
      BY <1>2, <1>9, <2>3 DEF Ends, Minded
    <3>2. l \in waitingGroups'
      BY <1>9, <3>1 DEF Ends
    <3> QED
      BY <3>2 DEF Minded
  <2> QED
    BY <2>1, <2>2, <2>3
<1>10. CASE Unqueues(l)
  <2>1. /\ ~o.active /\ ~n.active /\ (o.restarting => n.restarting)
        /\ l \in waitingGroups => l \in waitingGroups'
        /\ o.pendingTasks # <<>>
    <3>1. Len(n.pendingTasks) <= Len(o.pendingTasks) /\ n.pendingTasks \in Seq(Task)
      BY <1>1, <1>10 DEF Unqueues, GroupState
    <3> QED
      BY <1>1, <1>10, <3>1 DEF Unqueues, SameRunner
  <2> QED
    BY <1>2, <1>4, <1>5, <2>1 DEF Minded, Down
<1>11. ~Drops(l) /\ ~Forgets(l)
  BY DEF Drops, Forgets, FreshGroup
<1> QED
  BY <1>3, <1>6, <1>7, <1>8, <1>9, <1>10, <1>11 DEF LaneStep

LEMMA DownStep ==
  ASSUME TypeOK, WorkInv, WaitInv, [Next]_vars, NEW l \in Lane
  PROVE  Down(l)'
<1> DEFINE o == groups[l]
           n == groups'[l]
<1> SUFFICES ASSUME shuttingDown', n.pendingTasks # <<>>
             PROVE  /\ Len(n.pendingTasks) <= 1
                    /\ l \in waitingGroups'
                    /\ n.active => ToSet(n.pendingTasks) \subseteq {n.activeTask}
  BY SMTT(30) DEF Down, ToSet
<1>1. /\ o \in GroupState /\ n \in GroupState
      /\ o.pendingTasks \in Seq(Task) /\ n.pendingTasks \in Seq(Task)
  BY TypeStep DEF TypeOK, GroupState
<1>2. shuttingDown
  BY HostMoves
<1>3. /\ Len(o.pendingTasks) <= 1
      /\ o.pendingTasks # <<>> => l \in waitingGroups
      /\ o.active => ToSet(o.pendingTasks) \subseteq {o.activeTask}
  BY <1>2 DEF WaitInv, Down
<1>4. LaneStep(l)
  BY StepLanes
<1>5. /\ o.retryTask = NoTask
      /\ ~o.active => o.activeTask = NoTask
  BY <1>2 DEF WorkInv, LaneInv, RetryLive, TaskRuns
<1>6. ~Joins(l) /\ ~Drops(l) /\ ~Forgets(l)
  BY <1>2 DEF Joins, Drops, Forgets, FreshGroup, Refuses
<1>7. CASE Keeps(l)
  BY <1>3, <1>7 DEF Keeps, SameRunner
<1>8. CASE Begins(l)
  <2>1. o.pendingTasks # <<>> /\ n.pendingTasks = Tail(o.pendingTasks)
    BY <1>2, <1>8 DEF Begins, Refuses
  <2>2. Len(Tail(o.pendingTasks)) = Len(o.pendingTasks) - 1
    BY <1>1, <2>1
  <2> QED
    BY <1>1, <1>3, <2>1, <2>2
<1>9. CASE Ends(l)
  BY <1>2, <1>3, <1>9 DEF Ends, Refuses
<1>10. CASE Parks(l)
  <2> DEFINE t == IF o.activeTask # NoTask THEN o.activeTask ELSE o.retryTask
  <2>1. /\ n.active = o.active /\ n.activeTask = o.activeTask
        /\ l \in waitingGroups'
        /\ \/ n.pendingTasks = o.pendingTasks
           \/ t \in Task \ ToSet(o.pendingTasks) /\ n.pendingTasks = Cons(t, o.pendingTasks)
    BY <1>10 DEF Parks, SameRunner
  <2>2. CASE n.pendingTasks = o.pendingTasks
    BY <1>3, <2>1, <2>2
  <2>3. CASE t \in Task \ ToSet(o.pendingTasks) /\ n.pendingTasks = Cons(t, o.pendingTasks)
    <3>1. o.active /\ t = o.activeTask
      BY <1>5, <2>3, TaskAssumption DEF TaskAssumption
    <3>2. o.pendingTasks = <<>>
      <4>1. ToSet(o.pendingTasks) = {}
        BY <1>3, <2>3, <3>1
      <4> QED
        BY <1>1, <4>1, EmptyToSet
    <3>3. n.pendingTasks = <<t>>
      BY <2>3, <3>2 DEF Cons
    <3>4. ToSet(n.pendingTasks) = {t} /\ Len(n.pendingTasks) = 1
      BY <3>3 DEF ToSet
    <3> QED
      BY <2>1, <3>1, <3>4
  <2> QED
    BY <2>1, <2>2, <2>3
<1>11. CASE Unqueues(l)
  <2>1. o.pendingTasks # <<>>
    BY <1>1, <1>11 DEF Unqueues
  <2> QED
    BY <1>1, <1>3, <1>11, <2>1 DEF Unqueues, SameRunner
<1> QED
  BY <1>4, <1>6, <1>7, <1>8, <1>9, <1>10, <1>11 DEF LaneStep

LEMMA WaitStep == TypeOK /\ WorkInv /\ WaitInv /\ [Next]_vars => WaitInv'
<1> SUFFICES ASSUME TypeOK, WorkInv, WaitInv, [Next]_vars, NEW l \in Lane
             PROVE  Down(l)' /\ (groups'[l].pendingTasks # <<>> => Minded(l)')
  BY DEF WaitInv
<1> QED
  BY DownStep, MindedStep

LEMMA InitWait == Init => WaitInv
BY DEF Init, WaitInv, Down, FreshGroup

(* Between two segments every lane with queued work runs, waits or is      *)
(* restarting: no admission, exit, stop, retry, gate or shutdown forgets    *)
(* one.                                                                    *)
THEOREM WorkRemembered == Spec => []QueuedLanesWait
<1>1. WaitInv => QueuedLanesWait
  <2> SUFFICES ASSUME WaitInv, Quiet, NEW l \in Lane, groups[l].pendingTasks # <<>>
               PROVE  groups[l].active \/ l \in waitingGroups \/ groups[l].restarting
    BY DEF QueuedLanesWait
  <2>1. ~DrainDue(l)
    BY ToSetNone DEF DrainDue, Quiet
  <2> QED
    BY <2>1 DEF WaitInv, Minded
<1> QED
  BY <1>1, InitWait, WaitStep, InitWork, WorkStep, TypeCorrect, PTL DEF Spec

-----------------------------------------------------------------------------
(* Deliveries are never stranded.  What a lane without a runner owes is    *)
(* owed under a gate of its own, or its replay is a call of the agenda that *)
(* is made before any runner can start.                                    *)

RecoverFirst ==
  \A i \in DOMAIN agenda : agenda[i].op = "recover" =>
    i = 1 \/ (i = 2 /\ agenda[1].op = "reclaim")

(* Only lanes of HeldLane are held, and a preserving stop lasts no longer  *)
(* than the gate it was called under.                                      *)
GateInv ==
  /\ \A l \in Lane : heldLanes[l] > 0 => l \in HeldLane
  /\ \A l \in preserveStops : GateOwned(l)

Owes(l) ==
  groups[l].ipcOwed =>
    IF groups[l].active THEN groups[l].registered
    ELSE GateOwned(l) \/ RecoverDue(l)

OwedInv == RecoverFirst /\ GateInv /\ \A l \in Lane : Owes(l)

LEMMA OpensRecoverFirst ==
  ASSUME TypeOK, Opens(agenda')
  PROVE  RecoverFirst'
<1>1. CASE agenda' = <<>>
  BY <1>1 DEF RecoverFirst
<1>2. ASSUME NEW lanes, NEW op, agenda' = Calling(op, lanes)
      PROVE  RecoverFirst'
  BY <1>2 DEF RecoverFirst, Calling
<1>3. ASSUME NEW p, NEW q, NEW a, NEW b, q # "recover",
             agenda' = Calling(p, a) \o Calling(q, b)
      PROVE  RecoverFirst'
  BY <1>3 DEF RecoverFirst, Calling
<1> QED
  BY <1>1, <1>2, <1>3 DEF Opens

LEMMA RecoverFirstStep ==
  ASSUME TypeOK, RecoverFirst, [Next]_vars
  PROVE  RecoverFirst'
<1>1. CASE UNCHANGED vars
  BY <1>1 DEF vars, RecoverFirst
<1>2. CASE Quiet /\ Opens(agenda')
  BY <1>2, OpensRecoverFirst
<1>3. CASE AgendaStep
  <2> DEFINE rest == Tail(agenda)
  <2>1. agenda \in Seq(Call) /\ agenda # <<>> /\ rest \in Seq(Call)
    BY <1>3, PoppedCalls
       DEF TypeOK, AgendaStep, DrainGroup, VisitWaiting, EndVisits, ReclaimIdleRunner,
           RecoverDeliveries, ReleasedLane, ResumedGroups, FinishRestart, Running, Quiet
  <2>2. \A i \in 1..Len(rest) : i + 1 \in DOMAIN agenda /\ rest[i] = agenda[i + 1]
    BY <2>1
  <2>3. PICK new \in Seq(Call) : Follows(new) /\ agenda' = new \o rest
    BY <1>3, PoppedCalls
  <2> HIDE DEF rest
  <2>4. \A i \in 1..Len(rest) : rest[i].op = "recover" => i = 1 /\ Running("reclaim")
    <3> SUFFICES ASSUME NEW i \in 1..Len(rest), rest[i].op = "recover"
                 PROVE  i = 1 /\ Running("reclaim")
      OBVIOUS
    <3>1. i + 1 \in DOMAIN agenda /\ agenda[i + 1].op = "recover"
      BY <2>2
    <3>2. i + 1 = 2 /\ agenda[1].op = "reclaim"
      BY <3>1 DEF RecoverFirst
    <3> QED
      BY <2>1, <3>2 DEF Running, Quiet
  <2>5. CASE Running("reclaim")
    <3>1. agenda' = rest
      BY <1>3, <2>5 DEF rest, AgendaStep, Running, DrainGroup, VisitWaiting, EndVisits,
         ReclaimIdleRunner, RecoverDeliveries, ReleasedLane, ResumedGroups,
         FinishRestart
    <3> QED
      BY <2>1, <2>4, <3>1 DEF RecoverFirst
  <2>6. CASE ~Running("reclaim")
    <3>1. \A i \in 1..Len(rest) : rest[i].op # "recover"
      BY <2>4, <2>6
    <3>2. \A i \in 1..Len(new \o rest) :
            (new \o rest)[i] = IF i <= Len(new) THEN new[i] ELSE rest[i - Len(new)]
      BY <2>1, <2>3
    <3>3. \A i \in 1..Len(new) : new[i].op = "recover" =>
            i = 1 \/ (i = 2 /\ new[1].op = "reclaim")
      <4>1. CASE new = <<>>
        BY <4>1
      <4>2. ASSUME NEW op, NEW lanes, new = Calling(op, lanes)
            PROVE  \A i \in 1..Len(new) : i = 1
        BY <4>2 DEF Calling
      <4>3. ASSUME NEW one, NEW lanes,
                   new = Calling("reclaim", one) \o Calling("recover", lanes)
            PROVE  \A i \in 1..Len(new) : i = 1 \/ (i = 2 /\ new[1].op = "reclaim")
        BY <4>3 DEF Calling
      <4> QED
        BY <2>3, <4>1, <4>2, <4>3 DEF Follows
    <3>4. ASSUME NEW i \in 1..Len(new \o rest), (new \o rest)[i].op = "recover"
          PROVE  i = 1 \/ (i = 2 /\ (new \o rest)[1].op = "reclaim")
      <4>1. Len(new) \in Nat /\ Len(rest) \in Nat /\ Len(new \o rest) = Len(new) + Len(rest)
        BY <2>1, <2>3
      <4>2. i <= Len(new)
        <5> SUFFICES ASSUME i > Len(new) PROVE FALSE
          BY <4>1
        <5>1. i - Len(new) \in 1..Len(rest)
          BY <4>1
        <5> QED
          BY <3>1, <3>2, <3>4, <4>1, <5>1
      <4> QED
        BY <3>2, <3>3, <3>4, <4>1, <4>2
    <3> QED
      <4>1. new \o rest \in Seq(Call) /\ DOMAIN (new \o rest) = 1..Len(new \o rest)
        BY <2>1, <2>3
      <4> QED
        BY <2>3, <3>4, <4>1 DEF RecoverFirst
  <2> QED
    BY <2>5, <2>6
<1> QED
  BY <1>1, <1>2, <1>3, OtherSteps

(* A replay that is due takes place, and takes the debt away.              *)
LEMMA RecoverMoves ==
  ASSUME TypeOK, [Next]_vars, NEW l \in Lane, RecoverDue(l)
  PROVE  RecoverDue(l)' \/ ~groups'[l].ipcOwed
<1>1. PICK c \in ToSet(agenda) : c.op = "recover" /\ l \in c.lanes
  BY DEF RecoverDue
<1>2. CASE UNCHANGED vars
  BY <1>2 DEF vars, RecoverDue
<1>3. ~Quiet
  BY <1>1, ToSetNone DEF Quiet
<1>4. CASE AgendaStep /\ c # Head(agenda)
  BY <1>1, <1>4, PoppedCalls DEF RecoverDue
<1>5. CASE AgendaStep /\ c = Head(agenda)
  <2>1. RecoverDeliveries /\ l \in Args
    <3>1. Head(agenda).op = "recover" /\ l \in Args
      BY <1>1, <1>5 DEF Args
    <3>2. \A op : Running(op) => op = "recover"
      BY <3>1 DEF Running
    <3> QED
      BY <1>5, <3>1, <3>2
         DEF AgendaStep, DrainGroup, VisitWaiting, EndVisits, ReclaimIdleRunner,
             ReleasedLane, ResumedGroups, FinishRestart
  <2> DEFINE settled(r) == [groups[r] EXCEPT !.ipcOwed = FALSE]
             left(r) == (IF Args = {r} THEN <<>> ELSE Calling("recover", Args \ {r}))
                          \o Tail(agenda)
  <2>2. PICK r \in Args :
          \/ groups' = [groups EXCEPT ![r] = settled(r)] /\ agenda' = left(r)
          \/ Admit(r, RecoveryTask, settled(r), left(r))
    BY <2>1 DEF RecoverDeliveries
  <2>3. /\ r \in Lane /\ Args \in SUBSET Lane /\ Tail(agenda) \in Seq(Call)
        /\ groups[r] \in GroupState
    BY <1>5, <2>2, PoppedCalls DEF TypeOK
  <2>4. settled(r) \in GroupState /\ settled(r).ipcOwed = FALSE
    BY <2>3, OwedType DEF GroupState
  <2>5. CASE r = l
    <3> HIDE DEF settled, left
    <3>1. CASE groups' = [groups EXCEPT ![r] = settled(r)]
      BY <2>3, <2>4, <2>5, <3>1 DEF TypeOK
    <3>2. CASE Admit(r, RecoveryTask, settled(r), left(r)) /\ MustWait(r)
      <4> DEFINE own == [settled(r) EXCEPT !.pendingTasks = Append(@, RecoveryTask)]
      <4>1. groups'[r] = own \/ groups'[r] = RetireAfterQuery(own)
        BY <2>3, <3>2 DEF Admit, Queued
      <4>2. Append(settled(r).pendingTasks, RecoveryTask) \in Seq(Task)
        BY <2>4, TaskAssumption DEF TaskAssumption, GroupState
      <4>3. own \in GroupState /\ own.ipcOwed = FALSE
        BY <2>4, <4>2, PendingType DEF GroupState
      <4> HIDE DEF own
      <4> QED
        BY <2>5, <4>1, <4>3 DEF RetireAfterQuery, GroupState
    <3>3. CASE Admit(r, RecoveryTask, settled(r), left(r)) /\ ~MustWait(r)
      <4> DEFINE back    == [settled(r) EXCEPT !.pendingTasks = Cons(RecoveryTask, @)]
                 started == Started(settled(r), RecoveryTask)
      <4>1. groups' = [groups EXCEPT ![r] = back] \/ groups' = [groups EXCEPT ![r] = started]
        BY <3>3 DEF Admit, RunTask
      <4>2. back.ipcOwed = FALSE /\ started.ipcOwed = FALSE
        BY <2>4 DEF Started, GroupState
      <4> HIDE DEF back, started
      <4> QED
        BY <2>3, <2>5, <4>1, <4>2 DEF TypeOK
    <3> QED
      BY <2>2, <3>1, <3>2, <3>3
  <2>6. CASE r # l
    <3> DEFINE rest == Calling("recover", Args \ {r})
    <3>1. rest \in Seq(Call) /\ Calling("reclaim", {r}) \in Seq(Call)
      BY <2>3, CallingType
    <3>2. left(r) = rest \o Tail(agenda)
      BY <2>1, <2>6
    <3>3. /\ rest \o Tail(agenda) \in Seq(Call)
          /\ ToSet(rest) \subseteq ToSet(rest \o Tail(agenda))
      BY <2>3, <3>1, ConcatProperties, ToSetConcat
    <3>4. \/ agenda' = left(r) \/ agenda' = <<>> \o left(r)
          \/ agenda' = Calling("reclaim", {r}) \o left(r)
      <4> HIDE DEF settled, left
      <4> QED
        BY <2>2, <2>3, AdmitFollows
    <3>5. ToSet(rest) \subseteq ToSet(agenda')
      <4> DEFINE all == rest \o Tail(agenda)
      <4>1. all \in Seq(Call) /\ ToSet(rest) \subseteq ToSet(all) /\ left(r) = all
        BY <3>2, <3>3
      <4>2. \/ agenda' = all \/ agenda' = <<>> \o all
            \/ agenda' = Calling("reclaim", {r}) \o all
        BY <3>4, <4>1
      <4> HIDE DEF rest, all, left
      <4>3. <<>> \o all = all
        BY <4>1
      <4>4. ToSet(Calling("reclaim", {r}) \o all)
              = ToSet(Calling("reclaim", {r})) \union ToSet(all)
        BY <3>1, <4>1, ToSetConcat
      <4> QED
        BY <4>1, <4>2, <4>3, <4>4
    <3>6. [op |-> "recover", lanes |-> Args \ {r}] \in ToSet(agenda')
      <4>1. Args \ {r} \in SUBSET Lane
        BY <2>3
      <4>2. ToSet(rest) = {[op |-> "recover", lanes |-> Args \ {r}]}
        BY <4>1, ToSetOne
      <4> QED
        BY <3>5, <4>2
    <3> QED
      BY <2>1, <2>6, <3>6 DEF RecoverDue
  <2> QED
    BY <2>5, <2>6
<1> QED
  BY <1>2, <1>3, <1>4, <1>5, OtherSteps

-----------------------------------------------------------------------------
(* Steps that move a gate or begin a preserving stop, and all others.      *)

GateStep ==
  \/ \E k \in Token :
       \/ \E ws \in SUBSET Workspace : PauseGroups(k, ws)
       \/ ResumeGroups(k)
       \/ DiscardGroups(k)
  \/ \E l \in HeldLane :
       \/ HoldLane(l) \/ ReleaseLane(l)
       \/ DiscardHeldLane(l)

SameGates == UNCHANGED <<heldLanes, mutationPauseTokens>>

LEMMA GateSteps ==
  ASSUME [Next]_vars
  PROVE  \/ GateStep
         \/ SameGates /\ preserveStops' \subseteq preserveStops
         \/ SameGates /\ \E l \in Lane : PreservingStop(l)
<1>1. CASE UNCHANGED vars
  BY <1>1 DEF vars, gateVars, modeVars, SameGates
<1>2. CASE AgendaStep
  BY <1>2 DEF AgendaStep, DrainGroup, VisitWaiting, EndVisits, ReclaimIdleRunner,
     RecoverDeliveries, ReleasedLane, ResumedGroups, FinishRestart, gateVars,
     modeVars, SameGates
<1>3. ASSUME NEW l \in Lane, RunnerStep(l)
      PROVE  SameGates /\ preserveStops' \subseteq preserveStops
  BY <1>3 DEF RunnerStep, RegisterProcess, TaskSucceeds, TaskThrows, TaskFails,
     FailedRunnerExits, RunnerExits, RetryTimerFires, AcknowledgeIpcDeliveries,
     MarkRunnerQueryIdle, PreservingStopReturns, RestartReturns, RestartTimesOut,
     gateVars, modeVars, SameGates
<1>4. CASE InputRequest
  BY <1>4 DEF InputRequest, EnqueueTask, SendMessage, MarkRunnerQueryIdle,
     ReserveNextQuery, ReleaseQueryReservation, gateVars, modeVars, SameGates
<1>5. CASE StopRequest
  BY <1>5 DEF StopRequest, StopGroup, InterruptQuery, StopArmedRetry, RestartGroup,
     RetireRunnerAfterQuery, RequestDrain, Shutdown, gateVars, modeVars, SameGates
<1>6. CASE MutationRequest
  <2>1. CASE \E w \in Workspace, src \in Source :
               BlockForSafety(w, src) \/ UnblockForSafety(w, src)
    BY <2>1 DEF BlockForSafety, UnblockForSafety, modeVars, SameGates
  <2>2. CASE \E l \in DeferredLane :
               BeginDeferral(l) \/ EndDeferral(l) \/ DeferredStop(l)
    BY <2>2 DEF BeginDeferral, EndDeferral, DeferredStop, gateVars, modeVars, SameGates
  <2>3. CASE \E l \in Lane : PreservingStop(l)
    BY <2>3 DEF PreservingStop, gateVars, SameGates
  <2>4. CASE GateStep
    BY <2>4
  <2> QED
    BY <1>6, <2>1, <2>2, <2>3, <2>4 DEF MutationRequest, GateStep
<1> QED
  BY <1>1, <1>2, <1>3, <1>4, <1>5, <1>6 DEF Next

(* A token that ends leaves a lane's gate on unless it was the last one.   *)
LEMMA TokenEnds ==
  ASSUME TypeOK, NEW k \in Token, NEW l \in Lane, GateOwned(l),
         mutationPauseTokens' = [mutationPauseTokens EXCEPT ![k] = {}],
         UNCHANGED heldLanes, ~GateOwned(l)'
  PROVE  heldLanes[l] = 0 /\ WorkspaceOf[l] \in ReleasedBy(k)
<1>1. heldLanes[l] \in Nat /\ mutationPauseTokens \in [Token -> SUBSET Workspace]
  BY DEF TypeOK
<1>2. heldLanes[l] = 0 /\ TokenPaused(l) /\ ~TokenPaused(l)'
  BY <1>1 DEF GateOwned
<1>3. \A j \in Token \ {k} : WorkspaceOf[l] \notin mutationPauseTokens[j]
  BY <1>1, <1>2 DEF TokenPaused
<1> QED
  BY <1>2, <1>3 DEF TokenPaused, ReleasedBy

(* A hold that ends leaves the lane's gate on unless it was the last one.  *)
LEMMA HoldEnds ==
  ASSUME TypeOK, NEW h \in HeldLane, NEW l \in Lane, GateOwned(l),
         heldLanes[h] > 0, ReleaseHold(h), ~GateOwned(l)'
  PROVE  l = h /\ heldLanes[h] = 1
<1>1. /\ heldLanes \in [Lane -> Nat] /\ h \in Lane
      /\ heldLanes' = [heldLanes EXCEPT ![h] = @ - 1]
      /\ UNCHANGED mutationPauseTokens
  BY HeldAssumption DEF HeldAssumption, TypeOK, ReleaseHold
<1>2. heldLanes[l] > 0 /\ ~(heldLanes'[l] > 0)
  BY <1>1 DEF GateOwned, TokenPaused
<1> QED
  BY <1>1, <1>2

(* What takes the last gate of its own off a lane.                         *)
LEMMA GateGoes ==
  ASSUME TypeOK, [Next]_vars, NEW l \in Lane, GateOwned(l), ~GateOwned(l)'
  PROVE  \/ \E k \in Token :
              /\ ResumeGroups(k) \/ DiscardGroups(k)
              /\ heldLanes[l] = 0 /\ WorkspaceOf[l] \in ReleasedBy(k)
         \/ /\ ReleaseLane(l) \/ DiscardHeldLane(l)
            /\ heldLanes[l] = 1
<1>1. ~SameGates
  BY DEF SameGates, GateOwned, TokenPaused
<1>2. GateStep
  BY <1>1, GateSteps
<1>3. ASSUME NEW k \in Token, NEW ws \in SUBSET Workspace, PauseGroups(k, ws)
      PROVE  FALSE
  <2>1. TokenPaused(l)
    BY <1>3 DEF PauseGroups, GateOwned
  <2>2. PICK j \in Token : WorkspaceOf[l] \in mutationPauseTokens[j]
    BY <2>1 DEF TokenPaused
  <2>3. WorkspaceOf[l] \in mutationPauseTokens'[j]
    BY <1>3, <2>2 DEF PauseGroups, TypeOK
  <2> QED
    BY <2>3 DEF GateOwned, TokenPaused
<1>4. ASSUME NEW k \in Token, ResumeGroups(k) \/ DiscardGroups(k)
      PROVE  heldLanes[l] = 0 /\ WorkspaceOf[l] \in ReleasedBy(k)
  BY <1>4, TokenEnds DEF ResumeGroups, DiscardGroups
<1>5. ASSUME NEW h \in HeldLane, HoldLane(h)
      PROVE  FALSE
  <2>1. /\ heldLanes \in [Lane -> Nat] /\ h \in Lane
        /\ heldLanes' = [heldLanes EXCEPT ![h] = @ + 1]
        /\ UNCHANGED mutationPauseTokens
    BY <1>5, HeldAssumption DEF HeldAssumption, HoldLane, TypeOK
  <2>2. heldLanes[l] > 0 => heldLanes'[l] > 0
    BY <2>1
  <2> QED
    BY <2>1, <2>2 DEF GateOwned, TokenPaused
<1>6. ASSUME NEW h \in HeldLane, ReleaseLane(h) \/ DiscardHeldLane(h)
      PROVE  l = h /\ heldLanes[h] = 1
  BY <1>6, HoldEnds DEF ReleaseLane, DiscardHeldLane
<1> QED
  BY <1>2, <1>3, <1>4, <1>5, <1>6 DEF GateStep

(* A deletion takes the work and the deliveries of its lanes.              *)
LEMMA DeletionTakes ==
  ASSUME TypeOK, NEW l \in Lane,
         \/ DiscardHeldLane(l)
         \/ \E k \in Token : DiscardGroups(k) /\ WorkspaceOf[l] \in ReleasedBy(k)
  PROVE  groups'[l].pendingTasks = <<>> /\ ~groups'[l].ipcOwed
<1>1. groups'[l] = [DiscardWork(groups[l]) EXCEPT !.ipcOwed = FALSE]
  BY DEF DiscardHeldLane, DiscardGroups, ReleasedBy, LanesOf, TypeOK
<1>2. DiscardWork(groups[l]) \in GroupState /\ DiscardWork(groups[l]).pendingTasks = <<>>
  BY DiscardType, DiscardFields DEF TypeOK
<1> QED
  BY <1>1, <1>2 DEF GroupState

(* A gate that goes while its lane, without a runner, still owes           *)
(* deliveries replays them in the same segment.                            *)
LEMMA GateMoves ==
  ASSUME TypeOK, [Next]_vars, NEW l \in Lane, GateOwned(l), ~GateOwned(l)',
         ~groups[l].active, groups'[l].ipcOwed
  PROVE  RecoverDue(l)'
<1>0. \A lanes \in SUBSET Lane : Unsettled(lanes) \in SUBSET Lane
  BY DEF Unsettled
<1>1. ASSUME NEW k \in Token, ResumeGroups(k), heldLanes[l] = 0,
             WorkspaceOf[l] \in ReleasedBy(k)
      PROVE  RecoverDue(l)'
  <2> DEFINE released == LanesOf(ReleasedBy(k))
             free     == {r \in released : heldLanes[r] = 0}
  <2>1. /\ l \in free /\ ReleasedBy(k) # {} /\ UNCHANGED groups
        /\ free \in SUBSET Lane /\ released \in SUBSET Lane
    BY <1>1 DEF LanesOf, ResumeGroups
  <2>2. agenda' = Recovering(free) \o Calling("resumeGroups", released)
    BY <1>1, <2>1 DEF ResumeGroups
  <2> HIDE DEF released, free
  <2>3. l \in Unsettled(free)
    BY <2>1 DEF Unsettled
  <2>4. agenda' = Calling("recover", Unsettled(free)) \o Calling("resumeGroups", released)
    BY <2>2, <2>3 DEF Recovering
  <2>5. [op |-> "recover", lanes |-> Unsettled(free)] \in ToSet(agenda')
    BY <1>0, <2>1, <2>4, ToSetTwo
  <2> QED
    BY <2>3, <2>5 DEF RecoverDue
<1>2. ASSUME ReleaseLane(l), heldLanes[l] = 1
      PROVE  RecoverDue(l)'
  <2>1. UNCHANGED groups /\ agenda' = Recovering({l}) \o Calling("releaseLane", {l})
    BY <1>2 DEF ReleaseLane
  <2>2. l \in Unsettled({l})
    BY <2>1 DEF Unsettled
  <2>3. agenda' = Calling("recover", Unsettled({l})) \o Calling("releaseLane", {l})
    BY <2>1, <2>2 DEF Recovering
  <2>4. [op |-> "recover", lanes |-> Unsettled({l})] \in ToSet(agenda')
    BY <1>0, <2>3, ToSetTwo
  <2> QED
    BY <2>2, <2>4 DEF RecoverDue
<1> QED
  BY <1>1, <1>2, GateGoes, DeletionTakes

(* Lanes of one serialization key are behind the same callers' gates.      *)
LEMMA GateShared ==
  ASSUME GateInv, NEW l \in Lane, GateOwned(l), NEW r \in Runners(l)
  PROVE  GateOwned(r)
<1>1. r \in Lane /\ KeyOf[r] = KeyOf[l]
  BY DEF Runners
<1>2. WorkspaceOf[r] = WorkspaceOf[l]
  BY <1>1, LaneAssumption DEF LaneAssumption
<1>3. heldLanes[l] > 0 => r = l
  BY <1>1, HeldAssumption DEF HeldAssumption, GateInv
<1> QED
  BY <1>2, <1>3 DEF GateOwned, TokenPaused

LEMMA GateInvStep ==
  ASSUME TypeOK, GateInv, [Next]_vars
  PROVE  GateInv'
<1>0. /\ heldLanes \in [Lane -> Nat] /\ HeldLane \subseteq Lane
      /\ mutationPauseTokens \in [Token -> SUBSET Workspace]
      /\ preserveStops \subseteq Lane
      /\ GateInv
  BY HeldAssumption DEF HeldAssumption, TypeOK
<1>1. CASE SameGates /\ preserveStops' \subseteq preserveStops
  BY <1>0, <1>1 DEF SameGates, GateInv, GateOwned, TokenPaused
<1>2. ASSUME SameGates, NEW l \in Lane, PreservingStop(l)
      PROVE  GateInv'
  <2>1. GateOwned(l) /\ preserveStops' \subseteq preserveStops \union Runners(l)
    BY <1>2 DEF PreservingStop
  <2>2. \A r \in Runners(l) : GateOwned(r)
    BY <2>1, GateShared
  <2>3. \A r \in preserveStops' : GateOwned(r)
    BY <1>0, <2>1, <2>2 DEF GateInv
  <2> QED
    BY <1>0, <1>2, <2>3 DEF SameGates, GateInv, GateOwned, TokenPaused
<1>3. ASSUME NEW k \in Token, NEW ws \in SUBSET Workspace, PauseGroups(k, ws)
      PROVE  GateInv'
  <2>1. UNCHANGED <<heldLanes, preserveStops>>
    BY <1>3 DEF PauseGroups, modeVars
  <2>2. \A j \in Token : mutationPauseTokens[j] \subseteq mutationPauseTokens'[j]
    BY <1>0, <1>3 DEF PauseGroups
  <2> QED
    BY <1>0, <2>1, <2>2 DEF GateInv, GateOwned, TokenPaused
<1>4. ASSUME NEW k \in Token, ResumeGroups(k)
      PROVE  GateInv'
  <2>1. UNCHANGED <<heldLanes, preserveStops>>
    BY <1>4 DEF ResumeGroups, modeVars
  <2>2. ASSUME NEW l \in preserveStops, ~GateOwned(l)'
        PROVE  FALSE
    <3>1. heldLanes[l] = 0 /\ WorkspaceOf[l] \in ReleasedBy(k)
      BY <1>0, <1>4, <2>2, TokenEnds DEF GateInv, ResumeGroups
    <3>2. l \in {r \in LanesOf(ReleasedBy(k)) : heldLanes[r] = 0}
      BY <1>0, <3>1 DEF LanesOf
    <3> QED
      BY <1>4, <3>2 DEF ResumeGroups, StopsReturned
  <2> QED
    BY <1>0, <2>1, <2>2 DEF GateInv
<1>5. ASSUME NEW k \in Token, DiscardGroups(k)
      PROVE  GateInv'
  <2>1. /\ UNCHANGED heldLanes
        /\ preserveStops' = preserveStops \ LanesOf(mutationPauseTokens[k])
    BY <1>5 DEF DiscardGroups
  <2>2. ASSUME NEW l \in preserveStops', ~GateOwned(l)'
        PROVE  FALSE
    <3>1. WorkspaceOf[l] \in ReleasedBy(k)
      BY <1>0, <1>5, <2>1, <2>2, TokenEnds DEF GateInv, DiscardGroups
    <3> QED
      BY <1>0, <2>1, <3>1 DEF ReleasedBy, LanesOf
  <2> QED
    BY <1>0, <2>1, <2>2 DEF GateInv
<1>6. ASSUME NEW h \in HeldLane, HoldLane(h)
      PROVE  GateInv'
  <2>1. /\ heldLanes' = [heldLanes EXCEPT ![h] = @ + 1] /\ h \in Lane
        /\ UNCHANGED <<mutationPauseTokens, preserveStops>>
    BY <1>0, <1>6 DEF HoldLane, modeVars
  <2>2. \A l \in Lane : /\ heldLanes[l] > 0 => heldLanes'[l] > 0
                        /\ heldLanes'[l] > 0 => l = h \/ heldLanes[l] > 0
    BY <1>0, <2>1
  <2> QED
    BY <1>0, <2>1, <2>2 DEF GateInv, GateOwned, TokenPaused
<1>7. ASSUME NEW h \in HeldLane, heldLanes[h] > 0, ReleaseHold(h)
      PROVE  GateInv'
  <2>1. /\ heldLanes' = [heldLanes EXCEPT ![h] = @ - 1] /\ h \in Lane
        /\ preserveStops' \subseteq preserveStops
        /\ heldLanes[h] = 1 => h \notin preserveStops'
    BY <1>0, <1>7 DEF ReleaseHold
  <2>2. \A l \in Lane : heldLanes'[l] > 0 => heldLanes[l] > 0
    BY <1>0, <2>1
  <2>3. \A l \in preserveStops' : GateOwned(l)'
    BY <1>0, <1>7, <2>1, HoldEnds DEF GateInv
  <2> QED
    BY <1>0, <2>2, <2>3 DEF GateInv
<1>8. ASSUME GateStep
      PROVE  GateInv'
  BY <1>3, <1>4, <1>5, <1>6, <1>7, <1>8 DEF GateStep, ReleaseLane, DiscardHeldLane
<1> QED
  BY <1>1, <1>2, <1>8, GateSteps

LEMMA OwesStep ==
  ASSUME TypeOK, WorkInv, OwedInv, [Next]_vars, NEW l \in Lane
  PROVE  Owes(l)'
<1> DEFINE o == groups[l]
           n == groups'[l]
<1> SUFFICES ASSUME n.ipcOwed
             PROVE  IF n.active THEN n.registered ELSE GateOwned(l)' \/ RecoverDue(l)'
  BY DEF Owes
<1>1. o \in GroupState /\ n \in GroupState
  BY TypeStep DEF TypeOK
<1>2. o.ipcOwed => IF o.active THEN o.registered ELSE GateOwned(l) \/ RecoverDue(l)
  BY DEF OwedInv, Owes
<1>3. LaneStep(l)
  BY StepLanes
<1>4. ASSUME ~o.active, o.ipcOwed
      PROVE  GateOwned(l)' \/ RecoverDue(l)'
  BY <1>2, <1>4, GateMoves, RecoverMoves
<1>5. CASE SameRunner(o, n) /\ (o.ipcOwed \/ (o.active /\ o.registered))
  BY <1>2, <1>4, <1>5 DEF SameRunner
<1>6. CASE Begins(l)
  <2>1. /\ ~o.active /\ o.ipcOwed /\ ~Paused(l)
        /\ ~Running("recover") /\ ~Running("reclaim")
    BY <1>6 DEF Begins
  <2>2. RecoverDue(l)
    BY <1>2, <2>1 DEF Paused, GateOwned
  <2>3. PICK i \in DOMAIN agenda : agenda[i].op = "recover"
    <3>1. agenda \in Seq(Call)
      BY DEF TypeOK
    <3> QED
      BY <2>2, <3>1 DEF RecoverDue, ToSet
  <2>4. agenda # <<>> /\ Head(agenda) = agenda[1]
    BY <2>3 DEF TypeOK
  <2>5. agenda[1].op \in {"recover", "reclaim"}
    BY <2>3 DEF OwedInv, RecoverFirst
  <2> QED
    BY <2>1, <2>4, <2>5 DEF Running, Quiet
<1>7. CASE Ends(l)
  <2>1. /\ o.active /\ ~n.active /\ o.ipcOwed /\ (o.registered => l \in preserveStops)
        /\ UNCHANGED gateVars
    BY <1>7 DEF Ends
  <2>2. GateOwned(l)
    BY <1>2, <2>1 DEF OwedInv, GateInv
  <2> QED
    BY <2>1, <2>2 DEF GateOwned, TokenPaused, gateVars
<1>8. Keeps(l) => SameRunner(o, n) /\ (o.ipcOwed \/ (o.active /\ o.registered))
  BY DEF Keeps
<1>9. Joins(l) \/ Drops(l) \/ Parks(l) \/ Unqueues(l) => SameRunner(o, n) /\ o.ipcOwed
  <2>1. n.ipcOwed = o.ipcOwed => o.ipcOwed
    OBVIOUS
  <2> QED
    BY <2>1 DEF Joins, Drops, Parks, Unqueues
<1>10. ~Forgets(l)
  BY DEF Forgets, FreshGroup
<1> HIDE DEF o, n
<1> QED
  BY <1>3, <1>5, <1>6, <1>7, <1>8, <1>9, <1>10 DEF LaneStep

(* What a stopped runner left unacknowledged is replayed or abandoned when *)
(* the mutation that stopped it ends, never forgotten: between two         *)
(* segments a lane without a runner owes deliveries only under a gate.     *)
THEOREM DeliveriesKept == Spec => []NoDeliveryStranded
<1>1. Init => OwedInv
  BY DEF Init, OwedInv, RecoverFirst, GateInv, Owes, FreshGroup
<1>2. TypeOK /\ WorkInv /\ OwedInv /\ [Next]_vars => OwedInv'
  BY RecoverFirstStep, GateInvStep, OwesStep DEF OwedInv
<1>3. OwedInv => NoDeliveryStranded
  <2> SUFFICES ASSUME OwedInv, Quiet, NEW l \in Lane, groups[l].ipcOwed,
                      ~groups[l].active
               PROVE  GateOwned(l)
    BY DEF NoDeliveryStranded
  <2>1. ~RecoverDue(l)
    BY ToSetNone DEF RecoverDue, Quiet
  <2> QED
    BY <2>1 DEF OwedInv, Owes
<1> QED
  BY <1>1, <1>2, <1>3, InitWork, WorkStep, TypeCorrect, PTL DEF Spec

-----------------------------------------------------------------------------
(* The shutdown is final.  It empties every queue, refuses what is admitted *)
(* later and disarms the timers; only a preserving stop still puts a task  *)
(* back, which the end of its gate starts.                                 *)

DownIsEmpty == shuttingDown => \A l \in Lane : groups[l].pendingTasks = <<>>

(* No mutation stops a runner once the host shuts down.                    *)
NoStopWhileDown == [][shuttingDown => \A l \in Lane : ~PreservingStop(l)]_vars

LEMMA DownIsEmptyStep ==
  ASSUME TypeOK, WorkInv, DownIsEmpty, [Next]_vars,
         [shuttingDown => \A l \in Lane : ~PreservingStop(l)]_vars,
         shuttingDown, NEW l \in Lane
  PROVE  /\ groups'[l].pendingTasks = <<>>
         /\ groups'[l].active => groups[l].active
<1> DEFINE o == groups[l]
           n == groups'[l]
<1>1. o.pendingTasks = <<>> /\ n.pendingTasks \in Seq(Task)
  BY TypeStep DEF DownIsEmpty, TypeOK, GroupState
<1>2. CASE UNCHANGED vars
  BY <1>1, <1>2 DEF vars
<1>3. CASE ~UNCHANGED vars
  <2>1. LaneStep(l) /\ ~Parks(l)
    BY <1>3, StepLanes DEF Parks
  <2>2. \A t : Refuses(l, t)
    BY DEF Refuses
  <2>3. ~Joins(l) /\ ~Begins(l)
    BY <1>1, <2>2 DEF Joins, Begins
  <2>4. Ends(l) => n.pendingTasks = <<>> /\ ~n.active
    BY <1>1, <2>2 DEF Ends
  <2>5. Keeps(l) \/ Drops(l) => n.pendingTasks = <<>> /\ n.active = o.active
    BY <1>1 DEF Keeps, Drops, SameRunner
  <2>6. Unqueues(l) => n.pendingTasks = <<>> /\ n.active = o.active
    <3> SUFFICES ASSUME Unqueues(l) PROVE n.pendingTasks = <<>> /\ n.active = o.active
      OBVIOUS
    <3>1. n.active = o.active /\ Len(n.pendingTasks) <= Len(o.pendingTasks)
      BY DEF Unqueues, SameRunner
    <3>2. Len(o.pendingTasks) = 0
      BY <1>1
    <3> QED
      BY <1>1, <3>1, <3>2
  <2>7. Forgets(l) => n.pendingTasks = <<>> /\ ~n.active
    BY DEF Forgets, FreshGroup
  <2> HIDE DEF o, n
  <2>8. n.pendingTasks = <<>> /\ (n.active => o.active)
    BY <2>1, <2>3, <2>4, <2>5, <2>6, <2>7 DEF LaneStep
  <2> QED
    BY <2>8 DEF o, n
<1> QED
  BY <1>2, <1>3

LEMMA DownEmpty == Spec /\ NoStopWhileDown => []DownIsEmpty
<1>1. Init => DownIsEmpty
  BY DEF Init, DownIsEmpty
<1>2. /\ TypeOK /\ WorkInv /\ DownIsEmpty /\ [Next]_vars
      /\ [shuttingDown => \A l \in Lane : ~PreservingStop(l)]_vars
      => DownIsEmpty'
  <2> SUFFICES ASSUME TypeOK, WorkInv, DownIsEmpty, [Next]_vars,
                      [shuttingDown => \A l \in Lane : ~PreservingStop(l)]_vars,
                      shuttingDown'
               PROVE  \A l \in Lane : groups'[l].pendingTasks = <<>>
    BY DEF DownIsEmpty
  <2> QED
    BY HostMoves, DownIsEmptyStep
<1> QED
  BY <1>1, <1>2, InitWork, WorkStep, TypeCorrect, PTL DEF Spec, NoStopWhileDown

(* Once the host shuts down no runner starts, unless a mutation still stops *)
(* one and keeps its work: enqueues, drains, retry timers, restarts and    *)
(* recoveries all start nothing.                                           *)
THEOREM ShutdownIsFinal == Spec /\ NoStopWhileDown => ShutdownStartsNothing
<1>1. /\ TypeOK /\ WorkInv /\ DownIsEmpty /\ [Next]_vars
      /\ [shuttingDown => \A l \in Lane : ~PreservingStop(l)]_vars
      => [\A l \in Lane : shuttingDown /\ groups[l].active' => groups[l].active]_vars
  <2> SUFFICES ASSUME TypeOK, WorkInv, DownIsEmpty, [Next]_vars,
                      [shuttingDown => \A l \in Lane : ~PreservingStop(l)]_vars,
                      NEW l \in Lane, shuttingDown, groups'[l].active
               PROVE  groups[l].active
    OBVIOUS
  <2> QED
    BY DownIsEmptyStep
<1> QED
  BY <1>1, DownEmpty, InitWork, WorkStep, TypeCorrect, PTL
     DEF Spec, NoStopWhileDown, ShutdownStartsNothing

-----------------------------------------------------------------------------
(* The queue is work-conserving.  MustWait is a gate or a crowd: what the   *)
(* lanes of A that have runners leave no room for.                         *)

Crowded(l, A) ==
  \/ \E r \in A : KeyOf[r] = KeyOf[l]
  \/ /\ l \notin HostLane
     /\ \/ Cardinality(A \ HostLane) >= MaxContainers
        \/ Cardinality({r \in A : OwnerOf[r] = OwnerOf[l]}) >= UserLimit[OwnerOf[l]]

(* Calls that offer the free slots to l, or will once its gate is down.    *)
OfferDue(l) ==
  \E c \in ToSet(agenda) :
    c.op \in {"visit", "resumeGroups", "releaseLane"} /\ l \in c.lanes

(* A drain that finds no slot for its lane.                                *)
NoRoom(m) == Runners(m) \ {m} # {} \/ ~HasCapacityFor(m)

(* Lanes whose slot is spoken for: by a drain that is due, or by a restart *)
(* that waits for nothing else to drain its lane.                          *)
Claimed ==
  {m \in Lane : DrainDue(m) \/ (groups[m].restarting /\ ~groups[m].active /\ ~FinishDue(m))}

(* Lanes that may all have runners at once, as far as keys and users go.   *)
Legal(C) ==
  /\ \A a, b \in C : KeyOf[a] = KeyOf[b] => a = b
  /\ \A u \in User : Cardinality({r \in C \ HostLane : OwnerOf[r] = u}) <= UserLimit[u]

(* Whoever has work waits behind a gate, is about to be offered a slot, or *)
(* waits behind a crowd of runners and of lanes that speak for a slot.     *)
Placed(l) ==
  \/ Paused(l) \/ OfferDue(l)
  \/ \E C \in SUBSET (Occupied \union Claimed) : Legal(C) /\ Crowded(l, C)

(* A runner that was stopped, but did not exit yet, is behind a gate.      *)
StopInv ==
  \A l \in Lane : groups[l].active /\ groups[l].stopRequested => GateOwned(l)

(* A drain is of one lane, and the first call of its segment.              *)
DrainInv ==
  /\ Running("drainGroup") => \E m \in Lane : Args = {m}
  /\ ~Quiet => \A c \in ToSet(Tail(agenda)) : c.op # "drainGroup"

OfferInv == \A l \in Lane : groups[l].pendingTasks # <<>> => Placed(l)

StrandInv == StopInv /\ DrainInv /\ OfferInv

(* No user has both host and container lanes, and the lanes of one         *)
(* conversation are one user's.                                            *)
SeparateOwners ==
  /\ \A h \in HostLane, l \in Lane \ HostLane : OwnerOf[h] # OwnerOf[l]
  /\ \A a, b \in Lane : KeyOf[a] = KeyOf[b] => OwnerOf[a] = OwnerOf[b]

LEMMA OccupiedFinite ==
  /\ Occupied \subseteq Lane
  /\ \A A \in SUBSET Lane : IsFiniteSet(A)
BY FS_Subset, LaneAssumption DEF LaneAssumption, Occupied

LEMMA WaitsInCrowd ==
  ASSUME TypeOK, CapacityRespected, NEW l \in Lane
  PROVE  MustWait(l) <=> Paused(l) \/ Crowded(l, Occupied)
<1>1. Runners(l) # {} <=> \E r \in Occupied : KeyOf[r] = KeyOf[l]
  BY DEF Runners, Occupied
<1>2. /\ {r \in Lane \ HostLane : groups[r].active} = Occupied \ HostLane
      /\ ActiveOf(OwnerOf[l]) = {r \in Occupied : OwnerOf[r] = OwnerOf[l]}
  BY DEF Occupied, ActiveOf
<1>3. activeContainerCount = Cardinality(Occupied \ HostLane)
  BY <1>2 DEF CapacityRespected
<1>4. Cardinality({r \in Occupied : OwnerOf[r] = OwnerOf[l]}) \in Nat
  BY OccupiedFinite, FS_CardinalityType
<1>5. UserLimit[OwnerOf[l]] \in Nat
  BY LimitAssumption, LaneAssumption DEF LimitAssumption, LaneAssumption
<1>6. ~HasCapacityFor(l) <=>
        /\ l \notin HostLane
        /\ \/ Cardinality(Occupied \ HostLane) >= MaxContainers
           \/ Cardinality({r \in Occupied : OwnerOf[r] = OwnerOf[l]})
                >= UserLimit[OwnerOf[l]]
  <2> DEFINE mine == Cardinality({r \in Occupied : OwnerOf[r] = OwnerOf[l]})
             most == UserLimit[OwnerOf[l]]
  <2>1. HasCapacityFor(l) <=> l \in HostLane \/ (~GlobalAtLimit /\ mine < most)
    BY <1>2 DEF HasCapacityFor, UserAllows
  <2>2. GlobalAtLimit <=> Cardinality(Occupied \ HostLane) >= MaxContainers
    BY <1>3 DEF GlobalAtLimit
  <2>3. mine \in Nat /\ most \in Nat
    BY <1>4, <1>5
  <2> HIDE DEF mine, most
  <2>4. ~(mine < most) <=> mine >= most
    BY <2>3
  <2> QED
    BY <2>1, <2>2, <2>4 DEF mine, most
<1> QED
  BY <1>1, <1>6 DEF MustWait, Crowded

(* More runners make no more room.                                         *)
LEMMA CrowdGrows ==
  ASSUME NEW A \in SUBSET Lane, NEW B \in SUBSET Lane, A \subseteq B,
         NEW l \in Lane, Crowded(l, A)
  PROVE  Crowded(l, B)
<1> DEFINE mine(C) == {r \in C : OwnerOf[r] = OwnerOf[l]}
<1>1. /\ IsFiniteSet(B \ HostLane) /\ A \ HostLane \subseteq B \ HostLane
      /\ IsFiniteSet(mine(B)) /\ mine(A) \subseteq mine(B)
  BY OccupiedFinite
<1>2. /\ Cardinality(A \ HostLane) <= Cardinality(B \ HostLane)
      /\ Cardinality(A \ HostLane) \in Nat /\ Cardinality(B \ HostLane) \in Nat
  BY <1>1, FS_Subset, FS_CardinalityType
<1>3. /\ Cardinality(mine(A)) <= Cardinality(mine(B))
      /\ Cardinality(mine(A)) \in Nat /\ Cardinality(mine(B)) \in Nat
  <2> HIDE DEF mine
  <2> QED
    BY <1>1, FS_Subset, FS_CardinalityType
<1>4. MaxContainers \in Nat /\ UserLimit[OwnerOf[l]] \in Nat
  BY LimitAssumption, LaneAssumption DEF LimitAssumption, LaneAssumption
<1>5. Cardinality(A \ HostLane) >= MaxContainers => Cardinality(B \ HostLane) >= MaxContainers
  BY <1>2, <1>4
<1>6. Cardinality(mine(A)) >= UserLimit[OwnerOf[l]]
        => Cardinality(mine(B)) >= UserLimit[OwnerOf[l]]
  BY <1>3, <1>4
<1> QED
  BY <1>5, <1>6 DEF Crowded
LEMMA OccupiedLegal ==
  ASSUME CapacityRespected, OneRunnerPerKey, SeparateOwners
  PROVE  Legal(Occupied)
<1>1. \A a, b \in Occupied : KeyOf[a] = KeyOf[b] => a = b
  BY DEF OneRunnerPerKey, Occupied
<1>2. ASSUME NEW u \in User
      PROVE  Cardinality({r \in Occupied \ HostLane : OwnerOf[r] = u}) <= UserLimit[u]
  <2> DEFINE mine == {r \in Occupied \ HostLane : OwnerOf[r] = u}
  <2>1. UserLimit[u] \in Nat
    BY LimitAssumption DEF LimitAssumption
  <2>2. mine \subseteq ActiveOf(u) /\ ActiveOf(u) \in SUBSET Lane
    BY DEF ActiveOf, Occupied
  <2>3. CASE \A h \in HostLane : OwnerOf[h] # u
    <3>1. Cardinality(ActiveOf(u)) <= UserLimit[u]
      BY <2>3 DEF CapacityRespected
    <3> HIDE DEF mine
    <3>2. /\ Cardinality(mine) <= Cardinality(ActiveOf(u))
          /\ Cardinality(mine) \in Nat /\ Cardinality(ActiveOf(u)) \in Nat
      BY <2>2, OccupiedFinite, FS_Subset, FS_CardinalityType
    <3>3. Cardinality(mine) <= UserLimit[u]
      BY <2>1, <3>1, <3>2
    <3> QED
      BY <3>3 DEF mine
  <2>4. CASE \E h \in HostLane : OwnerOf[h] = u
    <3>1. mine = {}
      BY <2>4 DEF SeparateOwners, Occupied
    <3> QED
      BY <2>1, <3>1, FS_EmptySet
  <2> QED
    BY <2>3, <2>4
<1> QED
  BY <1>1, <1>2 DEF Legal

LEMMA LegalShrinks ==
  ASSUME NEW C \in SUBSET Lane, Legal(C), NEW D \in SUBSET C
  PROVE  Legal(D)
<1>1. ASSUME NEW u \in User
      PROVE  Cardinality({r \in D \ HostLane : OwnerOf[r] = u}) <= UserLimit[u]
  <2> DEFINE mine(A) == {r \in A \ HostLane : OwnerOf[r] = u}
  <2>1. mine(D) \subseteq mine(C) /\ mine(C) \in SUBSET Lane
    OBVIOUS
  <2>2. Cardinality(mine(C)) <= UserLimit[u] /\ UserLimit[u] \in Nat
    BY LimitAssumption DEF LimitAssumption, Legal
  <2> HIDE DEF mine
  <2>3. /\ Cardinality(mine(D)) <= Cardinality(mine(C))
        /\ Cardinality(mine(D)) \in Nat /\ Cardinality(mine(C)) \in Nat
    BY <2>1, OccupiedFinite, FS_Subset, FS_CardinalityType
  <2>4. Cardinality(mine(D)) <= UserLimit[u]
    BY <2>2, <2>3
  <2> QED
    BY <2>4 DEF mine
<1> QED
  BY <1>1 DEF Legal

(* A lane that runs, or whose slot is spoken for, is in a crowd of its own. *)
LEMMA SpokenFor ==
  ASSUME NEW l \in (Occupied \union Claimed)'
  PROVE  Placed(l)'
<1> DEFINE u == OwnerOf[l]
<1>1. l \in Lane /\ u \in User /\ UserLimit[u] \in Nat
  BY LimitAssumption, LaneAssumption
     DEF LimitAssumption, LaneAssumption, Occupied, Claimed
<1>2. \A v \in User : UserLimit[v] \in Nat
  BY LimitAssumption DEF LimitAssumption
<1>3. CASE l \in HostLane \/ UserLimit[u] >= 1
  <2>1. ASSUME NEW v \in User
        PROVE  Cardinality({r \in {l} \ HostLane : OwnerOf[r] = v}) <= UserLimit[v]
    <3>1. CASE l \notin HostLane /\ u = v
      <4>1. {r \in {l} \ HostLane : OwnerOf[r] = v} = {l}
        BY <3>1
      <4> QED
        BY <1>1, <1>3, <3>1, <4>1, FS_Singleton
    <3>2. CASE l \in HostLane \/ u # v
      <4>1. {r \in {l} \ HostLane : OwnerOf[r] = v} = {}
        BY <3>2
      <4> QED
        BY <1>2, <4>1, FS_EmptySet
    <3> QED
      BY <3>1, <3>2
  <2>2. Legal({l}) /\ Crowded(l, {l}) /\ {l} \in SUBSET (Occupied \union Claimed)'
    BY <2>1 DEF Legal, Crowded
  <2> QED
    BY <2>2 DEF Placed
<1>4. CASE l \notin HostLane /\ UserLimit[u] = 0
  <2>1. \A v : {r \in {} \ HostLane : OwnerOf[r] = v} = {}
    OBVIOUS
  <2>2. {r \in {} : OwnerOf[r] = u} = {} /\ Cardinality({}) = 0
    BY FS_EmptySet
  <2>3. Legal({})
    BY <1>2, <2>1, <2>2 DEF Legal
  <2>4. Crowded(l, {})
    BY <1>4, <2>2 DEF Crowded
  <2> QED
    BY <2>3, <2>4 DEF Placed
<1> QED
  BY <1>1, <1>3, <1>4

-----------------------------------------------------------------------------
(* A lane that finds no room for its runner may leave the crowd: the lanes *)
(* that took its key, its user's slots or the pool make up for it.         *)

LEMMA SwapCount ==
  ASSUME NEW S \in SUBSET Lane, NEW m, NEW r \in Lane \ S, NEW T,
         T = IF m \in S THEN (S \ {m}) \union {r} ELSE S
  PROVE  Cardinality(T) = Cardinality(S)
<1>1. CASE m \notin S
  BY <1>1
<1>2. CASE m \in S
  <2>1. IsFiniteSet(S) /\ Cardinality(S) \in Nat
    BY OccupiedFinite, FS_CardinalityType
  <2>2. IsFiniteSet(S \ {m}) /\ Cardinality(S \ {m}) = Cardinality(S) - 1
    BY <1>2, <2>1, FS_RemoveElement
  <2>3. Cardinality((S \ {m}) \union {r}) = Cardinality(S \ {m}) + 1
    BY <2>2, FS_AddElement
  <2> QED
    BY <1>2, <2>1, <2>2, <2>3
<1> QED
  BY <1>1, <1>2

LEMMA DisjointCount ==
  ASSUME NEW S \in SUBSET Lane, NEW T \in SUBSET Lane, S \cap T = {}
  PROVE  Cardinality(S \union T) = Cardinality(S) + Cardinality(T)
<1>1. /\ IsFiniteSet(S) /\ IsFiniteSet(T)
      /\ Cardinality(S) \in Nat /\ Cardinality(T) \in Nat
  BY OccupiedFinite, FS_CardinalityType
<1>2. Cardinality(S \union T) = Cardinality(S) + Cardinality(T) - Cardinality(S \cap T)
  BY <1>1, FS_Union
<1>3. Cardinality(S \cap T) = 0
  BY FS_EmptySet
<1> QED
  BY <1>1, <1>2, <1>3

LEMMA KeySwap ==
  ASSUME SeparateOwners, NEW C \in SUBSET Lane, Legal(C),
         NEW m \in C, NEW r \in Lane \ {m}, KeyOf[r] = KeyOf[m],
         NEW l \in Lane, Crowded(l, C)
  PROVE  Legal((C \ {m}) \union {r}) /\ Crowded(l, (C \ {m}) \union {r})
<1> DEFINE D == (C \ {m}) \union {r}
           mine(A, u) == {x \in A : OwnerOf[x] = u}
<1>1. r \notin C
  BY DEF Legal
<1>2. OwnerOf[r] = OwnerOf[m] /\ (r \in HostLane <=> m \in HostLane)
  BY LaneAssumption DEF LaneAssumption, SeparateOwners
<1>3. Cardinality(D \ HostLane) = Cardinality(C \ HostLane)
  <2> DEFINE had == C \ HostLane
  <2>1. D \ HostLane = IF m \in had THEN (had \ {m}) \union {r} ELSE had
    BY <1>1, <1>2
  <2>2. r \in Lane \ had /\ had \in SUBSET Lane
    BY <1>1
  <2> HIDE DEF D, had
  <2> DEFINE has == D \ HostLane
  <2>3. has = IF m \in had THEN (had \ {m}) \union {r} ELSE had
    BY <2>1
  <2> HIDE DEF has
  <2>4. Cardinality(has) = Cardinality(had)
    BY <2>2, <2>3, SwapCount
  <2> QED
    BY <2>4 DEF had, has
<1>4. \A u : Cardinality(mine(D, u)) = Cardinality(mine(C, u))
  <2> TAKE u
  <2>1. mine(D, u) = IF m \in mine(C, u) THEN (mine(C, u) \ {m}) \union {r} ELSE mine(C, u)
    BY <1>1, <1>2
  <2>2. r \in Lane \ mine(C, u) /\ mine(C, u) \in SUBSET Lane
    BY <1>1
  <2> HIDE DEF D, mine
  <2> QED
    BY <2>1, <2>2, SwapCount
<1>5. \A u : Cardinality(mine(D \ HostLane, u)) = Cardinality(mine(C \ HostLane, u))
  <2> TAKE u
  <2> DEFINE had == mine(C \ HostLane, u)
  <2>1. mine(D \ HostLane, u) = IF m \in had THEN (had \ {m}) \union {r} ELSE had
    BY <1>1, <1>2
  <2>2. r \in Lane \ had /\ had \in SUBSET Lane
    BY <1>1
  <2> HIDE DEF D, mine, had
  <2>3. Cardinality(mine(D \ HostLane, u)) = Cardinality(had)
    BY <2>1, <2>2, SwapCount
  <2> QED
    BY <2>3 DEF had
<1>6. \A a, b \in D : KeyOf[a] = KeyOf[b] => a = b
  BY DEF Legal
<1>7. Legal(D)
  BY <1>5, <1>6 DEF Legal
<1>8. (\E x \in C : KeyOf[x] = KeyOf[l]) => \E x \in D : KeyOf[x] = KeyOf[l]
  OBVIOUS
<1> HIDE DEF D
<1>9. Crowded(l, D)
  BY <1>3, <1>4, <1>8 DEF Crowded
<1> QED
  BY <1>7, <1>9 DEF D

(* The user of m has no slot left: the lanes of the crowd that are not     *)
(* that user's, and all runners that are, crowd the pool as well.          *)
LEMMA UserSwap ==
  ASSUME CapacityRespected, OneRunnerPerKey, SeparateOwners,
         NEW C \in SUBSET Lane, Legal(C), NEW u \in User,
         \A h \in HostLane : OwnerOf[h] # u,
         Cardinality(ActiveOf(u)) >= UserLimit[u],
         Cardinality(C \ HostLane) >= MaxContainers,
         NEW l \in Lane \ HostLane
  PROVE  LET D == {x \in C : OwnerOf[x] # u} \union ActiveOf(u)
         IN  Legal(D) /\ Crowded(l, D)
<1> DEFINE D      == {x \in C : OwnerOf[x] # u} \union ActiveOf(u)
           others == {x \in C \ HostLane : OwnerOf[x] # u}
           his    == {x \in C \ HostLane : OwnerOf[x] = u}
<1>1. /\ MaxContainers \in Nat /\ \A v \in User : UserLimit[v] \in Nat
      /\ ActiveOf(u) \in SUBSET Lane /\ ActiveOf(u) \subseteq Occupied
  BY LimitAssumption DEF LimitAssumption, ActiveOf, Occupied
<1>2. /\ C \ HostLane = others \union his /\ others \cap his = {}
      /\ D \ HostLane = others \union ActiveOf(u) /\ others \cap ActiveOf(u) = {}
  BY DEF ActiveOf
<1>3. Cardinality(his) <= UserLimit[u] /\ others \in SUBSET Lane /\ his \in SUBSET Lane
  BY DEF Legal
<1>4. ASSUME NEW v \in User
      PROVE  Cardinality({x \in D \ HostLane : OwnerOf[x] = v}) <= UserLimit[v]
  <2>1. CASE v = u
    <3>1. {x \in D \ HostLane : OwnerOf[x] = v} = {x \in Occupied \ HostLane : OwnerOf[x] = v}
      BY <2>1 DEF ActiveOf, Occupied
    <3>2. Legal(Occupied)
      BY OccupiedLegal
    <3> QED
      BY <3>1, <3>2 DEF Legal
  <2>2. CASE v # u
    <3>1. {x \in D \ HostLane : OwnerOf[x] = v} = {x \in C \ HostLane : OwnerOf[x] = v}
      BY <2>2 DEF ActiveOf
    <3> QED
      BY <3>1 DEF Legal
  <2> QED
    BY <2>1, <2>2
<1>5. ASSUME NEW a \in D, NEW b \in D, KeyOf[a] = KeyOf[b]
      PROVE  a = b
  <2>1. a \in Lane /\ b \in Lane /\ OwnerOf[a] = OwnerOf[b]
    BY <1>1, <1>5 DEF SeparateOwners
  <2>2. CASE OwnerOf[a] = u
    <3>1. a \in Occupied /\ b \in Occupied
      BY <1>1, <2>1, <2>2
    <3> QED
      BY <1>5, <3>1, OccupiedLegal DEF Legal
  <2>3. CASE OwnerOf[a] # u
    <3>1. a \in C /\ b \in C
      BY <2>1, <2>3 DEF ActiveOf
    <3> QED
      BY <1>5, <3>1 DEF Legal
  <2> QED
    BY <2>2, <2>3
<1>6. Legal(D)
  <2> HIDE DEF D
  <2> QED
    BY <1>4, <1>5 DEF Legal
<1> HIDE DEF others, his, D
<1>7. Cardinality(D \ HostLane) >= MaxContainers
  <2>1. /\ Cardinality(others) \in Nat /\ Cardinality(his) \in Nat
        /\ Cardinality(ActiveOf(u)) \in Nat
    BY <1>1, <1>3, OccupiedFinite, FS_CardinalityType
  <2>2. Cardinality(others \union his) = Cardinality(others) + Cardinality(his)
    BY <1>2, <1>3, DisjointCount
  <2>3. Cardinality(others \union ActiveOf(u))
          = Cardinality(others) + Cardinality(ActiveOf(u))
    BY <1>1, <1>2, <1>3, DisjointCount
  <2>4. Cardinality(his) <= Cardinality(ActiveOf(u))
    BY <1>1, <1>3, <2>1
  <2>5. Cardinality(others \union his) >= MaxContainers
    BY <1>2, Zenon
  <2>6. Cardinality(others \union ActiveOf(u)) >= MaxContainers
    BY <1>1, <2>1, <2>2, <2>3, <2>4, <2>5
  <2> QED
    BY <1>2, <2>6, Zenon
<1>8. Crowded(l, D)
  BY <1>7 DEF Crowded
<1> QED
  BY <1>6, <1>8 DEF D

LEMMA CrowdKept ==
  ASSUME TypeOK, CapacityRespected, OneRunnerPerKey, SeparateOwners,
         NEW C \in SUBSET Lane, Legal(C), NEW m \in C \ Occupied, NoRoom(m),
         NEW l \in Lane, Crowded(l, C)
  PROVE  \E D \in SUBSET (Occupied \union (C \ {m})) : Legal(D) /\ Crowded(l, D)
<1>0. /\ Legal(Occupied) /\ Legal(C \ {m}) /\ m \in Lane
      /\ C \ {m} \in SUBSET Lane
  BY OccupiedLegal, LegalShrinks
<1>1. CASE Runners(m) \ {m} # {}
  <2>1. PICK r \in Occupied \ {m} : KeyOf[r] = KeyOf[m]
    BY <1>1 DEF Runners, Occupied
  <2>2. r \in Lane \ {m}
    BY <2>1 DEF Occupied
  <2>3. Legal((C \ {m}) \union {r}) /\ Crowded(l, (C \ {m}) \union {r})
    BY <2>1, <2>2, KeySwap
  <2> QED
    BY <2>1, <2>3
<1>2. CASE m \notin HostLane /\ GlobalAtLimit
  <2>1. CASE l \notin HostLane
    <3>1. activeContainerCount = Cardinality(Occupied \ HostLane)
      <4>1. {x \in Lane \ HostLane : groups[x].active} = Occupied \ HostLane
        BY DEF Occupied
      <4> QED
        BY <4>1 DEF CapacityRespected
    <3>2. Crowded(l, Occupied)
      BY <1>2, <2>1, <3>1 DEF GlobalAtLimit, Crowded
    <3> QED
      BY <1>0, <3>2
  <2>2. CASE l \in HostLane
    <3>1. PICK a \in C : KeyOf[a] = KeyOf[l]
      BY <2>2 DEF Crowded
    <3>2. a # m
      BY <1>2, <2>2, <3>1, LaneAssumption DEF LaneAssumption
    <3>3. Crowded(l, C \ {m})
      BY <3>1, <3>2 DEF Crowded
    <3> QED
      BY <1>0, <3>3
  <2> QED
    BY <2>1, <2>2
<1>3. CASE m \notin HostLane /\ ~UserAllows(m)
  <2> DEFINE u == OwnerOf[m]
  <2>1. /\ u \in User /\ UserLimit[u] \in Nat
        /\ ActiveOf(u) \in SUBSET Lane /\ ActiveOf(u) = {x \in Occupied : OwnerOf[x] = u}
    BY <1>0, LimitAssumption, LaneAssumption
       DEF LimitAssumption, LaneAssumption, ActiveOf, Occupied
  <2>2. Cardinality(ActiveOf(u)) >= UserLimit[u]
    <3>1. Cardinality(ActiveOf(u)) \in Nat
      BY <2>1, OccupiedFinite, FS_CardinalityType
    <3> QED
      BY <1>3, <2>1, <3>1 DEF UserAllows
  <2>3. \A h \in HostLane : OwnerOf[h] # u
    BY <1>0, <1>3 DEF SeparateOwners
  <2>4. CASE OwnerOf[l] = u /\ l \notin HostLane
    <3>1. Crowded(l, Occupied)
      BY <2>1, <2>2, <2>4 DEF Crowded
    <3> QED
      BY <1>0, <3>1
  <2>5. CASE \E a \in C : KeyOf[a] = KeyOf[l] /\ OwnerOf[l] # u
    <3>1. PICK a \in C \ {m} : KeyOf[a] = KeyOf[l]
      BY <1>0, <2>5 DEF SeparateOwners
    <3>2. Crowded(l, C \ {m})
      BY <3>1 DEF Crowded
    <3> QED
      BY <1>0, <3>2
  <2>6. CASE l \notin HostLane /\ Cardinality(C \ HostLane) >= MaxContainers
    <3> DEFINE D == {x \in C : OwnerOf[x] # u} \union ActiveOf(u)
    <3>1. Legal(D) /\ Crowded(l, D)
      BY <2>1, <2>2, <2>3, <2>6, UserSwap
    <3>2. D \in SUBSET (Occupied \union (C \ {m}))
      BY <2>1
    <3> HIDE DEF D
    <3> QED
      BY <3>1, <3>2
  <2>7. CASE /\ l \notin HostLane /\ OwnerOf[l] # u
             /\ Cardinality({x \in C : OwnerOf[x] = OwnerOf[l]}) >= UserLimit[OwnerOf[l]]
    <3>1. {x \in C : OwnerOf[x] = OwnerOf[l]} = {x \in C \ {m} : OwnerOf[x] = OwnerOf[l]}
      BY <2>7
    <3>2. Crowded(l, C \ {m})
      BY <2>7, <3>1 DEF Crowded
    <3> QED
      BY <1>0, <3>2
  <2>8. l \in HostLane => OwnerOf[l] # u
    BY <2>3
  <2> QED
    BY <2>4, <2>5, <2>6, <2>7, <2>8 DEF Crowded
<1> QED
  BY <1>1, <1>2, <1>3 DEF NoRoom, HasCapacityFor

-----------------------------------------------------------------------------
(* Steps that place every lane with work.                                  *)

(* A step that visits every waiting lane places every lane with work.      *)
LEMMA Offered ==
  ASSUME TypeOK', WaitInv', NEW rest \in Seq(Call),
         \A c \in ToSet(rest) : c.op # "drainGroup",
         agenda' = DrainWaiting(waitingGroups') \o rest,
         NEW l \in Lane, groups'[l].pendingTasks # <<>>
  PROVE  Placed(l)'
<1>1. waitingGroups' \in SUBSET Lane
  BY DEF TypeOK
<1>2. ToSet(agenda') = {[op |-> "visit", lanes |-> waitingGroups']} \union ToSet(rest)
  <2>1. DrainWaiting(waitingGroups') \in Seq(Call)
    BY <1>1, VisitType
  <2>2. ToSet(DrainWaiting(waitingGroups')) = {[op |-> "visit", lanes |-> waitingGroups']}
    BY <1>1, ToSetOne DEF DrainWaiting
  <2> QED
    BY <2>1, <2>2, ToSetConcat
<1>3. ~DrainDue(l)'
  BY <1>2 DEF DrainDue
<1>4. l \in waitingGroups' \/ l \in (Occupied \union Claimed)'
  BY <1>3 DEF WaitInv, Minded, Occupied, Claimed
<1>5. CASE l \in waitingGroups'
  <2> DEFINE visit == [op |-> "visit", lanes |-> waitingGroups']
  <2>1. visit \in ToSet(agenda') /\ visit.op = "visit" /\ l \in visit.lanes
    BY <1>2, <1>5
  <2> HIDE DEF visit
  <2>2. OfferDue(l)'
    BY <2>1 DEF OfferDue
  <2> QED
    BY <2>2 DEF Placed
<1>6. CASE l \in (Occupied \union Claimed)'
  BY <1>6, SpokenFor
<1> QED
  BY <1>4, <1>5, <1>6

LEMMA TailDrains ==
  ASSUME DrainInv, AgendaStep
  PROVE  \A c \in ToSet(Tail(agenda)) : c.op # "drainGroup"
<1>1. ~Quiet
  BY DEF AgendaStep, DrainGroup, VisitWaiting, EndVisits, ReclaimIdleRunner,
     RecoverDeliveries, ReleasedLane, ResumedGroups, FinishRestart, Running
<1> QED
  BY <1>1 DEF DrainInv

(* Runners run on and slots stay spoken for: a runner's exit leaves its    *)
(* slot to a drain or a restart, unless it was stopped; a restart speaks   *)
(* for its lane until its drain is due, and a drain until it takes place.  *)
LEMMA SlotsStay ==
  ASSUME TypeOK, WorkInv, [Next]_vars, NEW r \in Occupied \union Claimed,
         Ends(r) => groups[r].restarting \/ ~groups[r].stopRequested,
         DrainDue(r) => ~DrainGroup
  PROVE  r \in (Occupied \union Claimed)'
<1> DEFINE o == groups[r]
           n == groups'[r]
<1>1. r \in Lane
  BY DEF Occupied, Claimed
<1>2. LaneStep(r)
  BY <1>1, StepLanes
<1>3. FinishDue(r)' => FinishDue(r) \/ DrainDue(r)'
  BY <1>1, FinishMoves
<1>4. CASE Ends(r)
  <2>1. CASE o.restarting
    <3>1. n.restarting /\ ~n.active /\ agenda' = <<>>
      BY <1>4, <2>1 DEF Ends
    <3>2. ~FinishDue(r)'
      BY <3>1, ToSetNone DEF FinishDue
    <3> QED
      BY <1>1, <3>1, <3>2 DEF Claimed
  <2>2. CASE ~o.restarting /\ ~o.stopRequested
    <3>1. agenda' = Calling("drainGroup", {r})
      BY <1>4, <2>2 DEF Ends
    <3>2. DrainDue(r)'
      BY <1>1, <3>1, ToSetOne DEF DrainDue
    <3> QED
      BY <1>1, <3>2 DEF Claimed
  <2> QED
    BY <1>4, <2>1, <2>2
<1>5. CASE o.active /\ ~Ends(r)
  <2>1. ~Begins(r) /\ ~Forgets(r)
    BY <1>5 DEF Begins, Forgets
  <2>2. Keeps(r) \/ Joins(r) \/ Drops(r) \/ Parks(r) \/ Unqueues(r) => n.active
    BY <1>5 DEF Keeps, Joins, Drops, Parks, Unqueues, SameRunner
  <2>3. n.active
    BY <1>2, <1>5, <2>1, <2>2 DEF LaneStep
  <2> QED
    BY <1>1, <2>3 DEF Occupied
<1>6. CASE DrainDue(r)
  <2>1. ~DrainGroup
    BY <1>6
  <2>2. DrainDue(r)'
    <3> DEFINE due == [op |-> "drainGroup", lanes |-> {r}]
    <3>1. due \in ToSet(agenda) /\ due.op = "drainGroup"
      BY <1>6 DEF DrainDue
    <3>2. CASE UNCHANGED vars
      BY <1>6, <3>2 DEF vars, DrainDue
    <3>3. CASE AgendaStep
      <4>1. Head(agenda).op # "drainGroup"
        BY <2>1, <3>3 DEF AgendaStep, Running, VisitWaiting, EndVisits,
           ReclaimIdleRunner, RecoverDeliveries, ReleasedLane, ResumedGroups, FinishRestart
      <4> HIDE DEF due
      <4>2. due \in ToSet(agenda')
        BY <3>1, <3>3, <4>1, PoppedCalls
      <4> QED
        BY <4>2 DEF DrainDue, due
    <3>4. ~Quiet
      BY <3>1, ToSetNone DEF Quiet
    <3> QED
      BY <3>2, <3>3, <3>4, OtherSteps
  <2> QED
    BY <1>1, <2>2 DEF Claimed
<1>7. CASE ~o.active /\ o.restarting /\ ~FinishDue(r)
  <2>1. ~Ends(r) /\ ~Forgets(r)
    BY <1>7 DEF Ends, Forgets
  <2>2. CASE Begins(r)
    BY <1>1, <2>2 DEF Begins, Occupied
  <2>3. CASE ~Begins(r)
    <3>1. n.restarting
      BY <1>2, <1>7, <2>1, <2>3
         DEF LaneStep, Keeps, Joins, Drops, Parks, Unqueues
    <3>2. n.active => r \in Occupied'
      BY <1>1 DEF Occupied
    <3>3. DrainDue(r)' \/ (n.restarting /\ ~n.active /\ ~FinishDue(r)') => r \in Claimed'
      BY <1>1 DEF Claimed
    <3> QED
      BY <1>3, <1>7, <3>1, <3>2, <3>3
  <2> QED
    BY <2>2, <2>3
<1> QED
  BY <1>4, <1>5, <1>6, <1>7 DEF Occupied, Claimed

(* A lane that gets work, or keeps it, was placed or has to wait.          *)
LEMMA WorkPlaced ==
  ASSUME TypeOK, WorkInv, CapacityRespected, OneRunnerPerKey, SeparateOwners,
         OfferInv, StoppedLane = {}, [Next]_vars,
         NEW l \in Lane, groups'[l].pendingTasks # <<>>
  PROVE  Placed(l) \/ l \in Occupied' \/ Ends(l)
<1> DEFINE o == groups[l]
           n == groups'[l]
<1>1. LaneStep(l)
  BY StepLanes
<1>2. n.pendingTasks = o.pendingTasks => Placed(l)
  BY DEF OfferInv
<1>3. MustWait(l) => Placed(l)
  BY WaitsInCrowd, OccupiedLegal DEF Placed
<1>4. Begins(l) => l \in Occupied'
  BY DEF Begins, Occupied
<1>5. ASSUME Parks(l)
      PROVE  Placed(l) \/ l \in Occupied'
  <2>1. PICK x \in Lane : PreservingStop(x) /\ l \in {x} \union Runners(x)
    BY <1>5 DEF Parks
  <2>2. CASE l = x
    BY <2>1, <2>2 DEF PreservingStop, Placed
  <2>3. CASE l \in Runners(x)
    BY <1>5, <2>3 DEF Runners, Parks, SameRunner, Occupied
  <2> QED
    BY <2>1, <2>2, <2>3
<1>6. Keeps(l) => n.pendingTasks = o.pendingTasks
  BY DEF Keeps
<1>7. Joins(l) => MustWait(l)
  BY DEF Joins
<1>8. ~Drops(l) /\ ~Forgets(l) /\ ~Unqueues(l)
  BY DEF Drops, Forgets, FreshGroup, Unqueues
<1> HIDE DEF o, n
<1> QED
  BY <1>1, <1>2, <1>3, <1>4, <1>5, <1>6, <1>7, <1>8 DEF LaneStep

(* A drain offers its lane's slot to all, finds it taken, or its lane has  *)
(* a runner after it.                                                      *)
LEMMA DrainEnds ==
  ASSUME TypeOK, DrainGroup, ~shuttingDown, NEW m \in Lane, Args = {m}
  PROVE  /\ UNCHANGED gateVars
         /\ \/ agenda' = DrainWaiting(waitingGroups') \o Tail(agenda)
            \/ agenda' = Tail(agenda) /\ (NoRoom(m) \/ m \in Occupied')
<1>1. CASE /\ ~Paused(m) /\ groups[m].pendingTasks # <<>>
           /\ RunTask(m, Head(groups[m].pendingTasks),
                      [groups[m] EXCEPT !.pendingTasks = Tail(@)])
           /\ agenda' = Tail(agenda)
  <2> DEFINE o       == groups[m]
             st      == [o EXCEPT !.pendingTasks = Tail(@)]
             started == Started(st, Head(o.pendingTasks))
             kept    == [st EXCEPT !.pendingTasks = Cons(Head(o.pendingTasks), @)]
  <2>1. /\ o \in GroupState /\ st \in GroupState /\ st.active = o.active
        /\ Head(o.pendingTasks) \in Task
    <3>1. o \in GroupState /\ o.pendingTasks # <<>>
      BY <1>1 DEF TypeOK
    <3> QED
      BY <3>1, FirstTaskType
  <2>2. groups' = [groups EXCEPT ![m] = IF o.active THEN kept ELSE started]
    BY <1>1, <2>1 DEF RunTask
  <2>3. started.active = TRUE
    BY <2>1, KeepActive
  <2>4. kept.active = o.active
    BY <2>1 DEF GroupState
  <2>5. groups'[m] = IF o.active THEN kept ELSE started
    <3> HIDE DEF started, kept
    <3> QED
      BY <2>2 DEF TypeOK
  <2> HIDE DEF started, st, kept
  <2>6. groups'[m].active
    BY <2>1, <2>3, <2>4, <2>5 DEF GroupState
  <2> QED
    BY <1>1, <2>6 DEF DrainGroup, Occupied
<1> QED
  BY <1>1 DEF DrainGroup, NoRoom

LEMMA DrainPlaces ==
  ASSUME TypeOK, WorkInv, CapacityRespected, OneRunnerPerKey, SeparateOwners,
         StrandInv, StoppedLane = {}, [Next]_vars, DrainGroup, ~shuttingDown,
         TypeOK', WaitInv', NEW l \in Lane, groups'[l].pendingTasks # <<>>
  PROVE  Placed(l)'
<1>1. PICK m \in Lane : Args = {m}
  BY DEF DrainGroup, StrandInv, DrainInv
<1>2. /\ Tail(agenda) \in Seq(Call) /\ Running("drainGroup") /\ ~Quiet
      /\ \A c \in ToSet(Tail(agenda)) : c.op # "drainGroup"
  BY PoppedCalls, TailDrains DEF AgendaStep, DrainGroup, Running, StrandInv
<1>3. UNCHANGED gateVars
  BY <1>1, DrainEnds
<1>4. CASE agenda' = DrainWaiting(waitingGroups') \o Tail(agenda)
  BY <1>2, <1>4, Offered
<1>5. CASE agenda' = Tail(agenda) /\ (NoRoom(m) \/ m \in Occupied')
  <2>1. \A r \in Lane : ~Ends(r)
    BY <1>2 DEF Ends
  <2>2. \A r \in Lane : DrainDue(r) => r = m
    <3> SUFFICES ASSUME NEW r \in Lane, DrainDue(r)
                 PROVE  r = m
      OBVIOUS
    <3> DEFINE due == [op |-> "drainGroup", lanes |-> {r}]
    <3>1. due \in ToSet(agenda) /\ due.op = "drainGroup" /\ due.lanes = {r}
      BY DEF DrainDue
    <3>2. ToSet(agenda) = {Head(agenda)} \union ToSet(Tail(agenda))
      BY <1>2, ToSetPop
    <3> HIDE DEF due
    <3>3. due = Head(agenda)
      BY <1>2, <3>1, <3>2
    <3>4. {m} = {r}
      BY <1>1, <3>1, <3>3 DEF Args
    <3> QED
      BY <3>4
  <2>3. \A r \in (Occupied \union Claimed) \ {m} : r \in (Occupied \union Claimed)'
    <3> TAKE r \in (Occupied \union Claimed) \ {m}
    <3>1. r \in Lane
      BY DEF Occupied, Claimed
    <3> QED
      BY <2>1, <2>2, <3>1, SlotsStay
  <2>4. m \in Occupied => m \in Occupied'
    <3> SUFFICES ASSUME groups[m].active PROVE groups'[m].active
      BY DEF Occupied
    <3>1. LaneStep(m) /\ ~Ends(m) /\ ~Begins(m) /\ ~Forgets(m)
      BY <2>1, StepLanes DEF Begins, Forgets
    <3> QED
      BY <3>1 DEF LaneStep, Keeps, Joins, Drops, Parks, Unqueues, SameRunner
  <2>5. CASE l \in Occupied'
    BY <2>5, SpokenFor
  <2>6. CASE Paused(l)
    BY <1>3, <2>6 DEF gateVars, Paused, TokenPaused, Placed
  <2>7. CASE OfferDue(l)
    <3>1. PICK c \in ToSet(agenda) :
            c.op \in {"visit", "resumeGroups", "releaseLane"} /\ l \in c.lanes
      BY <2>7 DEF OfferDue
    <3>2. c # Head(agenda) /\ ToSet(agenda) = {Head(agenda)} \union ToSet(Tail(agenda))
      BY <1>2, <3>1, ToSetPop DEF Running
    <3>3. OfferDue(l)'
      BY <1>5, <3>1, <3>2 DEF OfferDue
    <3> QED
      BY <3>3 DEF Placed
  <2>8. ASSUME NEW C \in SUBSET (Occupied \union Claimed), Legal(C), Crowded(l, C)
        PROVE  Placed(l)'
    <3>1. C \in SUBSET Lane
      BY DEF Occupied, Claimed
    <3>2. CASE m \notin C \/ m \in Occupied'
      <4>1. C \in SUBSET (Occupied \union Claimed)'
        BY <2>3, <3>2
      <4> QED
        BY <2>8, <4>1 DEF Placed
    <3>3. CASE m \in C /\ m \notin Occupied'
      <4>1. m \in C \ Occupied /\ NoRoom(m)
        BY <1>5, <2>4, <3>3
      <4>2. PICK D \in SUBSET (Occupied \union (C \ {m})) : Legal(D) /\ Crowded(l, D)
        BY <2>8, <3>1, <4>1, CrowdKept
      <4>3. D \in SUBSET (Occupied \union Claimed)'
        BY <2>3, <4>1, <4>2
      <4> QED
        BY <4>2, <4>3 DEF Placed
    <3> QED
      BY <3>2, <3>3
  <2>9. Placed(l) \/ l \in Occupied'
    BY <2>1, WorkPlaced DEF StrandInv
  <2> QED
    BY <2>5, <2>6, <2>7, <2>8, <2>9 DEF Placed
<1> QED
  BY <1>1, <1>4, <1>5, DrainEnds

(* The offers that are due are made.                                       *)
LEMMA OfferMoves ==
  ASSUME TypeOK, CapacityRespected, OneRunnerPerKey, SeparateOwners, DrainInv,
         [Next]_vars, TypeOK', WaitInv',
         NEW l \in Lane, groups'[l].pendingTasks # <<>>, OfferDue(l)
  PROVE  Placed(l)'
<1>1. PICK c \in ToSet(agenda) :
        c.op \in {"visit", "resumeGroups", "releaseLane"} /\ l \in c.lanes
  BY DEF OfferDue
<1>2. CASE UNCHANGED vars
  BY <1>1, <1>2 DEF vars, Placed, OfferDue
<1>3. ~Quiet
  BY <1>1, ToSetNone DEF Quiet
<1>4. CASE AgendaStep /\ c # Head(agenda)
  BY <1>1, <1>4, PoppedCalls DEF Placed, OfferDue
<1>5. CASE AgendaStep /\ c = Head(agenda)
  <2>1. l \in Args /\ Args \in SUBSET Lane /\ Tail(agenda) \in Seq(Call)
    BY <1>1, <1>5, PoppedCalls DEF Args
  <2>2. \A op : Running(op) => op \in {"visit", "resumeGroups", "releaseLane"}
    BY <1>1, <1>5 DEF Running
  <2>3. VisitWaiting \/ ReleasedLane \/ ResumedGroups
    BY <1>5, <2>1, <2>2 DEF AgendaStep, DrainGroup, EndVisits, ReclaimIdleRunner,
       RecoverDeliveries, FinishRestart
  <2>4. agenda' = DrainWaiting(waitingGroups') \o Tail(agenda) => Placed(l)'
    BY <1>5, <2>1, TailDrains, Offered
  <2>5. CASE ReleasedLane
    BY <2>4, <2>5 DEF ReleasedLane
  <2>6. CASE ResumedGroups
    <3>1. l \notin {r \in Args : Discarded(r)}
      <4>1. DiscardWork(groups[l]).pendingTasks = <<>>
        BY DiscardFields DEF TypeOK
      <4> QED
        BY <2>6, <4>1 DEF ResumedGroups
    <3> QED
      BY <2>1, <2>4, <2>6, <3>1 DEF ResumedGroups
  <2>7. CASE VisitWaiting
    <3>1. PICK x \in Args :
            /\ agenda' = Calling("visit", Args \ {x}) \o Tail(agenda)
            /\ IF MustWait(x)
               THEN UNCHANGED <<groups, waitingGroups, activeContainerCount>>
               ELSE IF groups[x].pendingTasks # <<>>
               THEN RunTask(x, Head(groups[x].pendingTasks),
                            [groups[x] EXCEPT !.pendingTasks = Tail(@)])
               ELSE UNCHANGED groups
      BY <2>7 DEF VisitWaiting, MustWait
    <3>2. CASE x # l
      <4> DEFINE visit == [op |-> "visit", lanes |-> Args \ {x}]
      <4>1. Args \ {x} \in SUBSET Lane /\ Calling("visit", Args \ {x}) \in Seq(Call)
        BY <2>1, CallingType
      <4>2. visit \in ToSet(agenda')
        BY <2>1, <3>1, <4>1, ToSetConcat, ToSetOne
      <4>3. visit.op = "visit" /\ l \in visit.lanes
        BY <2>1, <3>2
      <4> HIDE DEF visit
      <4> QED
        BY <4>2, <4>3 DEF Placed, OfferDue
    <3>3. CASE x = l /\ MustWait(l)
      <4>1. UNCHANGED <<groups, gateVars>>
        BY <2>7, <3>1, <3>3 DEF VisitWaiting
      <4>2. (Paused(l) => Paused(l)') /\ Occupied' = Occupied
        BY <4>1 DEF gateVars, Paused, TokenPaused, Occupied
      <4>3. CASE Paused(l)
        BY <4>2, <4>3 DEF Placed
      <4>4. CASE Crowded(l, Occupied)
        <5>1. Legal(Occupied) /\ Occupied \in SUBSET (Occupied \union Claimed)'
          BY <4>2, OccupiedLegal
        <5> QED
          BY <4>4, <5>1 DEF Placed
      <4> QED
        BY <3>3, <4>3, <4>4, WaitsInCrowd
    <3>4. CASE x = l /\ ~MustWait(l)
      <4>1. groups[l].pendingTasks # <<>>
        BY <3>1, <3>4
      <4> DEFINE o       == groups[l]
                 st      == [o EXCEPT !.pendingTasks = Tail(@)]
                 started == Started(st, Head(o.pendingTasks))
      <4>2. o \in GroupState /\ st \in GroupState /\ st.active = o.active
        <5>1. o \in GroupState /\ o.pendingTasks # <<>>
          BY <4>1 DEF TypeOK
        <5> QED
          BY <5>1, FirstTaskType
      <4>3. ~Paused(l) /\ ~o.active
        BY <3>4 DEF MustWait, Runners
      <4>4. groups' = [groups EXCEPT ![l] = started]
        BY <3>1, <3>4, <4>1, <4>2, <4>3 DEF RunTask
      <4>5. started.active = TRUE
        BY <4>2, KeepActive
      <4> HIDE DEF started, st
      <4>6. l \in Occupied'
        BY <4>4, <4>5 DEF TypeOK, Occupied
      <4> QED
        BY <4>6, SpokenFor
    <3> QED
      BY <3>2, <3>3, <3>4
  <2> QED
    BY <2>3, <2>5, <2>6, <2>7
<1> QED
  BY <1>2, <1>3, <1>4, <1>5, OtherSteps

(* A gate that goes drains, at once or by the call that ends it.           *)
LEMMA BlockSteps ==
  ASSUME [Next]_vars
  PROVE  \/ UNCHANGED runtimeSafetyBlocks
         \/ /\ SameGates
            /\ \E w \in Workspace, src \in Source :
                 BlockForSafety(w, src) \/ UnblockForSafety(w, src)
<1>1. CASE UNCHANGED vars
  BY <1>1 DEF vars, gateVars
<1>2. CASE AgendaStep
  BY <1>2 DEF AgendaStep, DrainGroup, VisitWaiting, EndVisits, ReclaimIdleRunner,
     RecoverDeliveries, ReleasedLane, ResumedGroups, FinishRestart, gateVars
<1>3. ASSUME NEW l \in Lane, RunnerStep(l)
      PROVE  UNCHANGED runtimeSafetyBlocks
  BY <1>3 DEF RunnerStep, RegisterProcess, TaskSucceeds, TaskThrows, TaskFails,
     FailedRunnerExits, RunnerExits, RetryTimerFires, AcknowledgeIpcDeliveries,
     MarkRunnerQueryIdle, PreservingStopReturns, RestartReturns, RestartTimesOut,
     gateVars
<1>4. CASE InputRequest
  BY <1>4 DEF InputRequest, EnqueueTask, SendMessage, MarkRunnerQueryIdle,
     ReserveNextQuery, ReleaseQueryReservation, gateVars
<1>5. CASE StopRequest
  BY <1>5 DEF StopRequest, StopGroup, InterruptQuery, StopArmedRetry, RestartGroup,
     RetireRunnerAfterQuery, RequestDrain, Shutdown, gateVars
<1>6. CASE MutationRequest
  <2>1. ASSUME NEW k \in Token, NEW ws,
               PauseGroups(k, ws) \/ ResumeGroups(k) \/ DiscardGroups(k)
        PROVE  UNCHANGED runtimeSafetyBlocks
    BY <2>1 DEF PauseGroups, ResumeGroups, DiscardGroups
  <2>2. ASSUME NEW l, HoldLane(l) \/ ReleaseLane(l) \/ DiscardHeldLane(l)
        PROVE  UNCHANGED runtimeSafetyBlocks
    BY <2>2 DEF HoldLane, ReleaseLane, DiscardHeldLane, ReleaseHold
  <2>3. ASSUME NEW l, PreservingStop(l) \/ BeginDeferral(l) \/ EndDeferral(l)
                      \/ DeferredStop(l)
        PROVE  UNCHANGED runtimeSafetyBlocks
    BY <2>3 DEF PreservingStop, BeginDeferral, EndDeferral, DeferredStop, gateVars
  <2>4. ASSUME NEW w, NEW src, BlockForSafety(w, src) \/ UnblockForSafety(w, src)
        PROVE  SameGates
    BY <2>4 DEF BlockForSafety, UnblockForSafety, SameGates
  <2> QED
    BY <1>6, <2>1, <2>2, <2>3, <2>4 DEF MutationRequest
<1> QED
  BY <1>1, <1>2, <1>3, <1>4, <1>5, <1>6 DEF Next

LEMMA RecoveringThen ==
  ASSUME NEW owing \in SUBSET Lane, NEW lanes \in SUBSET Lane,
         NEW op \in {"resumeGroups", "releaseLane"},
         agenda' = Recovering(owing) \o Calling(op, lanes), NEW l \in lanes
  PROVE  OfferDue(l)'
<1> DEFINE c == [op |-> op, lanes |-> lanes]
<1>1. Unsettled(owing) \in SUBSET Lane /\ Calling(op, lanes) \in Seq(Call)
  BY CallingType DEF Unsettled
<1>2. <<>> \o Calling(op, lanes) = Calling(op, lanes)
  BY <1>1, ConcatEmptySeq
<1>3. c \in ToSet(agenda')
  <2>1. CASE Unsettled(owing) = {}
    <3>1. agenda' = Calling(op, lanes)
      BY <1>2, <2>1 DEF Recovering
    <3> QED
      BY <3>1, ToSetOne
  <2>2. CASE Unsettled(owing) # {}
    <3>1. agenda' = Calling("recover", Unsettled(owing)) \o Calling(op, lanes)
      BY <2>2 DEF Recovering
    <3>2. ToSet(agenda') = {[op |-> "recover", lanes |-> Unsettled(owing)], c}
      BY <1>1, <3>1, ToSetTwo
    <3> QED
      BY <3>2
  <2> QED
    BY <2>1, <2>2
<1>4. c.op = op /\ l \in c.lanes
  OBVIOUS
<1> HIDE DEF c
<1> QED
  BY <1>3, <1>4 DEF OfferDue

LEMMA PauseMoves ==
  ASSUME TypeOK, [Next]_vars, TypeOK', WaitInv', NEW l \in Lane,
         Paused(l), ~Paused(l)', groups'[l].pendingTasks # <<>>
  PROVE  Placed(l)'
<1> USE DEF SameGates
<1>1. ASSUME SameGates, NEW w \in Workspace, NEW src \in Source,
             BlockForSafety(w, src) \/ UnblockForSafety(w, src)
      PROVE  Placed(l)'
  <2>1. runtimeSafetyBlocks \in [Workspace -> SUBSET Source] /\ WorkspaceOf[l] \in Workspace
    BY LaneAssumption DEF TypeOK, LaneAssumption
  <2>2. /\ runtimeSafetyBlocks[WorkspaceOf[l]] # {}
        /\ runtimeSafetyBlocks'[WorkspaceOf[l]] = {}
    BY <1>1 DEF Paused, TokenPaused
  <2>3. UnblockForSafety(w, src)
    BY <1>1, <2>1, <2>2 DEF BlockForSafety
  <2>4. runtimeSafetyBlocks[w] = {src}
    BY <2>1, <2>2, <2>3 DEF UnblockForSafety
  <2>5. agenda' = DrainWaiting(waitingGroups')
    BY <2>3, <2>4 DEF UnblockForSafety
  <2>6. waitingGroups' \in SUBSET Lane /\ DrainWaiting(waitingGroups') \in Seq(Call)
    BY VisitType DEF TypeOK
  <2>7. <<>> \in Seq(Call) /\ agenda' = DrainWaiting(waitingGroups') \o <<>>
    BY <2>5, <2>6, ConcatEmptySeq
  <2> QED
    BY <2>7, ToSetNone, Offered
<1>2. ASSUME UNCHANGED runtimeSafetyBlocks
      PROVE  Placed(l)'
  <2>1. GateOwned(l) /\ ~GateOwned(l)'
    BY <1>2 DEF Paused, GateOwned
  <2>2. ASSUME NEW k \in Token, ResumeGroups(k), WorkspaceOf[l] \in ReleasedBy(k)
        PROVE  OfferDue(l)'
    <3> DEFINE released == LanesOf(ReleasedBy(k))
               free     == {r \in released : heldLanes[r] = 0}
    <3>1. /\ l \in released /\ free \in SUBSET Lane /\ released \in SUBSET Lane
          /\ ReleasedBy(k) # {}
      BY <2>2 DEF LanesOf
    <3>2. agenda' = Recovering(free) \o Calling("resumeGroups", released)
      BY <2>2, <3>1 DEF ResumeGroups
    <3> HIDE DEF released, free
    <3> QED
      BY <3>1, <3>2, RecoveringThen
  <2>3. ASSUME ReleaseLane(l), heldLanes[l] = 1
        PROVE  OfferDue(l)'
    <3>1. agenda' = Recovering({l}) \o Calling("releaseLane", {l})
      BY <2>3 DEF ReleaseLane
    <3> QED
      BY <3>1, RecoveringThen
  <2> QED
    BY <2>1, <2>2, <2>3, GateGoes, DeletionTakes DEF Placed
<1> QED
  BY <1>1, <1>2, BlockSteps

-----------------------------------------------------------------------------
(* The invariant holds step by step.                                       *)

LEMMA StopInvStep ==
  ASSUME TypeOK, WorkInv, GateInv, StopInv, StoppedLane = {}, ~MayTimeOut,
         [Next]_vars
  PROVE  StopInv'
<1> SUFFICES ASSUME NEW l \in Lane, groups'[l].active, groups'[l].stopRequested
             PROVE  GateOwned(l)'
  BY DEF StopInv
<1> DEFINE o == groups[l]
           n == groups'[l]
<1>1. LaneStep(l)
  BY StepLanes
<1>2. CASE o.active /\ o.stopRequested
  <2>1. GateOwned(l)
    BY <1>2 DEF StopInv
  <2>2. ASSUME NEW k \in Token, ResumeGroups(k), heldLanes[l] = 0,
               WorkspaceOf[l] \in ReleasedBy(k)
        PROVE  FALSE
    BY <1>2, <2>2 DEF ResumeGroups, StopsReturned, LanesOf
  <2>3. ASSUME NEW k \in Token, DiscardGroups(k), WorkspaceOf[l] \in ReleasedBy(k)
        PROVE  FALSE
    BY <1>2, <2>3 DEF DiscardGroups, ReleasedBy, LanesOf
  <2>4. ASSUME ReleaseLane(l) \/ DiscardHeldLane(l), heldLanes[l] = 1, ~GateOwned(l)'
        PROVE  FALSE
    <3>1. ~TokenPaused(l)
      BY <2>4 DEF ReleaseLane, DiscardHeldLane, ReleaseHold, GateOwned, TokenPaused
    <3> QED
      BY <1>2, <2>4, <3>1 DEF ReleaseLane, DiscardHeldLane, StopsReturned
  <2> QED
    BY <2>1, <2>2, <2>3, <2>4, GateGoes
<1>3. CASE Parks(l)
  <2>1. PICK x \in Lane : PreservingStop(x) /\ l \in {x} \union Runners(x)
    BY <1>3 DEF Parks
  <2>2. GateOwned(x) /\ UNCHANGED gateVars
    BY <2>1 DEF PreservingStop
  <2>3. GateOwned(l)
    BY <2>1, <2>2, GateShared
  <2> QED
    BY <2>2, <2>3 DEF gateVars, GateOwned, TokenPaused
<1>4. Keeps(l) \/ Joins(l) \/ Drops(l) => o.active /\ o.stopRequested
  BY DEF Keeps, Joins, Drops, SameRunner
<1>5. ~Begins(l) /\ ~Ends(l) /\ ~Forgets(l) /\ ~Unqueues(l)
  BY DEF Begins, Ends, Forgets, FreshGroup, Unqueues
<1> HIDE DEF o, n
<1> QED
  BY <1>1, <1>2, <1>3, <1>4, <1>5 DEF LaneStep

LEMMA NoDrains ==
  ASSUME TypeOK', \A c \in ToSet(agenda') : c.op # "drainGroup"
  PROVE  DrainInv'
<1> DEFINE s == agenda'
<1> SUFFICES ASSUME s # <<>>
             PROVE  /\ Head(s).op # "drainGroup"
                    /\ \A c \in ToSet(Tail(s)) : c.op # "drainGroup"
  BY DEF DrainInv, Running, Quiet
<1>1. s \in Seq(Call)
  BY DEF TypeOK
<1>2. Head(s) \in ToSet(s) /\ ToSet(Tail(s)) \subseteq ToSet(s)
  <2> HIDE DEF s
  <2>1. \A i \in 1..Len(Tail(s)) : i + 1 \in 1..Len(s) /\ Tail(s)[i] = s[i + 1]
    BY <1>1
  <2> QED
    BY <1>1, <2>1 DEF ToSet
<1> QED
  BY <1>2

LEMMA TailOfTwo ==
  ASSUME NEW s \in Seq(Call), Len(s) = 2
  PROVE  ToSet(Tail(s)) = {s[2]}
<1>1. /\ Tail(s) \in Seq(Call) /\ Len(Tail(s)) = 1
      /\ \A i \in 1..1 : Tail(s)[i] = s[i + 1]
  BY HeadTailProperties
<1> DEFINE rest == Tail(s)
<1> HIDE DEF rest
<1>2. rest \in Seq(Call) /\ Len(rest) = 1 /\ rest[1] = s[2]
  BY <1>1 DEF rest
<1>3. ToSet(rest) = {s[2]}
  BY <1>2 DEF ToSet
<1> QED
  BY <1>3 DEF rest

(* A segment that drains begins with the drain.                             *)
LEMMA DrainInvStep ==
  ASSUME TypeOK, DrainInv, [Next]_vars, TypeOK'
  PROVE  DrainInv'
<1>1. CASE UNCHANGED vars
  BY <1>1 DEF vars, DrainInv, Running, Quiet, Args
<1>2. CASE AgendaStep
  <2>1. PICK new \in Seq(Call) :
          /\ Follows(new)
          /\ ToSet(agenda') = ToSet(new) \union ToSet(Tail(agenda))
    BY <1>2, PoppedCalls
  <2>2. \A c \in ToSet(new) : c.op # "drainGroup"
    BY <2>1, FollowingCalls
  <2>3. \A c \in ToSet(Tail(agenda)) : c.op # "drainGroup"
    BY <1>2, TailDrains
  <2> QED
    BY <2>1, <2>2, <2>3, NoDrains
<1>3. CASE Opens(agenda')
  <2>1. CASE agenda' = <<>>
    BY <2>1 DEF DrainInv, Running, Quiet
  <2>2. ASSUME NEW m \in Lane, agenda' = Calling("drainGroup", {m})
        PROVE  DrainInv'
    <3>1. Args' = {m} /\ Tail(agenda') = <<>>
      BY <2>2 DEF Calling, Args
    <3> QED
      BY <3>1, ToSetNone DEF DrainInv
  <2>3. ASSUME NEW op \in {"visit", "reclaim", "resumeGroups", "releaseLane"},
               NEW lanes \in SUBSET Lane, agenda' = Calling(op, lanes)
        PROVE  DrainInv'
    <3>1. ToSet(agenda') = {[op |-> op, lanes |-> lanes]}
      BY <2>3, ToSetOne
    <3> QED
      BY <3>1, NoDrains
  <2>4. ASSUME NEW m \in Lane,
               agenda' = Calling("drainGroup", {m}) \o Calling("finishRestart", {m})
        PROVE  DrainInv'
    <3> DEFINE s      == agenda'
               drain  == [op |-> "drainGroup", lanes |-> {m}]
               finish == [op |-> "finishRestart", lanes |-> {m}]
    <3>1. s = <<drain>> \o <<finish>>
      BY <2>4 DEF Calling
    <3>2. drain.lanes = {m} /\ finish.op # "drainGroup" /\ s \in Seq(Call)
      BY DEF TypeOK
    <3> HIDE DEF s, drain, finish
    <3>3. Head(s) = drain /\ Len(s) = 2 /\ s[2] = finish
      <4>1. /\ <<drain>> \in Seq({drain, finish}) /\ Len(<<drain>>) = 1
            /\ <<finish>> \in Seq({drain, finish}) /\ Len(<<finish>>) = 1
        OBVIOUS
      <4>2. Len(s) = 2 /\ s[1] = drain /\ s[2] = finish
        BY <3>1, <4>1, ConcatProperties
      <4> QED
        BY <3>2, <4>2
    <3>4. ToSet(Tail(s)) = {finish}
      BY <3>2, <3>3, TailOfTwo
    <3> QED
      BY <3>2, <3>3, <3>4 DEF DrainInv, Args, s
  <2>5. ASSUME NEW op \in {"resumeGroups", "releaseLane"},
               NEW owing \in SUBSET Lane, NEW lanes \in SUBSET Lane,
               agenda' = Calling("recover", owing) \o Calling(op, lanes)
        PROVE  DrainInv'
    <3>1. ToSet(agenda')
            = {[op |-> "recover", lanes |-> owing], [op |-> op, lanes |-> lanes]}
      BY <2>5, ToSetTwo
    <3> QED
      BY <3>1, NoDrains
  <2> QED
    BY <1>3, <2>1, <2>2, <2>3, <2>4, <2>5 DEF Opens
<1> QED
  BY <1>1, <1>2, <1>3, OtherSteps

LEMMA OfferStep ==
  ASSUME TypeOK, WorkInv, CapacityRespected, OneRunnerPerKey, SeparateOwners,
         StrandInv, StoppedLane = {}, [Next]_vars, TypeOK', WaitInv', DownIsEmpty'
  PROVE  OfferInv'
<1> SUFFICES ASSUME NEW l \in Lane, groups'[l].pendingTasks # <<>>
             PROVE  Placed(l)'
  BY DEF OfferInv
<1>1. ASSUME NEW m \in Lane, Ends(m), groups[m].stopRequested, ~groups[m].restarting
      PROVE  Placed(l)'
  <2>1. Paused(m)
    BY <1>1 DEF StrandInv, StopInv, GateOwned, Paused, Ends
  <2>2. agenda' = DrainWaiting(waitingGroups')
    BY <1>1, <2>1 DEF Ends
  <2>3. waitingGroups' \in SUBSET Lane /\ DrainWaiting(waitingGroups') \in Seq(Call)
    BY VisitType DEF TypeOK
  <2>4. <<>> \in Seq(Call) /\ agenda' = DrainWaiting(waitingGroups') \o <<>>
    BY <2>2, <2>3, ConcatEmptySeq
  <2> QED
    BY <2>4, ToSetNone, Offered
<1>2. CASE DrainGroup
  <2>1. ~shuttingDown
    BY HostMoves DEF DownIsEmpty
  <2> QED
    BY <1>2, <2>1, DrainPlaces
<1>3. CASE /\ \A m \in Lane : Ends(m) => groups[m].restarting \/ ~groups[m].stopRequested
           /\ ~DrainGroup
  <2>1. \A r \in Occupied \union Claimed : r \in (Occupied \union Claimed)'
    <3> TAKE r \in Occupied \union Claimed
    <3>1. r \in Lane
      BY DEF Occupied, Claimed
    <3> QED
      BY <1>3, <3>1, SlotsStay
  <2>2. CASE l \in Occupied' \/ Ends(l)
    <3>1. Ends(l) => l \in Occupied
      BY DEF Ends, Occupied
    <3>2. l \in (Occupied \union Claimed)'
      BY <2>1, <2>2, <3>1
    <3> QED
      BY <3>2, SpokenFor
  <2>3. CASE Paused(l)
    BY <2>3, PauseMoves DEF Placed
  <2>4. CASE OfferDue(l)
    BY <2>4, OfferMoves DEF StrandInv
  <2>5. ASSUME NEW C \in SUBSET (Occupied \union Claimed), Legal(C), Crowded(l, C)
        PROVE  Placed(l)'
    <3>1. C \in SUBSET (Occupied \union Claimed)'
      BY <2>1
    <3> QED
      BY <2>5, <3>1 DEF Placed
  <2>6. Placed(l) \/ l \in Occupied' \/ Ends(l)
    BY WorkPlaced DEF StrandInv
  <2> QED
    BY <2>2, <2>3, <2>4, <2>5, <2>6 DEF Placed
<1> QED
  BY <1>1, <1>2, <1>3

LEMMA StrandStep ==
  ASSUME StoppedLane = {}, ~MayTimeOut, SeparateOwners,
         TypeOK, WorkInv, GateInv, CapacityRespected, OneRunnerPerKey, StrandInv,
         [Next]_vars, TypeOK', WaitInv', DownIsEmpty'
  PROVE  StrandInv'
BY StopInvStep, DrainInvStep, OfferStep DEF StrandInv

LEMMA InitStrand == Init => StrandInv
<1> SUFFICES ASSUME Init
             PROVE  StrandInv
  OBVIOUS
<1>1. agenda = <<>> /\ \A l \in Lane : groups[l] = FreshGroup
  BY DEF Init
<1>2. StopInv /\ OfferInv
  BY <1>1 DEF StopInv, OfferInv, FreshGroup
<1>3. DrainInv
  BY <1>1 DEF DrainInv, Running, Quiet
<1> QED
  BY <1>2, <1>3 DEF StrandInv

(* The queue is work-conserving: between two segments no lane that could   *)
(* start its queued work is left without a runner, whichever of admission, *)
(* exit, drain, retry timer, recovery, restart, gate, deletion or reclaim  *)
(* came last.  The code does strand work in the cases left out: the exit   *)
(* after an ordinary stop drains nothing; a force-kill that timed out      *)
(* leaves a stopped runner behind a gate that is gone, or a slot of which  *)
(* no restart speaks any more; a container lane whose owner's host lanes   *)
(* use up the user's limit offers its slot to nobody; and drains start     *)
(* nothing during a shutdown.                                              *)
THEOREM NothingStranded ==
  ASSUME StoppedLane = {}, ~MayTimeOut, SeparateOwners
  PROVE  Spec /\ NoStopWhileDown => []NoWorkStranded
<1>1. Init => GateInv
  BY DEF Init, GateInv
<1>2. TypeOK /\ GateInv /\ [Next]_vars => GateInv'
  BY GateInvStep
<1>3. /\ TypeOK /\ WorkInv /\ GateInv /\ CapacityRespected /\ OneRunnerPerKey
      /\ StrandInv /\ [Next]_vars /\ TypeOK' /\ WaitInv' /\ DownIsEmpty'
      => StrandInv'
  BY StrandStep
<1>4. TypeOK /\ CapacityRespected /\ StrandInv => NoWorkStranded
  <2> SUFFICES ASSUME TypeOK, CapacityRespected, StrandInv, Quiet,
                      \A m \in Lane : ~groups[m].restarting,
                      NEW l \in Lane, groups[l].pendingTasks # <<>>
               PROVE  MustWait(l)
    BY DEF NoWorkStranded
  <2>1. Placed(l)
    BY DEF StrandInv, OfferInv
  <2>2. ~OfferDue(l) /\ \A m \in Lane : ~DrainDue(m)
    BY ToSetNone DEF OfferDue, DrainDue, Quiet
  <2>3. Claimed = {} /\ Occupied \in SUBSET Lane
    BY <2>2 DEF Claimed, Occupied
  <2>4. ASSUME NEW C \in SUBSET (Occupied \union Claimed), Crowded(l, C)
        PROVE  Crowded(l, Occupied)
    <3>1. C \in SUBSET Lane /\ C \subseteq Occupied
      BY <2>3
    <3> QED
      BY <2>3, <2>4, <3>1, CrowdGrows
  <2> QED
    BY <2>1, <2>2, <2>4, WaitsInCrowd DEF Placed
<1> QED
  BY <1>1, <1>2, <1>3, <1>4, InitStrand, InitWait, WaitStep, InitWork, WorkStep,
     DownEmpty, TypeCorrect, Capacity, OneRunner, PTL DEF Spec
-----------------------------------------------------------------------------
(* GroupQueue implements RunnerPool.                                       *)

served  == [l \in Lane |-> groups[l].activeTask]
gated   == {l \in Lane : Paused(l)}
removed == {l \in Lane : Discarded(l)}

(* Every runner has a task; that every task has a runner is TaskRuns.      *)
ServedInv == \A l \in Lane : groups[l].active => groups[l].activeTask # NoTask

LEMMA InitServed == Init => ServedInv
BY DEF Init, ServedInv, FreshGroup

LEMMA ServedStep ==
  ASSUME TypeOK, WorkInv, ServedInv, [Next]_vars
  PROVE  ServedInv'
<1> SUFFICES ASSUME NEW l \in Lane, groups'[l].active
             PROVE  groups'[l].activeTask # NoTask
  BY DEF ServedInv
<1>1. LaneStep(l)
  BY StepLanes
<1>2. groups[l].active => groups[l].activeTask # NoTask
  BY DEF ServedInv
<1>3. ~Ends(l) /\ ~Forgets(l)
  BY DEF Ends, Forgets, FreshGroup
<1> QED
  BY <1>1, <1>2, <1>3 DEF LaneStep, Keeps, Joins, Begins, Drops, Parks, Unqueues,
                          SameRunner

LEMMA BusyLanes ==
  ASSUME WorkInv, ServedInv
  PROVE  Pool!Busy = Occupied
<1>1. \A l \in Lane : groups[l].activeTask # NoTask <=> groups[l].active
  BY DEF WorkInv, LaneInv, TaskRuns, ServedInv
<1> QED
  BY <1>1 DEF Pool!Busy, Occupied

(* A runner keeps its task for as long as it runs.                         *)
LEMMA SameTask ==
  ASSUME TypeOK, WorkInv, WorkInv', [Next]_vars, NEW l \in Lane,
         l \in Occupied' <=> l \in Occupied
  PROVE  groups'[l].activeTask = groups[l].activeTask
<1>1. LaneStep(l)
  BY StepLanes
<1>2. groups'[l].active <=> groups[l].active
  BY DEF Occupied
<1>3. ~Begins(l) /\ ~Ends(l)
  BY <1>2 DEF Begins, Ends
<1>4. CASE Forgets(l)
  BY <1>4, <1>2 DEF Forgets, WorkInv, LaneInv, TaskRuns
<1> QED
  BY <1>1, <1>3, <1>4 DEF LaneStep, Keeps, Joins, Drops, Parks, Unqueues, SameRunner

(* Only a deletion under its own pause removes lanes.                      *)
LEMMA DeletionsOnly ==
  ASSUME [Next]_vars
  PROVE  terminalDiscards' = terminalDiscards \/ \E k \in Token : DiscardGroups(k)
<1>1. CASE UNCHANGED vars
  BY <1>1 DEF vars, gateVars
<1>2. CASE AgendaStep
  BY <1>2 DEF AgendaStep, DrainGroup, VisitWaiting, EndVisits, ReclaimIdleRunner,
     RecoverDeliveries, ReleasedLane, ResumedGroups, FinishRestart, gateVars
<1>3. CASE \E l \in Lane : RunnerStep(l)
  BY <1>3 DEF RunnerStep, RegisterProcess, TaskSucceeds, TaskThrows, TaskFails,
     FailedRunnerExits, RunnerExits, RetryTimerFires, AcknowledgeIpcDeliveries,
     MarkRunnerQueryIdle, PreservingStopReturns, RestartReturns, RestartTimesOut, gateVars
<1>4. CASE InputRequest
  BY <1>4 DEF InputRequest, EnqueueTask, SendMessage, MarkRunnerQueryIdle,
     ReserveNextQuery, ReleaseQueryReservation, gateVars
<1>5. CASE StopRequest
  BY <1>5 DEF StopRequest, StopGroup, InterruptQuery, StopArmedRetry, RestartGroup,
     RetireRunnerAfterQuery, RequestDrain, Shutdown, gateVars
<1>6. CASE MutationRequest
  BY <1>6 DEF MutationRequest, PauseGroups, ResumeGroups, BlockForSafety,
     UnblockForSafety, HoldLane, ReleaseLane, DiscardHeldLane, ReleaseHold,
     PreservingStop, BeginDeferral, EndDeferral, DeferredStop, gateVars
<1> QED
  BY <1>1, <1>2, <1>3, <1>4, <1>5, <1>6 DEF Next

LEMMA DeletionRemoves ==
  ASSUME TypeOK, WorkInv, ServedInv, WorkInv', [Next]_vars, SameRunners,
         NEW k \in Token, DiscardGroups(k)
  PROVE  Pool!Next
<1> DEFINE gone == LanesOf(mutationPauseTokens[k])
<1>1. gone \in SUBSET Lane /\ gone \subseteq gated /\ gone \cap Occupied = {}
  BY DEF DiscardGroups, LanesOf, gated, Paused, TokenPaused, Occupied
<1>2. removed' = removed \union gone
  BY DEF DiscardGroups, removed, Discarded, LanesOf
<1>3. gated' \in SUBSET gated
  <2>1. \A j \in Token : mutationPauseTokens'[j] \subseteq mutationPauseTokens[j]
    BY DEF DiscardGroups, TypeOK
  <2> QED
    BY <2>1 DEF DiscardGroups, gated, Paused, TokenPaused
<1>4. served' = served
  BY SameTask DEF SameRunners, served
<1>5. Pool!Remove(gone)
  BY <1>1, <1>2, <1>3, <1>4, BusyLanes DEF Pool!Remove, gated, removed, served
<1> QED
  BY <1>1, <1>5 DEF Pool!Next

LEMMA PoolStep ==
  ASSUME TypeOK, WorkInv, ServedInv, CapacityRespected, [Next]_vars, TypeOK', WorkInv',
         ServedInv'
  PROVE  [Pool!Next]_(Pool!vars)
<1>0. Pool!Busy = Occupied /\ Occupied \subseteq Lane
  BY BusyLanes DEF Occupied
<1>1. CASE SameRunners
  <2>1. served' = served
    BY <1>1, SameTask DEF SameRunners, served
  <2>2. CASE terminalDiscards' = terminalDiscards
    <3>1. removed' = removed /\ gated' \in SUBSET Lane
      BY <2>2 DEF removed, gated, Discarded
    <3> QED
      BY <2>1, <3>1 DEF Pool!Next, Pool!Gate, served, removed, gated
  <2> QED
    BY <1>1, <2>2, DeletionsOnly, DeletionRemoves
<1>2. ASSUME NEW l \in Lane, Starts(l)
      PROVE  Pool!Next
  <2>1. l \notin Occupied /\ l \in Occupied' /\ groups'[l].active
    BY <1>2 DEF Starts, Runners, Occupied
  <2>2. PICK t \in Task : groups'[l].activeTask = t
    <3>1. groups'[l] \in GroupState
      BY DEF TypeOK
    <3> QED
      BY <2>1, <3>1 DEF ServedInv, GroupState
  <2>3. gated' = gated /\ removed' = removed /\ l \notin gated
    BY <1>2 DEF Starts, gateVars, gated, removed, Paused, TokenPaused, Discarded
  <2>4. l \notin removed
    <3>1. ~Discarded(l)'
      BY <2>1 DEF WorkInv, LaneInv, Dead
    <3> QED
      BY <2>3, <3>1 DEF removed
  <2>5. \A r \in Occupied : KeyOf[r] # KeyOf[l]
    BY <1>2 DEF Starts, Runners, Occupied
  <2>6. l \in HostLane \/ Pool!HasRoom(l)
    <3>1. CASE l \notin HostLane
      <4>1. ~GlobalAtLimit /\ UserAllows(l)
        BY <1>2, <3>1 DEF Starts, HasCapacityFor
      <4>2. activeContainerCount = Cardinality(Occupied \ HostLane)
        <5>1. Occupied \ HostLane = {r \in Lane \ HostLane : groups[r].active}
          BY DEF Occupied
        <5> QED
          BY <5>1 DEF CapacityRespected
      <4>3. ActiveOf(OwnerOf[l]) = {r \in Occupied : OwnerOf[r] = OwnerOf[l]}
        BY DEF ActiveOf, Occupied
      <4>4. activeContainerCount \in Int /\ MaxContainers \in Nat
        BY LimitAssumption DEF LimitAssumption, TypeOK
      <4>5. \A S : Pool!Cardinality(S) = Cardinality(S)
        BY DEF Pool!Cardinality, Cardinality
      <4> QED
        BY <1>0, <4>1, <4>2, <4>3, <4>4, <4>5 DEF GlobalAtLimit, UserAllows, Pool!HasRoom
    <3> QED
      BY <3>1
  <2>7. served' = [served EXCEPT ![l] = t]
    <3>1. \A g \in Lane \ {l} : groups'[g].activeTask = groups[g].activeTask
      BY <1>2, SameTask DEF Starts
    <3> QED
      BY <2>2, <3>1 DEF served
  <2>8. Pool!Begin(l, t)
    BY <1>0, <2>3, <2>4, <2>5, <2>6, <2>7 DEF Pool!Begin, served, gated, removed
  <2> QED
    BY <2>2, <2>8 DEF Pool!Next
<1>3. ASSUME NEW l \in Lane, Exits(l)
      PROVE  Pool!Next
  <2>1. l \in Occupied /\ groups[l].active /\ ~groups'[l].active
    BY <1>3 DEF Exits, Occupied
  <2>2. Ends(l)
    <3>1. LaneStep(l)
      BY StepLanes
    <3> QED
      BY <2>1, <3>1 DEF LaneStep, Keeps, Joins, Begins, Drops, Parks, Forgets,
                        Unqueues, SameRunner
  <2>3. gated' = gated /\ removed' = removed
    BY <2>2 DEF Ends, gateVars, gated, removed, Paused, TokenPaused, Discarded
  <2>4. groups'[l].activeTask = NoTask
    BY <2>1 DEF WorkInv, LaneInv, TaskRuns
  <2>5. served' = [served EXCEPT ![l] = NoTask]
    BY <2>2, <2>4 DEF Ends, served
  <2>6. Pool!End(l)
    BY <1>0, <2>1, <2>3, <2>5 DEF Pool!End, served, gated, removed
  <2> QED
    BY <2>6 DEF Pool!Next
<1> QED
  BY <1>1, <1>2, <1>3, StepShape

LEMMA PoolInit == Init => Pool!Init
<1> SUFFICES ASSUME Init PROVE Pool!Init
  OBVIOUS
<1>1. \A l \in Lane : groups[l].activeTask = NoTask /\ ~Discarded(l)
  BY DEF Init, FreshGroup, Discarded
<1>2. \A l \in Lane : ~Paused(l)
  BY LaneAssumption DEF LaneAssumption, Init, Paused, TokenPaused
<1> QED
  BY <1>1, <1>2 DEF Pool!Init

(* The scheduler implements the runner pool: whatever is queued, retried,  *)
(* replayed, restarted, stopped, gated or deleted, each step begins one    *)
(* task where the pool allows it, ends one, changes gates, removes gated   *)
(* lanes without a runner, or is invisible to the rest of the host.        *)
THEOREM ImplementsPool == Spec => ServesAsPool
<1>1. Init => Pool!Init
  BY PoolInit
<1>2. TypeOK /\ WorkInv /\ ServedInv /\ [Next]_vars => ServedInv'
  BY ServedStep
<1>3. /\ TypeOK /\ WorkInv /\ ServedInv /\ CapacityRespected /\ [Next]_vars
      /\ TypeOK' /\ WorkInv' /\ ServedInv'
      => [Pool!Next]_(Pool!vars)
  BY PoolStep
<1> QED
  BY <1>1, <1>2, <1>3, InitServed, InitWork, WorkStep, TypeCorrect, Capacity, PTL
     DEF Spec, ServesAsPool, Pool!Spec
=============================================================================
