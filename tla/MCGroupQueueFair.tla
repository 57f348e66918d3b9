-------------------------- MODULE MCGroupQueueFair --------------------------
(* GroupQueue with a bounded number of requests and the fairness of the    *)
(* host and its runners: what is queued eventually runs.                   *)
EXTENDS MCGroupQueue

CONSTANT MaxRequests      \* bound on what users, routes and tools ask for

VARIABLE requests

fairVars == <<vars, requests>>

(* A gate is always released by the caller that took it (a finally block). *)
ReleaseGate ==
  \/ \E k \in Token : ResumeGroups(k)
  \/ \E w \in Workspace, src \in Source : UnblockForSafety(w, src)
  \/ \E l \in HeldLane : ReleaseLane(l)

(* A runner that is asked to exit, or serves no query until its idle       *)
(* timeout, exits.                                                         *)
IdleRunnerExits(l) == ~InQuery(groups[l]) /\ TaskSucceeds(l)

Request ==
  /\ requests < MaxRequests
  /\ requests' = requests + 1
  /\ \/ InputRequest
     \/ StopRequest
     \/ MutationRequest

OwnStep ==
  /\ UNCHANGED requests
  /\ \/ AgendaStep
     \/ \E l \in Lane : RunnerStep(l)
     \/ ReleaseGate

FairSpec ==
  /\ Init /\ requests = 0
  /\ [][Request \/ OwnStep]_fairVars
  /\ WF_fairVars(AgendaStep /\ UNCHANGED requests)
  /\ WF_fairVars(ReleaseGate /\ UNCHANGED requests)
  /\ \A l \in Lane :
       /\ WF_fairVars(RegisterProcess(l) /\ UNCHANGED requests)
       /\ WF_fairVars(MarkRunnerQueryIdle(l, FALSE) /\ UNCHANGED requests)
       /\ WF_fairVars(IdleRunnerExits(l) /\ UNCHANGED requests)
       /\ WF_fairVars(FailedRunnerExits(l) /\ UNCHANGED requests)
       /\ WF_fairVars(RetryTimerFires(l) /\ UNCHANGED requests)
       /\ WF_fairVars(PreservingStopReturns(l) /\ UNCHANGED requests)
       /\ WF_fairVars(RestartReturns(l) /\ UNCHANGED requests)

(* Queued work eventually runs, however gates, retries, restarts, idle     *)
(* runners and the lanes of other users compete for the same slots.        *)
QueuedWorkEventuallyRuns ==
  \A l \in Lane :
    groups[l].pendingTasks # <<>> ~> groups[l].pendingTasks = <<>>

(* A delivery piped into a runner is eventually acknowledged, or its lane  *)
(* is queued again after the runner that lost it is gone.                  *)
DeliveriesSettle == \A l \in Lane : groups[l].ipcOwed ~> ~groups[l].ipcOwed
=============================================================================
