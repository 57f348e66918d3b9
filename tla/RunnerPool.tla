----------------------------- MODULE RunnerPool -----------------------------
(***************************************************************************)
(* What the runner scheduler promises the rest of the host, whatever is    *)
(* queued, retried, restarted or stopped underneath: a runner begins one   *)
(* task on a lane that is neither gated nor removed, while no other runner *)
(* serves its conversation and the pool and its owner have room; it serves *)
(* that task until it ends; gates come and go without touching a runner;   *)
(* and a lane is removed for good, gated and without a runner.             *)
(* GroupQueue implements it.                                               *)
(***************************************************************************)
EXTENDS Naturals, FiniteSets

CONSTANTS Lane, KeyOf, OwnerOf,
          HostLane,                 \* lanes outside the pool
          MaxContainers, UserLimit,
          Task, NoTask

VARIABLES serving,                  \* lane -> the task its runner serves
          gated,                    \* lanes a gate is on
          removed                   \* lanes of deleted workspaces

vars == <<serving, gated, removed>>

PoolTypeOK == /\ serving \in [Lane -> Task \union {NoTask}]
              /\ gated \subseteq Lane
              /\ removed \subseteq Lane

Busy == {l \in Lane : serving[l] # NoTask}

HasRoom(l) ==
  /\ Cardinality(Busy \ HostLane) < MaxContainers
  /\ Cardinality({r \in Busy : OwnerOf[r] = OwnerOf[l]}) < UserLimit[OwnerOf[l]]

Init == /\ serving = [l \in Lane |-> NoTask]
        /\ gated = {}
        /\ removed = {}

Begin(l, t) == /\ l \notin gated \union removed
               /\ \A r \in Busy : KeyOf[r] # KeyOf[l]
               /\ l \in HostLane \/ HasRoom(l)
               /\ serving' = [serving EXCEPT ![l] = t]
               /\ UNCHANGED <<gated, removed>>

End(l) == /\ l \in Busy
          /\ serving' = [serving EXCEPT ![l] = NoTask]
          /\ UNCHANGED <<gated, removed>>

Gate == /\ gated' \in SUBSET Lane
        /\ UNCHANGED <<serving, removed>>

Remove(lanes) == /\ lanes \subseteq gated \ Busy
                 /\ removed' = removed \union lanes
                 /\ gated' \in SUBSET gated
                 /\ UNCHANGED serving

Next == \/ Gate
        \/ \E lanes \in SUBSET Lane : Remove(lanes)
        \/ \E l \in Lane : End(l) \/ \E t \in Task : Begin(l, t)

Spec == Init /\ [][Next]_vars
=============================================================================
