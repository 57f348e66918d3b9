---------------------------- MODULE MCAutomations ----------------------------
(* Instances of Automations for TLC. *)
EXTENDS Automations

\* A cron slot every tick.
MCNextSlot == [t \in Times |-> t + 1]

Agent == [agent |-> TRUE, bound |-> FALSE, check |-> FALSE]
CheckedBound == [agent |-> TRUE, bound |-> TRUE, check |-> TRUE]
Bound == [agent |-> TRUE, bound |-> TRUE, check |-> FALSE]
Script == [agent |-> FALSE, bound |-> FALSE, check |-> FALSE]
MCShapes == {CheckedBound, Script}
MCUnbound == {Agent}
MCBound == {Bound}

MCEnds == {None, 2}
MCNoEnd == {None}
=============================================================================
