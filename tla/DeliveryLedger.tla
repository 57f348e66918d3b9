--------------------------- MODULE DeliveryLedger ---------------------------
(***************************************************************************)
(* What the channel outbox promises of every output it is given, whatever  *)
(* fails underneath: the ledger records an attempt before the output can   *)
(* be seen, the user sees it at most once, the ledger says "delivered"     *)
(* only of an output that is shown and "refused" only of one that never    *)
(* will be, and an attempt of unknown outcome ends in doubt, from which    *)
(* only a decision leads out.  ChannelReliability implements it.           *)
(***************************************************************************)
EXTENDS Naturals

CONSTANT Slots                      \* the outputs of one turn

VARIABLES ledger,                   \* what is on record of each output
          shown                     \* how often the user sees it

vars == <<ledger, shown>>

LedgerTypeOK == /\ ledger \in [Slots -> {"unsent", "attempted", "delivered",
                                         "refused", "doubt"}]
                /\ shown \in [Slots -> 0..1]

Init == /\ ledger = [s \in Slots |-> "unsent"]
        /\ shown = [s \in Slots |-> 0]

Record(s, from, to) == /\ ledger[s] \in from
                       /\ ledger' = [ledger EXCEPT ![s] = to]
                       /\ UNCHANGED shown

Attempt(s) == Record(s, {"unsent"}, "attempted")

Confirm(s) == shown[s] = 1 /\ Record(s, {"attempted", "doubt"}, "delivered")

Refuse(s) == shown[s] = 0 /\ Record(s, {"unsent", "attempted", "doubt"}, "refused")

\* The provider shows an output of which an attempt is on record.
Show(s) == /\ ledger[s] \in {"attempted", "doubt"}
           /\ shown[s] = 0
           /\ shown' = [shown EXCEPT ![s] = 1]
           /\ UNCHANGED ledger

\* Attempts whose outcome nobody will learn, several at once after a crash.
Doubt == \E S \in SUBSET Slots :
            /\ \A s \in S : ledger[s] = "attempted"
            /\ ledger' = [s \in Slots |-> IF s \in S THEN "doubt" ELSE ledger[s]]
            /\ UNCHANGED shown

Next == \/ Doubt
        \/ \E s \in Slots : Attempt(s) \/ Confirm(s) \/ Refuse(s) \/ Show(s)

Spec == Init /\ [][Next]_vars
=============================================================================
