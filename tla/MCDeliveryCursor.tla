-------------------------- MODULE MCDeliveryCursor --------------------------
(* The cursors of one lane on a few messages: see the cfg files for the bounds. *)
EXTENDS DeliveryCursor
=============================================================================
