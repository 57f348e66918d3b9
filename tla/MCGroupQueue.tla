---------------------------- MODULE MCGroupQueue ----------------------------
(* Small instances of GroupQueue for TLC.                                  *)
EXTENDS GroupQueue

CONSTANTS l1, l2, l3, w1, w2, u1, u2

(* Three lanes: l1 and l2 belong to u1's workspace w1, l3 to u2's w2.      *)
OwnWorkspaces == l1 :> w1 @@ l2 :> w1 @@ l3 :> w2
OwnUsers      == l1 :> u1 @@ l2 :> u1 @@ l3 :> u2
OwnKeys       == l1 :> l1 @@ l2 :> l2 @@ l3 :> l3

(* Two lanes, each in a workspace of its own.                              *)
TwoWorkspaces == l1 :> w1 @@ l2 :> w2
TwoUsers      == l1 :> u1 @@ l2 :> u2
TwoKeys       == l1 :> l1 @@ l2 :> l2

(* Two lanes of one session.                                               *)
OneWorkspace  == l1 :> w1 @@ l2 :> w1
OneKey        == l1 :> l1 @@ l2 :> l1

LimitOne      == u1 :> 1 @@ u2 :> 2
=============================================================================
