-------------------------- MODULE MCServiceRequests --------------------------
(* Model-checking instances of ServiceRequests.                            *)
EXTENDS ServiceRequests, TLC

CONSTANTS c1, c2, b1, b2

(* Two calls to two businesses.                                            *)
TargetTwo == (c1 :> b1) @@ (c2 :> b2)

(* One call; b2 is an agent it was not addressed to.                       *)
TargetOne == c1 :> b1
=============================================================================
