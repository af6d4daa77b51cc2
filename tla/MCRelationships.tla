--------------------------- MODULE MCRelationships ---------------------------
(* Model-checking instances of Relationships.                              *)
EXTENDS Relationships, TLC

CONSTANTS a, b, c, n1, n2, friend, admin

(* Crossing proposals of the same kind.                                    *)
CrossProposer  == (n1 :> a) @@ (n2 :> b)
CrossAddressee == (n1 :> b) @@ (n2 :> a)
CrossKind      == (n1 :> friend) @@ (n2 :> friend)

(* One proposer asks for two kinds.                                        *)
TwoProposer  == (n1 :> a) @@ (n2 :> a)
TwoAddressee == (n1 :> b) @@ (n2 :> b)
TwoKind      == (n1 :> friend) @@ (n2 :> admin)

(* A single proposal.                                                      *)
OneProposer  == n1 :> a
OneAddressee == n1 :> b
OneKind      == n1 :> friend
=============================================================================
