------------------------------ MODULE MCConsent ------------------------------
(* Model-checking instance of Consent: one searcher, introduced by two     *)
(* verifiers, and a proposal.                                              *)
EXTENDS Consent, TLC

CONSTANTS i1, i2, q1, s1, v1, v2, g1, g2, h1, h2, approve, deny

Searcher1 == [i \in {i1, i2} |-> s1]
Broker    == [i \in {i1, i2} |-> IF i = i1 THEN v1 ELSE v2]

(* The two groups, the two channels, the two answers and the two           *)
(* introductions with their verifiers are interchangeable.                 *)
Symmetry ==
  {p @@ q @@ c @@ r :
     p \in Permutations({g1, g2}), q \in Permutations({approve, deny}),
     c \in Permutations({h1, h2}),
     r \in {(i1 :> i1 @@ i2 :> i2 @@ v1 :> v1 @@ v2 :> v2),
            (i1 :> i2 @@ i2 :> i1 @@ v1 :> v2 @@ v2 :> v1)}}
=============================================================================
