--------------------------- MODULE OrderedDelivery ---------------------------
(***************************************************************************)
(* What the inbound pipeline promises the code behind it: messages come    *)
(* out in the order they went in, each at most once.  Messages may be      *)
(* lost, but only before they are delivered.                               *)
(***************************************************************************)
EXTENDS Naturals, Sequences, FiniteSets

VARIABLES
  accepted,   \* number of messages accepted so far, named 1, 2, ...
  pending,    \* accepted and not yet delivered, oldest first
  delivered   \* delivered, in order

vars == <<accepted, pending, delivered>>

Init == accepted = 0 /\ pending = <<>> /\ delivered = <<>>

Accept ==
  /\ accepted' = accepted + 1
  /\ pending' = Append(pending, accepted + 1)
  /\ UNCHANGED delivered

Deliver ==
  /\ pending # <<>>
  /\ delivered' = Append(delivered, Head(pending))
  /\ pending' = Tail(pending)
  /\ UNCHANGED accepted

(* The messages at positions i .. j are lost.                              *)
Lose ==
  /\ \E i, j \in DOMAIN pending :
        /\ i <= j
        /\ pending' = SubSeq(pending, 1, i - 1)
                        \o SubSeq(pending, j + 1, Len(pending))
  /\ UNCHANGED <<accepted, delivered>>

Next == Accept \/ Deliver \/ Lose

Spec == Init /\ [][Next]_vars
=============================================================================
