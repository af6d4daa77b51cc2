------------------------------- MODULE MCGroups -------------------------------
(* Model-checking instance of Groups: two peers of the convener.           *)
EXTENDS Groups

CONSTANTS c1, a1, b1

(* One peer, so that the other may be added; two peers; one named twice.   *)
OneInvitee   == {<<a1>>}
SomeInvitees == {<<a1>>, <<a1, b1>>, <<a1, a1>>}

(* An update in the name of the convener, by somebody else; the convener   *)
(* hands the role over.  The new one then declares itself the convener to  *)
(* whom the handover has not reached.                                      *)
InItsName == [from |-> b1, list |-> <<c1, b1, a1>>,
              names |-> c1, changed |-> FALSE]
Handover  == [from |-> c1, list |-> <<c1, a1>>, names |-> a1, changed |-> TRUE]

NoAnnouncements   == {}
SomeAnnouncements == {InItsName, Handover}
=============================================================================
