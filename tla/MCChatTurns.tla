----------------------------- MODULE MCChatTurns -----------------------------
(* Model-checking instance of ChatTurns: a peer that may become a friend   *)
(* and is a member of the group, and a business.                           *)
EXTENDS ChatTurns

CONSTANTS p1, b1, t1
=============================================================================
