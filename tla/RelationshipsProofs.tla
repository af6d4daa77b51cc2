------------------------- MODULE RelationshipsProofs -------------------------
(***************************************************************************)
(* Proofs about Relationships for any agents, kinds, proposals and         *)
(* revocations.                                                            *)
(***************************************************************************)
EXTENDS Relationships, TLAPS

(* h holds, or has held, a record made from proposal n.                    *)
Used(h, n) ==
  \/ <<h, n>> \in ended
  \/ \E r \in rel : r.holder = h /\ r.nonce = n

(* A proposal moves from proposing to outbound, and from net to inbound to *)
(* accepting.                                                              *)
RowInv ==
  /\ proposing \subseteq asked /\ outbound \subseteq asked
  /\ proposing \cap outbound = {}
  /\ inbound \subseteq asked /\ accepting \subseteq asked

(* Taking the row from inbound is what limits a proposal to one answer.    *)
AnswerInv ==
  \A n \in Nonces :
    /\ accepts[n] + declines[n] <= 1
    /\ (n \in inbound \/ n \notin asked) => accepts[n] = 0 /\ declines[n] = 0
    /\ n \in accepting => accepts[n] = 1

(* A proposal on its way was not parked or answered yet, and an accept or  *)
(* decline from the agent that was asked was sent by it.                   *)
NetInv ==
  \A m \in net :
    /\ m.type = "propose" =>
         /\ m = Envelope("propose", Proposer[m.id], Addressee[m.id], m.id)
         /\ m.id \in asked /\ m.id \notin inbound
         /\ accepts[m.id] = 0 /\ declines[m.id] = 0
    /\ m.type = "accept" =>
         /\ m.id \in asked
         /\ m = Envelope("accept", m.from, Proposer[m.id], m.id)
         /\ m.from = Addressee[m.id] => accepts[m.id] = 1
    /\ m.type = "decline" =>
         (m.from = Addressee[m.id] => declines[m.id] = 1)

(* Each side can still make a record from a proposal only if it never did. *)
UsedInv ==
  \A n \in Nonces :
    /\ (n \in proposing \cup outbound \/ n \notin asked)
         => ~Used(Proposer[n], n)
    /\ (accepts[n] = 0 \/ n \in accepting) => ~Used(Addressee[n], n)

RelInv == BilateralConsent /\ NoRevival

Made(h, p, k) == Held(h, p, k) # {}

(* The proposer of an undisturbed proposal has its row until the answer    *)
(* comes.                                                                  *)
PendingInv ==
  \A n \in Nonces \ disturbed :
    (/\ n \in asked /\ declines[n] = 0
     /\ accepts[n] = 0 \/ AcceptOf(n) \in net)
      => n \in proposing \cup outbound

(* What is being revoked, or was and is on its way, disturbs the proposals *)
(* of its kind between the two agents.                                     *)
RevokeInv ==
  /\ \A op \in revoking :
       Between(op.agent, op.peer, {op.kind} \cup op.todo) \subseteq disturbed
  /\ \A m \in net : m.type = "revoke" =>
       Between(m.from, m.to, {m.kind}) \subseteq disturbed

(* Each side of an undisturbed proposal that was accepted has a record of  *)
(* its kind, or is about to make one.                                      *)
SideInv ==
  \A n \in Nonces \ disturbed : accepts[n] = 1 =>
    /\ n \in accepting \/ Made(Addressee[n], Proposer[n], KindOf[n])
    /\ AcceptOf(n) \in net \/ Made(Proposer[n], Addressee[n], KindOf[n])

IInv ==
  /\ TypeOK /\ RowInv /\ AnswerInv /\ NetInv /\ UsedInv /\ RelInv
  /\ PendingInv /\ RevokeInv /\ SideInv

-----------------------------------------------------------------------------
(* What the envelopes of net are.                                          *)
LEMMA Envelopes ==
  ASSUME TypeOK, NEW m \in net
  PROVE  /\ m.from \in Agents /\ m.to \in Agents /\ m.kind \in Kinds
         /\ m.type \in {"propose", "accept", "decline", "revoke"}
         /\ m.type # "revoke" => m.id \in Nonces
BY DEF TypeOK, Message

(* store.establish, run for a side that never made a record of n, leaves   *)
(* every record consented to and none revived.                             *)
LEMMA EstablishStep ==
  ASSUME TypeOK, RelInv, NEW n \in Nonces, NEW h, NEW p,
         \/ h = Proposer[n] /\ p = Addressee[n]
         \/ h = Addressee[n] /\ p = Proposer[n],
         n \in asked, accepts[n] = 1, declines[n] = 0, ~Used(h, n),
         Establish(h, p, n), UNCHANGED <<asked, accepts, declines>>
  PROVE  /\ RelInv'
         /\ rel' \in SUBSET Record /\ ended' \in SUBSET (Agents \X Nonces)
         /\ \A g, q : Used(g, q)' => Used(g, q) \/ (g = h /\ q = n)
<1> DEFINE new == [holder |-> h, peer |-> p, kind |-> KindOf[n], nonce |-> n]
           old == Held(h, p, KindOf[n])
<1>1. rel' = (rel \ old) \cup {new} /\ ended' = ended \cup Gone(old)
  BY DEF Establish
<1>2. new \in Record
  BY ProposerAssumption, AddresseeAssumption, KindOfAssumption DEF Record
<1>3. old \subseteq rel
  BY DEF Held
<1>4. rel \subseteq Record /\ ended \subseteq Agents \X Nonces
  BY DEF TypeOK
<1>5. rel' \in SUBSET Record
  BY <1>1, <1>2, <1>4
<1>6. Gone(old) \subseteq Agents \X Nonces
  BY <1>3, <1>4 DEF Gone, Record
<1>7. BilateralConsent'
  BY <1>1, <1>4 DEF RelInv, BilateralConsent
<1>8. NoRevival'
  <2> SUFFICES ASSUME NEW r \in rel', <<r.holder, r.nonce>> \in ended'
               PROVE  FALSE
    BY DEF NoRevival
  <2>1. CASE r = new
    <3>1. <<h, n>> \notin ended
      BY DEF Used
    <3>2. PICK o \in old : <<h, n>> = <<o.holder, o.nonce>>
      BY <1>1, <2>1, <3>1 DEF Gone
    <3> QED BY <1>3, <3>2 DEF Used
  <2>2. CASE r # new
    <3>1. r \in rel /\ r \notin old
      BY <1>1, <2>2
    <3>2. PICK o \in old : <<r.holder, r.nonce>> = <<o.holder, o.nonce>>
      BY <1>1, <3>1 DEF Gone, RelInv, NoRevival
    <3>3. r.peer = o.peer /\ r.kind = o.kind /\ o \in rel
      BY <1>3, <1>4, <3>1, <3>2, TwoPartiesAssumption
         DEF RelInv, BilateralConsent, Record
    <3>4. r \in old
      BY <3>1, <3>2, <3>3 DEF Held
    <3> QED BY <3>1, <3>4
  <2> QED BY <2>1, <2>2
<1>9. ASSUME NEW g, NEW q, Used(g, q)'
      PROVE  Used(g, q) \/ (g = h /\ q = n)
  <2>1. CASE <<g, q>> \in ended'
    BY <1>1, <1>3, <2>1 DEF Gone, Used
  <2>2. CASE \E r \in rel' : r.holder = g /\ r.nonce = q
    BY <1>1, <2>2 DEF Used
  <2> QED BY <1>9, <2>1, <2>2 DEF Used
<1> QED BY <1>1, <1>4, <1>5, <1>6, <1>7, <1>8, <1>9 DEF RelInv

(* store.revoke does the same.                                             *)
LEMMA RemoveStep ==
  ASSUME TypeOK, RelInv, NEW h, NEW p, NEW k,
         RemoveRecord(h, p, k), UNCHANGED <<asked, accepts, declines>>
  PROVE  /\ RelInv'
         /\ rel' \in SUBSET Record /\ ended' \in SUBSET (Agents \X Nonces)
         /\ \A g, q : Used(g, q)' => Used(g, q)
<1> DEFINE old == Held(h, p, k)
<1>1. rel' = rel \ old /\ ended' = ended \cup Gone(old) /\ old \subseteq rel
  BY DEF RemoveRecord, Held
<1>2. rel \subseteq Record /\ ended \subseteq Agents \X Nonces
  BY DEF TypeOK
<1>3. Gone(old) \subseteq Agents \X Nonces
  BY <1>1, <1>2 DEF Gone, Record
<1>4. BilateralConsent'
  BY <1>1 DEF RelInv, BilateralConsent
<1>5. NoRevival'
  <2> SUFFICES ASSUME NEW r \in rel', <<r.holder, r.nonce>> \in ended'
               PROVE  FALSE
    BY DEF NoRevival
  <2>1. r \in rel /\ r \notin old
    BY <1>1
  <2>2. PICK o \in old : <<r.holder, r.nonce>> = <<o.holder, o.nonce>>
    BY <1>1, <2>1 DEF Gone, RelInv, NoRevival
  <2>3. r.peer = o.peer /\ r.kind = o.kind /\ o \in rel
    BY <1>1, <1>2, <2>1, <2>2, TwoPartiesAssumption
       DEF RelInv, BilateralConsent, Record
  <2>4. r \in old
    BY <2>1, <2>2, <2>3 DEF Held
  <2> QED BY <2>1, <2>4
<1>6. ASSUME NEW g, NEW q, Used(g, q)' PROVE Used(g, q)
  BY <1>1, <1>6 DEF Gone, Used
<1> QED BY <1>1, <1>2, <1>3, <1>4, <1>5, <1>6 DEF RelInv

-----------------------------------------------------------------------------
(* A proposal is in one store row, or in one suspended send, at a time.    *)
LEMMA RowStep == IInv /\ [Next]_vars => RowInv'
<1> SUFFICES ASSUME IInv, [Next]_vars PROVE RowInv'
  OBVIOUS
<1>1. ASSUME NEW n \in Nonces, Propose(n) PROVE RowInv'
  BY <1>1, Envelopes DEF Propose, rowVars, IInv, TypeOK, RowInv, NetInv
<1>2. ASSUME NEW n \in Nonces, ProposeRecorded(n) PROVE RowInv'
  BY <1>2, Envelopes DEF ProposeRecorded, IInv, TypeOK, RowInv, NetInv
<1>3. ASSUME NEW n \in Nonces, ProposeFails(n) PROVE RowInv'
  BY <1>3, Envelopes DEF ProposeFails, rowVars, IInv, TypeOK, RowInv, NetInv
<1>4. ASSUME NEW n \in Nonces, NEW verb \in Verbs,
             UserAnswers(n, verb)
      PROVE  RowInv'
  BY <1>4, Envelopes
     DEF UserAnswers, toolVars, rowVars, IInv, TypeOK, RowInv, NetInv
<1>5. ASSUME NEW n \in Nonces, NEW verb \in Verbs,
             AnswerTooLate(n, verb)
      PROVE  RowInv'
  BY <1>5, Envelopes
     DEF AnswerTooLate, toolVars, rowVars, IInv, TypeOK, RowInv, NetInv
<1>6. ASSUME NEW n \in Nonces, AcceptBegins(n) PROVE RowInv'
  BY <1>6, Envelopes
     DEF AcceptBegins, TakeInbound, IInv, TypeOK, RowInv, NetInv
<1>7. ASSUME NEW n \in Nonces, AcceptEstablishes(n) PROVE RowInv'
  BY <1>7, Envelopes
     DEF AcceptEstablishes, rowVars, IInv, TypeOK, RowInv, NetInv
<1>8. ASSUME NEW n \in Nonces, AcceptFails(n) PROVE RowInv'
  BY <1>8, Envelopes DEF AcceptFails, rowVars, IInv, TypeOK, RowInv, NetInv
<1>9. ASSUME NEW n \in Nonces, Decline(n) PROVE RowInv'
  BY <1>9, Envelopes
     DEF Decline, TakeInbound, toolVars, IInv, TypeOK, RowInv, NetInv
<1>10. ASSUME NEW p \in Agents, NEW n \in Nonces, NEW verb \in Verbs,
              StrayAnswer(p, n, verb)
       PROVE  RowInv'
  BY <1>10, Envelopes
     DEF StrayAnswer, toolVars, rowVars, IInv, TypeOK, RowInv, NetInv
<1>11. ASSUME NEW m \in net, RecvProposal(m) PROVE RowInv'
  BY <1>11, Envelopes DEF RecvProposal, toolVars, IInv, TypeOK, RowInv, NetInv
<1>12. ASSUME NEW m \in net, NEW stored \in BOOLEAN,
              RecvAccept(m, stored)
       PROVE  RowInv'
  BY <1>12, Envelopes DEF RecvAccept, toolVars, IInv, TypeOK, RowInv, NetInv
<1>13. ASSUME NEW m \in net, RecvDecline(m) PROVE RowInv'
  BY <1>13, Envelopes DEF RecvDecline, toolVars, IInv, TypeOK, RowInv, NetInv
<1>14. ASSUME NEW m \in net, RecvRevoke(m) PROVE RowInv'
  BY <1>14, Envelopes
     DEF RecvRevoke, toolVars, rowVars, IInv, TypeOK, RowInv, NetInv
<1>15. ASSUME NEW m \in net, Lose(m) PROVE RowInv'
  BY <1>15, Envelopes
     DEF Lose, toolVars, rowVars, IInv, TypeOK, RowInv, NetInv
<1>16. ASSUME NEW id \in Revocations, NEW a \in Agents, NEW p \in Agents,
              NEW targets \in SUBSET Kinds, NEW k \in targets,
              RevokeBegins(id, a, p, targets, k)
       PROVE  RowInv'
  BY <1>16, Envelopes
     DEF RevokeBegins, toolVars, rowVars, IInv, TypeOK, RowInv, NetInv
<1>17. ASSUME NEW op \in revoking, NEW k \in op.todo,
              RevokeContinues(op, k)
       PROVE  RowInv'
  BY <1>17, Envelopes
     DEF RevokeContinues, toolVars, rowVars, IInv, TypeOK, RowInv, NetInv
<1>18. ASSUME NEW op \in revoking, RevokeEnds(op) PROVE RowInv'
  BY <1>18, Envelopes
     DEF RevokeEnds, toolVars, rowVars, IInv, TypeOK, RowInv, NetInv
<1>19. ASSUME NEW a \in Agents, Crash(a) PROVE RowInv'
  BY <1>19, Envelopes DEF Crash, rowVars, IInv, TypeOK, RowInv, NetInv
<1>20. CASE UNCHANGED vars
  BY <1>20, Envelopes
     DEF vars, toolVars, rowVars, IInv, TypeOK, RowInv, NetInv
<1> QED
  BY <1>1, <1>2, <1>3, <1>4, <1>5, <1>6, <1>7, <1>8, <1>9, <1>10, <1>11,
     <1>12, <1>13, <1>14, <1>15, <1>16, <1>17, <1>18, <1>19, <1>20 DEF Next

(* An answer takes the row first: no second one finds it.                  *)
LEMMA AnswerStep == IInv /\ [Next]_vars => AnswerInv'
<1> SUFFICES ASSUME IInv, [Next]_vars PROVE AnswerInv'
  OBVIOUS
<1>1. ASSUME NEW n \in Nonces, Propose(n) PROVE AnswerInv'
  BY <1>1, Envelopes
     DEF Propose, rowVars, answerVars, IInv, TypeOK, RowInv, AnswerInv, NetInv
<1>2. ASSUME NEW n \in Nonces, ProposeRecorded(n) PROVE AnswerInv'
  BY <1>2, Envelopes
     DEF ProposeRecorded, answerVars, IInv, TypeOK, RowInv, AnswerInv, NetInv
<1>3. ASSUME NEW n \in Nonces, ProposeFails(n) PROVE AnswerInv'
  BY <1>3, Envelopes
     DEF ProposeFails, rowVars, answerVars, IInv, TypeOK, RowInv, AnswerInv,
         NetInv
<1>4. ASSUME NEW n \in Nonces, NEW verb \in Verbs,
             UserAnswers(n, verb)
      PROVE  AnswerInv'
  BY <1>4, Envelopes
     DEF UserAnswers, toolVars, rowVars, IInv, TypeOK, RowInv, AnswerInv,
         NetInv
<1>5. ASSUME NEW n \in Nonces, NEW verb \in Verbs,
             AnswerTooLate(n, verb)
      PROVE  AnswerInv'
  BY <1>5, Envelopes
     DEF AnswerTooLate, toolVars, rowVars, IInv, TypeOK, RowInv, AnswerInv,
         NetInv
<1>6. ASSUME NEW n \in Nonces, AcceptBegins(n) PROVE AnswerInv'
  BY <1>6, Envelopes
     DEF AcceptBegins, TakeInbound, IInv, TypeOK, RowInv, AnswerInv, NetInv
<1>7. ASSUME NEW n \in Nonces, AcceptEstablishes(n) PROVE AnswerInv'
  BY <1>7, Envelopes
     DEF AcceptEstablishes, rowVars, answerVars, IInv, TypeOK, RowInv,
         AnswerInv, NetInv
<1>8. ASSUME NEW n \in Nonces, AcceptFails(n) PROVE AnswerInv'
  BY <1>8, Envelopes
     DEF AcceptFails, rowVars, answerVars, IInv, TypeOK, RowInv, AnswerInv,
         NetInv
<1>9. ASSUME NEW n \in Nonces, Decline(n) PROVE AnswerInv'
  BY <1>9, Envelopes
     DEF Decline, TakeInbound, toolVars, IInv, TypeOK, RowInv, AnswerInv,
         NetInv
<1>10. ASSUME NEW p \in Agents, NEW n \in Nonces, NEW verb \in Verbs,
              StrayAnswer(p, n, verb)
       PROVE  AnswerInv'
  BY <1>10, Envelopes
     DEF StrayAnswer, toolVars, rowVars, answerVars, IInv, TypeOK, RowInv,
         AnswerInv, NetInv
<1>11. ASSUME NEW m \in net, RecvProposal(m) PROVE AnswerInv'
  BY <1>11, Envelopes
     DEF RecvProposal, toolVars, answerVars, IInv, TypeOK, RowInv, AnswerInv,
         NetInv
<1>12. ASSUME NEW m \in net, NEW stored \in BOOLEAN,
              RecvAccept(m, stored)
       PROVE  AnswerInv'
  BY <1>12, Envelopes
     DEF RecvAccept, toolVars, answerVars, IInv, TypeOK, RowInv, AnswerInv,
         NetInv
<1>13. ASSUME NEW m \in net, RecvDecline(m) PROVE AnswerInv'
  BY <1>13, Envelopes
     DEF RecvDecline, toolVars, answerVars, IInv, TypeOK, RowInv, AnswerInv,
         NetInv
<1>14. ASSUME NEW m \in net, RecvRevoke(m) PROVE AnswerInv'
  BY <1>14, Envelopes
     DEF RecvRevoke, toolVars, rowVars, answerVars, IInv, TypeOK, RowInv,
         AnswerInv, NetInv
<1>15. ASSUME NEW m \in net, Lose(m) PROVE AnswerInv'
  BY <1>15, Envelopes
     DEF Lose, toolVars, rowVars, answerVars, IInv, TypeOK, RowInv, AnswerInv,
         NetInv
<1>16. ASSUME NEW id \in Revocations, NEW a \in Agents, NEW p \in Agents,
              NEW targets \in SUBSET Kinds, NEW k \in targets,
              RevokeBegins(id, a, p, targets, k)
       PROVE  AnswerInv'
  BY <1>16, Envelopes
     DEF RevokeBegins, toolVars, rowVars, answerVars, IInv, TypeOK, RowInv,
         AnswerInv, NetInv
<1>17. ASSUME NEW op \in revoking, NEW k \in op.todo,
              RevokeContinues(op, k)
       PROVE  AnswerInv'
  BY <1>17, Envelopes
     DEF RevokeContinues, toolVars, rowVars, answerVars, IInv, TypeOK, RowInv,
         AnswerInv, NetInv
<1>18. ASSUME NEW op \in revoking, RevokeEnds(op) PROVE AnswerInv'
  BY <1>18, Envelopes
     DEF RevokeEnds, toolVars, rowVars, answerVars, IInv, TypeOK, RowInv,
         AnswerInv, NetInv
<1>19. ASSUME NEW a \in Agents, Crash(a) PROVE AnswerInv'
  BY <1>19, Envelopes
     DEF Crash, rowVars, IInv, TypeOK, RowInv, AnswerInv, NetInv
<1>20. CASE UNCHANGED vars
  BY <1>20, Envelopes
     DEF vars, toolVars, rowVars, answerVars, IInv, TypeOK, RowInv, AnswerInv,
         NetInv
<1> QED
  BY <1>1, <1>2, <1>3, <1>4, <1>5, <1>6, <1>7, <1>8, <1>9, <1>10, <1>11,
     <1>12, <1>13, <1>14, <1>15, <1>16, <1>17, <1>18, <1>19, <1>20 DEF Next

(* A new envelope is a fresh proposal, an answer of the agent that was     *)
(* asked, a stray answer or a revocation; what is on its way stays true.   *)
LEMMA NetStep == IInv /\ [Next]_vars => NetInv'
<1> SUFFICES ASSUME IInv, [Next]_vars PROVE NetInv'
  OBVIOUS
<1>1. ASSUME NEW n \in Nonces, Propose(n) PROVE NetInv'
  BY <1>1, Envelopes
     DEF Propose, rowVars, answerVars, Envelope, IInv, TypeOK, RowInv,
         AnswerInv, NetInv
<1>2. ASSUME NEW n \in Nonces, ProposeRecorded(n) PROVE NetInv'
  BY <1>2, Envelopes
     DEF ProposeRecorded, answerVars, IInv, TypeOK, RowInv, AnswerInv, NetInv
<1>3. ASSUME NEW n \in Nonces, ProposeFails(n) PROVE NetInv'
  BY <1>3, Envelopes
     DEF ProposeFails, rowVars, answerVars, IInv, TypeOK, RowInv, AnswerInv,
         NetInv
<1>4. ASSUME NEW n \in Nonces, NEW verb \in Verbs,
             UserAnswers(n, verb)
      PROVE  NetInv'
  BY <1>4, Envelopes
     DEF UserAnswers, toolVars, rowVars, IInv, TypeOK, RowInv, AnswerInv,
         NetInv
<1>5. ASSUME NEW n \in Nonces, NEW verb \in Verbs,
             AnswerTooLate(n, verb)
      PROVE  NetInv'
  BY <1>5, Envelopes
     DEF AnswerTooLate, toolVars, rowVars, IInv, TypeOK, RowInv, AnswerInv,
         NetInv
<1>6. ASSUME NEW n \in Nonces, AcceptBegins(n) PROVE NetInv'
  BY <1>6, Envelopes
     DEF AcceptBegins, TakeInbound, Envelope, IInv, TypeOK, RowInv, AnswerInv,
         NetInv
<1>7. ASSUME NEW n \in Nonces, AcceptEstablishes(n) PROVE NetInv'
  BY <1>7, Envelopes
     DEF AcceptEstablishes, rowVars, answerVars, IInv, TypeOK, RowInv,
         AnswerInv, NetInv
<1>8. ASSUME NEW n \in Nonces, AcceptFails(n) PROVE NetInv'
  BY <1>8, Envelopes
     DEF AcceptFails, rowVars, answerVars, IInv, TypeOK, RowInv, AnswerInv,
         NetInv
<1>9. ASSUME NEW n \in Nonces, Decline(n) PROVE NetInv'
  BY <1>9, Envelopes
     DEF Decline, TakeInbound, toolVars, Envelope, IInv, TypeOK, RowInv,
         AnswerInv, NetInv
<1>10. ASSUME NEW p \in Agents, NEW n \in Nonces, NEW verb \in Verbs,
              StrayAnswer(p, n, verb)
       PROVE  NetInv'
  BY <1>10, Envelopes
     DEF StrayAnswer, toolVars, rowVars, answerVars, Envelope, Verbs, IInv,
         TypeOK, RowInv, AnswerInv, NetInv
<1>11. ASSUME NEW m \in net, RecvProposal(m) PROVE NetInv'
  BY <1>11, Envelopes
     DEF RecvProposal, toolVars, answerVars, IInv, TypeOK, RowInv, AnswerInv,
         NetInv
<1>12. ASSUME NEW m \in net, NEW stored \in BOOLEAN,
              RecvAccept(m, stored)
       PROVE  NetInv'
  BY <1>12, Envelopes
     DEF RecvAccept, toolVars, answerVars, IInv, TypeOK, RowInv, AnswerInv,
         NetInv
<1>13. ASSUME NEW m \in net, RecvDecline(m) PROVE NetInv'
  BY <1>13, Envelopes
     DEF RecvDecline, toolVars, answerVars, IInv, TypeOK, RowInv, AnswerInv,
         NetInv
<1>14. ASSUME NEW m \in net, RecvRevoke(m) PROVE NetInv'
  BY <1>14, Envelopes
     DEF RecvRevoke, toolVars, rowVars, answerVars, IInv, TypeOK, RowInv,
         AnswerInv, NetInv
<1>15. ASSUME NEW m \in net, Lose(m) PROVE NetInv'
  BY <1>15, Envelopes
     DEF Lose, toolVars, rowVars, answerVars, IInv, TypeOK, RowInv, AnswerInv,
         NetInv
<1>16. ASSUME NEW id \in Revocations, NEW a \in Agents, NEW p \in Agents,
              NEW targets \in SUBSET Kinds, NEW k \in targets,
              RevokeBegins(id, a, p, targets, k)
       PROVE  NetInv'
  BY <1>16, Envelopes
     DEF RevokeBegins, toolVars, rowVars, answerVars, SendRevoke, Revoke,
         IInv, TypeOK, RowInv, AnswerInv, NetInv
<1>17. ASSUME NEW op \in revoking, NEW k \in op.todo,
              RevokeContinues(op, k)
       PROVE  NetInv'
  BY <1>17, Envelopes
     DEF RevokeContinues, toolVars, rowVars, answerVars, SendRevoke, Revoke,
         IInv, TypeOK, RowInv, AnswerInv, NetInv
<1>18. ASSUME NEW op \in revoking, RevokeEnds(op) PROVE NetInv'
  BY <1>18, Envelopes
     DEF RevokeEnds, toolVars, rowVars, answerVars, IInv, TypeOK, RowInv,
         AnswerInv, NetInv
<1>19. ASSUME NEW a \in Agents, Crash(a) PROVE NetInv'
  BY <1>19, Envelopes
     DEF Crash, rowVars, IInv, TypeOK, RowInv, AnswerInv, NetInv
<1>20. CASE UNCHANGED vars
  BY <1>20, Envelopes
     DEF vars, toolVars, rowVars, answerVars, IInv, TypeOK, RowInv, AnswerInv,
         NetInv
<1> QED
  BY <1>1, <1>2, <1>3, <1>4, <1>5, <1>6, <1>7, <1>8, <1>9, <1>10, <1>11,
     <1>12, <1>13, <1>14, <1>15, <1>16, <1>17, <1>18, <1>19, <1>20 DEF Next

-----------------------------------------------------------------------------
(* The addressee's side of a handshake.                                    *)
LEMMA AcceptStores ==
  ASSUME IInv, NEW n \in Nonces, AcceptEstablishes(n)
  PROVE  /\ RelInv'
         /\ rel' \in SUBSET Record /\ ended' \in SUBSET (Agents \X Nonces)
         /\ \A g, q : Used(g, q)' => Used(g, q) \/ (g = Addressee[n] /\ q = n)
<1>1. n \in accepting /\ Establish(Addressee[n], Proposer[n], n)
      /\ UNCHANGED <<asked, accepts, declines>>
  BY DEF AcceptEstablishes, answerVars
<1>2. n \in asked /\ accepts[n] = 1 /\ declines[n] = 0
  BY <1>1 DEF IInv, TypeOK, RowInv, AnswerInv
<1>3. ~Used(Addressee[n], n)
  BY <1>1 DEF IInv, UsedInv
<1> QED BY <1>1, <1>2, <1>3, EstablishStep DEF IInv

(* The proposer's side: a record only for an accept of the agent asked.    *)
LEMMA ReceiptStores ==
  ASSUME IInv, NEW m \in net, NEW stored \in BOOLEAN, RecvAccept(m, stored)
  PROVE  /\ RelInv'
         /\ rel' \in SUBSET Record /\ ended' \in SUBSET (Agents \X Nonces)
         /\ \A g, q : Used(g, q)' =>
              \/ Used(g, q)
              \/ g = Proposer[m.id] /\ q = m.id /\ m.id \in outbound
<1>1. m.id \in Nonces /\ m.to = Proposer[m.id] /\ m.id \in asked
      /\ UNCHANGED <<asked, accepts, declines>>
  BY Envelopes DEF RecvAccept, toolVars, answerVars, Envelope, IInv, NetInv
<1>2. CASE m.id \in outbound /\ m.from = Addressee[m.id] /\ stored
  <2>1. Establish(Proposer[m.id], Addressee[m.id], m.id)
    BY <1>1, <1>2 DEF RecvAccept
  <2>2. accepts[m.id] = 1 /\ declines[m.id] = 0
    BY <1>1, <1>2 DEF RecvAccept, IInv, TypeOK, AnswerInv, NetInv
  <2>3. ~Used(Proposer[m.id], m.id)
    BY <1>1, <1>2 DEF IInv, UsedInv
  <2> QED BY <1>1, <1>2, <2>1, <2>2, <2>3, EstablishStep DEF IInv
<1>3. CASE ~(m.id \in outbound /\ m.from = Addressee[m.id] /\ stored)
  <2>1. UNCHANGED <<rel, ended>>
    BY <1>3 DEF RecvAccept, relVars
  <2> QED BY <1>1, <2>1 DEF IInv, TypeOK, RelInv, BilateralConsent, NoRevival,
                             Used
<1> QED BY <1>2, <1>3

(* A revocation, ours or the peer's, makes no record.                      *)
LEMMA RevocationStores ==
  ASSUME IInv,
         \/ \E m \in net : RecvRevoke(m)
         \/ \E op \in revoking :
               RevokeEnds(op) \/ \E k \in op.todo : RevokeContinues(op, k)
  PROVE  /\ RelInv'
         /\ rel' \in SUBSET Record /\ ended' \in SUBSET (Agents \X Nonces)
         /\ \A g, q : Used(g, q)' => Used(g, q)
         /\ UNCHANGED <<asked, proposing, outbound, accepting, accepts>>
<1>1. PICK h, p, k : RemoveRecord(h, p, k)
  BY DEF RecvRevoke, RevokeContinues, RevokeEnds
<1>2. UNCHANGED <<asked, proposing, outbound, accepting, accepts, declines>>
  BY
     DEF RecvRevoke, RevokeContinues, RevokeEnds, toolVars, rowVars,
         answerVars
<1> QED BY <1>1, <1>2, RemoveStep DEF IInv

(* Records stay consented to, and none is revived.                         *)
LEMMA RelStep == IInv /\ [Next]_vars => RelInv'
<1> SUFFICES ASSUME IInv, [Next]_vars PROVE RelInv'
  OBVIOUS
<1>1. ASSUME NEW n \in Nonces, Propose(n) PROVE RelInv'
  BY <1>1
     DEF Propose, answerVars, relVars, IInv, TypeOK, RelInv, AnswerInv,
         RowInv, BilateralConsent, NoRevival
<1>2. ASSUME NEW n \in Nonces, ProposeRecorded(n) PROVE RelInv'
  BY <1>2
     DEF ProposeRecorded, answerVars, relVars, IInv, TypeOK, RelInv,
         AnswerInv, RowInv, BilateralConsent, NoRevival
<1>3. ASSUME NEW n \in Nonces, ProposeFails(n) PROVE RelInv'
  BY <1>3
     DEF ProposeFails, answerVars, relVars, IInv, TypeOK, RelInv, AnswerInv,
         RowInv, BilateralConsent, NoRevival
<1>4. ASSUME NEW n \in Nonces, NEW verb \in Verbs,
             UserAnswers(n, verb)
      PROVE  RelInv'
  BY <1>4
     DEF UserAnswers, toolVars, relVars, IInv, TypeOK, RelInv, AnswerInv,
         RowInv, BilateralConsent, NoRevival
<1>5. ASSUME NEW n \in Nonces, NEW verb \in Verbs,
             AnswerTooLate(n, verb)
      PROVE  RelInv'
  BY <1>5
     DEF AnswerTooLate, toolVars, relVars, IInv, TypeOK, RelInv, AnswerInv,
         RowInv, BilateralConsent, NoRevival
<1>6. ASSUME NEW n \in Nonces, AcceptBegins(n) PROVE RelInv'
  BY <1>6
     DEF AcceptBegins, TakeInbound, relVars, IInv, TypeOK, RelInv, AnswerInv,
         RowInv, BilateralConsent, NoRevival
<1>7. ASSUME NEW n \in Nonces, AcceptEstablishes(n) PROVE RelInv'
  BY <1>7, AcceptStores
<1>8. ASSUME NEW n \in Nonces, AcceptFails(n) PROVE RelInv'
  BY <1>8
     DEF AcceptFails, answerVars, relVars, IInv, TypeOK, RelInv, AnswerInv,
         RowInv, BilateralConsent, NoRevival
<1>9. ASSUME NEW n \in Nonces, Decline(n) PROVE RelInv'
  BY <1>9
     DEF Decline, TakeInbound, toolVars, relVars, IInv, TypeOK, RelInv,
         AnswerInv, RowInv, BilateralConsent, NoRevival
<1>10. ASSUME NEW p \in Agents, NEW n \in Nonces, NEW verb \in Verbs,
              StrayAnswer(p, n, verb)
       PROVE  RelInv'
  BY <1>10
     DEF StrayAnswer, toolVars, answerVars, relVars, IInv, TypeOK, RelInv,
         AnswerInv, RowInv, BilateralConsent, NoRevival
<1>11. ASSUME NEW m \in net, RecvProposal(m) PROVE RelInv'
  BY <1>11
     DEF RecvProposal, toolVars, answerVars, relVars, IInv, TypeOK, RelInv,
         AnswerInv, RowInv, BilateralConsent, NoRevival
<1>12. ASSUME NEW m \in net, NEW stored \in BOOLEAN,
              RecvAccept(m, stored)
       PROVE  RelInv'
  BY <1>12, ReceiptStores
<1>13. ASSUME NEW m \in net, RecvDecline(m) PROVE RelInv'
  BY <1>13
     DEF RecvDecline, toolVars, answerVars, relVars, IInv, TypeOK, RelInv,
         AnswerInv, RowInv, BilateralConsent, NoRevival
<1>14. ASSUME NEW m \in net, RecvRevoke(m) PROVE RelInv'
  BY <1>14, RevocationStores
<1>15. ASSUME NEW m \in net, Lose(m) PROVE RelInv'
  BY <1>15
     DEF Lose, toolVars, answerVars, relVars, IInv, TypeOK, RelInv, AnswerInv,
         RowInv, BilateralConsent, NoRevival
<1>16. ASSUME NEW id \in Revocations, NEW a \in Agents, NEW p \in Agents,
              NEW targets \in SUBSET Kinds, NEW k \in targets,
              RevokeBegins(id, a, p, targets, k)
       PROVE  RelInv'
  BY <1>16
     DEF RevokeBegins, toolVars, answerVars, relVars, IInv, TypeOK, RelInv,
         AnswerInv, RowInv, BilateralConsent, NoRevival
<1>17. ASSUME NEW op \in revoking, NEW k \in op.todo,
              RevokeContinues(op, k)
       PROVE  RelInv'
  BY <1>17, RevocationStores
<1>18. ASSUME NEW op \in revoking, RevokeEnds(op) PROVE RelInv'
  BY <1>18, RevocationStores
<1>19. ASSUME NEW a \in Agents, Crash(a) PROVE RelInv'
  BY <1>19
     DEF Crash, relVars, IInv, TypeOK, RelInv, AnswerInv, RowInv,
         BilateralConsent, NoRevival
<1>20. CASE UNCHANGED vars
  BY <1>20
     DEF vars, toolVars, answerVars, relVars, IInv, TypeOK, RelInv, AnswerInv,
         RowInv, BilateralConsent, NoRevival
<1> QED
  BY <1>1, <1>2, <1>3, <1>4, <1>5, <1>6, <1>7, <1>8, <1>9, <1>10, <1>11,
     <1>12, <1>13, <1>14, <1>15, <1>16, <1>17, <1>18, <1>19, <1>20 DEF Next

(* A side that makes a record of a proposal loses the means to make a      *)
(* second one: the outbound row, or its place in accepting.                *)
LEMMA UsedStep == IInv /\ [Next]_vars => UsedInv'
<1> SUFFICES ASSUME IInv, [Next]_vars PROVE UsedInv'
  OBVIOUS
<1>1. ASSUME NEW n \in Nonces, Propose(n) PROVE UsedInv'
  BY <1>1
     DEF Propose, rowVars, answerVars, relVars, IInv, TypeOK, RowInv,
         AnswerInv, UsedInv, Used
<1>2. ASSUME NEW n \in Nonces, ProposeRecorded(n) PROVE UsedInv'
  BY <1>2
     DEF ProposeRecorded, answerVars, relVars, IInv, TypeOK, RowInv,
         AnswerInv, UsedInv, Used
<1>3. ASSUME NEW n \in Nonces, ProposeFails(n) PROVE UsedInv'
  BY <1>3
     DEF ProposeFails, rowVars, answerVars, relVars, IInv, TypeOK, RowInv,
         AnswerInv, UsedInv, Used
<1>4. ASSUME NEW n \in Nonces, NEW verb \in Verbs,
             UserAnswers(n, verb)
      PROVE  UsedInv'
  BY <1>4
     DEF UserAnswers, toolVars, rowVars, relVars, IInv, TypeOK, RowInv,
         AnswerInv, UsedInv, Used
<1>5. ASSUME NEW n \in Nonces, NEW verb \in Verbs,
             AnswerTooLate(n, verb)
      PROVE  UsedInv'
  BY <1>5
     DEF AnswerTooLate, toolVars, rowVars, relVars, IInv, TypeOK, RowInv,
         AnswerInv, UsedInv, Used
<1>6. ASSUME NEW n \in Nonces, AcceptBegins(n) PROVE UsedInv'
  BY <1>6
     DEF AcceptBegins, TakeInbound, relVars, IInv, TypeOK, RowInv, AnswerInv,
         UsedInv, Used
<1>7. ASSUME NEW n \in Nonces, AcceptEstablishes(n) PROVE UsedInv'
  <2>1. /\ \A g, q : Used(g, q)' => Used(g, q) \/ (g = Addressee[n] /\ q = n)
        /\ accepting' = accepting \ {n} /\ n \in accepting
        /\ UNCHANGED <<asked, proposing, outbound, accepts>>
    BY <1>7, AcceptStores DEF AcceptEstablishes, rowVars, answerVars
  <2>2. accepts[n] = 1
    BY <2>1 DEF IInv, AnswerInv
  <2> QED BY <2>1, <2>2, TwoPartiesAssumption DEF IInv, UsedInv
<1>8. ASSUME NEW n \in Nonces, AcceptFails(n) PROVE UsedInv'
  BY <1>8
     DEF AcceptFails, rowVars, answerVars, relVars, IInv, TypeOK, RowInv,
         AnswerInv, UsedInv, Used
<1>9. ASSUME NEW n \in Nonces, Decline(n) PROVE UsedInv'
  BY <1>9
     DEF Decline, TakeInbound, toolVars, relVars, IInv, TypeOK, RowInv,
         AnswerInv, UsedInv, Used
<1>10. ASSUME NEW p \in Agents, NEW n \in Nonces, NEW verb \in Verbs,
              StrayAnswer(p, n, verb)
       PROVE  UsedInv'
  BY <1>10
     DEF StrayAnswer, toolVars, rowVars, answerVars, relVars, IInv, TypeOK,
         RowInv, AnswerInv, UsedInv, Used
<1>11. ASSUME NEW m \in net, RecvProposal(m) PROVE UsedInv'
  BY <1>11
     DEF RecvProposal, toolVars, answerVars, relVars, IInv, TypeOK, RowInv,
         AnswerInv, UsedInv, Used
<1>12. ASSUME NEW m \in net, NEW stored \in BOOLEAN,
              RecvAccept(m, stored)
       PROVE  UsedInv'
  <2>1. /\ \A g, q : Used(g, q)' =>
              \/ Used(g, q)
              \/ g = Proposer[m.id] /\ q = m.id /\ m.id \in outbound
        /\ outbound' = outbound \ {m.id} /\ m.id \in asked
        /\ UNCHANGED <<asked, proposing, accepting, accepts>>
    BY <1>12, ReceiptStores
       DEF RecvAccept, toolVars, answerVars, IInv, NetInv
  <2>2. m.id \in outbound => m.id \notin proposing
    BY DEF IInv, RowInv
  <2> QED BY <2>1, <2>2, TwoPartiesAssumption DEF IInv, UsedInv
<1>13. ASSUME NEW m \in net, RecvDecline(m) PROVE UsedInv'
  BY <1>13
     DEF RecvDecline, toolVars, answerVars, relVars, IInv, TypeOK, RowInv,
         AnswerInv, UsedInv, Used
<1>14. ASSUME NEW m \in net, RecvRevoke(m) PROVE UsedInv'
  BY <1>14, RevocationStores DEF IInv, TypeOK, UsedInv
<1>15. ASSUME NEW m \in net, Lose(m) PROVE UsedInv'
  BY <1>15
     DEF Lose, toolVars, rowVars, answerVars, relVars, IInv, TypeOK, RowInv,
         AnswerInv, UsedInv, Used
<1>16. ASSUME NEW id \in Revocations, NEW a \in Agents, NEW p \in Agents,
              NEW targets \in SUBSET Kinds, NEW k \in targets,
              RevokeBegins(id, a, p, targets, k)
       PROVE  UsedInv'
  BY <1>16
     DEF RevokeBegins, toolVars, rowVars, answerVars, relVars, IInv, TypeOK,
         RowInv, AnswerInv, UsedInv, Used
<1>17. ASSUME NEW op \in revoking, NEW k \in op.todo,
              RevokeContinues(op, k)
       PROVE  UsedInv'
  BY <1>17, RevocationStores DEF IInv, TypeOK, UsedInv
<1>18. ASSUME NEW op \in revoking, RevokeEnds(op) PROVE UsedInv'
  BY <1>18, RevocationStores DEF IInv, TypeOK, UsedInv
<1>19. ASSUME NEW a \in Agents, Crash(a) PROVE UsedInv'
  BY <1>19
     DEF Crash, rowVars, relVars, IInv, TypeOK, RowInv, AnswerInv, UsedInv,
         Used
<1>20. CASE UNCHANGED vars
  BY <1>20
     DEF vars, toolVars, rowVars, answerVars, relVars, IInv, TypeOK, RowInv,
         AnswerInv, UsedInv, Used
<1> QED
  BY <1>1, <1>2, <1>3, <1>4, <1>5, <1>6, <1>7, <1>8, <1>9, <1>10, <1>11,
     <1>12, <1>13, <1>14, <1>15, <1>16, <1>17, <1>18, <1>19, <1>20 DEF Next

(* Every action keeps the types.                                           *)
LEMMA TypeStep == IInv /\ [Next]_vars => TypeOK'
<1> SUFFICES ASSUME IInv, [Next]_vars PROVE TypeOK'
  OBVIOUS
<1>1. ASSUME NEW n \in Nonces, Propose(n) PROVE TypeOK'
  <2>1. Envelope("propose", Proposer[n], Addressee[n], n) \in Message
    BY ProposerAssumption, AddresseeAssumption, KindOfAssumption
       DEF Envelope, Message, Verbs
  <2> QED BY <1>1, <2>1, MaxStraysAssumption
          DEF Propose, rowVars, answerVars, relVars, revVars,
              IInv, TypeOK
<1>2. ASSUME NEW n \in Nonces, ProposeRecorded(n) PROVE TypeOK'
  BY <1>2 DEF ProposeRecorded, answerVars, relVars, revVars, IInv, TypeOK
<1>3. ASSUME NEW n \in Nonces, ProposeFails(n) PROVE TypeOK'
  BY <1>3
     DEF ProposeFails, rowVars, answerVars, relVars, revVars, IInv, TypeOK
<1>4. ASSUME NEW n \in Nonces, NEW verb \in Verbs,
             UserAnswers(n, verb)
      PROVE  TypeOK'
  BY <1>4 DEF UserAnswers, toolVars, rowVars, relVars, revVars, IInv, TypeOK
<1>5. ASSUME NEW n \in Nonces, NEW verb \in Verbs,
             AnswerTooLate(n, verb)
      PROVE  TypeOK'
  BY <1>5 DEF AnswerTooLate, toolVars, rowVars, relVars, revVars, IInv, TypeOK
<1>6. ASSUME NEW n \in Nonces, AcceptBegins(n) PROVE TypeOK'
  <2>1. Envelope("accept", Addressee[n], Proposer[n], n) \in Message
    BY ProposerAssumption, AddresseeAssumption, KindOfAssumption
       DEF Envelope, Message, Verbs
  <2> QED BY <1>6, <2>1, MaxStraysAssumption
          DEF AcceptBegins, TakeInbound, relVars, revVars,
              IInv, TypeOK
<1>7. ASSUME NEW n \in Nonces, AcceptEstablishes(n) PROVE TypeOK'
  <2>1. rel' \in SUBSET Record /\ ended' \in SUBSET (Agents \X Nonces)
    BY <1>7, AcceptStores
  <2> QED BY <1>7, <2>1
          DEF AcceptEstablishes, rowVars, answerVars, revVars, IInv, TypeOK
<1>8. ASSUME NEW n \in Nonces, AcceptFails(n) PROVE TypeOK'
  BY <1>8 DEF AcceptFails, rowVars, answerVars, relVars, revVars, IInv, TypeOK
<1>9. ASSUME NEW n \in Nonces, Decline(n) PROVE TypeOK'
  <2>1. Envelope("decline", Addressee[n], Proposer[n], n) \in Message
    BY ProposerAssumption, AddresseeAssumption, KindOfAssumption
       DEF Envelope, Message, Verbs
  <2> QED BY <1>9, <2>1, MaxStraysAssumption
          DEF Decline, TakeInbound, toolVars, relVars, revVars,
              IInv, TypeOK
<1>10. ASSUME NEW p \in Agents, NEW n \in Nonces, NEW verb \in Verbs,
              StrayAnswer(p, n, verb)
       PROVE  TypeOK'
  <2>1. Envelope(verb, p, Proposer[n], n) \in Message
    BY ProposerAssumption, AddresseeAssumption, KindOfAssumption
       DEF Envelope, Message, Verbs
  <2> QED BY <1>10, <2>1, MaxStraysAssumption
          DEF StrayAnswer, toolVars, rowVars, answerVars, relVars, revVars,
              IInv, TypeOK
<1>11. ASSUME NEW m \in net, RecvProposal(m) PROVE TypeOK'
  BY <1>11, Envelopes
     DEF RecvProposal, toolVars, answerVars, relVars, revVars, IInv, TypeOK
<1>12. ASSUME NEW m \in net, NEW stored \in BOOLEAN,
              RecvAccept(m, stored)
       PROVE  TypeOK'
  <2>1. rel' \in SUBSET Record /\ ended' \in SUBSET (Agents \X Nonces)
    BY <1>12, ReceiptStores
  <2>2. disturbed' \in SUBSET Nonces
    BY <1>12, Envelopes DEF RecvAccept, IInv, TypeOK
  <2> QED BY <1>12, <2>1, <2>2
          DEF RecvAccept, toolVars, answerVars, revVars, IInv, TypeOK
<1>13. ASSUME NEW m \in net, RecvDecline(m) PROVE TypeOK'
  BY <1>13, Envelopes
     DEF RecvDecline, toolVars, answerVars, relVars, revVars, IInv, TypeOK
<1>14. ASSUME NEW m \in net, RecvRevoke(m) PROVE TypeOK'
  <2>1. rel' \in SUBSET Record /\ ended' \in SUBSET (Agents \X Nonces)
    BY <1>14, RevocationStores
  <2> QED BY <1>14, <2>1
          DEF RecvRevoke, toolVars, rowVars, answerVars, revVars, IInv, TypeOK
<1>15. ASSUME NEW m \in net, Lose(m) PROVE TypeOK'
  BY <1>15
     DEF Lose, toolVars, rowVars, answerVars, relVars, revVars, IInv, TypeOK
<1>16. ASSUME NEW id \in Revocations, NEW a \in Agents, NEW p \in Agents,
              NEW targets \in SUBSET Kinds, NEW k \in targets,
              RevokeBegins(id, a, p, targets, k)
       PROVE  TypeOK'
  <2>1. net' \in SUBSET Message
    BY <1>16 DEF RevokeBegins, SendRevoke, Revoke, IInv, TypeOK, Message
  <2>2. revoking' \in SUBSET Unfriending
    BY <1>16 DEF RevokeBegins, IInv, TypeOK, Unfriending
  <2> QED BY <1>16, <2>1, <2>2
          DEF RevokeBegins, Between, toolVars, rowVars, answerVars, relVars,
              IInv, TypeOK
<1>17. ASSUME NEW op \in revoking, NEW k \in op.todo,
              RevokeContinues(op, k)
       PROVE  TypeOK'
  <2>1. rel' \in SUBSET Record /\ ended' \in SUBSET (Agents \X Nonces)
    BY <1>17, RevocationStores
  <2>2. op \in Unfriending /\ k \in Kinds
    BY <1>17 DEF IInv, TypeOK, Unfriending
  <2>3. [op EXCEPT !.kind = k, !.todo = op.todo \ {k}] \in Unfriending
    BY <2>2 DEF Unfriending
  <2>4. net' \in SUBSET Message
    BY <1>17, <2>2 DEF RevokeContinues, SendRevoke, Revoke, IInv, TypeOK,
                      Message, Unfriending
  <2> QED BY <1>17, <2>1, <2>3, <2>4
          DEF RevokeContinues, toolVars, rowVars, answerVars, IInv, TypeOK
<1>18. ASSUME NEW op \in revoking, RevokeEnds(op) PROVE TypeOK'
  <2>1. rel' \in SUBSET Record /\ ended' \in SUBSET (Agents \X Nonces)
    BY <1>18, RevocationStores
  <2>2. op.id \in Revocations
    BY DEF IInv, TypeOK, Unfriending
  <2> QED BY <1>18, <2>1, <2>2
          DEF RevokeEnds, toolVars, rowVars, answerVars, IInv, TypeOK
<1>19. ASSUME NEW a \in Agents, Crash(a) PROVE TypeOK'
  BY <1>19 DEF Crash, rowVars, relVars, IInv, TypeOK
<1>20. CASE UNCHANGED vars
  BY <1>20
     DEF vars, toolVars, rowVars, answerVars, relVars, revVars, IInv, TypeOK
<1> QED
  BY <1>1, <1>2, <1>3, <1>4, <1>5, <1>6, <1>7, <1>8, <1>9, <1>10, <1>11,
     <1>12, <1>13, <1>14, <1>15, <1>16, <1>17, <1>18, <1>19, <1>20 DEF Next

(* Where a record is made, no other one is missed.                         *)
LEMMA EstablishMakes ==
  ASSUME NEW h, NEW p, NEW n, Establish(h, p, n)
  PROVE  /\ Made(h, p, KindOf[n])'
         /\ \A g, q, k : Made(g, q, k) => Made(g, q, k)'
<1> DEFINE new == [holder |-> h, peer |-> p, kind |-> KindOf[n], nonce |-> n]
<1>1. rel' = (rel \ Held(h, p, KindOf[n])) \cup {new}
  BY DEF Establish
<1>2. new.holder = h /\ new.peer = p /\ new.kind = KindOf[n]
  OBVIOUS
<1> HIDE DEF new
<1>3. Made(h, p, KindOf[n])'
  BY <1>1, <1>2 DEF Made, Held
<1>4. ASSUME NEW g, NEW q, NEW k, Made(g, q, k)
      PROVE  Made(g, q, k)'
  <2>1. CASE g = h /\ q = p /\ k = KindOf[n]
    BY <1>3, <2>1
  <2>2. CASE ~(g = h /\ q = p /\ k = KindOf[n])
    BY <1>1, <1>4, <2>2 DEF Made, Held
  <2> QED BY <2>1, <2>2
<1> QED BY <1>3, <1>4

(* An envelope of another proposal, or of another type, is no accept of n. *)
LEMMA AcceptsDiffer ==
  ASSUME NEW n \in Nonces
  PROVE  /\ AcceptOf(n).type = "accept" /\ AcceptOf(n).id = n
         /\ AcceptOf(n).from = Addressee[n]
BY DEF AcceptOf, Envelope

(* Only an answer, or what is counted as a disturbance, takes the row of a *)
(* proposer.                                                               *)
LEMMA PendingStep == IInv /\ [Next]_vars => PendingInv'
<1> SUFFICES ASSUME IInv, [Next]_vars PROVE PendingInv'
  OBVIOUS
<1>1. ASSUME NEW n \in Nonces, Propose(n)
      PROVE  PendingInv'
  BY <1>1, AcceptsDiffer
     DEF Propose, rowVars, answerVars, Envelope, IInv, PendingInv
<1>2. ASSUME NEW n \in Nonces, ProposeRecorded(n)
      PROVE  PendingInv'
  BY <1>2, AcceptsDiffer
     DEF ProposeRecorded, answerVars, relVars, revVars, IInv, PendingInv
<1>3. ASSUME NEW n \in Nonces, ProposeFails(n)
      PROVE  PendingInv'
  BY <1>3, AcceptsDiffer
     DEF ProposeFails, rowVars, answerVars, relVars, revVars, IInv, PendingInv
<1>4. ASSUME NEW n \in Nonces, NEW verb \in Verbs, UserAnswers(n, verb)
      PROVE  PendingInv'
  BY <1>4, AcceptsDiffer
     DEF UserAnswers, toolVars, rowVars, relVars, revVars, IInv, PendingInv
<1>5. ASSUME NEW n \in Nonces, NEW verb \in Verbs, AnswerTooLate(n, verb)
      PROVE  PendingInv'
  BY <1>5, AcceptsDiffer
     DEF AnswerTooLate, toolVars, rowVars, relVars, revVars, IInv, PendingInv
<1>6. ASSUME NEW n \in Nonces, AcceptBegins(n)
      PROVE  PendingInv'
  BY <1>6, AcceptsDiffer
     DEF AcceptBegins, TakeInbound, AcceptOf, IInv, TypeOK, RowInv, AnswerInv,
         PendingInv
<1>7. ASSUME NEW n \in Nonces, AcceptEstablishes(n)
      PROVE  PendingInv'
  BY <1>7, AcceptsDiffer
     DEF AcceptEstablishes, rowVars, answerVars, revVars, IInv, PendingInv
<1>8. ASSUME NEW n \in Nonces, AcceptFails(n)
      PROVE  PendingInv'
  BY <1>8, AcceptsDiffer
     DEF AcceptFails, rowVars, answerVars, relVars, revVars, IInv, PendingInv
<1>9. ASSUME NEW n \in Nonces, Decline(n)
      PROVE  PendingInv'
  BY <1>9, AcceptsDiffer
     DEF Decline, TakeInbound, toolVars, Envelope, IInv, TypeOK, AnswerInv,
         PendingInv
<1>10. ASSUME NEW p \in Agents, NEW n \in Nonces, NEW verb \in Verbs,
              StrayAnswer(p, n, verb)
       PROVE  PendingInv'
  BY <1>10, AcceptsDiffer
     DEF StrayAnswer, toolVars, rowVars, answerVars, Envelope, Verbs, IInv,
         PendingInv
<1>11. ASSUME NEW m \in net, RecvProposal(m)
       PROVE  PendingInv'
  BY <1>11, AcceptsDiffer
     DEF RecvProposal, toolVars, answerVars, IInv, PendingInv
<1>12. ASSUME NEW m \in net, NEW stored \in BOOLEAN, RecvAccept(m, stored)
       PROVE  PendingInv'
  <2>1. /\ m.id \in Nonces /\ net' = net \ {m}
        /\ outbound' = outbound \ {m.id}
        /\ UNCHANGED <<asked, proposing, accepts, declines>>
        /\ disturbed \subseteq disturbed'
    BY <1>12, Envelopes DEF RecvAccept, toolVars, answerVars, IInv
  <2>2. \/ m.id \in disturbed' \/ m.id \notin outbound
        \/ m.from = Addressee[m.id]
    BY <1>12 DEF RecvAccept
  <2>3. m.from = Addressee[m.id] => m = AcceptOf(m.id) /\ accepts[m.id] = 1
    BY <1>12 DEF RecvAccept, AcceptOf, IInv, NetInv
  <2> QED BY <2>1, <2>2, <2>3, AcceptsDiffer DEF IInv, PendingInv
<1>13. ASSUME NEW m \in net, RecvDecline(m)
       PROVE  PendingInv'
  <2>1. /\ m.id \in Nonces /\ net' = net \ {m}
        /\ outbound' = outbound \ {m.id}
        /\ UNCHANGED <<asked, proposing, accepts, declines>>
        /\ disturbed \subseteq disturbed'
    BY <1>13, Envelopes DEF RecvDecline, toolVars, answerVars, IInv
  <2>2. \/ m.id \in disturbed' \/ m.id \notin outbound \/ declines[m.id] = 1
    BY <1>13 DEF RecvDecline, IInv, NetInv
  <2> QED BY <2>1, <2>2, AcceptsDiffer DEF IInv, PendingInv
<1>14. ASSUME NEW m \in net, RecvRevoke(m)
       PROVE  PendingInv'
  BY <1>14, AcceptsDiffer
     DEF RecvRevoke, toolVars, rowVars, answerVars, revVars, IInv, PendingInv
<1>15. ASSUME NEW m \in net, Lose(m)
       PROVE  PendingInv'
  BY <1>15, AcceptsDiffer
     DEF Lose, toolVars, rowVars, answerVars, relVars, revVars, IInv,
         PendingInv
<1>16. ASSUME NEW id \in Revocations, NEW a \in Agents, NEW p \in Agents,
              NEW targets \in SUBSET Kinds, NEW k \in targets,
              RevokeBegins(id, a, p, targets, k)
       PROVE  PendingInv'
  BY <1>16, AcceptsDiffer
     DEF RevokeBegins, SendRevoke, Revoke, toolVars, rowVars, answerVars,
         IInv, PendingInv
<1>17. ASSUME NEW op \in revoking, NEW k \in op.todo, RevokeContinues(op, k)
       PROVE  PendingInv'
  BY <1>17, AcceptsDiffer
     DEF RevokeContinues, SendRevoke, Revoke, toolVars, rowVars, answerVars,
         IInv, PendingInv
<1>18. ASSUME NEW op \in revoking, RevokeEnds(op)
       PROVE  PendingInv'
  BY <1>18, AcceptsDiffer
     DEF RevokeEnds, toolVars, rowVars, answerVars, IInv, PendingInv
<1>19. ASSUME NEW a \in Agents, Crash(a)
       PROVE  PendingInv'
  BY <1>19, AcceptsDiffer DEF Crash, rowVars, relVars, IInv, PendingInv
<1>20. CASE UNCHANGED vars
  BY <1>20, AcceptsDiffer
     DEF vars, toolVars, rowVars, answerVars, relVars, revVars, IInv,
         PendingInv
<1> QED
  BY <1>1, <1>2, <1>3, <1>4, <1>5, <1>6, <1>7, <1>8, <1>9, <1>10, <1>11,
     <1>12, <1>13, <1>14, <1>15, <1>16, <1>17, <1>18, <1>19, <1>20 DEF Next

(* The kinds taken together.                                               *)
LEMMA BetweenGrows ==
  ASSUME NEW a, NEW p, NEW ks, NEW js, ks \subseteq js
  PROVE  Between(a, p, ks) \subseteq Between(a, p, js)
BY DEF Between

(* An envelope other than a revoke concerns no revocation.                 *)
LEMMA RevokeKept ==
  ASSUME IInv, UNCHANGED <<revoking, disturbed>>, NEW e, e.type # "revoke",
         net' = net \cup {e}
  PROVE  RevokeInv'
<1>1. \A m \in net' : m.type = "revoke" => m \in net
  OBVIOUS
<1> QED BY <1>1 DEF IInv, RevokeInv

(* A revocation disturbs what it concerns before its first send.           *)
LEMMA RevokeStep == IInv /\ [Next]_vars => RevokeInv'
<1> SUFFICES ASSUME IInv, [Next]_vars PROVE RevokeInv'
  OBVIOUS
<1>1. ASSUME NEW n \in Nonces, Propose(n)
      PROVE  RevokeInv'
  <2>1. Envelope("propose", Proposer[n], Addressee[n], n).type # "revoke"
    BY DEF Envelope
  <2> QED BY <1>1, <2>1, RevokeKept DEF Propose, revVars
<1>2. ASSUME NEW n \in Nonces, ProposeRecorded(n)
      PROVE  RevokeInv'
  BY <1>2 DEF ProposeRecorded, answerVars, relVars, revVars, IInv, RevokeInv
<1>3. ASSUME NEW n \in Nonces, ProposeFails(n)
      PROVE  RevokeInv'
  BY <1>3
     DEF ProposeFails, rowVars, answerVars, relVars, revVars, IInv, RevokeInv
<1>4. ASSUME NEW n \in Nonces, NEW verb \in Verbs, UserAnswers(n, verb)
      PROVE  RevokeInv'
  BY <1>4
     DEF UserAnswers, toolVars, rowVars, relVars, revVars, IInv, RevokeInv
<1>5. ASSUME NEW n \in Nonces, NEW verb \in Verbs, AnswerTooLate(n, verb)
      PROVE  RevokeInv'
  BY <1>5
     DEF AnswerTooLate, toolVars, rowVars, relVars, revVars, IInv, RevokeInv
<1>6. ASSUME NEW n \in Nonces, AcceptBegins(n)
      PROVE  RevokeInv'
  BY <1>6 DEF AcceptBegins, revVars, Envelope, IInv, RevokeInv
<1>7. ASSUME NEW n \in Nonces, AcceptEstablishes(n)
      PROVE  RevokeInv'
  BY <1>7 DEF AcceptEstablishes, rowVars, answerVars, revVars, IInv, RevokeInv
<1>8. ASSUME NEW n \in Nonces, AcceptFails(n)
      PROVE  RevokeInv'
  BY <1>8
     DEF AcceptFails, rowVars, answerVars, relVars, revVars, IInv, RevokeInv
<1>9. ASSUME NEW n \in Nonces, Decline(n)
      PROVE  RevokeInv'
  BY <1>9 DEF Decline, revVars, Envelope, IInv, RevokeInv
<1>10. ASSUME NEW p \in Agents, NEW n \in Nonces, NEW verb \in Verbs,
              StrayAnswer(p, n, verb)
       PROVE  RevokeInv'
  <2>1. Envelope(verb, p, Proposer[n], n).type # "revoke"
    BY DEF Envelope, Verbs
  <2> QED BY <1>10, <2>1, RevokeKept DEF StrayAnswer, revVars
<1>11. ASSUME NEW m \in net, RecvProposal(m)
       PROVE  RevokeInv'
  BY <1>11
     DEF RecvProposal, toolVars, answerVars, relVars, revVars, IInv, RevokeInv
<1>12. ASSUME NEW m \in net, NEW stored \in BOOLEAN, RecvAccept(m, stored)
       PROVE  RevokeInv'
  BY <1>12
     DEF RecvAccept, toolVars, answerVars, relVars, revVars, IInv, RevokeInv
<1>13. ASSUME NEW m \in net, RecvDecline(m)
       PROVE  RevokeInv'
  BY <1>13
     DEF RecvDecline, toolVars, answerVars, relVars, revVars, IInv, RevokeInv
<1>14. ASSUME NEW m \in net, RecvRevoke(m)
       PROVE  RevokeInv'
  BY <1>14
     DEF RecvRevoke, toolVars, rowVars, answerVars, revVars, IInv, RevokeInv
<1>15. ASSUME NEW m \in net, Lose(m)
       PROVE  RevokeInv'
  BY <1>15
     DEF Lose, toolVars, rowVars, answerVars, relVars, revVars, IInv,
         RevokeInv
<1>16. ASSUME NEW id \in Revocations, NEW a \in Agents, NEW p \in Agents,
              NEW targets \in SUBSET Kinds, NEW k \in targets,
              RevokeBegins(id, a, p, targets, k)
       PROVE  RevokeInv'
  <2>1. Between(a, p, {k} \cup (targets \ {k})) \subseteq disturbed'
        /\ Between(a, p, {k}) \subseteq disturbed'
    BY <1>16, BetweenGrows DEF RevokeBegins
  <2>2. disturbed \subseteq disturbed'
    BY <1>16 DEF RevokeBegins
  <2>3. \A op \in revoking' :
          Between(op.agent, op.peer, {op.kind} \cup op.todo)
            \subseteq disturbed'
    BY <1>16, <2>1, <2>2 DEF RevokeBegins, IInv, RevokeInv
  <2>4. \A m \in net' : m.type = "revoke" =>
          Between(m.from, m.to, {m.kind}) \subseteq disturbed'
    <3>1. \A m \in net' : m \in net \/ m = Revoke(id, a, p, k)
      BY <1>16 DEF RevokeBegins, SendRevoke
    <3>2. LET m == Revoke(id, a, p, k)
          IN  m.from = a /\ m.to = p /\ m.kind = k
      BY DEF Revoke
    <3> QED BY <2>1, <2>2, <3>1, <3>2 DEF IInv, RevokeInv
  <2> QED BY <2>3, <2>4 DEF RevokeInv
<1>17. ASSUME NEW op \in revoking, NEW k \in op.todo, RevokeContinues(op, k)
       PROVE  RevokeInv'
  <2> DEFINE next == [op EXCEPT !.kind = k, !.todo = op.todo \ {k}]
  <2>1. /\ next.agent = op.agent /\ next.peer = op.peer /\ next.kind = k
        /\ next.todo = op.todo \ {k}
    BY DEF IInv, TypeOK, Unfriending
  <2>2. Between(op.agent, op.peer, {op.kind} \cup op.todo) \subseteq disturbed
    BY DEF IInv, RevokeInv
  <2>3. /\ Between(op.agent, op.peer, {k} \cup (op.todo \ {k}))
              \subseteq disturbed
        /\ Between(op.agent, op.peer, {k}) \subseteq disturbed
    BY <1>17, <2>2, BetweenGrows DEF RevokeContinues
  <2>4. /\ revoking' = (revoking \ {op}) \cup {next}
        /\ disturbed' = disturbed
    BY <1>17 DEF RevokeContinues
  <2> HIDE DEF next
  <2>5. \A o \in revoking' :
          Between(o.agent, o.peer, {o.kind} \cup o.todo) \subseteq disturbed'
    BY <2>1, <2>3, <2>4 DEF IInv, RevokeInv
  <2>6. \A m \in net' : m.type = "revoke" =>
          Between(m.from, m.to, {m.kind}) \subseteq disturbed'
    <3>1. \A m \in net' : m \in net \/ m = Revoke(op.id, op.agent, op.peer, k)
      BY <1>17 DEF RevokeContinues, SendRevoke
    <3>2. LET m == Revoke(op.id, op.agent, op.peer, k)
          IN  m.from = op.agent /\ m.to = op.peer /\ m.kind = k
      BY DEF Revoke
    <3> QED BY <2>3, <2>4, <3>1, <3>2 DEF IInv, RevokeInv
  <2> QED BY <2>5, <2>6 DEF RevokeInv
<1>18. ASSUME NEW op \in revoking, RevokeEnds(op)
       PROVE  RevokeInv'
  BY <1>18 DEF RevokeEnds, toolVars, rowVars, answerVars, IInv, RevokeInv
<1>19. ASSUME NEW a \in Agents, Crash(a)
       PROVE  RevokeInv'
  BY <1>19 DEF Crash, rowVars, relVars, IInv, RevokeInv
<1>20. CASE UNCHANGED vars
  BY <1>20
     DEF vars, toolVars, rowVars, answerVars, relVars, revVars, IInv,
         RevokeInv
<1> QED
  BY <1>1, <1>2, <1>3, <1>4, <1>5, <1>6, <1>7, <1>8, <1>9, <1>10, <1>11,
     <1>12, <1>13, <1>14, <1>15, <1>16, <1>17, <1>18, <1>19, <1>20 DEF Next

(* A revocation of what is disturbed leaves the other records.             *)
LEMMA RemoveKeeps ==
  ASSUME TypeOK, NEW h, NEW p, NEW k, RemoveRecord(h, p, k),
         Between(h, p, {k}) \subseteq disturbed, NEW n \in Nonces \ disturbed
  PROVE  /\ Made(Addressee[n], Proposer[n], KindOf[n]) =>
              Made(Addressee[n], Proposer[n], KindOf[n])'
         /\ Made(Proposer[n], Addressee[n], KindOf[n]) =>
              Made(Proposer[n], Addressee[n], KindOf[n])'
<1>1. rel' = rel \ Held(h, p, k)
  BY DEF RemoveRecord
<1>2. n \notin Between(h, p, {k})
  OBVIOUS
<1>3. ~(KindOf[n] = k /\ {Proposer[n], Addressee[n]} = {h, p})
  BY <1>2 DEF Between
<1> QED BY <1>1, <1>3 DEF Made, Held

(* Steps that make and end no record, and take no accept.                  *)
LEMMA SideKept ==
  ASSUME IInv, UNCHANGED <<rel, accepting, accepts>>,
         disturbed \subseteq disturbed',
         \A n \in Nonces \ disturbed' : AcceptOf(n) \in net =>
           AcceptOf(n) \in net'
  PROVE  SideInv'
BY DEF IInv, SideInv, Made, Held

(* Each side of an accepted proposal comes to its record.                  *)
LEMMA SideStep == IInv /\ [Next]_vars => SideInv'
<1> SUFFICES ASSUME IInv, [Next]_vars PROVE SideInv'
  OBVIOUS
<1>1. ASSUME NEW n \in Nonces, Propose(n)
      PROVE  SideInv'
  BY <1>1, SideKept, AcceptsDiffer
     DEF Propose, rowVars, answerVars, relVars, revVars
<1>2. ASSUME NEW n \in Nonces, ProposeRecorded(n)
      PROVE  SideInv'
  BY <1>2, SideKept, AcceptsDiffer
     DEF ProposeRecorded, answerVars, relVars, revVars
<1>3. ASSUME NEW n \in Nonces, ProposeFails(n)
      PROVE  SideInv'
  BY <1>3, SideKept DEF ProposeFails, answerVars, relVars
<1>4. ASSUME NEW n \in Nonces, NEW verb \in Verbs, UserAnswers(n, verb)
      PROVE  SideInv'
  BY <1>4, SideKept, AcceptsDiffer
     DEF UserAnswers, toolVars, rowVars, relVars, revVars
<1>5. ASSUME NEW n \in Nonces, NEW verb \in Verbs, AnswerTooLate(n, verb)
      PROVE  SideInv'
  BY <1>5, SideKept, AcceptsDiffer
     DEF AnswerTooLate, toolVars, rowVars, relVars, revVars
<1>6. ASSUME NEW n \in Nonces, AcceptBegins(n)
      PROVE  SideInv'
  <2>1. /\ rel' = rel /\ disturbed' = disturbed
        /\ accepting' = accepting \cup {n} /\ net' = net \cup {AcceptOf(n)}
        /\ \A q \in Nonces : q # n => accepts'[q] = accepts[q]
    BY <1>6 DEF AcceptBegins, TakeInbound, relVars, AcceptOf, IInv, TypeOK
  <2> QED BY <2>1 DEF IInv, SideInv, Made, Held
<1>7. ASSUME NEW n \in Nonces, AcceptEstablishes(n)
      PROVE  SideInv'
  <2>1. /\ Establish(Addressee[n], Proposer[n], n)
        /\ accepting' = accepting \ {n}
        /\ UNCHANGED <<accepts, net, disturbed>>
    BY <1>7 DEF AcceptEstablishes, answerVars
  <2>2. /\ Made(Addressee[n], Proposer[n], KindOf[n])'
        /\ \A h, p, k : Made(h, p, k) => Made(h, p, k)'
    BY <2>1, EstablishMakes
  <2> QED BY <2>1, <2>2 DEF IInv, SideInv
<1>8. ASSUME NEW n \in Nonces, AcceptFails(n)
      PROVE  SideInv'
  BY <1>8 DEF AcceptFails, answerVars, relVars, IInv, SideInv, Made, Held
<1>9. ASSUME NEW n \in Nonces, Decline(n)
      PROVE  SideInv'
  BY <1>9, SideKept, AcceptsDiffer
     DEF Decline, toolVars, relVars, revVars, TakeInbound
<1>10. ASSUME NEW p \in Agents, NEW n \in Nonces, NEW verb \in Verbs,
              StrayAnswer(p, n, verb)
       PROVE  SideInv'
  BY <1>10, SideKept, AcceptsDiffer
     DEF StrayAnswer, toolVars, rowVars, answerVars, relVars, revVars
<1>11. ASSUME NEW m \in net, RecvProposal(m)
       PROVE  SideInv'
  BY <1>11, SideKept, AcceptsDiffer
     DEF RecvProposal, toolVars, answerVars, relVars, revVars
<1>12. ASSUME NEW m \in net, NEW stored \in BOOLEAN, RecvAccept(m, stored)
       PROVE  SideInv'
  <2>1. /\ m.type = "accept" /\ m.id \in Nonces /\ net' = net \ {m}
        /\ UNCHANGED <<accepts, accepting>> /\ disturbed \subseteq disturbed'
    BY <1>12, Envelopes DEF RecvAccept, toolVars, answerVars, IInv
  <2>2. CASE m.id \in outbound /\ m.from = Addressee[m.id] /\ stored
    <3>1. m.to = Proposer[m.id]
      BY <2>1 DEF IInv, NetInv, Envelope
    <3>2. Establish(Proposer[m.id], Addressee[m.id], m.id)
      BY <1>12, <2>2, <3>1 DEF RecvAccept
    <3>3. /\ Made(Proposer[m.id], Addressee[m.id], KindOf[m.id])'
          /\ \A h, p, k : Made(h, p, k) => Made(h, p, k)'
      BY <3>2, EstablishMakes
    <3> QED BY <2>1, <3>3, AcceptsDiffer DEF IInv, SideInv
  <2>3. CASE ~(m.id \in outbound /\ m.from = Addressee[m.id] /\ stored)
    <3>1. /\ rel' = rel
          /\ m.id \in proposing \cup outbound => m.id \in disturbed'
      BY <1>12, <2>3 DEF RecvAccept, relVars
    <3>2. ASSUME NEW n \in Nonces \ disturbed', AcceptOf(n) \in net
          PROVE  AcceptOf(n) \in net'
      <4> SUFFICES ASSUME AcceptOf(n) = m PROVE FALSE
        BY <2>1, <3>2
      <4>1. n = m.id /\ m.from = Addressee[n]
        BY AcceptsDiffer
      <4>2. n \in asked /\ accepts[n] = 1
        BY <2>1, <4>1 DEF IInv, NetInv
      <4>3. declines[n] = 0
        BY <4>2 DEF IInv, AnswerInv, TypeOK
      <4>4. n \in proposing \cup outbound
        BY <2>1, <3>2, <4>2, <4>3 DEF IInv, PendingInv
      <4> QED BY <3>1, <4>1, <4>4
    <3> QED BY <2>1, <3>1, <3>2, SideKept
  <2> QED BY <2>2, <2>3
<1>13. ASSUME NEW m \in net, RecvDecline(m)
       PROVE  SideInv'
  BY <1>13, SideKept, AcceptsDiffer
     DEF RecvDecline, toolVars, answerVars, relVars, revVars
<1>14. ASSUME NEW m \in net, RecvRevoke(m)
       PROVE  SideInv'
  <2>1. /\ m.type = "revoke" /\ net' = net \ {m}
        /\ RemoveRecord(m.to, m.from, m.kind)
        /\ UNCHANGED <<accepts, accepting, disturbed>>
    BY <1>14 DEF RecvRevoke, toolVars, answerVars
  <2>2. Between(m.to, m.from, {m.kind}) \subseteq disturbed
    BY <2>1 DEF IInv, RevokeInv, Between
  <2>3. \A n \in Nonces : AcceptOf(n) # m
    BY <2>1, AcceptsDiffer
  <2> QED BY <2>1, <2>2, <2>3, RemoveKeeps DEF IInv, SideInv
<1>15. ASSUME NEW m \in net, Lose(m)
       PROVE  SideInv'
  BY <1>15, SideKept DEF Lose, toolVars, answerVars, relVars
<1>16. ASSUME NEW id \in Revocations, NEW a \in Agents, NEW p \in Agents,
              NEW targets \in SUBSET Kinds, NEW k \in targets,
              RevokeBegins(id, a, p, targets, k)
       PROVE  SideInv'
  BY <1>16, SideKept
     DEF RevokeBegins, SendRevoke, toolVars, answerVars, relVars
<1>17. ASSUME NEW op \in revoking, NEW k \in op.todo, RevokeContinues(op, k)
       PROVE  SideInv'
  <2>1. /\ RemoveRecord(op.agent, op.peer, op.kind) /\ net \subseteq net'
        /\ UNCHANGED <<accepts, accepting, disturbed>>
    BY <1>17 DEF RevokeContinues, SendRevoke, toolVars, answerVars
  <2>2. Between(op.agent, op.peer, {op.kind}) \subseteq disturbed
    <3>1. {op.kind} \subseteq {op.kind} \cup op.todo
      OBVIOUS
    <3>2. Between(op.agent, op.peer, {op.kind})
            \subseteq Between(op.agent, op.peer, {op.kind} \cup op.todo)
      BY <3>1, BetweenGrows
    <3> QED BY <3>2 DEF IInv, RevokeInv
  <2> QED BY <2>1, <2>2, RemoveKeeps DEF IInv, SideInv
<1>18. ASSUME NEW op \in revoking, RevokeEnds(op)
       PROVE  SideInv'
  <2>1. /\ RemoveRecord(op.agent, op.peer, op.kind)
        /\ UNCHANGED <<accepts, accepting, disturbed, net>>
    BY <1>18 DEF RevokeEnds, toolVars, answerVars
  <2>2. Between(op.agent, op.peer, {op.kind}) \subseteq disturbed
    <3>1. {op.kind} \subseteq {op.kind} \cup op.todo
      OBVIOUS
    <3>2. Between(op.agent, op.peer, {op.kind})
            \subseteq Between(op.agent, op.peer, {op.kind} \cup op.todo)
      BY <3>1, BetweenGrows
    <3> QED BY <3>2 DEF IInv, RevokeInv
  <2> QED BY <2>1, <2>2, RemoveKeeps DEF IInv, SideInv
<1>19. ASSUME NEW a \in Agents, Crash(a)
       PROVE  SideInv'
  BY <1>19 DEF Crash, relVars, IInv, TypeOK, SideInv, Made, Held
<1>20. CASE UNCHANGED vars
  BY <1>20, SideKept, AcceptsDiffer
     DEF vars, toolVars, rowVars, answerVars, relVars, revVars
<1> QED
  BY <1>1, <1>2, <1>3, <1>4, <1>5, <1>6, <1>7, <1>8, <1>9, <1>10, <1>11,
     <1>12, <1>13, <1>14, <1>15, <1>16, <1>17, <1>18, <1>19, <1>20 DEF Next

-----------------------------------------------------------------------------
(* The strengthened invariant is inductive.                                *)
LEMMA IInvAlways == Spec => []IInv
<1>1. Init => IInv
  <2> SUFFICES ASSUME Init PROVE IInv
    OBVIOUS
  <2>1. TypeOK
    <3>1. strays \in 0..MaxStrays
      BY MaxStraysAssumption DEF Init
    <3>2. accepts \in [Nonces -> Nat] /\ declines \in [Nonces -> Nat]
      BY DEF Init
    <3> QED BY <3>1, <3>2 DEF Init, TypeOK
  <2>2. RowInv /\ AnswerInv /\ NetInv
    BY DEF Init, RowInv, AnswerInv, NetInv
  <2>3. UsedInv /\ RelInv
    BY DEF Init, UsedInv, Used, RelInv, BilateralConsent, NoRevival
  <2>4. PendingInv /\ RevokeInv /\ SideInv
    BY DEF Init, PendingInv, RevokeInv, SideInv
  <2> QED BY <2>1, <2>2, <2>3, <2>4 DEF IInv
<1>2. IInv /\ [Next]_vars => IInv'
  BY TypeStep, RowStep, AnswerStep, NetStep, UsedStep, RelStep,
     PendingStep, RevokeStep, SideStep
     DEF IInv
<1> QED BY <1>1, <1>2, PTL DEF Spec

(* Type correctness: stores, envelopes and suspended calls stay within the *)
(* values the code can build.                                              *)
THEOREM TypeCorrect == Spec => []TypeOK
<1>1. IInv => TypeOK
  BY DEF IInv
<1> QED BY IInvAlways, <1>1, PTL

(* "All three relationship types are bilateral - both sides must accept",  *)
(* for any agents and proposals, lost and reordered envelopes, failed      *)
(* sends, crashes, stray answers and revocations.                          *)
THEOREM ConsentIsBilateral == Spec => []BilateralConsent
<1>1. IInv => BilateralConsent
  BY DEF IInv, RelInv
<1> QED BY IInvAlways, <1>1, PTL

(* A proposal is answered at most once: take_inbound hands a row out once, *)
(* and a proposal is parked once.                                          *)
THEOREM AnswersAreUnique == Spec => []OneAnswerPerProposal
<1>1. IInv => OneAnswerPerProposal
  BY DEF IInv, AnswerInv, OneAnswerPerProposal
<1> QED BY IInvAlways, <1>1, PTL

(* A revoked relationship does not come back without a new proposal and a  *)
(* new acceptance.                                                         *)
THEOREM RevokedStaysRevoked == Spec => []NoRevival
<1>1. IInv => NoRevival
  BY DEF IInv, RelInv
<1> QED BY IInvAlways, <1>1, PTL

(* Once an accepted proposal has nothing on its way, both sides hold a     *)
(* record of its kind, whatever was lost, cut short, dropped or revoked    *)
(* elsewhere; exempt is a proposal that one of these has touched itself.   *)
THEOREM BothSidesAgree == Spec => []SidesAgree
<1>1. IInv => SidesAgree
  BY DEF IInv, SideInv, Made, SidesAgree
<1> QED BY IInvAlways, <1>1, PTL
=============================================================================
