---------------------------- MODULE Relationships ----------------------------
(***************************************************************************)
(* Relationships between agents: propose, accept, decline and revoke.      *)
(* The tools aap_propose_relationship and aap_revoke_relationship          *)
(* (src/tools.py), /aap unfriend, friend-accept and friend-decline         *)
(* (src/commands.py), the bare "approve" of the consent hook               *)
(* (src/_runtime.py) and the inbound handlers (src/adapter.py), run by     *)
(* several agents that exchange envelopes through the relay.               *)
(*                                                                         *)
(* A call of the propose tool and the nonce of its envelope are the same   *)
(* thing here, and so are a call of unfriend and the envelopes it sends.   *)
(* An action is the code between two awaits.  An envelope is in net from   *)
(* the moment the send begins: the peer may handle it before the send      *)
(* returns.  Envelopes arrive in any order; one that the relay never got,  *)
(* or that the peer's inbound pipeline lost, is removed by Lose.           *)
(*                                                                         *)
(* The stores are external (SDK): a pending proposal is taken at most      *)
(* once, and a relationship is keyed by peer and kind, where the kind is   *)
(* the type together with the resource of a team.                          *)
(***************************************************************************)
EXTENDS Naturals, FiniteSets

CONSTANTS
  Agents,
  Kinds,        \* friend, admin, team(resource)
  Nonces,       \* proposals, named by their nonce
  Proposer,     \* Proposer[n], Addressee[n], KindOf[n]: what proposal n
  Addressee,    \*   asks of whom
  KindOf,
  Revocations,  \* calls of unfriend or aap_revoke_relationship
  MaxStrays     \* bound: answers from an agent that was not asked

ASSUME ProposerAssumption  == Proposer \in [Nonces -> Agents]
ASSUME AddresseeAssumption == Addressee \in [Nonces -> Agents]
ASSUME KindOfAssumption    == KindOf \in [Nonces -> Kinds]
ASSUME TwoPartiesAssumption == \A n \in Nonces : Proposer[n] # Addressee[n]
ASSUME MaxStraysAssumption == MaxStrays \in Nat

Verbs == {"accept", "decline"}

Message ==
  [type : {"propose", "accept", "decline"}, from : Agents, to : Agents,
   kind : Kinds, id : Nonces]
  \cup [type : {"revoke"}, from : Agents, to : Agents, kind : Kinds,
        id : Revocations]

Record == [holder : Agents, peer : Agents, kind : Kinds, nonce : Nonces]

Unfriending == [id : Revocations, agent : Agents, peer : Agents,
                kind : Kinds, todo : SUBSET Kinds]

VARIABLES
  asked,      \* proposals whose send has begun
  proposing,  \* proposals whose send has not returned
  outbound,   \* proposals pending in the store of their proposer
  inbound,    \* proposals pending in the store of their addressee
  answering,  \* <<n, verb>>: answers of the user that are scheduled
  accepting,  \* proposals whose accept is being sent and then stored
  rel,        \* the relationship records of all agents
  revoking,   \* calls of unfriend suspended in a send
  revoked,    \* calls of unfriend begun
  net,        \* envelopes on their way
  strays,     \* answers so far from agents that were not asked
  accepts,    \* history: accepts[n], declines[n]: answers the addressee's
  declines,   \*   agent sent to proposal n
  ended,      \* history: <<h, n>>: the record of h from n is gone again
  disturbed   \* history: proposals whose handshake a failure, crash, loss,
              \* drop or revocation has touched

toolVars == <<asked, proposing, accepting>>
rowVars  == <<outbound, inbound>>
answerVars == <<answering, accepts, declines>>
relVars  == <<rel, ended>>
revVars  == <<revoking, revoked>>
vars == <<toolVars, rowVars, answerVars, relVars, revVars, net, strays,
                 disturbed>>

TypeOK ==
  /\ asked \in SUBSET Nonces /\ proposing \in SUBSET Nonces
  /\ outbound \in SUBSET Nonces /\ inbound \in SUBSET Nonces
  /\ answering \in SUBSET (Nonces \X Verbs)
  /\ accepting \in SUBSET Nonces
  /\ rel \in SUBSET Record
  /\ revoking \in SUBSET Unfriending
  /\ revoked \in SUBSET Revocations
  /\ net \in SUBSET Message
  /\ strays \in 0..MaxStrays
  /\ accepts \in [Nonces -> Nat] /\ declines \in [Nonces -> Nat]
  /\ ended \in SUBSET (Agents \X Nonces)
  /\ disturbed \in SUBSET Nonces

Init ==
  /\ asked = {} /\ proposing = {} /\ accepting = {}
  /\ outbound = {} /\ inbound = {}
  /\ answering = {}
  /\ accepts = [n \in Nonces |-> 0] /\ declines = [n \in Nonces |-> 0]
  /\ rel = {} /\ ended = {}
  /\ revoking = {} /\ revoked = {}
  /\ net = {} /\ strays = 0
  /\ disturbed = {}

Envelope(type, from, to, n) ==
  [type |-> type, from |-> from, to |-> to, kind |-> KindOf[n], id |-> n]

(* The accept of n by the agent that was asked.                            *)
AcceptOf(n) == Envelope("accept", Addressee[n], Proposer[n], n)

(* The proposals of these kinds between a and p, whoever made them.        *)
Between(a, p, kinds) ==
  {n \in Nonces :
     {Proposer[n], Addressee[n]} = {a, p} /\ KindOf[n] \in kinds}

(* The records of h with p of kind k: one or none.                         *)
Held(h, p, k) == {r \in rel : r.holder = h /\ r.peer = p /\ r.kind = k}

Gone(records) == {<<r.holder, r.nonce>> : r \in records}

(* store.revoke: the record of this peer and kind goes, if there is one.   *)
RemoveRecord(h, p, k) ==
  /\ rel' = rel \ Held(h, p, k)
  /\ ended' = ended \cup Gone(Held(h, p, k))

(* store.establish: replaces the record of the same peer and kind.         *)
Establish(h, p, n) ==
  /\ rel' = (rel \ Held(h, p, KindOf[n]))
              \cup {[holder |-> h, peer |-> p, kind |-> KindOf[n],
                     nonce |-> n]}
  /\ ended' = ended \cup Gone(Held(h, p, KindOf[n]))

-----------------------------------------------------------------------------
(* aap_propose_relationship up to the await on the send.                   *)
Propose(n) ==
  /\ n \notin asked
  /\ asked' = asked \cup {n}
  /\ proposing' = proposing \cup {n}
  /\ net' = net \cup {Envelope("propose", Proposer[n], Addressee[n], n)}
  /\ UNCHANGED <<accepting, rowVars, answerVars, relVars, revVars, strays,
                 disturbed>>

(* The send returned: only now is the proposal recorded as pending.        *)
ProposeRecorded(n) ==
  /\ n \in proposing
  /\ proposing' = proposing \ {n}
  /\ outbound' = outbound \cup {n}
  /\ UNCHANGED <<asked, accepting, inbound, answerVars, relVars, revVars,
                 net, strays, disturbed>>

(* The send raised: nothing is recorded, yet the peer may have got it.     *)
ProposeFails(n) ==
  /\ n \in proposing
  /\ proposing' = proposing \ {n}
  /\ disturbed' = disturbed \cup {n}
  /\ UNCHANGED <<asked, accepting, rowVars, answerVars, relVars, revVars,
                 net, strays>>

(* Mutant of RecvProposal: the row is keyed by the proposer's address.     *)
RecvProposalBySender(m) ==
  /\ m.type = "propose"
  /\ net' = net \ {m}
  /\ inbound' = inbound \cup {m.from}
  /\ UNCHANGED <<toolVars, outbound, answerVars, relVars, revVars, strays,
                 disturbed>>

(* _handle_relationship_proposal: parked for the user to answer.           *)
RecvProposal(m) ==
  /\ m.type = "propose"
  /\ net' = net \ {m}
  /\ inbound' = inbound \cup {m.id}
  /\ UNCHANGED <<toolVars, outbound, answerVars, relVars, revVars, strays,
                 disturbed>>

(* The user answers a pending proposal, by friend-accept, friend-decline   *)
(* or a bare word: the answer runs as a task of its own, so several may be *)
(* scheduled for the same proposal.                                        *)
UserAnswers(n, verb) ==
  /\ n \in inbound
  /\ answering' = answering \cup {<<n, verb>>}
  /\ UNCHANGED <<toolVars, rowVars, accepts, declines, relVars, revVars, net,
                 strays, disturbed>>

(* take_inbound finds nothing: another answer came first.                  *)
AnswerTooLate(n, verb) ==
  /\ <<n, verb>> \in answering
  /\ n \notin inbound
  /\ answering' = answering \ {<<n, verb>>}
  /\ UNCHANGED <<toolVars, rowVars, accepts, declines, relVars, revVars, net,
                 strays, disturbed>>

(* Mutant of TakeInbound: the row is looked up and not deleted.            *)
PeekInbound(n, verb) ==
  /\ <<n, verb>> \in answering
  /\ n \in inbound
  /\ answering' = answering \ {<<n, verb>>}
  /\ UNCHANGED inbound

(* pending_proposals.take_inbound(nonce), in a scheduled answer.           *)
TakeInbound(n, verb) ==
  /\ <<n, verb>> \in answering
  /\ n \in inbound
  /\ answering' = answering \ {<<n, verb>>}
  /\ inbound' = inbound \ {n}

(* _friend_accept_cmd up to the await on the send.                         *)
AcceptBegins(n) ==
  /\ TakeInbound(n, "accept")
  /\ accepting' = accepting \cup {n}
  /\ accepts' = [accepts EXCEPT ![n] = @ + 1]
  /\ net' = net \cup {Envelope("accept", Addressee[n], Proposer[n], n)}
  /\ UNCHANGED <<asked, proposing, outbound, declines, relVars, revVars,
                 strays, disturbed>>

(* Mutant of AcceptEstablishes: the addressee stores no record.            *)
AcceptForgets(n) ==
  /\ n \in accepting
  /\ accepting' = accepting \ {n}
  /\ UNCHANGED <<asked, proposing, rowVars, answerVars, relVars, revVars, net,
                 strays, disturbed>>

(* The accept was sent and the proposer's key resolved.                    *)
AcceptEstablishes(n) ==
  /\ n \in accepting
  /\ accepting' = accepting \ {n}
  /\ Establish(Addressee[n], Proposer[n], n)
  /\ UNCHANGED <<asked, proposing, rowVars, answerVars, revVars, net, strays,
                 disturbed>>

(* The send, resolve_peer or establish raised; the row is taken, and the   *)
(* proposer may have got the accept all the same.                          *)
AcceptFails(n) ==
  /\ n \in accepting
  /\ accepting' = accepting \ {n}
  /\ disturbed' = disturbed \cup {n}
  /\ UNCHANGED <<asked, proposing, rowVars, answerVars, relVars, revVars,
                 net, strays>>

(* Mutant of Decline: the row stays, so that the user can still accept.    *)
DeclineKeepsRow(n) ==
  /\ <<n, "decline">> \in answering /\ n \in inbound
  /\ answering' = answering \ {<<n, "decline">>}
  /\ declines' = [declines EXCEPT ![n] = @ + 1]
  /\ net' = net \cup {Envelope("decline", Addressee[n], Proposer[n], n)}
  /\ UNCHANGED <<toolVars, rowVars, accepts, relVars, revVars, strays,
                 disturbed>>

(* _friend_decline_cmd: nothing is stored after the send.                  *)
Decline(n) ==
  /\ TakeInbound(n, "decline")
  /\ declines' = [declines EXCEPT ![n] = @ + 1]
  /\ net' = net \cup {Envelope("decline", Addressee[n], Proposer[n], n)}
  /\ UNCHANGED <<toolVars, outbound, accepts, relVars, revVars, strays,
                 disturbed>>

(* An agent answers a proposal that was not addressed to it.               *)
StrayAnswer(p, n, verb) ==
  /\ strays < MaxStrays
  /\ n \in asked /\ p \notin {Proposer[n], Addressee[n]}
  /\ strays' = strays + 1
  /\ net' = net \cup {Envelope(verb, p, Proposer[n], n)}
  /\ UNCHANGED <<toolVars, rowVars, answerVars, relVars, revVars,
                 disturbed>>

(* Mutant of RecvAccept: the issuer is not compared with the addressee.    *)
RecvAcceptAnyIssuer(m, stored) ==
  /\ m.type = "accept"
  /\ net' = net \ {m}
  /\ outbound' = outbound \ {m.id}
  /\ IF m.id \in outbound /\ stored
     THEN Establish(m.to, m.from, m.id)
     ELSE UNCHANGED relVars
  /\ UNCHANGED <<toolVars, inbound, answerVars, revVars, strays,
                 disturbed>>

(* _handle_relationship_accept: the pending row is taken first, whoever    *)
(* answered; a record is stored only for the agent that was asked, and only *)
(* if establish does not raise.  An accept that comes before the proposal  *)
(* is recorded finds no row.                                               *)
RecvAccept(m, stored) ==
  /\ m.type = "accept"
  /\ net' = net \ {m}
  /\ outbound' = outbound \ {m.id}
  /\ IF m.id \in outbound /\ m.from = Addressee[m.id] /\ stored
     THEN /\ Establish(m.to, m.from, m.id)
          /\ UNCHANGED disturbed
     ELSE /\ disturbed' = disturbed
                         \cup ((proposing \cup outbound) \cap {m.id})
          /\ UNCHANGED relVars
  /\ UNCHANGED <<toolVars, inbound, answerVars, revVars, strays>>

(* _handle_relationship_decline: takes the row without looking at the      *)
(* issuer.                                                                 *)
RecvDecline(m) ==
  /\ m.type = "decline"
  /\ net' = net \ {m}
  /\ outbound' = outbound \ {m.id}
  /\ disturbed' = IF m.from = Addressee[m.id] THEN disturbed
                  ELSE disturbed \cup (outbound \cap {m.id})
  /\ UNCHANGED <<toolVars, inbound, answerVars, relVars, revVars, strays>>

-----------------------------------------------------------------------------
Revoke(id, a, p, k) ==
  [type |-> "revoke", from |-> a, to |-> p, kind |-> k, id |-> id]

(* One send of unfriend begins; a failure is logged and otherwise ignored. *)
SendRevoke(id, a, p, k) ==
  net' \in {net, net \cup {Revoke(id, a, p, k)}}

(* unfriend, or aap_revoke_relationship for some of the kinds: the targets *)
(* are chosen once, and the first send begins.                             *)
RevokeBegins(id, a, p, targets, k) ==
  /\ id \notin revoked
  /\ k \in targets
  /\ \A kind \in targets : Held(a, p, kind) # {}
  /\ revoked' = revoked \cup {id}
  /\ revoking' = revoking \cup
       {[id |-> id, agent |-> a, peer |-> p, kind |-> k,
         todo |-> targets \ {k}]}
  /\ SendRevoke(id, a, p, k)
  /\ disturbed' = disturbed \cup Between(a, p, targets)
  /\ UNCHANGED <<toolVars, rowVars, answerVars, relVars, strays>>

(* A send is over: the local record goes, and the next send begins.        *)
RevokeContinues(op, k) ==
  /\ k \in op.todo
  /\ RemoveRecord(op.agent, op.peer, op.kind)
  /\ revoking' = (revoking \ {op}) \cup
                   {[op EXCEPT !.kind = k, !.todo = op.todo \ {k}]}
  /\ SendRevoke(op.id, op.agent, op.peer, k)
  /\ UNCHANGED <<toolVars, rowVars, answerVars, revoked, strays,
                 disturbed>>

(* The last record is removed and success is reported.                     *)
RevokeEnds(op) ==
  /\ op.todo = {}
  /\ RemoveRecord(op.agent, op.peer, op.kind)
  /\ revoking' = revoking \ {op}
  /\ UNCHANGED <<toolVars, rowVars, answerVars, revoked, net, strays,
                 disturbed>>

(* _handle_relationship_revoke.                                            *)
RecvRevoke(m) ==
  /\ m.type = "revoke"
  /\ net' = net \ {m}
  /\ RemoveRecord(m.to, m.from, m.kind)
  /\ UNCHANGED <<toolVars, rowVars, answerVars, revVars, strays,
                 disturbed>>

-----------------------------------------------------------------------------
(* An envelope never arrives.                                              *)
Lose(m) ==
  /\ net' = net \ {m}
  /\ disturbed' = disturbed \cup {n \in Nonces : m = AcceptOf(n)}
  /\ UNCHANGED <<toolVars, rowVars, answerVars, relVars, revVars, strays>>

(* The process of a dies and is restarted: the stores are on disk, what    *)
(* was suspended or scheduled is forgotten.                                *)
Crash(a) ==
  /\ proposing' = {n \in proposing : Proposer[n] # a}
  /\ accepting' = {n \in accepting : Addressee[n] # a}
  /\ answering' = {t \in answering : Addressee[t[1]] # a}
  /\ revoking' = {op \in revoking : op.agent # a}
  /\ disturbed' = disturbed \cup {n \in proposing : Proposer[n] = a}
                             \cup {n \in accepting : Addressee[n] = a}
  /\ UNCHANGED <<asked, rowVars, accepts, declines, relVars, revoked, net,
                 strays>>

Next ==
  \/ \E n \in Nonces :
        \/ Propose(n) \/ ProposeRecorded(n) \/ ProposeFails(n)
        \/ \E verb \in Verbs : UserAnswers(n, verb) \/ AnswerTooLate(n, verb)
        \/ AcceptBegins(n) \/ AcceptEstablishes(n) \/ AcceptFails(n)
        \/ Decline(n)
  \/ \E p \in Agents, n \in Nonces, verb \in Verbs : StrayAnswer(p, n, verb)
  \/ \E m \in net :
        \/ RecvProposal(m) \/ RecvDecline(m) \/ RecvRevoke(m)
        \/ \E stored \in BOOLEAN : RecvAccept(m, stored)
        \/ Lose(m)
  \/ \E id \in Revocations, a, p \in Agents :
        \E targets \in SUBSET Kinds : \E k \in targets :
            RevokeBegins(id, a, p, targets, k)
  \/ \E op \in revoking :
        \/ \E k \in op.todo : RevokeContinues(op, k)
        \/ RevokeEnds(op)
  \/ \E a \in Agents : Crash(a)

Spec == Init /\ [][Next]_vars
-----------------------------------------------------------------------------
(* "All three relationship types are bilateral - both sides must accept"   *)
(* (schema of aap_propose_relationship): whoever holds a record, one of    *)
(* the two proposed that kind to the other, and the user of the other      *)
(* accepted that proposal and did not decline it.                          *)
BilateralConsent ==
  \A r \in rel :
    /\ \/ r.holder = Proposer[r.nonce] /\ r.peer = Addressee[r.nonce]
       \/ r.holder = Addressee[r.nonce] /\ r.peer = Proposer[r.nonce]
    /\ r.kind = KindOf[r.nonce]
    /\ r.nonce \in asked
    /\ accepts[r.nonce] = 1 /\ declines[r.nonce] = 0

(* A proposal is answered at most once, however often the user answers it  *)
(* and however the tasks interleave.                                       *)
OneAnswerPerProposal ==
  \A n \in Nonces : accepts[n] + declines[n] <= 1

(* A revoked or replaced record never comes back from the proposal it was  *)
(* made of: a new record takes a new proposal and a new acceptance.        *)
NoRevival ==
  \A r \in rel : <<r.holder, r.nonce>> \notin ended

(* The two sides of a handshake agree: once an accepted proposal has       *)
(* nothing on its way, both hold a record of its kind (and of a proposal   *)
(* that was not accepted neither does, BilateralConsent).  Crossing        *)
(* proposals, and losses, failures and stray answers of other handshakes,  *)
(* do not change it; exempt is a proposal whose own send, accept or storing *)
(* failed, was lost or cut off, that was answered before it was recorded or *)
(* by another agent, or whose two agents had that kind revoked.            *)
SidesAgree ==
  \A n \in Nonces \ disturbed :
    (accepts[n] = 1 /\ n \notin accepting /\ AcceptOf(n) \notin net)
      => /\ Held(Addressee[n], Proposer[n], KindOf[n]) # {}
         /\ Held(Proposer[n], Addressee[n], KindOf[n]) # {}
=============================================================================
