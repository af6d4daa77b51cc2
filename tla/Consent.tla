------------------------------- MODULE Consent --------------------------------
(***************************************************************************)
(* What becomes of a text the user types on a home channel: the two hooks  *)
(* Hermes calls before it dispatches the text (src/_runtime.py), the       *)
(* bridge that takes it for a reply to a group (src/mirror.py), and the    *)
(* answers to discovery introductions and relationship proposals           *)
(* (src/commands.py).  With them the handler of introductions and the      *)
(* trust list it reads (src/adapter.py, src/commands.py).                  *)
(*                                                                         *)
(* The hooks are synchronous, so a text is routed in one step; the answer  *)
(* it gives is a task of its own that awaits a send, or one POST per       *)
(* verifier for a block.  What follows the acceptance of a proposal is the *)
(* subject of Relationships.  The rows of the pending stores and the group *)
(* contexts of all home channels, which are one file, carry the time they  *)
(* were recorded, counted in envelopes and in group messages; a context    *)
(* may become too old at any time.  An answer given in words is meant for  *)
(* what was newest when the user typed it: what the user had seen is not   *)
(* state of the program.                                                   *)
(*                                                                         *)
(* Whether Hermes calls the second hook when the first has asked to skip   *)
(* the dispatch is not decided in this repository: AllHooksRun.            *)
(***************************************************************************)
EXTENDS Naturals, FiniteSets

CONSTANTS
  Intros,       \* nonces of discovery introductions
  Proposals,    \* nonces of relationship proposals
  Searchers,
  Verifiers,
  SearcherOf,   \* SearcherOf[i]: who searches, for each introduction
  VerifierOf,   \* VerifierOf[i]: who relays it
  Channels,     \* home channels, one per platform
  Groups,       \* group conversations
  Answers,      \* what an introduction or proposal can be answered:
                \* approve and deny, of which the code makes the same steps
  MaxContexts,  \* group contexts kept, 20 in the code
  AllHooksRun,
  MaxTexts,     \* bound: texts and commands of the user
  MaxShown,     \* bound: group messages shown
  None

Nonces == Intros \cup Proposals

ASSUME IntrosAssumption ==
  /\ Intros \cap Proposals = {}
  /\ SearcherOf \in [Intros -> Searchers]
  /\ VerifierOf \in [Intros -> Verifiers]
  /\ Nonces \cap Searchers = {}
ASSUME ChannelsAssumption == IsFiniteSet(Channels)
ASSUME HooksAssumption  == AllHooksRun \in BOOLEAN
ASSUME BoundsAssumption == {MaxContexts, MaxTexts, MaxShown} \subseteq Nat
ASSUME NoneAssumption   == None \notin Nonces \cup Searchers \cup Groups

BareWords == Answers \cup {"block"}
Verbs     == BareWords \cup {"other"}

ASSUME AnswersAssumption == "block" \notin Answers

Row     == [nonce : Nonces, at : Nat]
Context == [channel : Channels, group : Groups, at : 1..MaxShown]

(* A task that carries out an answer: a block is addressed to a searcher,  *)
(* and left are the verifiers it has yet to POST to.                       *)
Job == [text : 1..MaxTexts, verb : BareWords, to : Nonces \cup Searchers,
        step : {"scheduled", "sending"}, left : SUBSET Verifiers]

(* What a text was taken as an answer to.                                  *)
Routing == [text : 1..MaxTexts, verb : Verbs,
            answers : Nonces \cup Searchers \cup {None}]

Verdict == [text : 1..MaxTexts, verb : Answers, to : Nonces]

VARIABLES
  trusted,    \* verifiers on the trust list
  handling,   \* the introduction the dispatch loop is checking
  pending,    \* rows of both pending stores
  contexts,   \* aap-group-home-contexts.json
  jobs,       \* answers being carried out
  texts,      \* number of texts and commands so far
  shownCount, \* number of group messages shown
  arrived,    \* history: introductions and proposals received
  overtaken,  \* history: introductions whose verifier lost our trust
              \*          while they were being checked
  shown,      \* history: the group last shown on each channel, None if
              \*          only one of showing and recording it succeeded
  routed,     \* history: what each text was taken as an answer to
  verdicts,   \* history: answers that reached the relay
  blocked     \* history: searchers a block of whom has been carried out

introVars   == <<trusted, handling, arrived, overtaken>>
contextVars == <<contexts, shownCount, shown>>
textVars    == <<texts, routed>>
pastVars    == <<verdicts, blocked>>
vars == <<introVars, pending, contextVars, jobs, textVars, pastVars>>

TypeOK ==
  /\ trusted \in SUBSET Verifiers
  /\ handling \in Intros \cup {None}
  /\ pending \subseteq Row
  /\ \A r, q \in pending : r.nonce = q.nonce => r = q
  /\ contexts \subseteq Context /\ Cardinality(contexts) <= MaxContexts
  /\ \A x, y \in contexts :
       x.channel = y.channel /\ (x.group = y.group \/ x.at = y.at) => x = y
  /\ jobs \in SUBSET Job
  /\ texts \in 0..MaxTexts /\ shownCount \in 0..MaxShown
  /\ arrived \in SUBSET Nonces /\ overtaken \in SUBSET Intros
  /\ shown \in [Channels -> Groups \cup {None}]
  /\ routed \in SUBSET Routing
  /\ verdicts \in SUBSET Verdict
  /\ blocked \in SUBSET Searchers

Init ==
  /\ trusted = Verifiers
  /\ handling = None
  /\ pending = {}
  /\ contexts = {} /\ shownCount = 0 /\ shown = [c \in Channels |-> None]
  /\ jobs = {}
  /\ texts = 0 /\ routed = {}
  /\ arrived = {} /\ overtaken = {}
  /\ verdicts = {} /\ blocked = {}

-----------------------------------------------------------------------------
(* The pending stores.                                                     *)
Rows == {r.nonce : r \in pending}

(* A row is stored; its time is the number of its kind that have arrived.  *)
Stored(n, kind) ==
  pending \cup {[nonce |-> n, at |-> Cardinality(arrived' \cap kind)]}

Without(nonces) == {r \in pending : r.nonce \notin nonces}

(* None if there is no row of the kind.                                    *)
NewestOf(kind) ==
  LET rows == {r \in pending : r.nonce \in kind}
  IN IF rows = {} THEN None
     ELSE (CHOOSE r \in rows : \A q \in rows : q.at <= r.at).nonce

RowsOf(searcher) == {i \in Rows \cap Intros : SearcherOf[i] = searcher}

-----------------------------------------------------------------------------
(* Introductions and proposals arrive.                                     *)

(* Mutant of IntroBegins: the sender is not looked up in the trust list.   *)
IntroUnchecked(i) ==
  /\ i \notin arrived /\ handling = None
  /\ arrived' = arrived \cup {i}
  /\ handling' = i
  /\ UNCHANGED <<trusted, overtaken, pending, contextVars, jobs, textVars,
                 pastVars>>

(* _handle_discovery_introduction_request reads the trust list; it awaits  *)
(* public keys before it stores the row.                                   *)
IntroBegins(i) ==
  /\ i \notin arrived /\ handling = None
  /\ arrived' = arrived \cup {i}
  /\ handling' = IF VerifierOf[i] \in trusted THEN i ELSE None
  /\ UNCHANGED <<trusted, overtaken, pending, contextVars, jobs, textVars,
                 pastVars>>

IntroStored ==
  /\ handling # None
  /\ UNCHANGED arrived
  /\ pending' = Stored(handling, Intros)
  /\ handling' = None
  /\ UNCHANGED <<trusted, overtaken, contextVars, jobs, textVars,
                 pastVars>>

(* The key of the verifier cannot be had, or the signature is wrong.       *)
IntroDropped ==
  /\ handling # None
  /\ handling' = None
  /\ UNCHANGED <<trusted, arrived, overtaken, pending, contextVars, jobs,
                 textVars, pastVars>>

(* /aap trust-verifier and /aap distrust-verifier; the trust list reads    *)
(* the overrides anew each time.                                           *)
TrustVerifier(v) ==
  /\ texts < MaxTexts /\ texts' = texts + 1
  /\ trusted' = trusted \cup {v}
  /\ UNCHANGED <<handling, arrived, overtaken, pending, contextVars, jobs,
                 routed, pastVars>>

DistrustVerifier(v) ==
  /\ texts < MaxTexts /\ texts' = texts + 1
  /\ trusted' = trusted \ {v}
  /\ overtaken' = overtaken \cup {i \in {handling} \cap Intros : VerifierOf[i] = v}
  /\ UNCHANGED <<handling, arrived, pending, contextVars, jobs, routed,
                 pastVars>>

ProposalArrives(q) ==
  /\ q \notin arrived
  /\ arrived' = arrived \cup {q}
  /\ pending' = Stored(q, Proposals)
  /\ UNCHANGED <<trusted, handling, overtaken, contextVars, jobs, textVars,
                 pastVars>>

-----------------------------------------------------------------------------
(* The time of the next group message.                                     *)
Now == shownCount + 1

(* Which of the contexts the cap may keep, if no context it drops is to be *)
(* before one that it keeps.                                               *)
Kept(all, Before(_, _)) ==
  {some \in SUBSET all :
     /\ Cardinality(some) = IF Cardinality(all) < MaxContexts
                            THEN Cardinality(all) ELSE MaxContexts
     /\ \A x \in some, y \in all \ some : ~Before(x, y)}

(* Mutant of Keep: the cap keeps the oldest contexts.                      *)
KeepOldest(all) == Kept(all, LAMBDA x, y : y.at < x.at)

(* The file keeps the newest contexts; among those of one message it is    *)
(* the order of the channels that decides.                                 *)
Keep(all) == Kept(all, LAMBDA x, y : x.at < y.at)

(* record_group_home_context, for some channels: older contexts of the     *)
(* same group there are replaced.                                          *)
Recorded(read, g, cs) ==
  {x \in read : x.group # g \/ x.channel \notin cs}
    \cup {[channel |-> c, group |-> g, at |-> Now] : c \in cs}

(* _dispatch first shows a group message on the home channels, then adds   *)
(* it to their sessions and records it (mirror_to_home_channels,           *)
(* mirror_group_inbound_to_home_session).  Each reaches some channels: a   *)
(* platform or a write may fail, the second may return early, the process  *)
(* may die in between.  A file that cannot be read counts as empty, and a  *)
(* write that is cut off leaves such a file.                               *)
ShowGroupMessage(g, seen, noted, read) ==
  /\ shownCount < MaxShown
  /\ shownCount' = Now
  /\ contexts' \in Keep(Recorded(read, g, noted))
  /\ shown' = [c \in Channels |-> IF c \in seen \cap noted THEN g
                                 ELSE IF c \in seen \cup noted THEN None
                                 ELSE shown[c]]
  /\ UNCHANGED <<introVars, pending, jobs, textVars, pastVars>>

(* The oldest context passes its time to live, half an hour.               *)
ContextExpires ==
  /\ \E x \in contexts : /\ \A y \in contexts : x.at <= y.at
                          /\ contexts' = contexts \ {x}
  /\ UNCHANGED <<introVars, pending, shownCount, shown, jobs, textVars,
                 pastVars>>

-----------------------------------------------------------------------------
(* Routing of a text.                                                      *)

(* mirror_home_reply_to_group_session: the newest context of the channel.  *)
GroupFor(c) ==
  LET here == {x \in contexts : x.channel = c}
  IN IF here = {} THEN None
     ELSE (CHOOSE x \in here : \A y \in here : y.at <= x.at).group

(* The bridge succeeds: enqueue_group_home_reply has persisted the text.   *)
Bridged(c, queued) == GroupFor(c) # None /\ queued

(* predispatch_consent_check: introductions come before proposals, and a   *)
(* block is for introductions only.                                        *)
ConsentFor(verb) ==
  IF verb \notin BareWords THEN None
  ELSE IF NewestOf(Intros) # None THEN NewestOf(Intros)
  ELSE IF verb = "block" THEN None
  ELSE NewestOf(Proposals)

Schedule(verb, to) ==
  jobs' = jobs \cup {[text |-> texts + 1, verb |-> verb, to |-> to,
                      step |-> "scheduled", left |-> {}]}

(* Text on channel c: the bridge first, then the consent hook.  The bridge *)
(* may fail to persist the text (queued = FALSE), or ingest is not         *)
(* decoupled.                                                              *)
Text(c, verb, queued) ==
  LET answer == IF Bridged(c, queued) /\ ~AllHooksRun
                THEN None ELSE ConsentFor(verb)
  IN /\ texts < MaxTexts
     /\ texts' = texts + 1
     /\ IF answer # None THEN Schedule(verb, answer) ELSE UNCHANGED jobs
     /\ routed' = routed \cup
          {[text |-> texts + 1, verb |-> verb, answers |-> answer]}
     /\ UNCHANGED <<introVars, pending, contextVars, pastVars>>

(* /aap discover approve, deny and block, /aap friend-accept and           *)
(* friend-decline name what they answer; no hook takes them.               *)
Command(verb, to) ==
  /\ texts < MaxTexts
  /\ to \in arrived \cup Searchers
  /\ texts' = texts + 1
  /\ Schedule(verb, to)
  /\ routed' = routed \cup
       {[text |-> texts + 1, verb |-> verb, answers |-> to]}
  /\ UNCHANGED <<introVars, pending, contextVars, pastVars>>

-----------------------------------------------------------------------------
(* Answers.                                                                *)

Change(j, k) == jobs' = (jobs \ {j}) \cup {k}

(* Mutant of AnswerTarget: the task looks for the newest row again.        *)
NewestAgain(j) == IF j.to \in Intros THEN NewestOf(Intros) ELSE j.to

AnswerTarget(j) == j.to

(* _discover_approve and _discover_deny find the row and send; the row     *)
(* stays meanwhile.  _friend_accept_cmd and _friend_decline_cmd take it    *)
(* out first.                                                              *)
AnswerBegins(j) ==
  LET to == AnswerTarget(j)
  IN /\ j.step = "scheduled" /\ j.verb # "block"
     /\ to \in Rows
     /\ Change(j, [j EXCEPT !.step = "sending", !.to = to])
     /\ pending' = IF to \in Proposals THEN Without({to}) ELSE pending
     /\ UNCHANGED <<introVars, contextVars, textVars, pastVars>>

(* The row is gone: somebody else has answered.                            *)
AnswerTooLate(j) ==
  /\ j.step = "scheduled" /\ j.to \in Nonces
  /\ j.to \notin Rows
  /\ jobs' = jobs \ {j}
  /\ UNCHANGED <<introVars, pending, contextVars, textVars, pastVars>>

Deliver(j) ==
  verdicts' = verdicts \cup {[text |-> j.text, verb |-> j.verb, to |-> j.to]}

(* The send returns; now the row of an introduction is resolved.           *)
AnswerSent(j) ==
  /\ j.step = "sending" /\ j.verb # "block"
  /\ jobs' = jobs \ {j}
  /\ Deliver(j)
  /\ pending' = Without({j.to})
  /\ UNCHANGED <<introVars, contextVars, textVars, blocked>>

(* Mutant of AnswerFails: the row is resolved although the send failed.    *)
ResolvedAnyway(j) ==
  /\ j.step = "sending" /\ j.verb # "block"
  /\ jobs' = jobs \ {j}
  /\ pending' = Without({j.to})
  /\ UNCHANGED <<introVars, contextVars, textVars, pastVars>>

(* The send raises, which says nothing of whether the relay has accepted   *)
(* the answer; an introduction stays pending.                              *)
AnswerFails(j) ==
  /\ j.step = "sending" /\ j.verb # "block"
  /\ jobs' = jobs \ {j}
  /\ Deliver(j) \/ UNCHANGED verdicts
  /\ UNCHANGED <<introVars, pending, contextVars, textVars, blocked>>

(* Whom a block is for: a bare word names the introduction, of which       *)
(* _resolve_intro_async finds the row.                                     *)
ToBlock(j) == IF j.to \in Intros THEN SearcherOf[j.to] ELSE j.to

(* _discover_block addresses the verifiers that relayed something of the   *)
(* searcher, or else everyone on the trust list; it gives up when there is *)
(* nobody.                                                                 *)
BlockBegins(j) ==
  LET brokers == {VerifierOf[i] : i \in RowsOf(ToBlock(j))}
      domains == IF brokers = {} THEN trusted ELSE brokers
  IN /\ j.step = "scheduled" /\ j.verb = "block"
     /\ j.to \in Rows \cup Searchers
     /\ IF domains = {} THEN jobs' = jobs \ {j}
        ELSE Change(j, [j EXCEPT !.step = "sending", !.to = ToBlock(j),
                                 !.left = domains])
     /\ UNCHANGED <<introVars, pending, contextVars, textVars, pastVars>>

(* A POST to one verifier returns or fails, which is only reported.        *)
BlockPosted(j) ==
  /\ j.step = "sending" /\ j.verb = "block"
  /\ \E v \in j.left : Change(j, [j EXCEPT !.left = @ \ {v}])
  /\ UNCHANGED <<introVars, pending, contextVars, textVars, pastVars>>

(* Every row of the searcher is resolved, the ones that came meanwhile     *)
(* too.                                                                    *)
BlockEnds(j) ==
  /\ j.step = "sending" /\ j.verb = "block" /\ j.left = {}
  /\ jobs' = jobs \ {j}
  /\ pending' = Without(RowsOf(j.to))
  /\ blocked' = blocked \cup {j.to}
  /\ UNCHANGED <<introVars, contextVars, textVars, verdicts>>

(* The process dies: what is in progress is gone, the stores stay.         *)
Crash ==
  /\ jobs # {} \/ handling # None
  /\ jobs' = {} /\ handling' = None
  /\ UNCHANGED <<trusted, arrived, overtaken, pending, contextVars, textVars,
                 pastVars>>

Next ==
  \/ \E i \in Intros : IntroBegins(i)
  \/ IntroStored \/ IntroDropped
  \/ \E v \in Verifiers : TrustVerifier(v) \/ DistrustVerifier(v)
  \/ \E q \in Proposals : ProposalArrives(q)
  \/ \E g \in Groups, seen, noted \in SUBSET Channels, read \in {contexts, {}} :
       ShowGroupMessage(g, seen, noted, read)
  \/ ContextExpires
  \/ \E c \in Channels, verb \in Verbs, queued \in BOOLEAN : Text(c, verb, queued)
  \/ \E verb \in Answers, n \in Nonces : Command(verb, n)
  \/ \E s \in Searchers : Command("block", s)
  \/ \E j \in jobs :
       \/ AnswerBegins(j) \/ AnswerTooLate(j) \/ AnswerSent(j) \/ AnswerFails(j)
       \/ BlockBegins(j) \/ BlockPosted(j) \/ BlockEnds(j)
  \/ Crash

Spec == Init /\ [][Next]_vars

-----------------------------------------------------------------------------
(* Nobody is answered without the user's word: an answer that reached the  *)
(* relay has the verb the user gave and goes where the text was routed     *)
(* when it was typed, even if something newer has come before the task     *)
(* ran.  A text gives one answer.                                          *)
VerdictsWereGiven ==
  /\ \A v \in verdicts : \E r \in routed :
       r.text = v.text /\ r.verb = v.verb /\ r.answers = v.to
  /\ \A v, w \in verdicts : v.text = w.text => v = w

(* An introduction leaves the pending store only when an answer to it has  *)
(* been sent or its searcher has been blocked, so that a failed send can   *)
(* be tried again.                                                         *)
IntroKeptUntilAnswered ==
  [][\A i \in (Rows \ Rows') \cap Intros :
       \/ \E v \in verdicts' : v.to = i
       \/ SearcherOf[i] \in blocked']_pending

(* Whenever the user types a reply on a home channel, the group it is      *)
(* bridged to, if any, is the one whose message was shown there last,      *)
(* whatever else the file has kept, dropped, lost or let expire.  Exempt   *)
(* is a channel whose latest message was shown without being recorded, or  *)
(* recorded without being shown: the reply then goes to the group recorded *)
(* there last, and nothing tells the user.                                 *)
RepliesReachLatestGroup ==
  \A c \in Channels : shown[c] # None => GroupFor(c) \in {shown[c], None}

(* The user is asked to consent only to what a verifier on the trust list  *)
(* relays; distrusting one comes too late for the introduction in hand.    *)
PromptsFromTrusted ==
  [][\A i \in (Rows' \ Rows) \cap Intros :
       VerifierOf[i] \in trusted \/ i \in overtaken]_pending
=============================================================================
