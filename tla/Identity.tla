------------------------------- MODULE Identity -------------------------------
(***************************************************************************)
(* The key pair behind an agent's address: the setup wizard that claims or *)
(* recovers the address (src/__init__.py), the gateway that registers with *)
(* it (src/adapter.py), /aap rotate-key (src/commands.py), and a peer that *)
(* caches the key of the address while its process lives (src/adapter.py). *)
(*                                                                         *)
(* The relay holds one key pair per address and the verifier sends codes:  *)
(* both are external, and any request to them may be refused.  A request   *)
(* whose answer is lost has been processed; that, and the death of the     *)
(* wizard or of the gateway, are the mishaps.                              *)
(*                                                                         *)
(* The wizard is a process of its own and may run while the gateway does.  *)
(* A rotate-key command runs in the gateway or in a chat session, which is *)
(* another process and needs no gateway; any number of them may be open,   *)
(* so commands interleave at every step.  Files are replaced by rename,    *)
(* each in one step.                                                       *)
(*                                                                         *)
(* A signing key and an encryption key are numbers of one counter.  An     *)
(* address is one of the hosted domain or of a domain of the operator; a   *)
(* peer resolves the latter at the operator's own server, which is left    *)
(* out.  So are a setup for another address than the one configured, and   *)
(* AAP_PRIVATE_SEED_B64, which puts another signing key before that of     *)
(* aap.json: the keys followed here are the ones the program generates.    *)
(***************************************************************************)
EXTENDS Naturals, FiniteSets

CONSTANTS
  MaxKeys,    \* bound: keys generated
  MaxMishaps, \* bound: number of mishaps
  CodesOnce,  \* the verifier takes a code at most once
  None

Keys == 1..MaxKeys
Pair == [sign : Keys, enc : Keys]
Idle == [step |-> "idle"]

ASSUME BoundsAssumption == MaxKeys \in Nat \ {0} /\ MaxMishaps \in Nat
ASSUME CodesAssumption  == CodesOnce \in BOOLEAN
ASSUME NoneAssumption   == None \notin Keys \cup Pair

(* A hosted run verifies the email, submits to the relay and, when that    *)
(* has processed the request and answered, saves.  A run for an own domain *)
(* saves the environment and looks for an identity: there was none, it     *)
(* could not be read, or the user is warned; there keeps what aap.json     *)
(* held then.                                                              *)
Wizards ==
  [step : {"verifying", "submitting", "answering", "saving"},
   mode : {"claim", "recover"}, pair : Pair]
  \cup [step : {"environment", "unread", "warned"}, pair : Pair]
  \cup [step : {"absent"}, pair : Pair, there : Pair \cup {None}]
  \cup {Idle}

(* A confirmation: awaiting the verifier, the relay, and done.             *)
Confirmation ==
  [pair : Pair, step : {"confirming", "posting", "posted", "written"}]

VARIABLES
  hosted,        \* the kind of address, fixed
  domainClaimed, \* the relay knows the own domain
  published,     \* the pair the relay holds for the address
  usedCodes,     \* codes the verifier has taken, named by their key
  configured,    \* AAP_LOCALPART is saved
  identity,      \* aap.json
  pending,       \* aap-rotate-pending.json: the new signing key
  wizard,        \* the run of the setup wizard
  gateway,       \* the pair in the gateway's memory
  online,        \* connect() has registered
  starts,        \* keys of rotate-key start commands in progress
  confirms,      \* rotate-key confirm commands in progress
  wire,          \* signing key of an envelope on its way to the peer
  cache,         \* peer_keys of the peer, for our address
  minted,        \* number of keys generated
  mishaps,       \* number of mishaps
  owned,         \* history: signing keys that were published
  forsaken,      \* history: signing keys the program let go
  raced,         \* history: the relay processed one request while another
                 \*          one was processed and not yet written down
  refused        \* history: envelopes the peer dropped for their
                 \*          signature, with the key published then

relayVars   == <<domainClaimed, published, usedCodes, owned, raced>>
diskVars    == <<configured, identity, pending>>
commandVars == <<starts, confirms>>
gatewayVars == <<gateway, online, commandVars>>
peerVars    == <<wire, cache, refused>>
countVars   == <<minted, mishaps>>
vars == <<hosted, relayVars, diskVars, wizard, gatewayVars, peerVars,
          countVars, forsaken>>

TypeOK ==
  /\ {hosted, domainClaimed, configured, online, raced} \subseteq BOOLEAN
  /\ {published, identity, gateway} \subseteq Pair \cup {None}
  /\ {pending, wire, cache} \subseteq Keys \cup {None}
  /\ {usedCodes, starts, owned, forsaken} \subseteq SUBSET Keys
  /\ wizard \in Wizards
  /\ confirms \in SUBSET Confirmation
  /\ minted \in 0..MaxKeys /\ mishaps \in 0..MaxMishaps
  /\ refused \in SUBSET (Keys \X Keys)

Init ==
  /\ hosted \in BOOLEAN /\ domainClaimed = FALSE
  /\ published = None /\ owned = {} /\ usedCodes = {} /\ raced = FALSE
  /\ configured = FALSE /\ identity = None /\ pending = None
  /\ wizard = Idle
  /\ gateway = None /\ online = FALSE /\ starts = {} /\ confirms = {}
  /\ wire = None /\ cache = None /\ refused = {}
  /\ minted = 0 /\ mishaps = 0 /\ forsaken = {}

Mint(n) == minted + n <= MaxKeys /\ minted' = minted + n

(* Fresh signing and encryption keys.                                      *)
NewPair == [sign |-> minted + 1, enc |-> minted + 2]

Mishap == mishaps < MaxMishaps /\ mishaps' = mishaps + 1

(* The relay puts pair under the address.                                  *)
Publish(pair) ==
  /\ published' = pair
  /\ owned' = owned \cup {pair.sign}
  /\ raced' = (raced \/ wizard.step \in {"answering", "saving"}
                     \/ \E c \in confirms : c.step = "posted")
  /\ UNCHANGED <<domainClaimed, usedCodes>>

LetGo(key) == forsaken' = forsaken \cup ({key} \ {None})

-----------------------------------------------------------------------------
(* The setup wizard, for a hosted address.                                 *)

(* What the relay says of the localpart at the check: available, so that   *)
(* it can be claimed, or taken, so that it can only be recovered.          *)
Availability == IF published = None THEN "claim" ELSE "recover"

(* The user goes on with either; the answer is only as new as the check.   *)
WizardChecks ==
  /\ hosted /\ wizard = Idle
  /\ Mint(2)
  /\ wizard' = [step |-> "verifying", pair |-> NewPair, mode |-> Availability]
  /\ UNCHANGED <<hosted, relayVars, diskVars, gatewayVars, peerVars, mishaps,
                 forsaken>>

(* The check fails: setup goes on without a claim.                         *)
WizardSkips ==
  /\ hosted /\ wizard = Idle /\ ~configured
  /\ configured' = TRUE
  /\ UNCHANGED <<hosted, relayVars, identity, pending, wizard, gatewayVars,
                 peerVars, countVars, forsaken>>

(* _drive_email_verification returns an attestation.                       *)
WizardVerified ==
  /\ wizard.step = "verifying"
  /\ wizard' = [wizard EXCEPT !.step = "submitting"]
  /\ UNCHANGED <<hosted, relayVars, diskVars, gatewayVars, peerVars,
                 countVars, forsaken>>

(* The relay processes the claim or the rotation.                          *)
WizardSubmits ==
  /\ wizard.step = "submitting"
  /\ (wizard.mode = "claim") <=> (published = None)
  /\ Publish(wizard.pair)
  /\ wizard' = [wizard EXCEPT !.step = "answering"]
  /\ UNCHANGED <<hosted, diskVars, gatewayVars, peerVars, countVars, forsaken>>

(* No code, or the relay refuses: back to the prompt, or out.              *)
WizardRefused ==
  /\ wizard.step \in {"verifying", "submitting"}
  /\ wizard' = Idle
  /\ UNCHANGED <<hosted, relayVars, diskVars, gatewayVars, peerVars, countVars,
                 forsaken>>

(* ReadTimeout: the answer of the relay does not arrive.                   *)
WizardUnanswered ==
  /\ wizard.step = "answering" /\ Mishap
  /\ wizard' = Idle
  /\ LetGo(wizard.pair.sign)
  /\ UNCHANGED <<hosted, relayVars, diskVars, gatewayVars, peerVars, minted>>

(* Mutant of WizardPersists: the identity is written when the request is   *)
(* submitted, not when it is accepted.                                     *)
WizardPersistsEarly ==
  /\ wizard.step \in {"submitting", "answering"}
  /\ identity' = wizard.pair
  /\ wizard' = [wizard EXCEPT !.step = "saving"]
  /\ UNCHANGED <<hosted, relayVars, configured, pending, gatewayVars,
                 peerVars, countVars, forsaken>>

(* The answer is success: _persist_identity.                               *)
WizardPersists ==
  /\ wizard.step = "answering"
  /\ identity' = wizard.pair
  /\ wizard' = [wizard EXCEPT !.step = "saving"]
  /\ UNCHANGED <<hosted, relayVars, configured, pending, gatewayVars,
                 peerVars, countVars, forsaken>>

WizardSaves ==
  /\ wizard.step = "saving"
  /\ configured' = TRUE
  /\ wizard' = Idle
  /\ UNCHANGED <<hosted, relayVars, identity, pending, gatewayVars, peerVars,
                 countVars, forsaken>>

(* The user breaks off, or the process dies.                               *)
WizardDies ==
  /\ wizard # Idle /\ Mishap
  /\ wizard' = Idle
  /\ LetGo(IF wizard.step = "answering" THEN wizard.pair.sign ELSE None)
  /\ UNCHANGED <<hosted, relayVars, diskVars, gatewayVars, peerVars, minted>>

-----------------------------------------------------------------------------
(* The setup wizard, for an address of the operator's own domain.          *)

(* _run_domain_claim_flow succeeds, also when the domain was claimed       *)
(* before.                                                                 *)
DomainClaim ==
  /\ ~hosted /\ wizard = Idle /\ ~domainClaimed
  /\ domainClaimed' = TRUE
  /\ UNCHANGED <<hosted, published, usedCodes, owned, raced, diskVars, wizard,
                 gatewayVars, peerVars, countVars, forsaken>>

(* With or without the claim, _setup_byod_path saves the environment and   *)
(* generates keys.                                                         *)
ByodSaves ==
  /\ ~hosted /\ wizard = Idle
  /\ Mint(2)
  /\ configured' = TRUE
  /\ wizard' = [step |-> "environment", pair |-> NewPair]
  /\ UNCHANGED <<hosted, relayVars, identity, pending, gatewayVars, peerVars,
                 mishaps, forsaken>>

Absent == [step |-> "absent", pair |-> wizard.pair, there |-> identity]

(* Mutant of ByodLooks: an identity that exists is not looked for.         *)
ByodLooksAway ==
  /\ wizard.step = "environment"
  /\ wizard' = Absent
  /\ UNCHANGED <<hosted, relayVars, diskVars, gatewayVars, peerVars,
                 countVars, forsaken>>

(* Then it looks for an identity, which the gateway may have generated     *)
(* from the environment; one that cannot be read counts as somebody        *)
(* else's, and there is no warning.                                        *)
ByodLooks ==
  /\ wizard.step = "environment"
  /\ \/ identity = None /\ wizard' = Absent /\ UNCHANGED mishaps
     \/ /\ identity # None
        /\ wizard' = [wizard EXCEPT !.step = "warned"] /\ UNCHANGED mishaps
     \/ /\ identity # None
        /\ wizard' = [wizard EXCEPT !.step = "unread"] /\ Mishap
  /\ UNCHANGED <<hosted, relayVars, diskVars, gatewayVars, peerVars, minted,
                 forsaken>>

ByodKeeps ==
  /\ wizard.step = "warned"
  /\ wizard' = Idle
  /\ UNCHANGED <<hosted, relayVars, diskVars, gatewayVars, peerVars, countVars,
                 forsaken>>

(* _persist_identity writes over whatever aap.json holds by now; a user    *)
(* who was warned wanted that.                                             *)
ByodPersists ==
  /\ wizard.step \in {"absent", "unread", "warned"}
  /\ identity' = wizard.pair
  /\ wizard' = Idle
  /\ LetGo(IF identity = None THEN None ELSE identity.sign)
  /\ UNCHANGED <<hosted, relayVars, configured, pending, gatewayVars,
                 peerVars, countVars>>

-----------------------------------------------------------------------------
(* The gateway.                                                            *)

(* adapter_factory: load_or_generate reads aap.json or writes it.  So does *)
(* every command of a chat session, which is as if the gateway started and *)
(* stopped.                                                                *)
GatewayLoads ==
  /\ configured /\ gateway = None
  /\ \/ identity # None /\ gateway' = identity /\ UNCHANGED <<identity, minted>>
     \/ identity = None /\ Mint(2) /\ gateway' = NewPair /\ identity' = NewPair
  /\ UNCHANGED <<hosted, relayVars, configured, pending, wizard, online,
                 commandVars, peerVars, mishaps, forsaken>>

(* Mutant of GatewayRegisters: KeyChangeRejected is not looked at.         *)
GatewayRegistersAnyway ==
  /\ gateway # None /\ ~online
  /\ hosted \/ domainClaimed
  /\ online' = TRUE
  /\ IF published = None THEN Publish(gateway) ELSE UNCHANGED relayVars
  /\ UNCHANGED <<hosted, diskVars, wizard, gateway, commandVars, peerVars,
                 countVars, forsaken>>

(* connect(): the relay takes the first key it sees for an address, and    *)
(* then only that one; what the card says of the encryption key it may     *)
(* take over each time.                                                    *)
GatewayRegisters ==
  /\ gateway # None /\ ~online
  /\ hosted \/ domainClaimed
  /\ published # None => published.sign = gateway.sign
  /\ online' = TRUE
  /\ \/ Publish(gateway)
     \/ published # None /\ UNCHANGED relayVars
  /\ UNCHANGED <<hosted, diskVars, wizard, gateway, commandVars, peerVars,
                 countVars, forsaken>>

(* A restart, a crash, or a connect that was refused.  Commands that run   *)
(* in the gateway fail one by one, at any time.                            *)
GatewayStops ==
  /\ gateway # None
  /\ gateway' = None /\ online' = FALSE
  /\ UNCHANGED <<hosted, relayVars, diskVars, wizard, commandVars, peerVars,
                 countVars, forsaken>>

-----------------------------------------------------------------------------
(* /aap rotate-key start and confirm, once the address is configured and   *)
(* an identity loaded.                                                     *)
Loaded == configured /\ identity # None

RotateStarts ==
  /\ Loaded
  /\ Mint(1)
  /\ starts' = starts \cup {minted + 1}
  /\ UNCHANGED <<hosted, relayVars, diskVars, wizard, gateway, online,
                 confirms, peerVars, mishaps, forsaken>>

(* The verifier has sent a code: the pending file is replaced, whatever it *)
(* held.                                                                   *)
RotateStarted(k) ==
  /\ k \in starts
  /\ starts' = starts \ {k}
  /\ pending' = k
  /\ LetGo(pending)
  /\ UNCHANGED <<hosted, relayVars, configured, identity, wizard, gateway,
                 online, confirms, peerVars, countVars>>

(* The verifier refuses or is not reached, or the process ends.            *)
RotateStartFails(k) ==
  /\ k \in starts
  /\ starts' = starts \ {k}
  /\ UNCHANGED <<hosted, relayVars, diskVars, wizard, gateway, online,
                 confirms, peerVars, countVars, forsaken>>

Change(c, step) == confirms' = (confirms \ {c}) \cup {[c EXCEPT !.step = step]}

ConfirmBegins ==
  /\ Loaded
  /\ pending # None
  /\ Mint(1)
  /\ confirms' = confirms \cup
       {[pair |-> [sign |-> pending, enc |-> minted + 1], step |-> "confirming"]}
  /\ UNCHANGED <<hosted, relayVars, diskVars, wizard, gateway, online, starts,
                 peerVars, mishaps, forsaken>>

(* confirm_email_verification returns the attestation.                     *)
ConfirmAttested(c) ==
  /\ c.step = "confirming"
  /\ CodesOnce => c.pair.sign \notin usedCodes
  /\ Change(c, "posting")
  /\ usedCodes' = usedCodes \cup {c.pair.sign}
  /\ UNCHANGED <<hosted, domainClaimed, published, owned, raced, diskVars,
                 wizard, gateway, online, starts, peerVars, countVars, forsaken>>

(* The verifier or the relay refuses or is not reached, or the process     *)
(* ends.                                                                   *)
ConfirmRefused(c) ==
  /\ c.step \in {"confirming", "posting"}
  /\ confirms' = confirms \ {c}
  /\ UNCHANGED <<hosted, relayVars, diskVars, wizard, gateway, online, starts,
                 peerVars, countVars, forsaken>>

(* The relay processes the rotation of an address that it knows.           *)
ConfirmPosts(c) ==
  /\ c.step = "posting" /\ published # None
  /\ Publish(c.pair)
  /\ Change(c, "posted")
  /\ UNCHANGED <<hosted, diskVars, wizard, gateway, online, starts, peerVars,
                 countVars, forsaken>>

(* The answer of the relay does not arrive, or the process dies in the     *)
(* last part of the command.                                               *)
ConfirmUnanswered(c) ==
  /\ c.step \in {"posted", "written"} /\ Mishap
  /\ confirms' = confirms \ {c}
  /\ UNCHANGED <<hosted, relayVars, diskVars, wizard, gateway, online, starts,
                 peerVars, minted, forsaken>>

(* Mutants of ConfirmPersists: the pending file goes first, and the        *)
(* encryption key of the old identity is kept.                             *)
ConfirmUnlinksFirst(c) ==
  /\ c.step = "posted"
  /\ \/ pending # None /\ pending' = None /\ UNCHANGED <<identity, confirms>>
     \/ pending = None /\ identity' = c.pair /\ Change(c, "written")
                       /\ UNCHANGED pending
  /\ UNCHANGED <<hosted, relayVars, configured, wizard, gateway, online,
                 starts, peerVars, countVars, forsaken>>

ConfirmKeepsEncryption(c) ==
  /\ c.step = "posted"
  /\ identity' = [sign |-> c.pair.sign, enc |-> identity.enc]
  /\ Change(c, "written")
  /\ UNCHANGED <<hosted, relayVars, configured, pending, wizard, gateway,
                 online, starts, peerVars, countVars, forsaken>>

(* The answer is 200: the identity file is replaced.                       *)
ConfirmPersists(c) ==
  /\ c.step = "posted"
  /\ identity' = c.pair
  /\ Change(c, "written")
  /\ UNCHANGED <<hosted, relayVars, configured, pending, wizard, gateway,
                 online, starts, peerVars, countVars, forsaken>>

(* The pending file is removed, also one that a later start has written.   *)
ConfirmUnlinks(c) ==
  /\ c.step = "written"
  /\ pending' = None
  /\ LetGo(IF pending = c.pair.sign THEN None ELSE pending)
  /\ confirms' = confirms \ {c}
  /\ UNCHANGED <<hosted, relayVars, configured, identity, wizard, gateway,
                 online, starts, peerVars, countVars>>

-----------------------------------------------------------------------------
(* An envelope to the peer, signed with the key in memory.                 *)
GatewaySends ==
  /\ online /\ wire = None
  /\ wire' = gateway.sign
  /\ UNCHANGED <<hosted, relayVars, diskVars, wizard, gatewayVars, cache,
                 refused, countVars, forsaken>>

(* _dispatch of the peer: a key it does not have it resolves at the relay  *)
(* and caches; an envelope with another signature is dropped.              *)
PeerReceives ==
  LET key == IF cache = None THEN published.sign ELSE cache
  IN /\ hosted /\ wire # None
     /\ cache' = key
     /\ refused' = IF wire = key THEN refused
                   ELSE refused \cup {<<wire, published.sign>>}
     /\ wire' = None
     /\ UNCHANGED <<hosted, relayVars, diskVars, wizard, gatewayVars,
                    countVars, forsaken>>

(* The key cannot be resolved: the envelope is dropped, and the next one   *)
(* tries again.                                                            *)
PeerCannotResolve ==
  /\ hosted /\ wire # None /\ cache = None
  /\ wire' = None
  /\ UNCHANGED <<hosted, relayVars, diskVars, wizard, gatewayVars, cache,
                 refused, countVars, forsaken>>

PeerRestarts ==
  /\ cache # None
  /\ cache' = None
  /\ UNCHANGED <<hosted, relayVars, diskVars, wizard, gatewayVars, wire,
                 refused, countVars, forsaken>>

Next ==
  \/ WizardChecks \/ WizardSkips \/ WizardVerified \/ WizardSubmits
  \/ WizardRefused \/ WizardUnanswered \/ WizardPersists \/ WizardSaves
  \/ WizardDies
  \/ DomainClaim \/ ByodSaves \/ ByodLooks \/ ByodKeeps \/ ByodPersists
  \/ GatewayLoads \/ GatewayRegisters \/ GatewayStops
  \/ RotateStarts \/ \E k \in starts : RotateStarted(k) \/ RotateStartFails(k)
  \/ ConfirmBegins
  \/ \E c \in confirms :
       \/ ConfirmAttested(c) \/ ConfirmRefused(c) \/ ConfirmPosts(c)
       \/ ConfirmUnanswered(c) \/ ConfirmPersists(c) \/ ConfirmUnlinks(c)
  \/ GatewaySends \/ PeerReceives \/ PeerCannotResolve \/ PeerRestarts

Spec == Init /\ [][Next]_vars

-----------------------------------------------------------------------------
(* Keys still to be had: in a file, or in the hands of a command or of the *)
(* wizard that will write it.                                              *)
OnDisk == {pending} \cup {p.sign : p \in {identity} \ {None}}
InHand == {c.pair.sign : c \in confirms}
            \cup (IF wizard.step = "answering" THEN {wizard.pair.sign} ELSE {})

(* The address is not lost: the private key of what the relay publishes is *)
(* at hand, through crashes and lost answers.  The program may let it go:  *)
(* the wizard's own answer was lost; a later rotate-key start replaced the *)
(* pending file, or the confirmation of an earlier one removed it; setup   *)
(* of an own domain wrote over aap.json, as the warned user wanted or      *)
(* because it could not read the file or had looked before it was there.   *)
(* Exempt are two requests that overlap at the relay.                      *)
PublishedKeyAtHand ==
  \/ published = None \/ raced
  \/ published.sign \in OnDisk \cup InHand \cup forsaken

(* When the wizard reports the address claimed or rebound, the identity it *)
(* has saved is the pair the relay publishes.                              *)
SavedIsPublished ==
  wizard.step = "saving" => raced \/ identity = published

(* A gateway that runs under the signing key the relay publishes can       *)
(* decrypt what is encrypted to the key that is published with it.         *)
RegisteredCanDecrypt ==
  online /\ gateway.sign = published.sign => gateway.enc = published.enc

(* A peer refuses the signature of an envelope of ours only after the      *)
(* address has had another key, whatever look-ups failed before and        *)
(* whenever either side restarted.  (An envelope whose sender cannot be    *)
(* looked up is dropped at any time.)                                      *)
HeardUntilRotation == Cardinality(owned) <= 1 => refused = {}

(* An identity file, which holds the only copy of a private key, is        *)
(* replaced only by a key the relay has taken, or by a user who was warned *)
(* that the address will be locked out.  Exempt is what setup does not     *)
(* warn of: a file that could not be read, and one that was written after  *)
(* it had looked.                                                          *)
ReplacedKnowingly ==
  identity # None /\ identity' # identity =>
    \/ identity'.sign \in owned
    \/ wizard.step \in {"warned", "unread"}
    \/ wizard.step = "absent" /\ wizard.there = None

IdentityReplacedKnowingly == [][ReplacedKnowingly]_identity
=============================================================================
