--------------------------- MODULE IdentityProofs ---------------------------
(***************************************************************************)
(* What holds of the key pair of an address for any number of keys and     *)
(* mishaps.  The strengthened invariant follows the keys: the ones on the  *)
(* way were published (OwnedInv), the requests the relay has processed are *)
(* what it publishes unless two overlapped (RaceInv), a key was generated  *)
(* before it is anywhere (MintInv).  If the verifier takes a code once, a  *)
(* signing key gets at most one encryption key that is ever published      *)
(* (FreshInv), no two confirmations get past the verifier with one key,    *)
(* and the private key of what is published is at hand (CodeInv, KeptInv). *)
(***************************************************************************)
EXTENDS Identity, FiniteSetTheorems, TLAPS

(* TypeOK, one variable at a time.                                         *)
Typed ==
  /\ hosted \in BOOLEAN /\ domainClaimed \in BOOLEAN
  /\ configured \in BOOLEAN /\ online \in BOOLEAN /\ raced \in BOOLEAN
  /\ published \in Pair \cup {None} /\ identity \in Pair \cup {None}
  /\ gateway \in Pair \cup {None}
  /\ pending \in Keys \cup {None}
  /\ wire \in Keys \cup {None} /\ cache \in Keys \cup {None}
  /\ usedCodes \in SUBSET Keys /\ starts \in SUBSET Keys
  /\ owned \in SUBSET Keys /\ forsaken \in SUBSET Keys
  /\ wizard \in Wizards
  /\ confirms \in SUBSET Confirmation
  /\ minted \in 0..MaxKeys /\ mishaps \in 0..MaxMishaps
  /\ refused \in SUBSET (Keys \X Keys)

(* What the wizard and the gateway have seen of the world is still so.     *)
SeenInv ==
  /\ wizard.step \in {"unread", "warned"} => identity # None
  /\ wizard.step = "answering" => published # None
  /\ gateway # None => identity # None
  /\ online => gateway # None /\ published # None
  /\ confirms # {} => identity # None
  /\ wizard.step = "absent" => wizard.there = None
  /\ \A c \in confirms : c.step \in {"posted", "written"} => published # None

(* Keys an envelope, the peer's cache or a processed request carry.        *)
OwnedInv ==
  /\ published # None => published.sign \in owned
  /\ online => gateway.sign \in owned
  /\ wizard.step = "answering" => wizard.pair.sign \in owned
  /\ \A c \in confirms : c.step = "posted" => c.pair.sign \in owned
  /\ wire # None => wire \in owned /\ published # None
  /\ cache # None => cache \in owned
  /\ refused # {} => \E a, b \in owned : a # b

(* A request the relay has processed is what it publishes.                 *)
RaceInv ==
  ~raced =>
    /\ wizard.step = "answering" => published = wizard.pair
    /\ wizard.step = "saving" => published # None /\ identity = published
    /\ \A c \in confirms : c.step = "posted" => published = c.pair

(* Pairs in use, or on the way to the relay.                               *)
InUse(p) ==
  \/ p \in {published, identity, gateway} \ {None}
  \/ wizard # Idle /\ p = wizard.pair
  \/ \E c \in confirms : c.step # "confirming" /\ p = c.pair

(* Signing keys of rotate-key start that wait for their code.              *)
Waiting(k) ==
  \/ k \in starts
  \/ /\ k \notin usedCodes
     /\ \/ k = pending
        \/ \E c \in confirms : c.step = "confirming" /\ k = c.pair.sign

MintInv ==
  /\ \A p \in Pair : InUse(p) => p.sign <= minted
  /\ \A k \in Keys :
       Waiting(k) \/ k \in usedCodes \/ k = pending => k <= minted
  /\ \A c \in confirms : c.pair.sign <= minted

(* A signing key belongs to one pair, one that waits to none.              *)
FreshInv ==
  /\ \A p, q \in Pair : InUse(p) /\ InUse(q) /\ p.sign = q.sign => p = q
  /\ \A p \in Pair : InUse(p) => ~Waiting(p.sign)
  /\ \A k \in starts : /\ k \notin usedCodes /\ k # pending
                       /\ \A c \in confirms : k # c.pair.sign

(* The verifier takes a key once.  One whose confirmation may yet be       *)
(* published is in the pending file, or the program let it go.             *)
CodeInv ==
  /\ \A c, d \in confirms :
       c.step # "confirming" /\ d.step # "confirming"
         /\ c.pair.sign = d.pair.sign => c = d
  /\ \A c \in confirms :
       /\ c.step # "confirming" => c.pair.sign \in usedCodes
       /\ c.step \in {"posting", "posted"} \/ c.pair.sign \notin usedCodes
            => c.pair.sign \in {pending} \cup forsaken

(* Where the published key is, whatever the confirmations do.              *)
Kept(k) ==
  \/ k = pending \/ k \in forsaken
  \/ identity # None /\ k = identity.sign
  \/ wizard.step = "answering" /\ k = wizard.pair.sign

(* Nothing is published yet: the gateway's key is the one that will be.    *)
KeptInv ==
  ~raced =>
    /\ published # None => Kept(published.sign)
    /\ published = None /\ gateway # None =>
         gateway.sign \in {identity.sign} \cup forsaken
    /\ \A c \in confirms : c.step = "written" =>
         \/ wizard.step = "answering"
         \/ published.sign \in {identity.sign} \cup forsaken
         \/ published.sign = pending /\ pending # c.pair.sign

IInv ==
  /\ Typed
  /\ SeenInv /\ OwnedInv /\ RaceInv
  /\ CodesOnce => MintInv /\ FreshInv /\ CodeInv /\ KeptInv

-----------------------------------------------------------------------------
(* Pairs and keys.                                                         *)
LEMMA PairType ==
  ASSUME NEW p \in Pair
  PROVE  p # None /\ p.sign \in Keys /\ p.enc \in Keys
BY NoneAssumption DEF Pair

(* A pair that is minted is a pair of new keys.                            *)
LEMMA NewPairType ==
  ASSUME Mint(2), minted \in 0..MaxKeys
  PROVE  /\ NewPair \in Pair /\ NewPair # None /\ NewPair.sign = minted + 1
         /\ minted' \in 0..MaxKeys
<1>1. minted + 1 \in Keys /\ minted + 2 \in Keys /\ minted' \in 0..MaxKeys
  BY BoundsAssumption DEF Mint, Keys
<1> QED BY <1>1, PairType DEF NewPair, Pair

(* The run of the wizard, and what becomes of it at its next step.         *)
LEMMA WizardType ==
  ASSUME Typed
  PROVE  /\ wizard.step \in {"verifying", "submitting", "answering", "saving",
                             "environment", "absent", "unread", "warned",
                             "idle"}
         /\ wizard = Idle <=> wizard.step = "idle"
         /\ wizard # Idle => wizard.pair \in Pair
         /\ \A st \in {"verifying", "submitting", "answering", "saving"} :
              wizard.step \in {"verifying", "submitting", "answering", "saving"}
                => /\ [wizard EXCEPT !.step = st] \in Wizards
                   /\ [wizard EXCEPT !.step = st].step = st
                   /\ [wizard EXCEPT !.step = st].pair = wizard.pair
<1>1. wizard \in Wizards
  BY DEF Typed
<1>2. CASE wizard = Idle
  BY <1>2 DEF Idle
<1>3. CASE \/ wizard \in [step : {"environment", "unread", "warned"}, pair : Pair]
           \/ wizard \in [step : {"absent"}, pair : Pair,
                          there : Pair \cup {None}]
  BY <1>3 DEF Idle
<1>4. CASE wizard \in
             [step : {"verifying", "submitting", "answering", "saving"},
              mode : {"claim", "recover"}, pair : Pair]
  BY <1>4 DEF Idle, Wizards
<1> QED BY <1>1, <1>2, <1>3, <1>4 DEF Wizards

(* The wizard after it looked for an identity: of the same pair.           *)
LEMMA LooksType ==
  ASSUME Typed, ByodLooks
  PROVE  /\ wizard' \in Wizards /\ wizard'.pair = wizard.pair
         /\ wizard'.step \in {"absent", "unread", "warned"}
         /\ identity = None => wizard'.step = "absent"
         /\ wizard'.step \in {"unread", "warned"} => identity # None
         /\ wizard'.step = "absent" => wizard'.there = None
         /\ wizard.step = "environment" /\ wizard # Idle /\ wizard' # Idle
<1>1. wizard \in [step : {"environment"}, pair : Pair]
  BY DEF ByodLooks, Typed, Wizards, Idle
<1>2. CASE identity = None /\ wizard' = Absent
  BY <1>1, <1>2 DEF Absent, Wizards, Idle, Typed
<1>3. CASE /\ identity # None
           /\ \/ wizard' = [wizard EXCEPT !.step = "warned"]
              \/ wizard' = [wizard EXCEPT !.step = "unread"]
  BY <1>1, <1>3 DEF Wizards, Idle
<1> QED BY <1>1, <1>2, <1>3 DEF ByodLooks, Idle

(* The idle wizard is one of its states.                                   *)
LEMMA IdleType == Idle \in Wizards /\ Idle.step = "idle"
BY DEF Idle, Wizards

(* A confirmation, and what becomes of it at its next step.                *)
LEMMA ConfirmType ==
  ASSUME Typed, NEW c \in confirms
  PROVE  /\ c \in Confirmation /\ c.pair \in Pair
         /\ c.step \in {"confirming", "posting", "posted", "written"}
BY DEF Typed, Confirmation

(* A confirmation at its next step is still of its pair.                   *)
LEMMA ChangeType ==
  ASSUME Typed, NEW c \in confirms,
         NEW st \in {"posting", "posted", "written"}, Change(c, st)
  PROVE  \E d \in Confirmation :
           /\ confirms' = (confirms \ {c}) \cup {d}
           /\ d.pair = c.pair /\ d.step = st
<1>1. c \in Confirmation
  BY ConfirmType
<1> DEFINE d == [c EXCEPT !.step = st]
<1>2. d \in Confirmation /\ d.pair = c.pair /\ d.step = st
  BY <1>1 DEF Confirmation
<1>3. confirms' = (confirms \ {c}) \cup {d}
  BY DEF Change
<1> QED BY <1>2, <1>3

(* A confirmation begins with the pending key and a new one.               *)
LEMMA BeginType ==
  ASSUME Typed, ConfirmBegins
  PROVE  \E d \in Confirmation :
           /\ confirms' = confirms \cup {d}
           /\ d.pair.sign = pending /\ d.step = "confirming"
           /\ pending \in Keys
           /\ minted' \in 0..MaxKeys /\ minted' = minted + 1
<1> DEFINE d == [pair |-> [sign |-> pending, enc |-> minted + 1],
                 step |-> "confirming"]
<1>1. pending \in Keys /\ minted + 1 \in Keys /\ minted' \in 0..MaxKeys
  BY BoundsAssumption DEF ConfirmBegins, Mint, Keys, Typed
<1>2. [sign |-> pending, enc |-> minted + 1] \in Pair
  BY <1>1 DEF Pair
<1>3. d \in Confirmation /\ d.pair.sign = pending /\ d.step = "confirming"
  BY <1>2 DEF Confirmation
<1>4. confirms' = confirms \cup {d} /\ minted' = minted + 1
  BY DEF ConfirmBegins, Mint
<1> QED BY <1>1, <1>3, <1>4

(* What the relay has processed, and when no other request was before it.  *)
LEMMA Publishes ==
  ASSUME NEW pair, Publish(pair)
  PROVE  /\ published' = pair /\ owned' = owned \cup {pair.sign}
         /\ usedCodes' = usedCodes
         /\ ~raced' => /\ ~raced
                       /\ wizard.step # "answering" /\ wizard.step # "saving"
                       /\ \A c \in confirms : c.step # "posted"
BY DEF Publish

(* The strengthened invariant holds initially.                             *)
LEMMA IInvInit == Init => IInv
<1> SUFFICES ASSUME Init PROVE IInv
  OBVIOUS
<1>1. Typed
  <2>1. minted \in 0..MaxKeys /\ mishaps \in 0..MaxMishaps
    BY BoundsAssumption DEF Init
  <2> QED BY <2>1, IdleType DEF Init, Typed
<1>2. SeenInv /\ OwnedInv /\ RaceInv
  BY IdleType DEF Init, SeenInv, OwnedInv, RaceInv
<1>3. MintInv /\ FreshInv
  BY NoneAssumption DEF Init, MintInv, FreshInv, InUse, Waiting, Keys
<1>4. CodeInv /\ KeptInv
  BY DEF Init, CodeInv, KeptInv
<1> QED BY <1>1, <1>2, <1>3, <1>4 DEF IInv

(* Every action preserves the types.                                       *)
LEMMA TypeStep == Typed /\ SeenInv /\ OwnedInv /\ [Next]_vars => Typed'
<1> SUFFICES ASSUME Typed, SeenInv, OwnedInv, [Next]_vars PROVE Typed'
  OBVIOUS
<1> USE DEF vars, relayVars, diskVars, commandVars, gatewayVars, peerVars,
            countVars
<1>1. CASE WizardChecks
  <2>1. [step |-> "verifying", pair |-> NewPair, mode |-> Availability]
          \in Wizards
    BY <1>1, NewPairType DEF WizardChecks, Typed, Availability, Wizards
  <2> QED BY <1>1, <2>1, NewPairType DEF WizardChecks, Typed
<1>2. CASE WizardSkips
  BY <1>2 DEF WizardSkips, Typed
<1>3. CASE WizardVerified
  BY <1>3, WizardType, IdleType DEF WizardVerified, Typed
<1>4. CASE WizardSubmits
  BY <1>4, WizardType, PairType DEF WizardSubmits, Publish, Typed
<1>5. CASE WizardRefused
  BY <1>5, WizardType, IdleType DEF WizardRefused, Typed
<1>6. CASE WizardUnanswered
  BY <1>6, WizardType, IdleType, PairType, BoundsAssumption
     DEF WizardUnanswered, Mishap, LetGo, Typed
<1>7. CASE WizardPersists
  BY <1>7, WizardType, IdleType DEF WizardPersists, Typed
<1>8. CASE WizardSaves
  BY <1>8, WizardType, IdleType DEF WizardSaves, Typed
<1>9. CASE WizardDies
  <2>1. wizard.step = "answering" => wizard.pair.sign \in Keys
    BY WizardType, PairType, IdleType
  <2> QED BY <1>9, <2>1, IdleType, BoundsAssumption
          DEF WizardDies, Mishap, LetGo, Typed
<1>10. CASE DomainClaim
  BY <1>10 DEF DomainClaim, Typed
<1>11. CASE ByodSaves
  <2>1. [step |-> "environment", pair |-> NewPair] \in Wizards
    BY <1>11, NewPairType DEF ByodSaves, Typed, Wizards
  <2> QED BY <1>11, <2>1, NewPairType DEF ByodSaves, Typed
<1>12. CASE ByodLooks
  <2>1. wizard' \in Wizards
    BY <1>12, LooksType
  <2> QED BY <1>12, <2>1, BoundsAssumption DEF ByodLooks, Mishap, Typed
<1>13. CASE ByodKeeps
  BY <1>13, WizardType, IdleType DEF ByodKeeps, Typed
<1>14. CASE ByodPersists
  <2>1. wizard.pair \in Pair /\ wizard' = Idle /\ identity' = wizard.pair
    BY <1>14, WizardType, IdleType DEF ByodPersists
  <2>2. forsaken' \in SUBSET Keys
    BY <1>14, PairType DEF ByodPersists, LetGo, Typed
  <2> QED BY <1>14, <2>1, <2>2, IdleType DEF ByodPersists, Typed
<1>15. CASE GatewayLoads
  BY <1>15, NewPairType DEF GatewayLoads, Typed
<1>16. CASE GatewayRegisters
  BY <1>16, PairType DEF GatewayRegisters, Publish, Typed
<1>17. CASE GatewayStops
  BY <1>17 DEF GatewayStops, Typed
<1>18. CASE RotateStarts
  <2>1. minted + 1 \in Keys /\ minted' \in 0..MaxKeys
    BY <1>18, BoundsAssumption DEF RotateStarts, Mint, Keys, Typed
  <2> QED BY <1>18, <2>1 DEF RotateStarts, Typed
<1>19. ASSUME NEW k \in starts, RotateStarted(k)
      PROVE  Typed'
  BY <1>19 DEF RotateStarted, LetGo, Typed
<1>20. ASSUME NEW k \in starts, RotateStartFails(k)
      PROVE  Typed'
  BY <1>20 DEF RotateStartFails, Typed
<1>21. CASE ConfirmBegins
  BY <1>21, BeginType DEF ConfirmBegins, Typed
<1>22. ASSUME NEW c \in confirms, ConfirmAttested(c)
      PROVE  Typed'
  BY <1>22, ConfirmType, ChangeType, PairType DEF ConfirmAttested, Typed
<1>23. ASSUME NEW c \in confirms, ConfirmRefused(c)
      PROVE  Typed'
  BY <1>23 DEF ConfirmRefused, Typed
<1>24. ASSUME NEW c \in confirms, ConfirmPosts(c)
      PROVE  Typed'
  BY <1>24, ConfirmType, ChangeType, PairType DEF ConfirmPosts, Publish, Typed
<1>25. ASSUME NEW c \in confirms, ConfirmUnanswered(c)
      PROVE  Typed'
  BY <1>25, BoundsAssumption DEF ConfirmUnanswered, Mishap, Typed
<1>26. ASSUME NEW c \in confirms, ConfirmPersists(c)
      PROVE  Typed'
  BY <1>26, ConfirmType, ChangeType DEF ConfirmPersists, Typed
<1>27. ASSUME NEW c \in confirms, ConfirmUnlinks(c)
      PROVE  Typed'
  BY <1>27 DEF ConfirmUnlinks, LetGo, Typed
<1>28. CASE GatewaySends
  BY <1>28, PairType DEF GatewaySends, SeenInv, Typed
<1>29. CASE PeerReceives
  <2>1. published # None /\ published.sign \in Keys
    BY <1>29, PairType DEF PeerReceives, OwnedInv, Typed
  <2> QED BY <1>29, <2>1 DEF PeerReceives, Typed
<1>30. CASE PeerCannotResolve
  BY <1>30 DEF PeerCannotResolve, Typed
<1>31. CASE PeerRestarts
  BY <1>31 DEF PeerRestarts, Typed
<1>32. CASE UNCHANGED vars
  BY <1>32 DEF vars, Typed
<1> QED
  BY <1>1, <1>2, <1>3, <1>4, <1>5, <1>6, <1>7, <1>8, <1>9, <1>10, <1>11,
     <1>12, <1>13, <1>14, <1>15, <1>16, <1>17, <1>18, <1>19, <1>20, <1>21,
     <1>22, <1>23, <1>24, <1>25, <1>26, <1>27, <1>28, <1>29, <1>30, <1>31, <1>32
     DEF Next

(* What was seen is still so: nothing is published or identified away.     *)
LEMMA SeenStep == Typed /\ SeenInv /\ [Next]_vars => SeenInv'
<1> SUFFICES ASSUME Typed, SeenInv, [Next]_vars PROVE SeenInv'
  OBVIOUS
<1> USE DEF vars, relayVars, diskVars, commandVars, gatewayVars, peerVars,
            countVars
<1>1. CASE WizardChecks
  BY <1>1 DEF WizardChecks, SeenInv
<1>2. CASE WizardSkips
  BY <1>2 DEF WizardSkips, SeenInv, Idle
<1>3. CASE WizardVerified
  BY <1>3, WizardType DEF WizardVerified, SeenInv
<1>4. CASE WizardSubmits
  BY <1>4, WizardType, PairType DEF WizardSubmits, Publish, SeenInv
<1>5. CASE WizardRefused
  BY <1>5 DEF WizardRefused, SeenInv, Idle
<1>6. CASE WizardUnanswered
  BY <1>6 DEF WizardUnanswered, SeenInv, Idle
<1>7. CASE WizardPersists
  BY <1>7, WizardType, PairType DEF WizardPersists, SeenInv
<1>8. CASE WizardSaves
  BY <1>8 DEF WizardSaves, SeenInv, Idle
<1>9. CASE WizardDies
  BY <1>9 DEF WizardDies, SeenInv, Idle
<1>10. CASE DomainClaim
  BY <1>10 DEF DomainClaim, SeenInv, Idle
<1>11. CASE ByodSaves
  BY <1>11 DEF ByodSaves, SeenInv
<1>12. CASE ByodLooks
  <2>1. /\ wizard'.step \in {"unread", "warned"} => identity # None
        /\ wizard'.step = "absent" => wizard'.there = None
        /\ wizard'.step \in {"absent", "unread", "warned"}
    BY <1>12, LooksType
  <2> QED BY <1>12, <2>1 DEF ByodLooks, SeenInv
<1>13. CASE ByodKeeps
  BY <1>13 DEF ByodKeeps, SeenInv, Idle
<1>14. CASE ByodPersists
  BY <1>14, WizardType, IdleType, PairType DEF ByodPersists, SeenInv
<1>15. CASE GatewayLoads
  BY <1>15, NewPairType DEF GatewayLoads, SeenInv, Typed
<1>16. CASE GatewayRegisters
  BY <1>16 DEF GatewayRegisters, Publish, SeenInv, Typed
<1>17. CASE GatewayStops
  BY <1>17 DEF GatewayStops, SeenInv, Idle
<1>18. CASE RotateStarts
  BY <1>18 DEF RotateStarts, SeenInv, Idle
<1>19. ASSUME NEW k \in starts, RotateStarted(k)
      PROVE  SeenInv'
  BY <1>19 DEF RotateStarted, SeenInv, Idle
<1>20. ASSUME NEW k \in starts, RotateStartFails(k)
      PROVE  SeenInv'
  BY <1>20 DEF RotateStartFails, SeenInv, Idle
<1>21. CASE ConfirmBegins
  <2>1. \A d \in confirms' : d \in confirms \/ d.step = "confirming"
    BY <1>21, BeginType
  <2> QED BY <1>21, <2>1 DEF ConfirmBegins, Loaded, SeenInv
<1>22. ASSUME NEW c \in confirms, ConfirmAttested(c)
      PROVE  SeenInv'
  BY <1>22, ChangeType DEF ConfirmAttested, SeenInv
<1>23. ASSUME NEW c \in confirms, ConfirmRefused(c)
      PROVE  SeenInv'
  BY <1>23 DEF ConfirmRefused, SeenInv, Idle
<1>24. ASSUME NEW c \in confirms, ConfirmPosts(c)
      PROVE  SeenInv'
  BY <1>24, ConfirmType, PairType, ChangeType
     DEF ConfirmPosts, Publish, SeenInv
<1>25. ASSUME NEW c \in confirms, ConfirmUnanswered(c)
      PROVE  SeenInv'
  BY <1>25 DEF ConfirmUnanswered, SeenInv, Idle
<1>26. ASSUME NEW c \in confirms, ConfirmPersists(c)
      PROVE  SeenInv'
  BY <1>26, ConfirmType, PairType, ChangeType DEF ConfirmPersists, SeenInv
<1>27. ASSUME NEW c \in confirms, ConfirmUnlinks(c)
      PROVE  SeenInv'
  BY <1>27 DEF ConfirmUnlinks, SeenInv, Idle
<1>28. CASE GatewaySends
  BY <1>28 DEF GatewaySends, SeenInv, Idle
<1>29. CASE PeerReceives
  BY <1>29 DEF PeerReceives, SeenInv, Idle
<1>30. CASE PeerCannotResolve
  BY <1>30 DEF PeerCannotResolve, SeenInv, Idle
<1>31. CASE PeerRestarts
  BY <1>31 DEF PeerRestarts, SeenInv, Idle
<1>32. CASE UNCHANGED vars
  BY <1>32 DEF vars, SeenInv, Idle
<1> QED
  BY <1>1, <1>2, <1>3, <1>4, <1>5, <1>6, <1>7, <1>8, <1>9, <1>10, <1>11,
     <1>12, <1>13, <1>14, <1>15, <1>16, <1>17, <1>18, <1>19, <1>20, <1>21,
     <1>22, <1>23, <1>24, <1>25, <1>26, <1>27, <1>28, <1>29, <1>30, <1>31, <1>32
     DEF Next

(* What is on the way was published.                                       *)
LEMMA OwnedStep ==
  Typed /\ SeenInv /\ OwnedInv /\ [Next]_vars => OwnedInv'
<1> SUFFICES ASSUME Typed, SeenInv, OwnedInv, [Next]_vars
             PROVE  OwnedInv'
  OBVIOUS
<1> USE DEF vars, relayVars, diskVars, commandVars, gatewayVars, peerVars,
            countVars
<1>1. CASE WizardChecks
  BY <1>1 DEF WizardChecks, OwnedInv
<1>2. CASE WizardSkips
  BY <1>2 DEF WizardSkips, OwnedInv, Idle
<1>3. CASE WizardVerified
  BY <1>3, WizardType DEF WizardVerified, OwnedInv
<1>4. CASE WizardSubmits
  BY <1>4, WizardType, PairType DEF WizardSubmits, Publish, OwnedInv, Typed
<1>5. CASE WizardRefused
  BY <1>5 DEF WizardRefused, OwnedInv, Idle
<1>6. CASE WizardUnanswered
  BY <1>6 DEF WizardUnanswered, OwnedInv, Idle
<1>7. CASE WizardPersists
  BY <1>7, WizardType DEF WizardPersists, OwnedInv
<1>8. CASE WizardSaves
  BY <1>8 DEF WizardSaves, OwnedInv, Idle
<1>9. CASE WizardDies
  BY <1>9 DEF WizardDies, OwnedInv, Idle
<1>10. CASE DomainClaim
  BY <1>10 DEF DomainClaim, OwnedInv, Idle
<1>11. CASE ByodSaves
  BY <1>11, IdleType DEF ByodSaves, OwnedInv
<1>12. CASE ByodLooks
  BY <1>12, LooksType DEF ByodLooks, OwnedInv
<1>13. CASE ByodKeeps
  BY <1>13 DEF ByodKeeps, OwnedInv, Idle
<1>14. CASE ByodPersists
  BY <1>14 DEF ByodPersists, OwnedInv, Idle
<1>15. CASE GatewayLoads
  BY <1>15 DEF GatewayLoads, OwnedInv, SeenInv
<1>16. CASE GatewayRegisters
  <2>1. owned \subseteq owned' /\ published' # None
    BY <1>16 DEF GatewayRegisters, Publish, Typed
  <2>2. gateway'.sign \in owned' /\ published'.sign \in owned'
    BY <1>16 DEF GatewayRegisters, Publish, OwnedInv
  <2> QED BY <1>16, <2>1, <2>2 DEF GatewayRegisters, OwnedInv, Typed
<1>17. CASE GatewayStops
  BY <1>17 DEF GatewayStops, OwnedInv, Idle
<1>18. CASE RotateStarts
  BY <1>18 DEF RotateStarts, OwnedInv, Idle
<1>19. ASSUME NEW k \in starts, RotateStarted(k)
      PROVE  OwnedInv'
  BY <1>19 DEF RotateStarted, OwnedInv, Idle
<1>20. ASSUME NEW k \in starts, RotateStartFails(k)
      PROVE  OwnedInv'
  BY <1>20 DEF RotateStartFails, OwnedInv, Idle
<1>21. CASE ConfirmBegins
  BY <1>21, BeginType DEF ConfirmBegins, OwnedInv
<1>22. ASSUME NEW c \in confirms, ConfirmAttested(c)
      PROVE  OwnedInv'
  BY <1>22, ChangeType DEF ConfirmAttested, OwnedInv
<1>23. ASSUME NEW c \in confirms, ConfirmRefused(c)
      PROVE  OwnedInv'
  BY <1>23 DEF ConfirmRefused, OwnedInv, Idle
<1>24. ASSUME NEW c \in confirms, ConfirmPosts(c)
      PROVE  OwnedInv'
  <2>1. /\ owned' = owned \cup {c.pair.sign} /\ published' = c.pair
        /\ c.pair # None
    BY <1>24, ConfirmType, PairType DEF ConfirmPosts, Publish
  <2>2. \A d \in confirms' : d.step = "posted" => d.pair.sign \in owned'
    BY <1>24, <2>1, ChangeType DEF ConfirmPosts, OwnedInv
  <2> QED BY <1>24, <2>1, <2>2 DEF ConfirmPosts, OwnedInv
<1>25. ASSUME NEW c \in confirms, ConfirmUnanswered(c)
      PROVE  OwnedInv'
  BY <1>25 DEF ConfirmUnanswered, OwnedInv, Idle
<1>26. ASSUME NEW c \in confirms, ConfirmPersists(c)
      PROVE  OwnedInv'
  BY <1>26, ChangeType DEF ConfirmPersists, OwnedInv
<1>27. ASSUME NEW c \in confirms, ConfirmUnlinks(c)
      PROVE  OwnedInv'
  BY <1>27 DEF ConfirmUnlinks, OwnedInv, Idle
<1>28. CASE GatewaySends
  BY <1>28 DEF GatewaySends, OwnedInv, SeenInv
<1>29. CASE PeerReceives
  <2>1. published.sign \in owned /\ wire \in owned
    BY <1>29 DEF PeerReceives, OwnedInv
  <2>2. cache' \in owned
    BY <1>29, <2>1 DEF PeerReceives, OwnedInv
  <2>3. refused' # {} => refused # {} \/ wire # cache'
    BY <1>29 DEF PeerReceives
  <2> QED BY <1>29, <2>1, <2>2, <2>3 DEF PeerReceives, OwnedInv
<1>30. CASE PeerCannotResolve
  BY <1>30 DEF PeerCannotResolve, OwnedInv, Idle
<1>31. CASE PeerRestarts
  BY <1>31 DEF PeerRestarts, OwnedInv, Idle
<1>32. CASE UNCHANGED vars
  BY <1>32 DEF vars, OwnedInv, Idle
<1> QED
  BY <1>1, <1>2, <1>3, <1>4, <1>5, <1>6, <1>7, <1>8, <1>9, <1>10, <1>11,
     <1>12, <1>13, <1>14, <1>15, <1>16, <1>17, <1>18, <1>19, <1>20, <1>21,
     <1>22, <1>23, <1>24, <1>25, <1>26, <1>27, <1>28, <1>29, <1>30, <1>31, <1>32
     DEF Next

(* What the relay has processed it publishes, until it processes another.  *)
LEMMA RaceStep ==
  Typed /\ SeenInv /\ RaceInv /\ [Next]_vars => RaceInv'
<1> SUFFICES ASSUME Typed, SeenInv, RaceInv, [Next]_vars
             PROVE  RaceInv'
  OBVIOUS
<1> USE DEF vars, relayVars, diskVars, commandVars, gatewayVars, peerVars,
            countVars
<1>1. CASE WizardChecks
  BY <1>1 DEF WizardChecks, RaceInv
<1>2. CASE WizardSkips
  BY <1>2 DEF WizardSkips, RaceInv, Idle
<1>3. CASE WizardVerified
  BY <1>3, WizardType DEF WizardVerified, RaceInv
<1>4. CASE WizardSubmits
  BY <1>4, WizardType, PairType DEF WizardSubmits, Publish, RaceInv
<1>5. CASE WizardRefused
  BY <1>5 DEF WizardRefused, RaceInv, Idle
<1>6. CASE WizardUnanswered
  BY <1>6 DEF WizardUnanswered, RaceInv, Idle
<1>7. CASE WizardPersists
  BY <1>7, WizardType DEF WizardPersists, RaceInv, SeenInv
<1>8. CASE WizardSaves
  BY <1>8 DEF WizardSaves, RaceInv, Idle
<1>9. CASE WizardDies
  BY <1>9 DEF WizardDies, RaceInv, Idle
<1>10. CASE DomainClaim
  BY <1>10 DEF DomainClaim, RaceInv, Idle
<1>11. CASE ByodSaves
  BY <1>11, IdleType DEF ByodSaves, RaceInv
<1>12. CASE ByodLooks
  BY <1>12, LooksType DEF ByodLooks, RaceInv
<1>13. CASE ByodKeeps
  BY <1>13 DEF ByodKeeps, RaceInv, Idle
<1>14. CASE ByodPersists
  BY <1>14, IdleType DEF ByodPersists, RaceInv
<1>15. CASE GatewayLoads
  BY <1>15 DEF GatewayLoads, RaceInv
<1>16. CASE GatewayRegisters
  <2>1. CASE Publish(gateway)
    BY <1>16, <2>1, Publishes DEF GatewayRegisters, RaceInv
  <2>2. CASE UNCHANGED relayVars
    BY <1>16, <2>2 DEF GatewayRegisters, RaceInv
  <2> QED BY <1>16, <2>1, <2>2 DEF GatewayRegisters
<1>17. CASE GatewayStops
  BY <1>17 DEF GatewayStops, RaceInv, Idle
<1>18. CASE RotateStarts
  BY <1>18 DEF RotateStarts, RaceInv, Idle
<1>19. ASSUME NEW k \in starts, RotateStarted(k)
      PROVE  RaceInv'
  BY <1>19 DEF RotateStarted, RaceInv, Idle
<1>20. ASSUME NEW k \in starts, RotateStartFails(k)
      PROVE  RaceInv'
  BY <1>20 DEF RotateStartFails, RaceInv, Idle
<1>21. CASE ConfirmBegins
  BY <1>21, BeginType DEF ConfirmBegins, RaceInv
<1>22. ASSUME NEW c \in confirms, ConfirmAttested(c)
      PROVE  RaceInv'
  BY <1>22, ChangeType DEF ConfirmAttested, RaceInv
<1>23. ASSUME NEW c \in confirms, ConfirmRefused(c)
      PROVE  RaceInv'
  BY <1>23 DEF ConfirmRefused, RaceInv, Idle
<1>24. ASSUME NEW c \in confirms, ConfirmPosts(c)
      PROVE  RaceInv'
  <2>1. /\ published' = c.pair /\ wizard' = wizard /\ identity' = identity
        /\ ~raced' => /\ ~raced
                      /\ wizard.step # "answering" /\ wizard.step # "saving"
                      /\ \A d \in confirms : d.step # "posted"
    BY <1>24, Publishes DEF ConfirmPosts
  <2>2. ~raced' => \A d \in confirms' : d.step = "posted" => d.pair = c.pair
    BY <1>24, <2>1, ChangeType DEF ConfirmPosts
  <2> QED BY <2>1, <2>2 DEF RaceInv
<1>25. ASSUME NEW c \in confirms, ConfirmUnanswered(c)
      PROVE  RaceInv'
  BY <1>25 DEF ConfirmUnanswered, RaceInv, Idle
<1>26. ASSUME NEW c \in confirms, ConfirmPersists(c)
      PROVE  RaceInv'
  <2>1. \A d \in confirms' : d.step = "posted" => d \in confirms
    BY <1>26, ChangeType DEF ConfirmPersists
  <2> QED BY <1>26, <2>1 DEF ConfirmPersists, RaceInv
<1>27. ASSUME NEW c \in confirms, ConfirmUnlinks(c)
      PROVE  RaceInv'
  BY <1>27 DEF ConfirmUnlinks, RaceInv, Idle
<1>28. CASE GatewaySends
  BY <1>28 DEF GatewaySends, RaceInv, Idle
<1>29. CASE PeerReceives
  BY <1>29 DEF PeerReceives, RaceInv, Idle
<1>30. CASE PeerCannotResolve
  BY <1>30 DEF PeerCannotResolve, RaceInv, Idle
<1>31. CASE PeerRestarts
  BY <1>31 DEF PeerRestarts, RaceInv, Idle
<1>32. CASE UNCHANGED vars
  BY <1>32 DEF vars, RaceInv, Idle
<1> QED
  BY <1>1, <1>2, <1>3, <1>4, <1>5, <1>6, <1>7, <1>8, <1>9, <1>10, <1>11,
     <1>12, <1>13, <1>14, <1>15, <1>16, <1>17, <1>18, <1>19, <1>20, <1>21,
     <1>22, <1>23, <1>24, <1>25, <1>26, <1>27, <1>28, <1>29, <1>30, <1>31, <1>32
     DEF Next

(* What a step brings into use: nothing, a new pair, or the pair of a      *)
(* confirmation whose code was taken.                                      *)
UseGrows ==
  \/ \A p \in Pair : InUse(p)' => InUse(p)
  \/ /\ minted' = minted + 2 /\ NewPair.sign = minted + 1
     /\ \A p \in Pair : InUse(p)' => InUse(p) \/ p = NewPair
  \/ \E c \in confirms :
       /\ ConfirmAttested(c)
       /\ \A p \in Pair : InUse(p)' => InUse(p) \/ p = c.pair

(* What a step makes wait: nothing, or the key of a new start.             *)
WaitGrows ==
  \A k \in Keys :
    Waiting(k)' => Waiting(k) \/ (RotateStarts /\ k = minted + 1)

(* Codes, starts and confirmations follow one another.                     *)
CodesGrow ==
  /\ minted' \in Nat /\ minted' >= minted
  /\ \/ usedCodes' = usedCodes
     \/ \E c \in confirms :
          ConfirmAttested(c) /\ usedCodes' = usedCodes \cup {c.pair.sign}
  /\ pending' \in {pending, None} \cup starts
  /\ \A c \in confirms' : \/ \E d \in confirms : c.pair = d.pair
                          \/ c.pair.sign = pending /\ pending \in Keys
  /\ \A k \in starts' : \/ k \in starts /\ (k = pending' => k = pending)
                        \/ RotateStarts /\ k = minted + 1

(* New pairs are generated, or wait for their code, before they are used.  *)
LEMMA UseStep == Typed /\ SeenInv /\ [Next]_vars => UseGrows
<1> SUFFICES ASSUME Typed, SeenInv, [Next]_vars PROVE UseGrows
  OBVIOUS
<1> USE DEF vars, relayVars, diskVars, commandVars, gatewayVars, peerVars,
            countVars
<1>1. CASE WizardChecks
  BY <1>1, NewPairType, WizardType
     DEF WizardChecks, Mint, Typed, InUse, UseGrows
<1>2. CASE WizardSkips
  BY <1>2 DEF WizardSkips, InUse, UseGrows
<1>3. CASE WizardVerified
  BY <1>3, WizardType, IdleType DEF WizardVerified, InUse, UseGrows
<1>4. CASE WizardSubmits
  BY <1>4, WizardType, IdleType, Publishes DEF WizardSubmits, InUse, UseGrows
<1>5. CASE WizardRefused
  BY <1>5 DEF WizardRefused, InUse, UseGrows
<1>6. CASE WizardUnanswered
  BY <1>6 DEF WizardUnanswered, InUse, UseGrows
<1>7. CASE WizardPersists
  BY <1>7, WizardType, IdleType DEF WizardPersists, InUse, UseGrows
<1>8. CASE WizardSaves
  BY <1>8 DEF WizardSaves, InUse, UseGrows
<1>9. CASE WizardDies
  BY <1>9 DEF WizardDies, InUse, UseGrows
<1>10. CASE DomainClaim
  BY <1>10 DEF DomainClaim, InUse, UseGrows
<1>11. CASE ByodSaves
  BY <1>11, NewPairType, WizardType
     DEF ByodSaves, Mint, Typed, InUse, UseGrows
<1>12. CASE ByodLooks
  BY <1>12, LooksType DEF ByodLooks, InUse, UseGrows
<1>13. CASE ByodKeeps
  BY <1>13 DEF ByodKeeps, InUse, UseGrows
<1>14. CASE ByodPersists
  BY <1>14, WizardType, IdleType DEF ByodPersists, InUse, UseGrows
<1>15. CASE GatewayLoads
  BY <1>15, NewPairType DEF GatewayLoads, Mint, Typed, InUse, UseGrows
<1>16. CASE GatewayRegisters
  BY <1>16, Publishes DEF GatewayRegisters, InUse, UseGrows
<1>17. CASE GatewayStops
  BY <1>17 DEF GatewayStops, InUse, UseGrows
<1>18. CASE RotateStarts
  BY <1>18 DEF RotateStarts, InUse, UseGrows
<1>19. ASSUME NEW k \in starts, RotateStarted(k)
      PROVE  UseGrows
  BY <1>19 DEF RotateStarted, InUse, UseGrows
<1>20. ASSUME NEW k \in starts, RotateStartFails(k)
      PROVE  UseGrows
  BY <1>20 DEF RotateStartFails, InUse, UseGrows
<1>21. CASE ConfirmBegins
  BY <1>21, BeginType DEF ConfirmBegins, InUse, UseGrows
<1>22. ASSUME NEW c \in confirms, ConfirmAttested(c)
      PROVE  UseGrows
  BY <1>22, ChangeType DEF ConfirmAttested, InUse, UseGrows
<1>23. ASSUME NEW c \in confirms, ConfirmRefused(c)
      PROVE  UseGrows
  BY <1>23 DEF ConfirmRefused, InUse, UseGrows
<1>24. ASSUME NEW c \in confirms, ConfirmPosts(c)
      PROVE  UseGrows
  BY <1>24, ChangeType, ConfirmType, PairType, Publishes
     DEF ConfirmPosts, InUse, UseGrows
<1>25. ASSUME NEW c \in confirms, ConfirmUnanswered(c)
      PROVE  UseGrows
  BY <1>25 DEF ConfirmUnanswered, InUse, UseGrows
<1>26. ASSUME NEW c \in confirms, ConfirmPersists(c)
      PROVE  UseGrows
  BY <1>26, ChangeType, ConfirmType DEF ConfirmPersists, InUse, UseGrows
<1>27. ASSUME NEW c \in confirms, ConfirmUnlinks(c)
      PROVE  UseGrows
  BY <1>27 DEF ConfirmUnlinks, InUse, UseGrows
<1>28. CASE GatewaySends
  BY <1>28 DEF GatewaySends, InUse, UseGrows
<1>29. CASE PeerReceives
  BY <1>29 DEF PeerReceives, InUse, UseGrows
<1>30. CASE PeerCannotResolve
  BY <1>30 DEF PeerCannotResolve, InUse, UseGrows
<1>31. CASE PeerRestarts
  BY <1>31 DEF PeerRestarts, InUse, UseGrows
<1>32. CASE UNCHANGED vars
  BY <1>32 DEF vars, InUse, UseGrows
<1> QED
  BY <1>1, <1>2, <1>3, <1>4, <1>5, <1>6, <1>7, <1>8, <1>9, <1>10, <1>11,
     <1>12, <1>13, <1>14, <1>15, <1>16, <1>17, <1>18, <1>19, <1>20, <1>21,
     <1>22, <1>23, <1>24, <1>25, <1>26, <1>27, <1>28, <1>29, <1>30, <1>31, <1>32
     DEF Next

(* A key waits from its start on.                                          *)
LEMMA WaitStep == Typed /\ SeenInv /\ [Next]_vars => WaitGrows
<1> SUFFICES ASSUME Typed, SeenInv, [Next]_vars PROVE WaitGrows
  OBVIOUS
<1> USE DEF vars, relayVars, diskVars, commandVars, gatewayVars, peerVars,
            countVars
<1>1. CASE WizardChecks
  BY <1>1 DEF WizardChecks, Waiting, WaitGrows
<1>2. CASE WizardSkips
  BY <1>2 DEF WizardSkips, Waiting, WaitGrows
<1>3. CASE WizardVerified
  BY <1>3 DEF WizardVerified, Waiting, WaitGrows
<1>4. CASE WizardSubmits
  BY <1>4, Publishes DEF WizardSubmits, Waiting, WaitGrows
<1>5. CASE WizardRefused
  BY <1>5 DEF WizardRefused, Waiting, WaitGrows
<1>6. CASE WizardUnanswered
  BY <1>6 DEF WizardUnanswered, Waiting, WaitGrows
<1>7. CASE WizardPersists
  BY <1>7 DEF WizardPersists, Waiting, WaitGrows
<1>8. CASE WizardSaves
  BY <1>8 DEF WizardSaves, Waiting, WaitGrows
<1>9. CASE WizardDies
  BY <1>9 DEF WizardDies, Waiting, WaitGrows
<1>10. CASE DomainClaim
  BY <1>10 DEF DomainClaim, Waiting, WaitGrows
<1>11. CASE ByodSaves
  BY <1>11 DEF ByodSaves, Waiting, WaitGrows
<1>12. CASE ByodLooks
  BY <1>12 DEF ByodLooks, Waiting, WaitGrows
<1>13. CASE ByodKeeps
  BY <1>13 DEF ByodKeeps, Waiting, WaitGrows
<1>14. CASE ByodPersists
  BY <1>14 DEF ByodPersists, Waiting, WaitGrows
<1>15. CASE GatewayLoads
  BY <1>15 DEF GatewayLoads, Waiting, WaitGrows
<1>16. CASE GatewayRegisters
  BY <1>16, Publishes DEF GatewayRegisters, Waiting, WaitGrows
<1>17. CASE GatewayStops
  BY <1>17 DEF GatewayStops, Waiting, WaitGrows
<1>18. CASE RotateStarts
  BY <1>18 DEF RotateStarts, Waiting, WaitGrows
<1>19. ASSUME NEW k \in starts, RotateStarted(k)
      PROVE  WaitGrows
  BY <1>19 DEF RotateStarted, Waiting, WaitGrows
<1>20. ASSUME NEW k \in starts, RotateStartFails(k)
      PROVE  WaitGrows
  BY <1>20 DEF RotateStartFails, Waiting, WaitGrows
<1>21. CASE ConfirmBegins
  BY <1>21, BeginType DEF ConfirmBegins, Waiting, WaitGrows
<1>22. ASSUME NEW c \in confirms, ConfirmAttested(c)
      PROVE  WaitGrows
  BY <1>22, ChangeType DEF ConfirmAttested, Waiting, WaitGrows
<1>23. ASSUME NEW c \in confirms, ConfirmRefused(c)
      PROVE  WaitGrows
  BY <1>23 DEF ConfirmRefused, Waiting, WaitGrows
<1>24. ASSUME NEW c \in confirms, ConfirmPosts(c)
      PROVE  WaitGrows
  BY <1>24, ChangeType, Publishes DEF ConfirmPosts, Waiting, WaitGrows
<1>25. ASSUME NEW c \in confirms, ConfirmUnanswered(c)
      PROVE  WaitGrows
  BY <1>25 DEF ConfirmUnanswered, Waiting, WaitGrows
<1>26. ASSUME NEW c \in confirms, ConfirmPersists(c)
      PROVE  WaitGrows
  BY <1>26, ChangeType DEF ConfirmPersists, Waiting, WaitGrows
<1>27. ASSUME NEW c \in confirms, ConfirmUnlinks(c)
      PROVE  WaitGrows
  BY <1>27, NoneAssumption DEF ConfirmUnlinks, Waiting, WaitGrows
<1>28. CASE GatewaySends
  BY <1>28 DEF GatewaySends, Waiting, WaitGrows
<1>29. CASE PeerReceives
  BY <1>29 DEF PeerReceives, Waiting, WaitGrows
<1>30. CASE PeerCannotResolve
  BY <1>30 DEF PeerCannotResolve, Waiting, WaitGrows
<1>31. CASE PeerRestarts
  BY <1>31 DEF PeerRestarts, Waiting, WaitGrows
<1>32. CASE UNCHANGED vars
  BY <1>32 DEF vars, Waiting, WaitGrows
<1> QED
  BY <1>1, <1>2, <1>3, <1>4, <1>5, <1>6, <1>7, <1>8, <1>9, <1>10, <1>11,
     <1>12, <1>13, <1>14, <1>15, <1>16, <1>17, <1>18, <1>19, <1>20, <1>21,
     <1>22, <1>23, <1>24, <1>25, <1>26, <1>27, <1>28, <1>29, <1>30, <1>31, <1>32
     DEF Next

(* Codes, starts and confirmations follow one another.                     *)
LEMMA CodesStep == Typed /\ SeenInv /\ [Next]_vars => CodesGrow
<1> SUFFICES ASSUME Typed, SeenInv, [Next]_vars PROVE CodesGrow
  OBVIOUS
<1> USE DEF vars, relayVars, diskVars, commandVars, gatewayVars, peerVars,
            countVars
<1>1. CASE WizardChecks
  BY <1>1 DEF WizardChecks, Mint, CodesGrow, Typed
<1>2. CASE WizardSkips
  BY <1>2 DEF WizardSkips, CodesGrow, Typed
<1>3. CASE WizardVerified
  BY <1>3 DEF WizardVerified, CodesGrow, Typed
<1>4. CASE WizardSubmits
  BY <1>4, Publishes DEF WizardSubmits, CodesGrow, Typed
<1>5. CASE WizardRefused
  BY <1>5 DEF WizardRefused, CodesGrow, Typed
<1>6. CASE WizardUnanswered
  BY <1>6 DEF WizardUnanswered, CodesGrow, Typed
<1>7. CASE WizardPersists
  BY <1>7 DEF WizardPersists, CodesGrow, Typed
<1>8. CASE WizardSaves
  BY <1>8 DEF WizardSaves, CodesGrow, Typed
<1>9. CASE WizardDies
  BY <1>9 DEF WizardDies, CodesGrow, Typed
<1>10. CASE DomainClaim
  BY <1>10 DEF DomainClaim, CodesGrow, Typed
<1>11. CASE ByodSaves
  BY <1>11 DEF ByodSaves, Mint, CodesGrow, Typed
<1>12. CASE ByodLooks
  BY <1>12 DEF ByodLooks, CodesGrow, Typed
<1>13. CASE ByodKeeps
  BY <1>13 DEF ByodKeeps, CodesGrow, Typed
<1>14. CASE ByodPersists
  BY <1>14 DEF ByodPersists, CodesGrow, Typed
<1>15. CASE GatewayLoads
  BY <1>15 DEF GatewayLoads, Mint, CodesGrow, Typed
<1>16. CASE GatewayRegisters
  BY <1>16, Publishes DEF GatewayRegisters, CodesGrow, Typed
<1>17. CASE GatewayStops
  BY <1>17 DEF GatewayStops, CodesGrow, Typed
<1>18. CASE RotateStarts
  BY <1>18 DEF RotateStarts, Mint, CodesGrow, Typed
<1>19. ASSUME NEW k \in starts, RotateStarted(k)
      PROVE  CodesGrow
  BY <1>19 DEF RotateStarted, CodesGrow, Typed
<1>20. ASSUME NEW k \in starts, RotateStartFails(k)
      PROVE  CodesGrow
  BY <1>20 DEF RotateStartFails, CodesGrow, Typed
<1>21. CASE ConfirmBegins
  BY <1>21, BeginType DEF ConfirmBegins, CodesGrow, Typed
<1>22. ASSUME NEW c \in confirms, ConfirmAttested(c)
      PROVE  CodesGrow
  BY <1>22, ChangeType DEF ConfirmAttested, CodesGrow, Typed
<1>23. ASSUME NEW c \in confirms, ConfirmRefused(c)
      PROVE  CodesGrow
  BY <1>23 DEF ConfirmRefused, CodesGrow, Typed
<1>24. ASSUME NEW c \in confirms, ConfirmPosts(c)
      PROVE  CodesGrow
  BY <1>24, ChangeType, Publishes DEF ConfirmPosts, CodesGrow, Typed
<1>25. ASSUME NEW c \in confirms, ConfirmUnanswered(c)
      PROVE  CodesGrow
  BY <1>25 DEF ConfirmUnanswered, CodesGrow, Typed
<1>26. ASSUME NEW c \in confirms, ConfirmPersists(c)
      PROVE  CodesGrow
  BY <1>26, ChangeType DEF ConfirmPersists, CodesGrow, Typed
<1>27. ASSUME NEW c \in confirms, ConfirmUnlinks(c)
      PROVE  CodesGrow
  BY <1>27, NoneAssumption DEF ConfirmUnlinks, CodesGrow, Typed
<1>28. CASE GatewaySends
  BY <1>28 DEF GatewaySends, CodesGrow, Typed
<1>29. CASE PeerReceives
  BY <1>29 DEF PeerReceives, CodesGrow, Typed
<1>30. CASE PeerCannotResolve
  BY <1>30 DEF PeerCannotResolve, CodesGrow, Typed
<1>31. CASE PeerRestarts
  BY <1>31 DEF PeerRestarts, CodesGrow, Typed
<1>32. CASE UNCHANGED vars
  BY <1>32 DEF vars, CodesGrow, Typed
<1> QED
  BY <1>1, <1>2, <1>3, <1>4, <1>5, <1>6, <1>7, <1>8, <1>9, <1>10, <1>11,
     <1>12, <1>13, <1>14, <1>15, <1>16, <1>17, <1>18, <1>19, <1>20, <1>21,
     <1>22, <1>23, <1>24, <1>25, <1>26, <1>27, <1>28, <1>29, <1>30, <1>31, <1>32
     DEF Next

(* If the verifier takes a code once, keys stay apart.                     *)
LEMMA FreshStep ==
  ASSUME CodesOnce, Typed, MintInv, FreshInv, UseGrows, WaitGrows, CodesGrow
  PROVE  MintInv' /\ FreshInv'
<1>0. minted \in Nat /\ minted' \in Nat /\ minted' >= minted
  BY DEF Typed, CodesGrow
<1>1. ASSUME RotateStarts
      PROVE  minted' = minted + 1 /\ usedCodes' = usedCodes
             /\ pending' = pending /\ confirms' = confirms
  BY <1>1 DEF RotateStarts, Mint, relayVars, diskVars
<1>2. ASSUME NEW c \in confirms, ConfirmAttested(c)
      PROVE  /\ minted' = minted /\ starts' = starts
             /\ c.pair.sign \in Keys /\ c.pair.sign \notin usedCodes
             /\ usedCodes' = usedCodes \cup {c.pair.sign}
             /\ Waiting(c.pair.sign) /\ c.pair \in Pair
  BY <1>2, ConfirmType, PairType DEF ConfirmAttested, Waiting, countVars
<1>3. ASSUME NEW p \in Pair, InUse(p)'
      PROVE  /\ p.sign <= minted'
             /\ \/ InUse(p)
                \/ p.sign = minted + 1 /\ minted' = minted + 2
                \/ \E c \in confirms : ConfirmAttested(c) /\ p = c.pair
  <2>1. CASE InUse(p)
    BY <1>0, <2>1, PairType DEF MintInv, Keys
  <2>2. CASE p.sign = minted + 1 /\ minted' = minted + 2
    BY <1>0, <2>2
  <2>3. ASSUME NEW c \in confirms, ConfirmAttested(c), p = c.pair
        PROVE  p.sign <= minted'
    BY <1>2, <2>3 DEF MintInv
  <2> QED BY <1>3, <2>1, <2>2, <2>3 DEF UseGrows
<1>4. ASSUME NEW k \in Keys, Waiting(k)' \/ k \in usedCodes' \/ k = pending'
      PROVE  k <= minted'
  <2>1. CASE RotateStarts /\ k = minted + 1
    BY <1>1, <2>1
  <2>2. CASE Waiting(k) \/ k \in usedCodes \/ k = pending \/ k \in starts
    BY <1>0, <2>2 DEF MintInv, Waiting, Keys
  <2>3. CASE \E c \in confirms : ConfirmAttested(c) /\ k = c.pair.sign
    BY <1>0, <1>2, <2>3 DEF MintInv
  <2>4. k # None
    BY NoneAssumption
  <2> QED BY <1>4, <2>1, <2>2, <2>3, <2>4 DEF WaitGrows, CodesGrow
<1>5. \A c \in confirms' : c.pair.sign <= minted'
  <2> SUFFICES ASSUME NEW c \in confirms' PROVE c.pair.sign <= minted'
    OBVIOUS
  <2>1. CASE \E d \in confirms : c.pair = d.pair
    <3>1. PICK d \in confirms : c.pair = d.pair
      BY <2>1
    <3>2. d.pair.sign <= minted /\ d.pair.sign \in Nat
      BY ConfirmType, PairType DEF MintInv, Keys
    <3> QED BY <1>0, <3>1, <3>2
  <2>2. CASE c.pair.sign = pending /\ pending \in Keys
    BY <1>0, <2>2 DEF MintInv, Keys
  <2> QED BY <2>1, <2>2 DEF CodesGrow
<1>6. MintInv'
  BY <1>3, <1>4, <1>5 DEF MintInv
<1>7. ASSUME NEW p \in Pair, InUse(p)', Waiting(p.sign)'
      PROVE  FALSE
  <2>1. p.sign \in Keys /\ (InUse(p) => p.sign <= minted /\ ~Waiting(p.sign))
    BY PairType DEF MintInv, FreshInv
  <2>2. Waiting(p.sign) \/ (RotateStarts /\ p.sign = minted + 1)
    BY <1>7, <2>1 DEF WaitGrows
  <2>3. CASE InUse(p)
    BY <1>0, <2>1, <2>2, <2>3
  <2>4. CASE p.sign = minted + 1 /\ minted' = minted + 2
    BY <1>0, <1>1, <2>1, <2>2, <2>4 DEF MintInv
  <2>5. ASSUME NEW c \in confirms, ConfirmAttested(c), p = c.pair
        PROVE  FALSE
    BY <1>2, <1>7, <2>5 DEF Waiting, FreshInv
  <2> QED BY <1>3, <1>7, <2>3, <2>4, <2>5
<1>8. ASSUME NEW p \in Pair, NEW q \in Pair, InUse(p)', InUse(q)',
             p.sign = q.sign
      PROVE  p = q
  <2>1. /\ p.sign \in Nat
        /\ \A r \in {p, q} : InUse(r) => r.sign <= minted /\ ~Waiting(r.sign)
    BY PairType DEF MintInv, FreshInv, Keys
  <2>2. CASE InUse(p) /\ InUse(q)
    BY <1>8, <2>2 DEF FreshInv
  <2>3. CASE \A r \in Pair : InUse(r)' => InUse(r)
    BY <1>8, <2>2, <2>3
  <2>4. CASE /\ minted' = minted + 2 /\ NewPair.sign = minted + 1
             /\ \A r \in Pair : InUse(r)' => InUse(r) \/ r = NewPair
    BY <1>0, <1>8, <2>1, <2>2, <2>4
  <2>5. ASSUME NEW c \in confirms, ConfirmAttested(c),
               \A r \in Pair : InUse(r)' => InUse(r) \/ r = c.pair
        PROVE  p = q
    BY <1>2, <1>8, <2>1, <2>2, <2>5
  <2> QED BY <2>3, <2>4, <2>5 DEF UseGrows
<1>9. ASSUME NEW k \in starts'
      PROVE  /\ k \notin usedCodes' /\ k # pending'
             /\ \A c \in confirms' : k # c.pair.sign
  <2>1. CASE k \in starts /\ (k = pending' => k = pending)
    <3>1. /\ k \notin usedCodes /\ k # pending
          /\ \A c \in confirms : k # c.pair.sign
      BY <2>1 DEF FreshInv
    <3> QED BY <2>1, <3>1 DEF CodesGrow
  <2>2. CASE RotateStarts /\ k = minted + 1
    <3>1. \A j \in Keys : j \in usedCodes \/ j = pending => j <= minted
      BY DEF MintInv
    <3>2. k \in Keys /\ minted \in Nat /\ ~(k <= minted)
      BY <1>0, <2>2, BoundsAssumption DEF RotateStarts, Mint, Keys
    <3>4. k \notin usedCodes /\ k # pending
      BY <3>1, <3>2
    <3>3. \A c \in confirms : k # c.pair.sign
      BY <3>2, ConfirmType, PairType DEF MintInv, Keys
    <3> QED BY <1>1, <2>2, <3>3, <3>4
  <2> QED BY <2>1, <2>2 DEF CodesGrow
<1> QED BY <1>6, <1>7, <1>8, <1>9 DEF FreshInv

(* If the verifier takes a code once, the key of a confirmation that may   *)
(* succeed is in the pending file, or was let go.                          *)
LEMMA CodeStep ==
  CodesOnce /\ Typed /\ CodeInv /\ [Next]_vars => CodeInv'
<1> SUFFICES ASSUME CodesOnce, Typed, CodeInv, [Next]_vars
             PROVE  CodeInv'
  OBVIOUS
<1> USE DEF vars, relayVars, diskVars, commandVars, gatewayVars, peerVars,
            countVars
<1>1. CASE WizardChecks
  BY <1>1 DEF WizardChecks, CodeInv
<1>2. CASE WizardSkips
  BY <1>2 DEF WizardSkips, CodeInv
<1>3. CASE WizardVerified
  BY <1>3 DEF WizardVerified, CodeInv
<1>4. CASE WizardSubmits
  BY <1>4, Publishes DEF WizardSubmits, CodeInv
<1>5. CASE WizardRefused
  BY <1>5 DEF WizardRefused, CodeInv
<1>6. CASE WizardUnanswered
  BY <1>6 DEF WizardUnanswered, LetGo, CodeInv
<1>7. CASE WizardPersists
  BY <1>7 DEF WizardPersists, CodeInv
<1>8. CASE WizardSaves
  BY <1>8 DEF WizardSaves, CodeInv
<1>9. CASE WizardDies
  BY <1>9 DEF WizardDies, LetGo, CodeInv
<1>10. CASE DomainClaim
  BY <1>10 DEF DomainClaim, CodeInv
<1>11. CASE ByodSaves
  BY <1>11 DEF ByodSaves, CodeInv
<1>12. CASE ByodLooks
  BY <1>12 DEF ByodLooks, CodeInv
<1>13. CASE ByodKeeps
  BY <1>13 DEF ByodKeeps, CodeInv
<1>14. CASE ByodPersists
  BY <1>14 DEF ByodPersists, LetGo, CodeInv
<1>15. CASE GatewayLoads
  BY <1>15 DEF GatewayLoads, CodeInv
<1>16. CASE GatewayRegisters
  BY <1>16, Publishes DEF GatewayRegisters, CodeInv
<1>17. CASE GatewayStops
  BY <1>17 DEF GatewayStops, CodeInv
<1>18. CASE RotateStarts
  BY <1>18 DEF RotateStarts, CodeInv
<1>19. ASSUME NEW k \in starts, RotateStarted(k)
      PROVE  CodeInv'
  BY <1>19, ConfirmType, PairType, NoneAssumption
     DEF RotateStarted, LetGo, CodeInv
<1>20. ASSUME NEW k \in starts, RotateStartFails(k)
      PROVE  CodeInv'
  BY <1>20 DEF RotateStartFails, CodeInv
<1>21. CASE ConfirmBegins
  BY <1>21, BeginType DEF ConfirmBegins, CodeInv
<1>22. ASSUME NEW c \in confirms, ConfirmAttested(c)
      PROVE  CodeInv'
  BY <1>22, ChangeType DEF ConfirmAttested, CodeInv
<1>23. ASSUME NEW c \in confirms, ConfirmRefused(c)
      PROVE  CodeInv'
  BY <1>23 DEF ConfirmRefused, CodeInv
<1>24. ASSUME NEW c \in confirms, ConfirmPosts(c)
      PROVE  CodeInv'
  BY <1>24, ChangeType, Publishes DEF ConfirmPosts, CodeInv
<1>25. ASSUME NEW c \in confirms, ConfirmUnanswered(c)
      PROVE  CodeInv'
  BY <1>25 DEF ConfirmUnanswered, CodeInv
<1>26. ASSUME NEW c \in confirms, ConfirmPersists(c)
      PROVE  CodeInv'
  BY <1>26, ChangeType DEF ConfirmPersists, CodeInv
<1>27. ASSUME NEW c \in confirms, ConfirmUnlinks(c)
      PROVE  CodeInv'
  <2>1. c.step = "written" /\ c.pair.sign \in usedCodes
    BY <1>27 DEF ConfirmUnlinks, CodeInv
  <2>2. \A d \in confirms \ {c} :
          d.step # "confirming" => d.pair.sign # c.pair.sign
    BY <2>1 DEF CodeInv
  <2>3. /\ confirms' = confirms \ {c} /\ usedCodes' = usedCodes
        /\ pending = c.pair.sign \/ {pending} \ {None} \subseteq forsaken'
        /\ forsaken \subseteq forsaken'
    BY <1>27 DEF ConfirmUnlinks, LetGo
  <2>4. ASSUME NEW d \in confirms',
               d.step \in {"posting", "posted"} \/ d.pair.sign \notin usedCodes
        PROVE  d.pair.sign \in forsaken'
    <3>1. d \in confirms /\ d.pair.sign # c.pair.sign /\ d.pair.sign # None
      BY <2>1, <2>2, <2>3, <2>4, ConfirmType, PairType, NoneAssumption
    <3>2. d.pair.sign \in {pending} \cup forsaken
      BY <2>4, <3>1 DEF CodeInv
    <3> QED BY <2>3, <3>1, <3>2
  <2> QED BY <2>3, <2>4 DEF CodeInv
<1>28. CASE GatewaySends
  BY <1>28 DEF GatewaySends, CodeInv
<1>29. CASE PeerReceives
  BY <1>29 DEF PeerReceives, CodeInv
<1>30. CASE PeerCannotResolve
  BY <1>30 DEF PeerCannotResolve, CodeInv
<1>31. CASE PeerRestarts
  BY <1>31 DEF PeerRestarts, CodeInv
<1>32. CASE UNCHANGED vars
  BY <1>32 DEF vars, CodeInv
<1> QED
  BY <1>1, <1>2, <1>3, <1>4, <1>5, <1>6, <1>7, <1>8, <1>9, <1>10, <1>11,
     <1>12, <1>13, <1>14, <1>15, <1>16, <1>17, <1>18, <1>19, <1>20, <1>21,
     <1>22, <1>23, <1>24, <1>25, <1>26, <1>27, <1>28, <1>29, <1>30, <1>31, <1>32
     DEF Next

(* If the verifier takes a code once, the key the relay publishes is kept. *)
LEMMA KeptStep ==
  CodesOnce /\ Typed /\ SeenInv /\ RaceInv /\ CodeInv
    /\ KeptInv /\ [Next]_vars
    => KeptInv'
<1> SUFFICES ASSUME CodesOnce, Typed, SeenInv, RaceInv, CodeInv,
                    KeptInv, [Next]_vars
             PROVE  KeptInv'
  OBVIOUS
<1> USE DEF vars, relayVars, diskVars, commandVars, gatewayVars, peerVars,
            countVars
<1>1. CASE WizardChecks
  BY <1>1, IdleType DEF WizardChecks, KeptInv, Kept
<1>2. CASE WizardSkips
  BY <1>2 DEF WizardSkips, KeptInv, Kept
<1>3. CASE WizardVerified
  BY <1>3, WizardType DEF WizardVerified, KeptInv, Kept
<1>4. CASE WizardSubmits
  <2>1. wizard'.step = "answering" /\ wizard'.pair = wizard.pair
    BY <1>4, WizardType DEF WizardSubmits
  <2>2. published' = wizard.pair /\ wizard.pair # None
    BY <1>4, WizardType, IdleType, PairType DEF WizardSubmits, Publish
  <2>3. Kept(published.sign)'
    BY <2>1, <2>2 DEF Kept
  <2> QED BY <2>1, <2>2, <2>3 DEF KeptInv
<1>5. CASE WizardRefused
  BY <1>5 DEF WizardRefused, KeptInv, Kept
<1>6. CASE WizardUnanswered
  <2>1. wizard.pair.sign \in Keys /\ published # None
    BY <1>6, WizardType, IdleType, PairType DEF WizardUnanswered, SeenInv
  <2>2. /\ forsaken \subseteq forsaken' /\ wizard.pair.sign \in forsaken'
        /\ raced' = raced /\ published' = published
    BY <1>6, <2>1, NoneAssumption DEF WizardUnanswered, LetGo
  <2>3. ~raced => published.sign \in forsaken'
    BY <1>6, <2>2 DEF WizardUnanswered, RaceInv
  <2> QED BY <2>1, <2>2, <2>3 DEF KeptInv, Kept
<1>7. CASE WizardPersists
  BY <1>7, WizardType, PairType
     DEF WizardPersists, RaceInv, SeenInv, KeptInv, Kept
<1>8. CASE WizardSaves
  BY <1>8 DEF WizardSaves, KeptInv, Kept
<1>9. CASE WizardDies
  <2>1. CASE wizard.step = "answering"
    <3>1. wizard.pair.sign \in Keys /\ published # None
      BY <2>1, WizardType, IdleType, PairType DEF SeenInv
    <3>2. /\ forsaken \subseteq forsaken' /\ wizard.pair.sign \in forsaken'
          /\ raced' = raced /\ published' = published
      BY <1>9, <2>1, <3>1, NoneAssumption DEF WizardDies, LetGo
    <3>3. ~raced => published.sign \in forsaken'
      BY <2>1, <3>2 DEF RaceInv
    <3> QED BY <3>1, <3>2, <3>3 DEF KeptInv, Kept
  <2>2. CASE wizard.step # "answering"
    <3>1. forsaken' = forsaken /\ wizard'.step # "answering"
      BY <1>9, <2>2, IdleType DEF WizardDies, LetGo
    <3> QED BY <1>9, <2>2, <3>1 DEF WizardDies, KeptInv, Kept
  <2> QED BY <2>1, <2>2
<1>10. CASE DomainClaim
  BY <1>10 DEF DomainClaim, KeptInv, Kept
<1>11. CASE ByodSaves
  BY <1>11, IdleType DEF ByodSaves, KeptInv, Kept
<1>12. CASE ByodLooks
  BY <1>12, LooksType DEF ByodLooks, KeptInv, Kept
<1>13. CASE ByodKeeps
  BY <1>13 DEF ByodKeeps, KeptInv, Kept
<1>14. CASE ByodPersists
  <2>1. /\ wizard.pair # None /\ identity' = wizard.pair
        /\ forsaken \subseteq forsaken' /\ pending' = pending
        /\ wizard.step # "answering" /\ wizard'.step # "answering"
        /\ raced' = raced /\ published' = published /\ gateway' = gateway
        /\ confirms' = confirms
    BY <1>14, WizardType, IdleType, PairType DEF ByodPersists, LetGo
  <2>2. identity # None => identity.sign \in forsaken'
    BY <1>14, PairType, NoneAssumption DEF ByodPersists, LetGo, Typed
  <2> QED BY <2>1, <2>2 DEF SeenInv, KeptInv, Kept
<1>15. CASE GatewayLoads
  BY <1>15, NewPairType DEF GatewayLoads, SeenInv, Typed, KeptInv, Kept
<1>16. CASE GatewayRegisters
  <2>1. CASE Publish(gateway)
    BY <1>16, <2>1, Publishes DEF GatewayRegisters, SeenInv, KeptInv, Kept
  <2>2. CASE UNCHANGED relayVars
    BY <1>16, <2>2 DEF GatewayRegisters, KeptInv, Kept
  <2> QED BY <1>16, <2>1, <2>2 DEF GatewayRegisters
<1>17. CASE GatewayStops
  BY <1>17 DEF GatewayStops, KeptInv, Kept
<1>18. CASE RotateStarts
  BY <1>18 DEF RotateStarts, KeptInv, Kept
<1>19. ASSUME NEW k \in starts, RotateStarted(k)
      PROVE  KeptInv'
  <2>1. /\ forsaken' = forsaken \cup ({pending} \ {None})
        /\ identity' = identity /\ published' = published
        /\ raced' = raced /\ gateway' = gateway /\ wizard' = wizard
        /\ confirms' = confirms
    BY <1>19 DEF RotateStarted, LetGo
  <2>2. \A j \in Keys : Kept(j) => Kept(j)'
    BY <2>1, NoneAssumption DEF Kept
  <2>3. published # None => published.sign \in Keys
    BY PairType DEF Typed
  <2>4. ASSUME NEW c \in confirms, c.step = "written", ~raced
        PROVE  \/ wizard.step = "answering"
               \/ published.sign \in {identity.sign} \cup forsaken'
    <3>1. published.sign \in Keys
      BY <2>3, <2>4 DEF SeenInv
    <3>2. pending = published.sign => published.sign \in forsaken'
      BY <2>1, <3>1, NoneAssumption
    <3> QED BY <2>1, <2>4, <3>2 DEF KeptInv
  <2> QED BY <2>1, <2>2, <2>3, <2>4 DEF KeptInv
<1>20. ASSUME NEW k \in starts, RotateStartFails(k)
      PROVE  KeptInv'
  BY <1>20 DEF RotateStartFails, KeptInv, Kept
<1>21. CASE ConfirmBegins
  BY <1>21, BeginType DEF ConfirmBegins, KeptInv, Kept
<1>22. ASSUME NEW c \in confirms, ConfirmAttested(c)
      PROVE  KeptInv'
  BY <1>22, ChangeType DEF ConfirmAttested, KeptInv, Kept
<1>23. ASSUME NEW c \in confirms, ConfirmRefused(c)
      PROVE  KeptInv'
  BY <1>23 DEF ConfirmRefused, KeptInv, Kept
<1>24. ASSUME NEW c \in confirms, ConfirmPosts(c)
      PROVE  KeptInv'
  <2>1. /\ published' = c.pair /\ c.pair # None
        /\ c.pair.sign \in {pending} \cup forsaken
    BY <1>24, ConfirmType, PairType, Publishes DEF ConfirmPosts, CodeInv
  <2>2. \A d \in confirms' : d.step = "written" =>
          d \in confirms /\ d.pair.sign # c.pair.sign
    BY <1>24, ChangeType DEF ConfirmPosts, CodeInv
  <2> QED BY <1>24, <2>1, <2>2 DEF ConfirmPosts, KeptInv, Kept
<1>25. ASSUME NEW c \in confirms, ConfirmUnanswered(c)
      PROVE  KeptInv'
  BY <1>25 DEF ConfirmUnanswered, KeptInv, Kept
<1>26. ASSUME NEW c \in confirms, ConfirmPersists(c)
      PROVE  KeptInv'
  BY <1>26, ChangeType, ConfirmType, PairType
     DEF ConfirmPersists, RaceInv, SeenInv, KeptInv, Kept
<1>27. ASSUME NEW c \in confirms, ConfirmUnlinks(c)
      PROVE  KeptInv'
  <2>1. /\ identity' = identity /\ published' = published
        /\ raced' = raced /\ gateway' = gateway /\ wizard' = wizard
        /\ confirms' = confirms \ {c} /\ forsaken \subseteq forsaken'
        /\ forsaken' = forsaken \cup
             ({IF pending = c.pair.sign THEN None ELSE pending} \ {None})
    BY <1>27 DEF ConfirmUnlinks, LetGo
  <2>2. identity # None /\ published # None /\ c.step = "written"
    BY <1>27 DEF ConfirmUnlinks, SeenInv
  <2>3. ~raced => \/ wizard.step = "answering"
                  \/ published.sign \in {identity.sign} \cup forsaken
                  \/ published.sign = pending /\ pending # c.pair.sign
    BY <2>2 DEF KeptInv
  <2>4. published.sign # None
    BY <2>2, PairType, NoneAssumption DEF Typed
  <2>5. ~raced => \/ wizard.step = "answering"
                  \/ published.sign \in {identity.sign} \cup forsaken'
    BY <2>1, <2>3, <2>4
  <2>6. ~raced /\ wizard.step = "answering" => published = wizard.pair
    BY DEF RaceInv
  <2>7. ~raced => Kept(published.sign)'
    BY <2>1, <2>2, <2>5, <2>6 DEF Kept
  <2> QED BY <2>1, <2>2, <2>5, <2>7 DEF KeptInv
<1>28. CASE GatewaySends
  BY <1>28 DEF GatewaySends, KeptInv, Kept
<1>29. CASE PeerReceives
  BY <1>29 DEF PeerReceives, KeptInv, Kept
<1>30. CASE PeerCannotResolve
  BY <1>30 DEF PeerCannotResolve, KeptInv, Kept
<1>31. CASE PeerRestarts
  BY <1>31 DEF PeerRestarts, KeptInv, Kept
<1>32. CASE UNCHANGED vars
  BY <1>32 DEF vars, KeptInv, Kept
<1> QED
  BY <1>1, <1>2, <1>3, <1>4, <1>5, <1>6, <1>7, <1>8, <1>9, <1>10, <1>11,
     <1>12, <1>13, <1>14, <1>15, <1>16, <1>17, <1>18, <1>19, <1>20, <1>21,
     <1>22, <1>23, <1>24, <1>25, <1>26, <1>27, <1>28, <1>29, <1>30, <1>31, <1>32
     DEF Next

-----------------------------------------------------------------------------
(* The types of the model.                                                 *)
LEMMA TypeIs == Typed => TypeOK
<1> SUFFICES ASSUME Typed PROVE TypeOK
  OBVIOUS
<1>1. {hosted, domainClaimed, configured, online, raced} \subseteq BOOLEAN
  BY DEF Typed
<1> QED BY <1>1 DEF Typed, TypeOK

(* The strengthened invariant is inductive.                                *)
LEMMA IInvAlways == Spec => []IInv
<1>1. IInv /\ [Next]_vars => IInv'
  <2> SUFFICES ASSUME IInv, [Next]_vars PROVE IInv'
    OBVIOUS
  <2>1. Typed /\ SeenInv /\ OwnedInv /\ RaceInv
    BY DEF IInv
  <2>2. Typed' /\ SeenInv' /\ OwnedInv' /\ RaceInv'
    BY <2>1, TypeStep, SeenStep, OwnedStep, RaceStep
  <2>3. UseGrows /\ WaitGrows /\ CodesGrow
    BY <2>1, UseStep, WaitStep, CodesStep
  <2>4. ASSUME CodesOnce
        PROVE  MintInv' /\ FreshInv' /\ CodeInv' /\ KeptInv'
    <3>1. MintInv /\ FreshInv /\ CodeInv /\ KeptInv
      BY <2>4 DEF IInv
    <3>2. MintInv' /\ FreshInv'
      BY <2>1, <2>3, <2>4, <3>1, FreshStep
    <3>3. CodeInv' /\ KeptInv'
      BY <2>1, <2>4, <3>1, CodeStep, KeptStep
    <3> QED BY <3>2, <3>3
  <2> QED BY <2>2, <2>4 DEF IInv
<1> QED BY IInvInit, <1>1, PTL DEF Spec

(* Type correctness of the wizard, the files, the gateway and the peer.    *)
THEOREM TypeCorrect == Spec => []TypeOK
<1>1. IInv => TypeOK
  BY TypeIs DEF IInv
<1> QED BY IInvAlways, <1>1, PTL

(* If the verifier takes a code once, the address is never lost but in the *)
(* ways the model names, whichever process dies between two steps.         *)
THEOREM AddressIsKept ==
  ASSUME CodesOnce
  PROVE  Spec => []PublishedKeyAtHand
<1>1. IInv => PublishedKeyAtHand
  <2> SUFFICES ASSUME IInv, published # None, ~raced
               PROVE  published.sign \in OnDisk \cup InHand \cup forsaken
    BY DEF PublishedKeyAtHand
  <2>1. Kept(published.sign)
    BY DEF IInv, KeptInv
  <2> QED BY <2>1 DEF Kept, OnDisk, InHand
<1> QED BY IInvAlways, <1>1, PTL

(* What the wizard reports as claimed or rebound, it has saved.            *)
THEOREM ReportedIsSaved == Spec => []SavedIsPublished
<1>1. IInv => SavedIsPublished
  BY DEF IInv, RaceInv, SavedIsPublished
<1> QED BY IInvAlways, <1>1, PTL

(* If the verifier takes a code once, who has the signing key that is      *)
(* published has the encryption key that is.                               *)
THEOREM SignersDecrypt ==
  ASSUME CodesOnce
  PROVE  Spec => []RegisteredCanDecrypt
<1>1. IInv => RegisteredCanDecrypt
  <2> SUFFICES ASSUME IInv, online, gateway.sign = published.sign
               PROVE  gateway.enc = published.enc
    BY DEF RegisteredCanDecrypt
  <2>1. gateway \in Pair /\ published \in Pair
    BY DEF IInv, Typed, SeenInv
  <2>2. InUse(gateway) /\ InUse(published)
    BY <2>1, PairType DEF InUse
  <2> QED BY <2>1, <2>2 DEF IInv, FreshInv
<1> QED BY IInvAlways, <1>1, PTL

(* A peer refuses a signature only once the address has had two keys,      *)
(* however often it could not resolve one.                                 *)
THEOREM HeardWithOneKey == Spec => []HeardUntilRotation
<1>1. IInv => HeardUntilRotation
  <2> SUFFICES ASSUME IInv, refused # {} PROVE ~(Cardinality(owned) <= 1)
    BY DEF HeardUntilRotation
  <2>1. PICK a \in owned, b \in owned : a # b
    BY DEF IInv, OwnedInv
  <2>2. IsFiniteSet(owned)
    <3>1. IsFiniteSet(Keys)
      BY BoundsAssumption, FS_Interval DEF Keys
    <3> QED BY <3>1, FS_Subset DEF IInv, Typed
  <2>3. IsFiniteSet({a}) /\ Cardinality({a}) = 1
    BY FS_Singleton
  <2>4. IsFiniteSet({a} \cup {b}) /\ Cardinality({a} \cup {b}) = 2
    <3>1. b \notin {a}
      BY <2>1
    <3>2. Cardinality({a} \cup {b}) = Cardinality({a}) + 1
      BY <2>3, <3>1, FS_AddElement
    <3> QED BY <2>3, <3>2, FS_AddElement
  <2>5. Cardinality({a} \cup {b}) <= Cardinality(owned)
    BY <2>1, <2>2, FS_Subset
  <2>6. Cardinality(owned) \in Nat
    BY <2>2, FS_CardinalityType
  <2> QED BY <2>4, <2>5, <2>6
<1> QED BY IInvAlways, <1>1, PTL

(* No command, no wizard and no start of the gateway replaces an identity  *)
(* file by a key that was never published, but the wizard of an own domain *)
(* that found none, could not read it, or has warned the user.             *)
THEOREM IdentityIsSafe == Spec => IdentityReplacedKnowingly
<1>1. ASSUME IInv, Next, identity # None, identity' # identity
      PROVE  ReplacedKnowingly
  <2>1. CASE WizardPersists
    BY <1>1, <2>1 DEF WizardPersists, IInv, OwnedInv, ReplacedKnowingly
  <2>2. CASE ByodPersists
    BY <1>1, <2>2 DEF ByodPersists, IInv, SeenInv, ReplacedKnowingly
  <2>3. ASSUME NEW c \in confirms, ConfirmPersists(c)
        PROVE  identity'.sign \in owned
    BY <1>1, <2>3 DEF ConfirmPersists, IInv, OwnedInv
  <2>4. \/ WizardPersists \/ ByodPersists
        \/ \E c \in confirms : ConfirmPersists(c)
    BY <1>1
       DEF Next, WizardChecks, WizardSkips, WizardVerified, WizardSubmits,
       WizardRefused, WizardUnanswered, WizardSaves, WizardDies, DomainClaim,
       ByodSaves, ByodLooks, ByodKeeps, GatewayLoads, GatewayRegisters, GatewayStops,
       RotateStarts, RotateStarted, RotateStartFails,
       ConfirmBegins, ConfirmAttested, ConfirmRefused, ConfirmPosts,
       ConfirmUnanswered, ConfirmUnlinks, GatewaySends, PeerReceives,
       PeerCannotResolve, PeerRestarts, diskVars
  <2> QED BY <2>1, <2>2, <2>3, <2>4 DEF ReplacedKnowingly
<1>2. IInv /\ [Next]_vars =>
        [ReplacedKnowingly]_identity
  BY <1>1 DEF ReplacedKnowingly, vars, diskVars
<1> QED BY IInvAlways, <1>2, PTL DEF Spec, IdentityReplacedKnowingly

=============================================================================
