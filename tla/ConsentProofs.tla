---------------------------- MODULE ConsentProofs -----------------------------
(***************************************************************************)
(* What holds of the user's answers for any introductions, proposals,      *)
(* channels and texts.  An answer in progress goes back to the text that   *)
(* gave it, and no two to one text (JobInv); what is being checked comes   *)
(* from a verifier on the trust list (HandlingInv); and of a channel whose *)
(* latest message was recorded the file keeps that message longest, if it  *)
(* keeps any (LatestInv).                                                  *)
(***************************************************************************)
EXTENDS Consent, FiniteSetTheorems, WellFoundedInduction, TLAPS

(* TypeOK in three parts: what arrives, what is shown, what is answered.   *)
IntroTypes ==
  /\ trusted \in SUBSET Verifiers
  /\ handling \in Intros \cup {None}
  /\ arrived \in SUBSET Nonces /\ overtaken \in SUBSET Intros
  /\ pending \subseteq Row
  /\ \A r, q \in pending : r.nonce = q.nonce => r = q

ContextTypes ==
  /\ contexts \subseteq Context /\ Cardinality(contexts) <= MaxContexts
  /\ \A x, y \in contexts :
       x.channel = y.channel /\ (x.group = y.group \/ x.at = y.at) => x = y
  /\ shownCount \in 0..MaxShown
  /\ shown \in [Channels -> Groups \cup {None}]

AnswerTypes ==
  /\ jobs \in SUBSET Job
  /\ texts \in 0..MaxTexts
  /\ routed \in SUBSET Routing
  /\ verdicts \in SUBSET Verdict
  /\ blocked \in SUBSET Searchers

(* Rows are of what has arrived, and not of what is still being checked.   *)
RowInv ==
  /\ IsFiniteSet(arrived) /\ IsFiniteSet(pending)
  /\ Rows \subseteq arrived
  /\ handling # None => handling \in arrived \ Rows

(* Whom an answer in progress is addressed to.                             *)
AddressInv ==
  \A j \in jobs :
    /\ j.verb # "block" => j.to \in Nonces
    /\ j.verb = "block" => j.to \in Intros \cup Searchers
    /\ j.verb = "block" /\ j.step = "sending" => j.to \in Searchers

(* The answer j gives is the one that the user gave in its text.           *)
Given(j) ==
  \E r \in routed : /\ r.text = j.text /\ r.verb = j.verb
                    /\ j.verb # "block" => r.answers = j.to

JobInv ==
  /\ \A j \in jobs : /\ Given(j) /\ j.text <= texts
                     /\ \A v \in verdicts : v.text # j.text
  /\ \A j, k \in jobs : j.text = k.text => j = k
  /\ \A v \in verdicts : v.text <= texts

HandlingInv ==
  handling # None => VerifierOf[handling] \in trusted \/ handling \in overtaken

(* The message shown last on a channel outlives all others of it.          *)
LatestInv ==
  /\ IsFiniteSet(contexts)
  /\ \A x \in contexts : x.at <= shownCount
  /\ \A x \in contexts : shown[x.channel] # None =>
       \E y \in contexts :
         /\ y.channel = x.channel /\ y.group = shown[x.channel]
         /\ \A z \in contexts : z.channel = x.channel => z = y \/ z.at < y.at

IInv ==
  /\ TypeOK
  /\ RowInv /\ AddressInv
  /\ JobInv /\ VerdictsWereGiven
  /\ HandlingInv
  /\ LatestInv

-----------------------------------------------------------------------------
(* Helpers.                                                                *)
LEMMA TypeParts == TypeOK <=> IntroTypes /\ ContextTypes /\ AnswerTypes
BY DEF TypeOK, IntroTypes, ContextTypes, AnswerTypes

(* Of finitely many numbers one is the greatest.                           *)
LEMMA GreatestExists ==
  ASSUME NEW S \in SUBSET Nat, IsFiniteSet(S), S # {}
  PROVE  \E m \in S : \A k \in S : k <= m
<1> DEFINE HasGreatest(U) == \E m \in U : \A k \in U : k <= m
           Bad == {U \in SUBSET S : U # {} /\ ~HasGreatest(U)}
<1> SUFFICES ASSUME Bad # {} PROVE FALSE
  OBVIOUS
<1>1. Bad \subseteq FiniteSubsetsOf(S)
  BY FS_Subset DEF FiniteSubsetsOf
<1>2. PICK U \in Bad : \A V \in Bad : <<V, U>> \notin StrictSubsetOrdering(S)
  <2> HIDE DEF Bad
  <2> QED BY <1>1, WFMin, FS_StrictSubsetOrderingWellFounded
<1>3. PICK x : x \in U
  OBVIOUS
<1>4. U \ {x} \notin Bad
  BY <1>2, <1>3 DEF StrictSubsetOrdering
<1>5. CASE U = {x}
  BY <1>5
<1>6. CASE U # {x}
  <2>1. PICK m \in U \ {x} : \A k \in U \ {x} : k <= m
    <3>1. U \ {x} \in SUBSET S /\ U \ {x} # {}
      BY <1>3, <1>6
    <3> QED BY <1>4, <3>1
  <2>2. x \in Nat /\ m \in Nat
    BY <1>3
  <2> DEFINE g == IF m <= x THEN x ELSE m
  <2>3. g \in U /\ \A k \in U : k \in Nat /\ k <= g
    BY <1>3, <2>1, <2>2
  <2> QED BY <2>3
<1> QED BY <1>5, <1>6

(* The newest row of a kind.                                               *)
LEMMA NewestType ==
  ASSUME IntroTypes, RowInv, NEW kind \in SUBSET Nonces
  PROVE  NewestOf(kind) \in (kind \cap Rows) \cup {None}
<1> DEFINE rows == {r \in pending : r.nonce \in kind}
<1>1. CASE rows = {}
  BY <1>1 DEF NewestOf
<1>2. CASE rows # {}
  <2>1. IsFiniteSet(rows)
    BY FS_Subset DEF RowInv
  <2> DEFINE times == {r.at : r \in rows}
  <2>2. times \in SUBSET Nat /\ times # {}
    BY <1>2 DEF IntroTypes, Row
  <2>3. IsFiniteSet(times)
    <3> DEFINE time == [r \in rows |-> r.at]
    <3>1. time \in Surjection(rows, times)
      BY DEF Surjection
    <3> HIDE DEF rows, times, time
    <3> QED BY <2>1, <3>1, FS_Surjection
  <2>4. PICK m \in times : \A k \in times : k <= m
    <3> HIDE DEF times
    <3> QED BY <2>2, <2>3, GreatestExists
  <2>5. \E r \in rows : \A q \in rows : q.at <= r.at
    BY <2>4
  <2>6. (CHOOSE r \in rows : \A q \in rows : q.at <= r.at) \in rows
    BY <2>5
  <2> QED BY <1>2, <2>6 DEF NewestOf, Rows
<1> QED BY <1>1, <1>2

(* A bare word is taken as an answer to a row, block to an introduction    *)
(* only.                                                                   *)
LEMMA ConsentForType ==
  ASSUME IntroTypes, RowInv, NEW verb
  PROVE  /\ ConsentFor(verb) \in Nonces \cup {None}
         /\ ConsentFor(verb) # None => verb \in BareWords
         /\ verb = "block" => ConsentFor(verb) \in Intros \cup {None}
BY NewestType DEF ConsentFor, Nonces

(* The group a reply is bridged to is the one shown last, on a channel     *)
(* where that has been recorded.                                           *)
LEMMA GroupForLatest ==
  ASSUME ContextTypes, LatestInv, NEW c \in Channels, shown[c] # None
  PROVE  GroupFor(c) \in {shown[c], None}
<1> DEFINE here == {x \in contexts : x.channel = c}
           top  == CHOOSE x \in here : \A y \in here : y.at <= x.at
<1>1. CASE here = {}
  BY <1>1 DEF GroupFor
<1>2. CASE here # {}
  <2>1. PICK y \in here :
          y.group = shown[c] /\ \A z \in here : z = y \/ z.at < y.at
    BY <1>2 DEF LatestInv
  <2>2. \A z \in here : z.at \in Nat
    BY DEF ContextTypes, Context
  <2>3. \A z \in here : z.at <= y.at
    BY <2>1, <2>2
  <2>4. top \in here /\ \A z \in here : z.at <= top.at
    BY <2>3
  <2>5. top = y
    BY <2>1, <2>2, <2>4
  <2>6. GroupFor(c) = y.group
    BY <1>2, <2>5 DEF GroupFor
  <2> QED BY <2>1, <2>6
<1> QED BY <1>1, <1>2

(* An answer at its next step.                                             *)
LEMMA JobChange ==
  ASSUME NEW j \in Job, NEW st \in {"scheduled", "sending"},
         NEW to \in Nonces \cup Searchers
  PROVE  /\ [j EXCEPT !.step = st, !.to = to] \in Job
         /\ [j EXCEPT !.step = st, !.to = to].to = to
         /\ [j EXCEPT !.step = st, !.to = to].text = j.text
         /\ [j EXCEPT !.step = st, !.to = to].verb = j.verb
BY DEF Job

(* What the pending stores hold after a removal or a new row.              *)
LEMMA RowsAfterRemoval ==
  ASSUME NEW gone, pending' = Without(gone), IntroTypes, RowInv
  PROVE  /\ pending' \subseteq pending /\ IsFiniteSet(pending')
         /\ Rows' = Rows \ gone
BY FS_Subset DEF Without, Rows, RowInv

(* A row that is stored joins the rows, and no two have one nonce.         *)
LEMMA RowsAfterStore ==
  ASSUME NEW n \in Nonces, NEW kind, pending' = Stored(n, kind), n \notin Rows,
         IsFiniteSet(arrived'), IntroTypes, RowInv
  PROVE  /\ pending' \subseteq Row /\ IsFiniteSet(pending')
         /\ \A r, q \in pending' : r.nonce = q.nonce => r = q
         /\ Rows' = Rows \cup {n}
<1> DEFINE new == [nonce |-> n, at |-> Cardinality(arrived' \cap kind)]
<1>1. IsFiniteSet(arrived' \cap kind)
  BY FS_Subset
<1>2. new \in Row /\ new.nonce = n
  BY <1>1, FS_CardinalityType DEF Row
<1>3. pending' = pending \cup {new}
  BY DEF Stored
<1>4. IsFiniteSet(pending')
  <2> HIDE DEF new
  <2> QED BY <1>3, FS_AddElement DEF RowInv
<1> HIDE DEF new
<1>5. \A r \in pending : r.nonce # n
  BY DEF Rows
<1> QED BY <1>2, <1>3, <1>4, <1>5 DEF IntroTypes, Rows

(* The pending stores hold a row per nonce, of what has arrived.           *)
LEMMA IntroStep ==
  IntroTypes /\ RowInv /\ [Next]_vars => IntroTypes' /\ RowInv'
<1> SUFFICES ASSUME IntroTypes, RowInv, [Next]_vars
             PROVE  IntroTypes' /\ RowInv'
  OBVIOUS
<1>1. ASSUME NEW i \in Intros, IntroBegins(i)
      PROVE  IntroTypes' /\ RowInv'
  <2>1. IsFiniteSet(arrived') /\ arrived' \subseteq Nonces /\ i \in arrived'
    BY <1>1, FS_AddElement DEF IntroBegins, IntroTypes, RowInv, Nonces
  <2>2. handling' \in {i, None} /\ i \notin Rows
    BY <1>1 DEF IntroBegins, RowInv
  <2> QED BY <1>1, <2>1, <2>2 DEF IntroBegins, IntroTypes, RowInv, Rows
<1>2. CASE IntroStored
  <2>1. handling \in Nonces /\ handling \in arrived \ Rows
    BY <1>2 DEF IntroStored, IntroTypes, RowInv, Nonces
  <2>2. arrived' = arrived /\ pending' = Stored(handling, Intros)
    BY <1>2 DEF IntroStored
  <2>3. /\ pending' \subseteq Row /\ IsFiniteSet(pending')
        /\ \A r, q \in pending' : r.nonce = q.nonce => r = q
        /\ Rows' = Rows \cup {handling}
    BY <2>1, <2>2, RowsAfterStore DEF RowInv
  <2> QED BY <1>2, <2>1, <2>3 DEF IntroStored, IntroTypes, RowInv
<1>3. CASE IntroDropped
  BY <1>3 DEF IntroDropped, introVars, IntroTypes, RowInv, Rows
<1>4. ASSUME NEW v \in Verifiers, TrustVerifier(v)
      PROVE  IntroTypes' /\ RowInv'
  BY <1>4 DEF TrustVerifier, introVars, IntroTypes, RowInv, Rows
<1>5. ASSUME NEW v \in Verifiers, DistrustVerifier(v)
      PROVE  IntroTypes' /\ RowInv'
  BY <1>5 DEF DistrustVerifier, introVars, IntroTypes, RowInv, Rows
<1>6. ASSUME NEW q \in Proposals, ProposalArrives(q)
      PROVE  IntroTypes' /\ RowInv'
  <2>1. IsFiniteSet(arrived') /\ arrived' = arrived \cup {q}
        /\ arrived' \subseteq Nonces
    BY <1>6, FS_AddElement DEF ProposalArrives, IntroTypes, RowInv, Nonces
  <2>2. q \in Nonces /\ q \notin Rows /\ q # handling
    BY <1>6, NoneAssumption DEF ProposalArrives, RowInv, Nonces
  <2>3. /\ pending' \subseteq Row /\ IsFiniteSet(pending')
        /\ \A r, p \in pending' : r.nonce = p.nonce => r = p
        /\ Rows' = Rows \cup {q}
    BY <1>6, <2>1, <2>2, RowsAfterStore DEF ProposalArrives
  <2> QED BY <1>6, <2>1, <2>2, <2>3 DEF ProposalArrives, IntroTypes, RowInv
<1>7. ASSUME NEW g \in Groups, NEW seen \in SUBSET Channels,
             NEW noted \in SUBSET Channels, NEW read \in {contexts, {}},
             ShowGroupMessage(g, seen, noted, read)
      PROVE  IntroTypes' /\ RowInv'
  BY <1>7 DEF ShowGroupMessage, introVars, IntroTypes, RowInv, Rows
<1>8. CASE ContextExpires
  BY <1>8 DEF ContextExpires, introVars, IntroTypes, RowInv, Rows
<1>9. ASSUME NEW c \in Channels, NEW verb \in Verbs, NEW queued \in BOOLEAN,
             Text(c, verb, queued)
      PROVE  IntroTypes' /\ RowInv'
  BY <1>9 DEF Text, introVars, IntroTypes, RowInv, Rows
<1>10. ASSUME NEW verb \in BareWords,
              NEW to \in IF verb = "block" THEN Searchers ELSE Nonces,
             Command(verb, to)
      PROVE  IntroTypes' /\ RowInv'
  BY <1>10 DEF Command, introVars, IntroTypes, RowInv, Rows
<1>11. ASSUME NEW j \in jobs, AnswerBegins(j)
      PROVE  IntroTypes' /\ RowInv'
  <2>1. CASE pending' = pending
    BY <1>11, <2>1 DEF AnswerBegins, introVars, IntroTypes, RowInv, Rows
  <2>2. CASE pending' = Without({j.to})
    <3>1. pending' \subseteq pending /\ IsFiniteSet(pending')
      /\ Rows' \subseteq Rows
      BY <2>2, RowsAfterRemoval
    <3> QED BY <1>11, <3>1 DEF AnswerBegins, introVars, IntroTypes, RowInv
  <2> QED BY <1>11, <2>1, <2>2 DEF AnswerBegins, AnswerTarget
<1>12. ASSUME NEW j \in jobs, AnswerTooLate(j)
      PROVE  IntroTypes' /\ RowInv'
  BY <1>12 DEF AnswerTooLate, introVars, IntroTypes, RowInv, Rows
<1>13. ASSUME NEW j \in jobs, AnswerSent(j)
      PROVE  IntroTypes' /\ RowInv'
  <2>1. pending' = Without({j.to})
    BY <1>13 DEF AnswerSent
  <2>2. pending' \subseteq pending /\ IsFiniteSet(pending')
    /\ Rows' \subseteq Rows
    BY <2>1, RowsAfterRemoval
  <2> QED BY <1>13, <2>2 DEF AnswerSent, introVars, IntroTypes, RowInv
<1>14. ASSUME NEW j \in jobs, AnswerFails(j)
      PROVE  IntroTypes' /\ RowInv'
  BY <1>14 DEF AnswerFails, introVars, IntroTypes, RowInv, Rows
<1>15. ASSUME NEW j \in jobs, BlockBegins(j)
      PROVE  IntroTypes' /\ RowInv'
  BY <1>15 DEF BlockBegins, introVars, IntroTypes, RowInv, Rows
<1>16. ASSUME NEW j \in jobs, BlockPosted(j)
      PROVE  IntroTypes' /\ RowInv'
  BY <1>16 DEF BlockPosted, introVars, IntroTypes, RowInv, Rows
<1>17. ASSUME NEW j \in jobs, BlockEnds(j)
      PROVE  IntroTypes' /\ RowInv'
  <2>1. pending' = Without(RowsOf(j.to))
    BY <1>17 DEF BlockEnds
  <2>2. pending' \subseteq pending /\ IsFiniteSet(pending')
    /\ Rows' \subseteq Rows
    BY <2>1, RowsAfterRemoval
  <2> QED BY <1>17, <2>2 DEF BlockEnds, introVars, IntroTypes, RowInv
<1>18. CASE Crash
  BY <1>18 DEF Crash, introVars, IntroTypes, RowInv, Rows
<1>19. CASE UNCHANGED vars
  BY <1>19 DEF vars, introVars, IntroTypes, RowInv, Rows
<1> QED
  BY AnswersAssumption, <1>1, <1>2, <1>3, <1>4, <1>5, <1>6, <1>7, <1>8, <1>9,
     <1>10, <1>11, <1>12, <1>13, <1>14, <1>15, <1>16, <1>17, <1>18, <1>19
     DEF Next, BareWords

(* Who relays what is being checked is trusted, or was until just now.     *)
LEMMA HandlingStep ==
  IntroTypes /\ HandlingInv /\ [Next]_vars => HandlingInv'
<1> SUFFICES ASSUME IntroTypes, HandlingInv, [Next]_vars PROVE HandlingInv'
  OBVIOUS
<1>1. ASSUME NEW i \in Intros, IntroBegins(i)
      PROVE  HandlingInv'
  BY <1>1 DEF IntroBegins, HandlingInv
<1>2. CASE IntroStored
  BY <1>2 DEF IntroStored, introVars, HandlingInv
<1>3. CASE IntroDropped
  BY <1>3 DEF IntroDropped, introVars, HandlingInv
<1>4. ASSUME NEW v \in Verifiers, TrustVerifier(v)
      PROVE  HandlingInv'
  BY <1>4 DEF TrustVerifier, introVars, HandlingInv
<1>5. ASSUME NEW v \in Verifiers, DistrustVerifier(v)
      PROVE  HandlingInv'
  BY <1>5 DEF DistrustVerifier, HandlingInv, IntroTypes
<1>6. ASSUME NEW q \in Proposals, ProposalArrives(q)
      PROVE  HandlingInv'
  BY <1>6 DEF ProposalArrives, introVars, HandlingInv
<1>7. ASSUME NEW g \in Groups, NEW seen \in SUBSET Channels,
             NEW noted \in SUBSET Channels, NEW read \in {contexts, {}},
             ShowGroupMessage(g, seen, noted, read)
      PROVE  HandlingInv'
  BY <1>7 DEF ShowGroupMessage, introVars, HandlingInv
<1>8. CASE ContextExpires
  BY <1>8 DEF ContextExpires, introVars, HandlingInv
<1>9. ASSUME NEW c \in Channels, NEW verb \in Verbs, NEW queued \in BOOLEAN,
             Text(c, verb, queued)
      PROVE  HandlingInv'
  BY <1>9 DEF Text, introVars, HandlingInv
<1>10. ASSUME NEW verb \in BareWords,
              NEW to \in IF verb = "block" THEN Searchers ELSE Nonces,
             Command(verb, to)
      PROVE  HandlingInv'
  BY <1>10 DEF Command, introVars, HandlingInv
<1>11. ASSUME NEW j \in jobs, AnswerBegins(j)
      PROVE  HandlingInv'
  BY <1>11 DEF AnswerBegins, introVars, HandlingInv
<1>12. ASSUME NEW j \in jobs, AnswerTooLate(j)
      PROVE  HandlingInv'
  BY <1>12 DEF AnswerTooLate, introVars, HandlingInv
<1>13. ASSUME NEW j \in jobs, AnswerSent(j)
      PROVE  HandlingInv'
  BY <1>13 DEF AnswerSent, introVars, HandlingInv
<1>14. ASSUME NEW j \in jobs, AnswerFails(j)
      PROVE  HandlingInv'
  BY <1>14 DEF AnswerFails, introVars, HandlingInv
<1>15. ASSUME NEW j \in jobs, BlockBegins(j)
      PROVE  HandlingInv'
  BY <1>15 DEF BlockBegins, introVars, HandlingInv
<1>16. ASSUME NEW j \in jobs, BlockPosted(j)
      PROVE  HandlingInv'
  BY <1>16 DEF BlockPosted, introVars, HandlingInv
<1>17. ASSUME NEW j \in jobs, BlockEnds(j)
      PROVE  HandlingInv'
  BY <1>17 DEF BlockEnds, introVars, HandlingInv
<1>18. CASE Crash
  BY <1>18 DEF Crash, introVars, HandlingInv
<1>19. CASE UNCHANGED vars
  BY <1>19 DEF vars, introVars, HandlingInv
<1> QED
  BY AnswersAssumption, <1>1, <1>2, <1>3, <1>4, <1>5, <1>6, <1>7, <1>8, <1>9,
     <1>10, <1>11, <1>12, <1>13, <1>14, <1>15, <1>16, <1>17, <1>18, <1>19
     DEF Next, BareWords

(* The contexts among which the cap chooses, and what it chooses.          *)
LEMMA RecordedType ==
  ASSUME ContextTypes, LatestInv, shownCount < MaxShown,
         NEW g \in Groups, NEW cs \in SUBSET Channels,
         NEW read \in {contexts, {}}
  PROVE  /\ Recorded(read, g, cs) \subseteq Context
         /\ IsFiniteSet(Recorded(read, g, cs))
         /\ \A x \in Recorded(read, g, cs) :
              IF x \in contexts /\ x.at <= shownCount
                THEN x \in read /\ (x.channel \in cs => x.group # g)
                ELSE x.channel \in cs /\ x.group = g /\ x.at = Now
         /\ \A c \in cs : \E x \in Recorded(read, g, cs) :
              x.channel = c /\ x.group = g /\ x.at = Now
         /\ \A x \in read : x.channel \notin cs => x \in Recorded(read, g, cs)
         /\ \A x, y \in Recorded(read, g, cs) :
              x.channel = y.channel
                /\ (x.group = y.group \/ x.at = y.at) => x = y
<1> DEFINE old == {x \in read : x.group # g \/ x.channel \notin cs}
           row == [c \in cs |-> [channel |-> c, group |-> g, at |-> Now]]
           new == {[channel |-> c, group |-> g, at |-> Now] : c \in cs}
<1>1. Recorded(read, g, cs) = old \cup new
  BY DEF Recorded
<1>2. /\ Now \in 1..MaxShown /\ shownCount < Now
      /\ \A x \in contexts : x.at <= shownCount /\ x.at # Now /\ x.at \in Nat
  BY BoundsAssumption DEF Now, ContextTypes, LatestInv, Context
<1>3. IsFiniteSet(cs) /\ IsFiniteSet(old)
  BY ChannelsAssumption, FS_Subset DEF LatestInv
<1>4. IsFiniteSet(new)
  <2>1. row \in Surjection(cs, new)
    BY DEF Surjection
  <2> HIDE DEF row, new
  <2> QED BY <1>3, <2>1, FS_Surjection
<1>5. IsFiniteSet(old \cup new)
  <2> HIDE DEF old, new
  <2> QED BY <1>3, <1>4, FS_Union
<1>6. \A x \in new : /\ x.channel \in cs /\ x.group = g /\ x.at = Now
                     /\ x = [channel |-> x.channel, group |-> g, at |-> Now]
                     /\ x \in Context /\ x \notin contexts
  <2> SUFFICES ASSUME NEW c \in cs,
                      NEW x, x = [channel |-> c, group |-> g, at |-> Now]
               PROVE  /\ x.channel \in cs /\ x.group = g /\ x.at = Now
                      /\ x = [channel |-> x.channel, group |-> g, at |-> Now]
                      /\ x \in Context /\ x \notin contexts
    OBVIOUS
  <2>1. x.channel = c /\ x.group = g /\ x.at = Now
    OBVIOUS
  <2>2. x \in Context
    BY <1>2 DEF Context
  <2> QED BY <1>2, <2>1, <2>2
<1>7. ASSUME NEW c \in cs
      PROVE  \E x \in new : x.channel = c /\ x.group = g /\ x.at = Now
  <2> DEFINE x == [channel |-> c, group |-> g, at |-> Now]
  <2>1. x \in new
    OBVIOUS
  <2>2. x.channel = c /\ x.group = g /\ x.at = Now
    OBVIOUS
  <2> HIDE DEF x, new
  <2> QED BY <2>1, <2>2
<1>8. \A x \in old : /\ x \in read /\ x \in contexts
                     /\ x.channel \in cs => x.group # g
  OBVIOUS
<1>9. \A x \in read : x.channel \notin cs => x \in old
  OBVIOUS
<1>10. Recorded(read, g, cs) \subseteq Context
  BY <1>1, <1>6, <1>8 DEF ContextTypes
<1>11. ASSUME NEW x \in old \cup new, NEW y \in old \cup new,
              x.channel = y.channel, x.group = y.group \/ x.at = y.at
       PROVE  x = y
  <2> HIDE DEF old, new
  <2>1. CASE x \in old /\ y \in old
    BY <1>8, <1>11, <2>1 DEF ContextTypes
  <2>2. CASE x \in new /\ y \in new
    BY <1>6, <1>11, <2>2
  <2>3. CASE (x \in old /\ y \in new) \/ (x \in new /\ y \in old)
    BY <1>2, <1>6, <1>8, <1>11, <2>3
  <2> QED BY <2>1, <2>2, <2>3
<1> HIDE DEF old, new
<1>12. ASSUME NEW x \in old \cup new
       PROVE  IF x \in contexts /\ x.at <= shownCount
                THEN x \in read /\ (x.channel \in cs => x.group # g)
                ELSE x.channel \in cs /\ x.group = g /\ x.at = Now
  BY <1>2, <1>6, <1>8
<1> QED BY <1>1, <1>5, <1>7, <1>9, <1>10, <1>11, <1>12

(* The cap keeps contexts that no other is newer than.                     *)
LEMMA KeepNewest ==
  ASSUME NEW all, NEW some \in Keep(all), IsFiniteSet(all)
  PROVE  /\ some \subseteq all /\ IsFiniteSet(some)
         /\ Cardinality(some) <= MaxContexts
         /\ \A x \in some, y \in all : y \in some \/ ~(x.at < y.at)
<1>1. /\ some \subseteq all
      /\ Cardinality(some) = IF Cardinality(all) < MaxContexts
                             THEN Cardinality(all) ELSE MaxContexts
      /\ \A x \in some, y \in all \ some : ~(x.at < y.at)
  BY DEF Keep, Kept
<1> QED BY <1>1, FS_Subset, FS_CardinalityType, BoundsAssumption

(* A message is shown: whatever the cap drops, the newest of each channel  *)
(* of which something is left is kept.                                     *)
LEMMA ShowStep ==
  ASSUME NEW g \in Groups, NEW seen \in SUBSET Channels,
         NEW noted \in SUBSET Channels, NEW read \in {contexts, {}},
         ContextTypes, LatestInv, ShowGroupMessage(g, seen, noted, read)
  PROVE  ContextTypes' /\ LatestInv'
<1> DEFINE all == Recorded(read, g, noted)
<1>1. /\ shownCount < MaxShown /\ shownCount' = Now /\ contexts' \in Keep(all)
      /\ shown' = [c \in Channels |-> IF c \in seen \cap noted THEN g
                                     ELSE IF c \in seen \cup noted THEN None
                                     ELSE shown[c]]
  BY DEF ShowGroupMessage
<1>2. /\ all \subseteq Context /\ IsFiniteSet(all)
      /\ \A x \in all : IF x \in contexts /\ x.at <= shownCount
                          THEN x \in read /\ (x.channel \in noted => x.group # g)
                          ELSE x.channel \in noted /\ x.group = g /\ x.at = Now
      /\ \A c \in noted : \E x \in all :
           x.channel = c /\ x.group = g /\ x.at = Now
      /\ \A x \in read : x.channel \notin noted => x \in all
      /\ \A x, y \in all :
           x.channel = y.channel
             /\ (x.group = y.group \/ x.at = y.at) => x = y
  <2>1. shownCount < MaxShown
    BY <1>1
  <2> QED BY <2>1, RecordedType
<1> HIDE DEF all
<1>3. /\ contexts' \subseteq all /\ IsFiniteSet(contexts')
      /\ Cardinality(contexts') <= MaxContexts
      /\ \A x \in contexts', y \in all : y \in contexts' \/ ~(x.at < y.at)
  BY <1>1, <1>2, KeepNewest
<1>4. /\ Now \in 1..MaxShown /\ Now = shownCount + 1 /\ shownCount \in Nat
      /\ \A x \in all : x.at \in Nat /\ x.channel \in Channels
  BY <1>1, <1>2, BoundsAssumption DEF Now, ContextTypes, Context
<1>5. ContextTypes'
  <2>1. shown' \in [Channels -> Groups \cup {None}]
    /\ shownCount' \in 0..MaxShown
    BY <1>1, <1>4 DEF ContextTypes
  <2> QED BY <1>2, <1>3, <2>1 DEF ContextTypes
<1>6. \A x \in contexts' : x.at <= shownCount'
  BY <1>1, <1>2, <1>3, <1>4
<1>7. ASSUME NEW x \in contexts', shown'[x.channel] # None
      PROVE  \E y \in contexts' :
               /\ y.channel = x.channel /\ y.group = shown'[x.channel]
               /\ \A z \in contexts' : z.channel = x.channel
                                         => z = y \/ z.at < y.at
  <2> DEFINE c == x.channel
  <2>1. x \in all /\ c \in Channels /\ x.at \in Nat
    BY <1>3, <1>4
  <2>2. CASE c \in noted
    <3>1. PICK y \in all : y.channel = c /\ y.group = g /\ y.at = Now
      BY <1>2, <2>2
    <3>2. \A z \in all : z.channel = c => z = y \/ z.at < y.at
      <4> SUFFICES ASSUME NEW z \in all, z.channel = c
                   PROVE  z = y \/ z.at < y.at
        OBVIOUS
      <4>1. z.at = Now => z = y
        BY <1>2, <3>1
      <4>2. z.at <= shownCount \/ z.at = Now
        BY <1>2
      <4> QED BY <1>4, <3>1, <4>1, <4>2
    <3>3. y \in contexts'
      BY <1>3, <2>1, <3>1, <3>2
    <3>4. y.group = shown'[c]
      BY <1>1, <1>7, <2>1, <2>2, <3>1
    <3> QED BY <1>3, <3>1, <3>2, <3>3, <3>4
  <2>3. CASE c \notin noted
    <3>1. /\ x \in read /\ read = contexts /\ shown'[c] = shown[c]
          /\ \A z \in all : z.channel = c => z \in contexts
      BY <1>1, <1>2, <1>7, <2>1, <2>3
    <3>2. PICK y \in contexts :
            /\ y.channel = c /\ y.group = shown[c]
            /\ \A z \in contexts : z.channel = c => z = y \/ z.at < y.at
      BY <1>7, <3>1 DEF LatestInv
    <3>3. y \in all
      BY <1>2, <2>3, <3>1, <3>2
    <3>4. y \in contexts'
      BY <1>3, <2>1, <3>1, <3>2, <3>3
    <3>5. y.group = shown'[c]
      BY <3>1, <3>2
    <3> QED BY <1>3, <3>1, <3>2, <3>4, <3>5
  <2> QED BY <2>2, <2>3
<1> QED BY <1>3, <1>5, <1>6, <1>7 DEF LatestInv

(* Only the oldest context expires, so the newest of a channel goes last.  *)
LEMMA ExpireStep ==
  ContextTypes /\ LatestInv /\ ContextExpires => ContextTypes' /\ LatestInv'
<1> SUFFICES ASSUME ContextTypes, LatestInv, ContextExpires
             PROVE  ContextTypes' /\ LatestInv'
  OBVIOUS
<1>1. PICK x \in contexts : /\ \A y \in contexts : x.at <= y.at
                            /\ contexts' = contexts \ {x}
  BY DEF ContextExpires
<1>2. shownCount' = shownCount /\ shown' = shown
  BY DEF ContextExpires
<1>3. IsFiniteSet(contexts') /\ Cardinality(contexts') <= Cardinality(contexts)
  BY <1>1, FS_Subset DEF LatestInv
<1>4. Cardinality(contexts') <= MaxContexts
  BY <1>3, FS_CardinalityType, BoundsAssumption DEF ContextTypes, LatestInv
<1>5. ContextTypes'
  BY <1>1, <1>2, <1>4 DEF ContextTypes
<1>6. ASSUME NEW u \in contexts', shown[u.channel] # None
      PROVE  \E y \in contexts' :
               /\ y.channel = u.channel /\ y.group = shown[u.channel]
               /\ \A z \in contexts' : z.channel = u.channel
                                         => z = y \/ z.at < y.at
  <2>1. u \in contexts /\ u # x
    BY <1>1
  <2>2. PICK y \in contexts :
          /\ y.channel = u.channel /\ y.group = shown[u.channel]
          /\ \A z \in contexts : z.channel = u.channel => z = y \/ z.at < y.at
    BY <1>6, <2>1 DEF LatestInv
  <2>3. \A z \in contexts : z.at \in Nat
    BY DEF ContextTypes, Context
  <2>4. y # x
    BY <1>1, <2>1, <2>2, <2>3
  <2> QED BY <1>1, <2>2, <2>4
<1> QED BY <1>1, <1>2, <1>3, <1>5, <1>6 DEF LatestInv

(* Of every channel that has contexts the newest is the one shown last.    *)
LEMMA ContextStep ==
  ContextTypes /\ LatestInv /\ [Next]_vars => ContextTypes' /\ LatestInv'
<1> SUFFICES ASSUME ContextTypes, LatestInv, [Next]_vars
             PROVE  ContextTypes' /\ LatestInv'
  OBVIOUS
<1>1. ASSUME NEW i \in Intros, IntroBegins(i)
      PROVE  ContextTypes' /\ LatestInv'
  BY <1>1 DEF IntroBegins, contextVars, ContextTypes, LatestInv
<1>2. CASE IntroStored
  BY <1>2 DEF IntroStored, contextVars, ContextTypes, LatestInv
<1>3. CASE IntroDropped
  BY <1>3 DEF IntroDropped, contextVars, ContextTypes, LatestInv
<1>4. ASSUME NEW v \in Verifiers, TrustVerifier(v)
      PROVE  ContextTypes' /\ LatestInv'
  BY <1>4 DEF TrustVerifier, contextVars, ContextTypes, LatestInv
<1>5. ASSUME NEW v \in Verifiers, DistrustVerifier(v)
      PROVE  ContextTypes' /\ LatestInv'
  BY <1>5 DEF DistrustVerifier, contextVars, ContextTypes, LatestInv
<1>6. ASSUME NEW q \in Proposals, ProposalArrives(q)
      PROVE  ContextTypes' /\ LatestInv'
  BY <1>6 DEF ProposalArrives, contextVars, ContextTypes, LatestInv
<1>7. ASSUME NEW g \in Groups, NEW seen \in SUBSET Channels,
             NEW noted \in SUBSET Channels, NEW read \in {contexts, {}},
             ShowGroupMessage(g, seen, noted, read)
      PROVE  ContextTypes' /\ LatestInv'
  BY <1>7, ShowStep
<1>8. CASE ContextExpires
  BY <1>8, ExpireStep
<1>9. ASSUME NEW c \in Channels, NEW verb \in Verbs, NEW queued \in BOOLEAN,
             Text(c, verb, queued)
      PROVE  ContextTypes' /\ LatestInv'
  BY <1>9 DEF Text, contextVars, ContextTypes, LatestInv
<1>10. ASSUME NEW verb \in BareWords,
              NEW to \in IF verb = "block" THEN Searchers ELSE Nonces,
             Command(verb, to)
      PROVE  ContextTypes' /\ LatestInv'
  BY <1>10 DEF Command, contextVars, ContextTypes, LatestInv
<1>11. ASSUME NEW j \in jobs, AnswerBegins(j)
      PROVE  ContextTypes' /\ LatestInv'
  BY <1>11 DEF AnswerBegins, contextVars, ContextTypes, LatestInv
<1>12. ASSUME NEW j \in jobs, AnswerTooLate(j)
      PROVE  ContextTypes' /\ LatestInv'
  BY <1>12 DEF AnswerTooLate, contextVars, ContextTypes, LatestInv
<1>13. ASSUME NEW j \in jobs, AnswerSent(j)
      PROVE  ContextTypes' /\ LatestInv'
  BY <1>13 DEF AnswerSent, contextVars, ContextTypes, LatestInv
<1>14. ASSUME NEW j \in jobs, AnswerFails(j)
      PROVE  ContextTypes' /\ LatestInv'
  BY <1>14 DEF AnswerFails, contextVars, ContextTypes, LatestInv
<1>15. ASSUME NEW j \in jobs, BlockBegins(j)
      PROVE  ContextTypes' /\ LatestInv'
  BY <1>15 DEF BlockBegins, contextVars, ContextTypes, LatestInv
<1>16. ASSUME NEW j \in jobs, BlockPosted(j)
      PROVE  ContextTypes' /\ LatestInv'
  BY <1>16 DEF BlockPosted, contextVars, ContextTypes, LatestInv
<1>17. ASSUME NEW j \in jobs, BlockEnds(j)
      PROVE  ContextTypes' /\ LatestInv'
  BY <1>17 DEF BlockEnds, contextVars, ContextTypes, LatestInv
<1>18. CASE Crash
  BY <1>18 DEF Crash, contextVars, ContextTypes, LatestInv
<1>19. CASE UNCHANGED vars
  BY <1>19 DEF vars, contextVars, ContextTypes, LatestInv
<1> QED
  BY AnswersAssumption, <1>1, <1>2, <1>3, <1>4, <1>5, <1>6, <1>7, <1>8, <1>9,
     <1>10, <1>11, <1>12, <1>13, <1>14, <1>15, <1>16, <1>17, <1>18, <1>19
     DEF Next, BareWords

-----------------------------------------------------------------------------
(* Answers.                                                                *)
LEMMA AnswerType ==
  ASSUME AnswerTypes, AddressInv, NEW j \in jobs
  PROVE  /\ j \in Job /\ j.text \in 1..MaxTexts
         /\ j.verb # "block" => j.verb \in Answers /\ j.to \in Nonces
         /\ j.verb = "block" => j.to \in Intros \cup Searchers
         /\ j.to \in Nonces \cup Searchers
         /\ j.left \in SUBSET Verifiers
BY DEF AnswerTypes, AddressInv, Job, BareWords, Nonces

(* The one to block is a searcher, also where a row was named.             *)
LEMMA ToBlockType ==
  ASSUME AnswerTypes, AddressInv, NEW j \in jobs, j.verb = "block"
  PROVE  ToBlock(j) \in Searchers
BY IntrosAssumption DEF ToBlock, AddressInv

(* A scheduled answer is one of the jobs.                                  *)
LEMMA ScheduleType ==
  ASSUME AnswerTypes, AddressInv, texts < MaxTexts,
         NEW verb \in BareWords, NEW to \in Nonces \cup Searchers,
         verb = "block" => to \in Intros \cup Searchers,
         verb # "block" => to \in Nonces,
         Schedule(verb, to)
  PROVE  jobs' \in SUBSET Job /\ AddressInv'
<1> DEFINE new == [text |-> texts + 1, verb |-> verb, to |-> to,
                   step |-> "scheduled", left |-> {}]
<1>1. texts + 1 \in 1..MaxTexts
  BY BoundsAssumption DEF AnswerTypes
<1>2. /\ new \in Job /\ new.verb = verb /\ new.to = to
      /\ new.step = "scheduled"
  BY <1>1 DEF Job
<1>3. jobs' = jobs \cup {new}
  BY DEF Schedule
<1> HIDE DEF new
<1> QED BY <1>2, <1>3 DEF AnswerTypes, AddressInv

(* What became of a text is one of the routings.                           *)
LEMMA RoutedType ==
  ASSUME AnswerTypes, texts < MaxTexts, NEW verb \in Verbs,
         NEW to \in Nonces \cup Searchers \cup {None},
         texts' = texts + 1,
         routed' = routed \cup
           {[text |-> texts + 1, verb |-> verb, answers |-> to]}
  PROVE  texts' \in 0..MaxTexts /\ routed' \in SUBSET Routing
<1>1. texts + 1 \in 1..MaxTexts
  BY BoundsAssumption DEF AnswerTypes
<1>2. [text |-> texts + 1, verb |-> verb, answers |-> to] \in Routing
  BY <1>1 DEF Routing
<1> QED BY <1>1, <1>2 DEF AnswerTypes

(* Answers in progress are addressed as the code expects.                  *)
LEMMA AnswerStep ==
  IntroTypes /\ RowInv /\ AnswerTypes /\ AddressInv /\ [Next]_vars
    => AnswerTypes' /\ AddressInv'
<1> SUFFICES ASSUME IntroTypes, RowInv, AnswerTypes, AddressInv, [Next]_vars
             PROVE  AnswerTypes' /\ AddressInv'
  OBVIOUS
<1>1. ASSUME NEW i \in Intros, IntroBegins(i)
      PROVE  AnswerTypes' /\ AddressInv'
  BY <1>1 DEF IntroBegins, textVars, pastVars, AnswerTypes, AddressInv
<1>2. CASE IntroStored
  BY <1>2 DEF IntroStored, textVars, pastVars, AnswerTypes, AddressInv
<1>3. CASE IntroDropped
  BY <1>3 DEF IntroDropped, textVars, pastVars, AnswerTypes, AddressInv
<1>4. ASSUME NEW v \in Verifiers, TrustVerifier(v)
      PROVE  AnswerTypes' /\ AddressInv'
  BY <1>4, BoundsAssumption
     DEF TrustVerifier, contextVars, textVars, pastVars, AnswerTypes,
         AddressInv
<1>5. ASSUME NEW v \in Verifiers, DistrustVerifier(v)
      PROVE  AnswerTypes' /\ AddressInv'
  BY <1>5, BoundsAssumption
     DEF DistrustVerifier, contextVars, textVars, pastVars, AnswerTypes,
         AddressInv
<1>6. ASSUME NEW q \in Proposals, ProposalArrives(q)
      PROVE  AnswerTypes' /\ AddressInv'
  BY <1>6 DEF ProposalArrives, textVars, pastVars, AnswerTypes, AddressInv
<1>7. ASSUME NEW g \in Groups, NEW seen \in SUBSET Channels,
             NEW noted \in SUBSET Channels, NEW read \in {contexts, {}},
             ShowGroupMessage(g, seen, noted, read)
      PROVE  AnswerTypes' /\ AddressInv'
  BY <1>7 DEF ShowGroupMessage, textVars, pastVars, AnswerTypes, AddressInv
<1>8. CASE ContextExpires
  BY <1>8 DEF ContextExpires, textVars, pastVars, AnswerTypes, AddressInv
<1>9. ASSUME NEW c \in Channels, NEW verb \in Verbs, NEW queued \in BOOLEAN,
             Text(c, verb, queued)
      PROVE  AnswerTypes' /\ AddressInv'
  <2> DEFINE answer == IF Bridged(c, queued) /\ ~AllHooksRun
                       THEN None ELSE ConsentFor(verb)
  <2>1. /\ answer \in Nonces \cup {None}
        /\ answer # None => verb \in BareWords
        /\ verb = "block" => answer \in Intros \cup {None}
    BY ConsentForType
  <2>2. /\ texts < MaxTexts /\ texts' = texts + 1
        /\ IF answer # None THEN Schedule(verb, answer) ELSE UNCHANGED jobs
        /\ routed' = routed \cup
             {[text |-> texts + 1, verb |-> verb, answers |-> answer]}
        /\ UNCHANGED <<verdicts, blocked>>
    BY <1>9 DEF Text, pastVars
  <2> HIDE DEF answer
  <2>3. texts' \in 0..MaxTexts /\ routed' \in SUBSET Routing
    BY <2>1, <2>2, RoutedType
  <2>4. jobs' \in SUBSET Job /\ AddressInv'
    <3>1. CASE answer # None
      BY <2>1, <2>2, <3>1, ScheduleType
    <3>2. CASE answer = None
      BY <2>2, <3>2 DEF AnswerTypes, AddressInv
    <3> QED BY <3>1, <3>2
  <2> QED BY <2>2, <2>3, <2>4 DEF AnswerTypes
<1>10. ASSUME NEW verb \in BareWords,
              NEW to \in IF verb = "block" THEN Searchers ELSE Nonces,
             Command(verb, to)
      PROVE  AnswerTypes' /\ AddressInv'
  <2>1. /\ texts < MaxTexts /\ texts' = texts + 1 /\ Schedule(verb, to)
        /\ routed' = routed \cup
             {[text |-> texts + 1, verb |-> verb, answers |-> to]}
        /\ UNCHANGED <<verdicts, blocked>>
    BY <1>10 DEF Command, pastVars
  <2>2. texts' \in 0..MaxTexts /\ routed' \in SUBSET Routing
    BY <2>1, RoutedType DEF Verbs
  <2>3. jobs' \in SUBSET Job /\ AddressInv'
    BY <2>1, ScheduleType
  <2> QED BY <2>1, <2>2, <2>3 DEF AnswerTypes
<1>11. ASSUME NEW j \in jobs, AnswerBegins(j)
      PROVE  AnswerTypes' /\ AddressInv'
  <2> DEFINE k == [j EXCEPT !.step = "sending", !.to = j.to]
  <2>1. k \in Job /\ k.to = j.to /\ k.verb = j.verb
    BY AnswerType, JobChange
  <2>2. jobs' = (jobs \ {j}) \cup {k} /\ j.verb # "block"
    BY <1>11 DEF AnswerBegins, AnswerTarget, Change
  <2> HIDE DEF k
  <2>3. j.to \in Nonces
    BY <2>2, AnswerType
  <2> QED
    BY <1>11, <2>1, <2>2, <2>3
       DEF AnswerBegins, textVars, pastVars, AnswerTypes,
       AddressInv
<1>12. ASSUME NEW j \in jobs, AnswerTooLate(j)
      PROVE  AnswerTypes' /\ AddressInv'
  BY <1>12 DEF AnswerTooLate, textVars, pastVars, AnswerTypes, AddressInv
<1>13. ASSUME NEW j \in jobs, AnswerSent(j)
      PROVE  AnswerTypes' /\ AddressInv'
  <2> DEFINE v == [text |-> j.text, verb |-> j.verb, to |-> j.to]
  <2>1. /\ j.verb # "block" /\ jobs' = jobs \ {j}
        /\ verdicts' \in {verdicts, verdicts \cup {v}}
        /\ UNCHANGED <<textVars, blocked>>
    BY <1>13 DEF AnswerSent, Deliver
  <2>2. v \in Verdict
    BY <2>1, AnswerType DEF Verdict
  <2> HIDE DEF v
  <2> QED BY <2>1, <2>2 DEF textVars, AnswerTypes, AddressInv
<1>14. ASSUME NEW j \in jobs, AnswerFails(j)
      PROVE  AnswerTypes' /\ AddressInv'
  <2> DEFINE v == [text |-> j.text, verb |-> j.verb, to |-> j.to]
  <2>1. /\ j.verb # "block" /\ jobs' = jobs \ {j}
        /\ verdicts' \in {verdicts, verdicts \cup {v}}
        /\ UNCHANGED <<textVars, blocked>>
    BY <1>14 DEF AnswerFails, Deliver
  <2>2. v \in Verdict
    BY <2>1, AnswerType DEF Verdict
  <2> HIDE DEF v
  <2> QED BY <2>1, <2>2 DEF textVars, AnswerTypes, AddressInv
<1>15. ASSUME NEW j \in jobs, BlockBegins(j)
      PROVE  AnswerTypes' /\ AddressInv'
  <2> DEFINE brokers == {VerifierOf[i] : i \in RowsOf(ToBlock(j))}
             domains == IF brokers = {} THEN trusted ELSE brokers
             k == [j EXCEPT !.step = "sending", !.to = ToBlock(j),
                            !.left = domains]
  <2>1. /\ j.verb = "block" /\ jobs' \in {jobs \ {j}, (jobs \ {j}) \cup {k}}
        /\ UNCHANGED <<textVars, pastVars>>
    BY <1>15 DEF BlockBegins, Change
  <2>2. ToBlock(j) \in Searchers
    BY <2>1, ToBlockType
  <2>3. domains \in SUBSET Verifiers
    BY IntrosAssumption DEF RowsOf, IntroTypes
  <2>4. k \in Job /\ k.to \in Searchers /\ k.verb = "block"
    <3>1. j \in Job
      BY AnswerType
    <3> HIDE DEF domains
    <3> QED BY <2>1, <2>2, <2>3, <3>1 DEF Job
  <2> HIDE DEF k
  <2> QED BY <2>1, <2>4 DEF textVars, pastVars, AnswerTypes, AddressInv
<1>16. ASSUME NEW j \in jobs, BlockPosted(j)
      PROVE  AnswerTypes' /\ AddressInv'
  <2>1. PICK v \in j.left :
          jobs' = (jobs \ {j}) \cup {[j EXCEPT !.left = j.left \ {v}]}
    BY <1>16 DEF BlockPosted, Change
  <2> DEFINE k == [j EXCEPT !.left = j.left \ {v}]
  <2>2. k \in Job /\ k.to = j.to /\ k.verb = j.verb /\ k.step = j.step
    <3>1. j \in Job /\ j.left \ {v} \in SUBSET Verifiers
      BY AnswerType
    <3> QED BY <3>1 DEF Job
  <2>3. jobs' = (jobs \ {j}) \cup {k}
    BY <2>1
  <2> HIDE DEF k
  <2> QED
    BY <1>16, <2>2, <2>3
       DEF BlockPosted, textVars, pastVars, AnswerTypes, AddressInv
<1>17. ASSUME NEW j \in jobs, BlockEnds(j)
      PROVE  AnswerTypes' /\ AddressInv'
  BY <1>17 DEF BlockEnds, textVars, AnswerTypes, AddressInv
<1>18. CASE Crash
  BY <1>18 DEF Crash, textVars, pastVars, AnswerTypes, AddressInv
<1>19. CASE UNCHANGED vars
  BY <1>19 DEF vars, textVars, pastVars, AnswerTypes, AddressInv
<1> QED
  BY AnswersAssumption, <1>1, <1>2, <1>3, <1>4, <1>5, <1>6, <1>7, <1>8, <1>9,
     <1>10, <1>11, <1>12, <1>13, <1>14, <1>15, <1>16, <1>17, <1>18, <1>19
     DEF Next, BareWords

(* An answer goes on, and one is given up.                                 *)
LEMMA AnswerGoesOn ==
  ASSUME JobInv, NEW j \in jobs, NEW k, k.text = j.text, k.verb = j.verb,
         k.verb = "block" \/ k.to = j.to,
         jobs' = (jobs \ {j}) \cup {k}, UNCHANGED <<texts, routed, verdicts>>
  PROVE  JobInv'
<1>1. \A i \in jobs' :
        /\ (\E r \in routed : /\ r.text = i.text /\ r.verb = i.verb
                              /\ i.verb # "block" => r.answers = i.to)
        /\ i.text <= texts /\ \A v \in verdicts : v.text # i.text
  <2>1. ASSUME NEW i \in jobs
        PROVE  \E r \in routed : /\ r.text = i.text /\ r.verb = i.verb
                                 /\ i.verb # "block" => r.answers = i.to
    BY DEF JobInv, Given
  <2>2. \E r \in routed : /\ r.text = k.text /\ r.verb = k.verb
                          /\ k.verb # "block" => r.answers = k.to
    BY <2>1
  <2> QED BY <2>1, <2>2 DEF JobInv
<1>2. \A i, l \in jobs' : i.text = l.text => i = l
  BY DEF JobInv
<1> QED BY <1>1, <1>2 DEF JobInv, Given

(* Answers that are given up leave the other ones as they were.            *)
LEMMA AnswerGivenUp ==
  ASSUME JobInv, jobs' \subseteq jobs, UNCHANGED <<texts, routed, verdicts>>
  PROVE  JobInv'
BY DEF JobInv, Given

(* An answer reaches the relay.                                            *)
LEMMA AnswerDelivered ==
  ASSUME JobInv, VerdictsWereGiven, NEW j \in jobs, j.verb # "block",
         jobs' = jobs \ {j}, Deliver(j), UNCHANGED <<texts, routed>>
  PROVE  JobInv' /\ VerdictsWereGiven'
<1> DEFINE w == [text |-> j.text, verb |-> j.verb, to |-> j.to]
<1>1. verdicts' = verdicts \cup {w}
  BY DEF Deliver
<1>2. w.text = j.text /\ w.verb = j.verb /\ w.to = j.to
  OBVIOUS
<1> HIDE DEF w
<1>3. \A v \in verdicts : v.text # w.text
  BY <1>2 DEF JobInv
<1>4. \E r \in routed : r.text = w.text /\ r.verb = w.verb /\ r.answers = w.to
  BY <1>2 DEF JobInv, Given
<1>5. VerdictsWereGiven'
  BY <1>1, <1>3, <1>4 DEF VerdictsWereGiven
<1>6. \A i \in jobs' : i.text # w.text
  BY <1>2 DEF JobInv
<1>7. w.text <= texts
  BY <1>2 DEF JobInv
<1> QED BY <1>1, <1>5, <1>6, <1>7 DEF JobInv, Given

(* A text is routed, and may give an answer.                               *)
LEMMA TextRouted ==
  ASSUME JobInv, AnswerTypes, NEW verb, NEW to, texts' = texts + 1,
         Schedule(verb, to) \/ UNCHANGED jobs,
         routed' = routed \cup
           {[text |-> texts + 1, verb |-> verb, answers |-> to]},
         UNCHANGED verdicts
  PROVE  JobInv'
<1> DEFINE new == [text |-> texts + 1, verb |-> verb, to |-> to,
                   step |-> "scheduled", left |-> {}]
           how == [text |-> texts + 1, verb |-> verb, answers |-> to]
<1>1. /\ jobs' \subseteq jobs \cup {new}
      /\ how \in routed' /\ routed \subseteq routed'
  BY DEF Schedule
<1>2. /\ new.text = texts + 1 /\ new.verb = verb /\ new.to = to
      /\ how.text = texts + 1 /\ how.verb = verb /\ how.answers = to
  OBVIOUS
<1> HIDE DEF new, how
<1>3. /\ texts \in Nat /\ texts' = texts + 1
      /\ \A v \in verdicts : v.text \in Nat
      /\ \A i \in jobs : i.text \in Nat
  BY BoundsAssumption DEF AnswerTypes, Job, Verdict
<1>4. \E r \in routed' : /\ r.text = new.text /\ r.verb = new.verb
                         /\ new.verb # "block" => r.answers = new.to
  BY <1>1, <1>2
<1>5. \A i \in jobs :
        \E r \in routed' : /\ r.text = i.text /\ r.verb = i.verb
                           /\ i.verb # "block" => r.answers = i.to
  BY <1>1 DEF JobInv, Given
<1>6. ASSUME NEW i \in jobs'
      PROVE  i.text <= texts' /\ \A v \in verdicts : v.text # i.text
  <2>1. CASE i \in jobs
    BY <1>3, <2>1 DEF JobInv
  <2>2. CASE i = new
    <3>1. ASSUME NEW v \in verdicts PROVE v.text # i.text
      BY <1>2, <1>3, <2>2 DEF JobInv
    <3> QED BY <1>2, <1>3, <2>2, <3>1
  <2> QED BY <1>1, <2>1, <2>2
<1>7. \A i, k \in jobs' : i.text = k.text => i = k
  BY <1>1, <1>2, <1>3 DEF JobInv
<1>8. \A v \in verdicts : v.text <= texts'
  BY <1>3 DEF JobInv
<1> QED BY <1>1, <1>4, <1>5, <1>6, <1>7, <1>8 DEF JobInv, Given

(* A text gives one answer at most, which is the one that was meant.       *)
LEMMA VerdictStep ==
  AnswerTypes /\ AddressInv /\ JobInv /\ VerdictsWereGiven /\ [Next]_vars
    => JobInv' /\ VerdictsWereGiven'
<1> SUFFICES ASSUME AnswerTypes, AddressInv, JobInv, VerdictsWereGiven,
                    [Next]_vars
             PROVE  JobInv' /\ VerdictsWereGiven'
  OBVIOUS
<1>1. ASSUME NEW i \in Intros, IntroBegins(i)
      PROVE  JobInv' /\ VerdictsWereGiven'
  <2>1. jobs' \subseteq jobs /\ UNCHANGED <<texts, routed, verdicts>>
    BY <1>1 DEF IntroBegins, textVars, pastVars
  <2> QED BY <2>1, AnswerGivenUp DEF VerdictsWereGiven
<1>2. CASE IntroStored
  <2>1. jobs' \subseteq jobs /\ UNCHANGED <<texts, routed, verdicts>>
    BY <1>2 DEF IntroStored, textVars, pastVars
  <2> QED BY <2>1, AnswerGivenUp DEF VerdictsWereGiven
<1>3. CASE IntroDropped
  <2>1. jobs' \subseteq jobs /\ UNCHANGED <<texts, routed, verdicts>>
    BY <1>3 DEF IntroDropped, textVars, pastVars
  <2> QED BY <2>1, AnswerGivenUp DEF VerdictsWereGiven
<1>4. ASSUME NEW v \in Verifiers, TrustVerifier(v)
      PROVE  JobInv' /\ VerdictsWereGiven'
  <2>1. texts' = texts + 1 /\ UNCHANGED <<jobs, routed, verdicts>>
    BY <1>4 DEF TrustVerifier, pastVars
  <2>2. texts \in Nat /\ (\A w \in verdicts : w.text \in Nat)
        /\ \A i \in jobs : i.text \in Nat
    BY BoundsAssumption DEF AnswerTypes, Job, Verdict
  <2> QED BY <2>1, <2>2 DEF JobInv, Given, VerdictsWereGiven
<1>5. ASSUME NEW v \in Verifiers, DistrustVerifier(v)
      PROVE  JobInv' /\ VerdictsWereGiven'
  <2>1. texts' = texts + 1 /\ UNCHANGED <<jobs, routed, verdicts>>
    BY <1>5 DEF DistrustVerifier, pastVars
  <2>2. texts \in Nat /\ (\A w \in verdicts : w.text \in Nat)
        /\ \A i \in jobs : i.text \in Nat
    BY BoundsAssumption DEF AnswerTypes, Job, Verdict
  <2> QED BY <2>1, <2>2 DEF JobInv, Given, VerdictsWereGiven
<1>6. ASSUME NEW q \in Proposals, ProposalArrives(q)
      PROVE  JobInv' /\ VerdictsWereGiven'
  <2>1. jobs' \subseteq jobs /\ UNCHANGED <<texts, routed, verdicts>>
    BY <1>6 DEF ProposalArrives, textVars, pastVars
  <2> QED BY <2>1, AnswerGivenUp DEF VerdictsWereGiven
<1>7. ASSUME NEW g \in Groups, NEW seen \in SUBSET Channels,
             NEW noted \in SUBSET Channels, NEW read \in {contexts, {}},
             ShowGroupMessage(g, seen, noted, read)
      PROVE  JobInv' /\ VerdictsWereGiven'
  <2>1. jobs' \subseteq jobs /\ UNCHANGED <<texts, routed, verdicts>>
    BY <1>7 DEF ShowGroupMessage, textVars, pastVars
  <2> QED BY <2>1, AnswerGivenUp DEF VerdictsWereGiven
<1>8. CASE ContextExpires
  <2>1. jobs' \subseteq jobs /\ UNCHANGED <<texts, routed, verdicts>>
    BY <1>8 DEF ContextExpires, textVars, pastVars
  <2> QED BY <2>1, AnswerGivenUp DEF VerdictsWereGiven
<1>9. ASSUME NEW c \in Channels, NEW verb \in Verbs, NEW queued \in BOOLEAN,
             Text(c, verb, queued)
      PROVE  JobInv' /\ VerdictsWereGiven'
  <2> DEFINE answer == IF Bridged(c, queued) /\ ~AllHooksRun
                       THEN None ELSE ConsentFor(verb)
  <2>1. /\ texts' = texts + 1
        /\ Schedule(verb, answer) \/ UNCHANGED jobs
        /\ routed' = routed \cup
             {[text |-> texts + 1, verb |-> verb, answers |-> answer]}
        /\ UNCHANGED verdicts
    BY <1>9 DEF Text, pastVars
  <2> HIDE DEF answer
  <2>2. JobInv'
    BY <2>1, TextRouted
  <2> QED BY <2>1, <2>2 DEF VerdictsWereGiven
<1>10. ASSUME NEW verb \in BareWords,
              NEW to \in IF verb = "block" THEN Searchers ELSE Nonces,
             Command(verb, to)
      PROVE  JobInv' /\ VerdictsWereGiven'
  <2>1. /\ texts' = texts + 1 /\ Schedule(verb, to) /\ UNCHANGED verdicts
        /\ routed' = routed \cup
             {[text |-> texts + 1, verb |-> verb, answers |-> to]}
    BY <1>10 DEF Command, pastVars
  <2>2. JobInv'
    BY <2>1, TextRouted
  <2> QED BY <2>1, <2>2 DEF VerdictsWereGiven
<1>11. ASSUME NEW j \in jobs, AnswerBegins(j)
      PROVE  JobInv' /\ VerdictsWereGiven'
  <2> DEFINE k == [j EXCEPT !.step = "sending", !.to = j.to]
  <2>1. k.text = j.text /\ k.verb = j.verb /\ k.to = j.to
    BY AnswerType, JobChange
  <2>2. jobs' = (jobs \ {j}) \cup {k} /\ UNCHANGED <<texts, routed, verdicts>>
    BY <1>11 DEF AnswerBegins, AnswerTarget, Change, textVars, pastVars
  <2> HIDE DEF k
  <2> QED BY <2>1, <2>2, AnswerGoesOn DEF VerdictsWereGiven
<1>12. ASSUME NEW j \in jobs, AnswerTooLate(j)
      PROVE  JobInv' /\ VerdictsWereGiven'
  <2>1. jobs' \subseteq jobs /\ UNCHANGED <<texts, routed, verdicts>>
    BY <1>12 DEF AnswerTooLate, textVars, pastVars
  <2> QED BY <2>1, AnswerGivenUp DEF VerdictsWereGiven
<1>13. ASSUME NEW j \in jobs, AnswerSent(j)
      PROVE  JobInv' /\ VerdictsWereGiven'
  BY <1>13, AnswerDelivered DEF AnswerSent, textVars
<1>14. ASSUME NEW j \in jobs, AnswerFails(j)
      PROVE  JobInv' /\ VerdictsWereGiven'
  <2>1. /\ j.verb # "block" /\ jobs' = jobs \ {j}
        /\ Deliver(j) \/ UNCHANGED verdicts
        /\ UNCHANGED <<texts, routed>>
    BY <1>14 DEF AnswerFails, textVars
  <2>2. CASE Deliver(j)
    BY <2>1, <2>2, AnswerDelivered
  <2>3. CASE UNCHANGED verdicts
    BY <2>1, <2>3, AnswerGivenUp DEF VerdictsWereGiven
  <2> QED BY <2>1, <2>2, <2>3
<1>15. ASSUME NEW j \in jobs, BlockBegins(j)
      PROVE  JobInv' /\ VerdictsWereGiven'
  <2> DEFINE brokers == {VerifierOf[i] : i \in RowsOf(ToBlock(j))}
             domains == IF brokers = {} THEN trusted ELSE brokers
             k == [j EXCEPT !.step = "sending", !.to = ToBlock(j),
                            !.left = domains]
  <2>1. /\ j.verb = "block" /\ jobs' \in {jobs \ {j}, (jobs \ {j}) \cup {k}}
        /\ UNCHANGED <<texts, routed, verdicts>>
    BY <1>15 DEF BlockBegins, Change, textVars, pastVars
  <2>2. k.text = j.text /\ k.verb = j.verb
    <3> HIDE DEF domains
    <3> QED BY AnswerType DEF Job
  <2> HIDE DEF k
  <2>3. CASE jobs' = jobs \ {j}
    BY <2>1, <2>3, AnswerGivenUp DEF VerdictsWereGiven
  <2>4. CASE jobs' = (jobs \ {j}) \cup {k}
    BY <2>1, <2>2, <2>4, AnswerGoesOn DEF VerdictsWereGiven
  <2> QED BY <2>1, <2>3, <2>4
<1>16. ASSUME NEW j \in jobs, BlockPosted(j)
      PROVE  JobInv' /\ VerdictsWereGiven'
  <2>1. PICK v \in j.left :
          jobs' = (jobs \ {j}) \cup {[j EXCEPT !.left = j.left \ {v}]}
    BY <1>16 DEF BlockPosted, Change
  <2> DEFINE k == [j EXCEPT !.left = j.left \ {v}]
  <2>2. k.to = j.to /\ k.verb = j.verb /\ k.text = j.text
    BY AnswerType DEF Job
  <2>3. jobs' = (jobs \ {j}) \cup {k} /\ UNCHANGED <<texts, routed, verdicts>>
    BY <1>16, <2>1 DEF BlockPosted, textVars, pastVars
  <2> HIDE DEF k
  <2> QED BY <2>2, <2>3, AnswerGoesOn DEF VerdictsWereGiven
<1>17. ASSUME NEW j \in jobs, BlockEnds(j)
      PROVE  JobInv' /\ VerdictsWereGiven'
  <2>1. jobs' \subseteq jobs /\ UNCHANGED <<texts, routed, verdicts>>
    BY <1>17 DEF BlockEnds, textVars
  <2> QED BY <2>1, AnswerGivenUp DEF VerdictsWereGiven
<1>18. CASE Crash
  <2>1. jobs' \subseteq jobs /\ UNCHANGED <<texts, routed, verdicts>>
    BY <1>18 DEF Crash, textVars, pastVars
  <2> QED BY <2>1, AnswerGivenUp DEF VerdictsWereGiven
<1>19. CASE UNCHANGED vars
  <2>1. jobs' \subseteq jobs /\ UNCHANGED <<texts, routed, verdicts>>
    BY <1>19 DEF vars, textVars, pastVars
  <2> QED BY <2>1, AnswerGivenUp DEF VerdictsWereGiven
<1> QED
  BY AnswersAssumption, <1>1, <1>2, <1>3, <1>4, <1>5, <1>6, <1>7, <1>8, <1>9,
     <1>10, <1>11, <1>12, <1>13, <1>14, <1>15, <1>16, <1>17, <1>18, <1>19
     DEF Next, BareWords

-----------------------------------------------------------------------------
(* The invariant holds initially.                                          *)
LEMMA InitInv == Init => IInv
<1> SUFFICES ASSUME Init PROVE IInv
  OBVIOUS
<1>1. /\ handling = None /\ pending = {} /\ contexts = {} /\ jobs = {}
      /\ texts = 0 /\ shownCount = 0 /\ routed = {} /\ verdicts = {}
      /\ arrived = {} /\ overtaken = {} /\ blocked = {} /\ trusted = Verifiers
      /\ shown = [c \in Channels |-> None]
  BY DEF Init
<1>2. IsFiniteSet({}) /\ Cardinality({}) = 0
  BY FS_EmptySet
<1>3. IntroTypes /\ RowInv /\ HandlingInv
  BY <1>1, <1>2 DEF IntroTypes, RowInv, Rows, HandlingInv
<1>4. ContextTypes /\ LatestInv
  BY <1>1, <1>2, BoundsAssumption DEF ContextTypes, LatestInv
<1>5. AnswerTypes /\ AddressInv /\ JobInv
  BY <1>1, BoundsAssumption DEF AnswerTypes, AddressInv, JobInv
<1>6. VerdictsWereGiven
  BY <1>1 DEF VerdictsWereGiven
<1> QED BY <1>3, <1>4, <1>5, <1>6, TypeParts DEF IInv

(* Every step preserves the invariant.                                     *)
LEMMA StepInv == IInv /\ [Next]_vars => IInv'
<1> SUFFICES ASSUME IInv, [Next]_vars PROVE IInv'
  OBVIOUS
<1>1. IntroTypes /\ ContextTypes /\ AnswerTypes
  BY TypeParts DEF IInv
<1>2. IntroTypes' /\ RowInv' /\ HandlingInv'
  BY <1>1, IntroStep, HandlingStep DEF IInv
<1>3. ContextTypes' /\ LatestInv'
  BY <1>1, ContextStep DEF IInv
<1>4. AnswerTypes' /\ AddressInv'
  BY <1>1, AnswerStep DEF IInv
<1>5. JobInv' /\ VerdictsWereGiven'
  BY <1>1, VerdictStep DEF IInv
<1>6. TypeOK'
  BY <1>2, <1>3, <1>4, TypeParts
     DEF IntroTypes, ContextTypes, AnswerTypes, TypeOK
<1> QED BY <1>2, <1>3, <1>4, <1>5, <1>6 DEF IInv

(* The invariant holds always.                                             *)
LEMMA SpecInv == Spec => []IInv
BY InitInv, StepInv, PTL DEF Spec

-----------------------------------------------------------------------------
(* Rows, contexts, answers and what becomes of a text have their types;    *)
(* the file of contexts keeps to its cap (src/mirror.py).                  *)
THEOREM TypeCorrect == Spec => []TypeOK
<1>1. IInv => TypeOK
  BY DEF IInv
<1> QED BY SpecInv, <1>1, PTL

(* Every answer that reached the relay was given by the user in a text of  *)
(* its own, for what the text was taken to answer (src/_runtime.py).       *)
THEOREM AnswersAreMeant == Spec => []VerdictsWereGiven
<1>1. IInv => VerdictsWereGiven
  BY DEF IInv
<1> QED BY SpecInv, <1>1, PTL

(* A reply that is bridged goes to the group shown last on its channel,    *)
(* for every size of the file, if that message was both shown and recorded *)
(* there, whatever failed on other channels (src/mirror.py).               *)
THEOREM RepliesGoHome == Spec => []RepliesReachLatestGroup
<1>1. IInv => RepliesReachLatestGroup
  BY TypeParts, GroupForLatest DEF IInv, RepliesReachLatestGroup
<1> QED BY SpecInv, <1>1, PTL

(* What PromptsFromTrusted and IntroKeptUntilAnswered say of a step.       *)
Prompted ==
  \A i \in (Rows' \ Rows) \cap Intros :
    VerifierOf[i] \in trusted \/ i \in overtaken

Resolved ==
  \A i \in (Rows \ Rows') \cap Intros :
     \/ \E v \in verdicts' : v.to = i
     \/ SearcherOf[i] \in blocked'

(* A row of an introduction is stored for a trusted verifier only.         *)
LEMMA PromptStep ==
  IntroTypes /\ RowInv /\ HandlingInv /\ [Next]_vars => Prompted
<1> SUFFICES ASSUME IntroTypes, RowInv, HandlingInv, [Next]_vars
             PROVE  Prompted
  OBVIOUS
<1>1. ASSUME NEW i \in Intros, IntroBegins(i)
      PROVE  Prompted
  BY <1>1 DEF IntroBegins, Rows, Prompted
<1>2. CASE IntroStored
  <2>1. handling \in Nonces /\ handling \in arrived \ Rows
    /\ arrived' = arrived
        /\ pending' = Stored(handling, Intros)
    BY <1>2 DEF IntroStored, IntroTypes, RowInv, Nonces
  <2>2. Rows' = Rows \cup {handling}
    BY <2>1, RowsAfterStore DEF RowInv
  <2> QED BY <1>2, <2>2 DEF IntroStored, HandlingInv, Prompted
<1>3. CASE IntroDropped
  BY <1>3 DEF IntroDropped, Rows, Prompted
<1>4. ASSUME NEW v \in Verifiers, TrustVerifier(v)
      PROVE  Prompted
  BY <1>4 DEF TrustVerifier, Rows, Prompted
<1>5. ASSUME NEW v \in Verifiers, DistrustVerifier(v)
      PROVE  Prompted
  BY <1>5 DEF DistrustVerifier, Rows, Prompted
<1>6. ASSUME NEW q \in Proposals, ProposalArrives(q)
      PROVE  Prompted
  <2>1. Rows' \subseteq Rows \cup {q}
    BY <1>6 DEF ProposalArrives, Stored, Rows
  <2> QED BY <2>1, IntrosAssumption DEF Prompted
<1>7. ASSUME NEW g \in Groups, NEW seen \in SUBSET Channels,
             NEW noted \in SUBSET Channels, NEW read \in {contexts, {}},
             ShowGroupMessage(g, seen, noted, read)
      PROVE  Prompted
  BY <1>7 DEF ShowGroupMessage, Rows, Prompted
<1>8. CASE ContextExpires
  BY <1>8 DEF ContextExpires, Rows, Prompted
<1>9. ASSUME NEW c \in Channels, NEW verb \in Verbs, NEW queued \in BOOLEAN,
             Text(c, verb, queued)
      PROVE  Prompted
  BY <1>9 DEF Text, Rows, Prompted
<1>10. ASSUME NEW verb \in BareWords,
              NEW to \in IF verb = "block" THEN Searchers ELSE Nonces,
             Command(verb, to)
      PROVE  Prompted
  BY <1>10 DEF Command, Rows, Prompted
<1>11. ASSUME NEW j \in jobs, AnswerBegins(j)
      PROVE  Prompted
  <2>1. pending' \subseteq pending
    BY <1>11 DEF AnswerBegins, Without
  <2> QED BY <2>1 DEF Rows, Prompted
<1>12. ASSUME NEW j \in jobs, AnswerTooLate(j)
      PROVE  Prompted
  BY <1>12 DEF AnswerTooLate, Rows, Prompted
<1>13. ASSUME NEW j \in jobs, AnswerSent(j)
      PROVE  Prompted
  BY <1>13 DEF AnswerSent, Without, Rows, Prompted
<1>14. ASSUME NEW j \in jobs, AnswerFails(j)
      PROVE  Prompted
  BY <1>14 DEF AnswerFails, Rows, Prompted
<1>15. ASSUME NEW j \in jobs, BlockBegins(j)
      PROVE  Prompted
  BY <1>15 DEF BlockBegins, Rows, Prompted
<1>16. ASSUME NEW j \in jobs, BlockPosted(j)
      PROVE  Prompted
  BY <1>16 DEF BlockPosted, Rows, Prompted
<1>17. ASSUME NEW j \in jobs, BlockEnds(j)
      PROVE  Prompted
  BY <1>17 DEF BlockEnds, Without, Rows, Prompted
<1>18. CASE Crash
  BY <1>18 DEF Crash, Rows, Prompted
<1>19. CASE UNCHANGED vars
  BY <1>19 DEF vars, Rows, Prompted
<1> QED
  BY AnswersAssumption, <1>1, <1>2, <1>3, <1>4, <1>5, <1>6, <1>7, <1>8, <1>9,
     <1>10, <1>11, <1>12, <1>13, <1>14, <1>15, <1>16, <1>17, <1>18, <1>19
     DEF Next, BareWords

(* A row of an introduction goes with an answer or a block.                *)
LEMMA ResolveStep == IntroTypes /\ RowInv /\ [Next]_vars => Resolved
<1> SUFFICES ASSUME IntroTypes, RowInv, [Next]_vars PROVE Resolved
  OBVIOUS
<1>1. ASSUME NEW i \in Intros, IntroBegins(i)
      PROVE  Resolved
  BY <1>1 DEF IntroBegins, Rows, Resolved
<1>2. CASE IntroStored
  BY <1>2 DEF IntroStored, Stored, Rows, Resolved
<1>3. CASE IntroDropped
  BY <1>3 DEF IntroDropped, Rows, Resolved
<1>4. ASSUME NEW v \in Verifiers, TrustVerifier(v)
      PROVE  Resolved
  BY <1>4 DEF TrustVerifier, Rows, Resolved
<1>5. ASSUME NEW v \in Verifiers, DistrustVerifier(v)
      PROVE  Resolved
  BY <1>5 DEF DistrustVerifier, Rows, Resolved
<1>6. ASSUME NEW q \in Proposals, ProposalArrives(q)
      PROVE  Resolved
  BY <1>6 DEF ProposalArrives, Stored, Rows, Resolved
<1>7. ASSUME NEW g \in Groups, NEW seen \in SUBSET Channels,
             NEW noted \in SUBSET Channels, NEW read \in {contexts, {}},
             ShowGroupMessage(g, seen, noted, read)
      PROVE  Resolved
  BY <1>7 DEF ShowGroupMessage, Rows, Resolved
<1>8. CASE ContextExpires
  BY <1>8 DEF ContextExpires, Rows, Resolved
<1>9. ASSUME NEW c \in Channels, NEW verb \in Verbs, NEW queued \in BOOLEAN,
             Text(c, verb, queued)
      PROVE  Resolved
  BY <1>9 DEF Text, Rows, Resolved
<1>10. ASSUME NEW verb \in BareWords,
              NEW to \in IF verb = "block" THEN Searchers ELSE Nonces,
             Command(verb, to)
      PROVE  Resolved
  BY <1>10 DEF Command, Rows, Resolved
<1>11. ASSUME NEW j \in jobs, AnswerBegins(j)
      PROVE  Resolved
  <2>1. Rows \ Rows' \subseteq {j.to} \cap Proposals
    BY <1>11 DEF AnswerBegins, AnswerTarget, Without, Rows
  <2> QED BY <2>1, IntrosAssumption DEF Resolved
<1>12. ASSUME NEW j \in jobs, AnswerTooLate(j)
      PROVE  Resolved
  BY <1>12 DEF AnswerTooLate, Rows, Resolved
<1>13. ASSUME NEW j \in jobs, AnswerSent(j)
      PROVE  Resolved
  <2>1. Rows \ Rows' \subseteq {j.to}
    BY <1>13, RowsAfterRemoval DEF AnswerSent
  <2> DEFINE w == [text |-> j.text, verb |-> j.verb, to |-> j.to]
  <2>2. w \in verdicts' /\ w.to = j.to
    BY <1>13 DEF AnswerSent, Deliver
  <2> HIDE DEF w
  <2> QED BY <2>1, <2>2 DEF Resolved
<1>14. ASSUME NEW j \in jobs, AnswerFails(j)
      PROVE  Resolved
  BY <1>14 DEF AnswerFails, Rows, Resolved
<1>15. ASSUME NEW j \in jobs, BlockBegins(j)
      PROVE  Resolved
  BY <1>15 DEF BlockBegins, Rows, Resolved
<1>16. ASSUME NEW j \in jobs, BlockPosted(j)
      PROVE  Resolved
  BY <1>16 DEF BlockPosted, Rows, Resolved
<1>17. ASSUME NEW j \in jobs, BlockEnds(j)
      PROVE  Resolved
  <2>1. Rows \ Rows' \subseteq RowsOf(j.to)
    BY <1>17, RowsAfterRemoval DEF BlockEnds
  <2>2. j.to \in blocked'
    BY <1>17 DEF BlockEnds
  <2> QED BY <2>1, <2>2 DEF Resolved, RowsOf
<1>18. CASE Crash
  BY <1>18 DEF Crash, Rows, Resolved
<1>19. CASE UNCHANGED vars
  BY <1>19 DEF vars, Rows, Resolved
<1> QED
  BY AnswersAssumption, <1>1, <1>2, <1>3, <1>4, <1>5, <1>6, <1>7, <1>8, <1>9,
     <1>10, <1>11, <1>12, <1>13, <1>14, <1>15, <1>16, <1>17, <1>18, <1>19
     DEF Next, BareWords

(* The user is asked to consent only to what a verifier on the trust list  *)
(* relays, or one distrusted while its introduction was being checked      *)
(* (src/adapter.py, _handle_discovery_introduction_request).               *)
THEOREM PromptsAreTrusted == Spec => PromptsFromTrusted
<1>1. IInv /\ [Next]_vars
        => [\A i \in (Rows' \ Rows) \cap Intros :
              VerifierOf[i] \in trusted \/ i \in overtaken]_pending
  BY TypeParts, PromptStep DEF IInv, Prompted
<1> QED BY SpecInv, <1>1, PTL DEF Spec, PromptsFromTrusted

(* An introduction is pending until an answer to it was sent or its        *)
(* searcher blocked (src/commands.py, _discover_approve, _discover_block). *)
THEOREM IntrosAreKept == Spec => IntroKeptUntilAnswered
<1>1. IInv /\ [Next]_vars
        => [\A i \in (Rows \ Rows') \cap Intros :
              \/ \E v \in verdicts' : v.to = i
              \/ SearcherOf[i] \in blocked']_pending
  BY TypeParts, ResolveStep DEF IInv, Resolved
<1> QED BY SpecInv, <1>1, PTL DEF Spec, IntroKeptUntilAnswered
=============================================================================
