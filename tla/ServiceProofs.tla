---------------------------- MODULE ServiceProofs ----------------------------
(***************************************************************************)
(* Proofs about ServiceRequests for any calls, agents and number of        *)
(* responses.  Whose turn an answer opens does not depend on who else      *)
(* writes the file; that a record is neither lost nor used twice does, and *)
(* is proved for one event loop (~ToolThreads).                            *)
(***************************************************************************)
EXTENDS ServiceRequests, TLAPS

(* The nonces whose record was written: the tool has returned.             *)
Filed == {c \in Calls : pc[c] = "sent"}

(* The file and every copy of it hold nonces that were filed; a nonce is   *)
(* filed by its own call only.                                             *)
FiledInv ==
  /\ origins \subseteq Filed /\ handlerSnapshot \subseteq Filed
  /\ \A c \in Calls : snapshot[c] \subseteq Filed

(* What the handler is about is a response, and once it has left pop_if,   *)
(* one of the agent the request was sent to.                               *)
HandlerInv ==
  /\ handlerPc # "idle" => handling \in Response
  /\ handlerPc = "blind" => handlerSnapshot = {}
  /\ handlerPc \in {"routing", "turn"} =>
       handling.nonce \in Filed /\ handling.iss = Target[handling.nonce]
  /\ \A r \in dispatched : r.nonce \in Filed /\ r.iss = Target[r.nonce]

(* With one event loop, at most one access to the file is between its read *)
(* and its write, and what it has read is the file, but for aged records   *)
(* and an unreadable file.                                                 *)
AloneInv ==
  /\ Popping => \A c \in Calls : ~Recording(c)
  /\ \A c, d \in Calls : Recording(c) /\ Recording(d) => c = d
  /\ handlerPc = "looking" => origins \subseteq handlerSnapshot \cup aged
  /\ \A c \in Calls : pc[c] = "loaded" =>
       origins \subseteq snapshot[c] \cup aged

(* The record of n is used up: it has opened a turn, or is about to.       *)
Spent(n) ==
  \/ \E r \in dispatched : r.nonce = n
  \/ handlerPc = "routing" /\ handling.nonce = n

(* A record that is used up, and whose deletion reached the disk, is in no *)
(* copy of the file; so no response is routed to it again.                 *)
SpentInv ==
  /\ \A n \in Calls \ unwritten : Spent(n) =>
       /\ n \notin origins
       /\ Popping => n \notin handlerSnapshot
       /\ \A c \in Calls : Recording(c) => n \notin snapshot[c]
  /\ handlerPc = "routing" =>
       \A r \in dispatched : r.nonce = handling.nonce => r.nonce \in unwritten

OneLoopInv == AloneInv /\ SpentInv /\ OneTurnPerRequest

IInv == TypeOK /\ FiledInv /\ HandlerInv /\ (~ToolThreads => OneLoopInv)

-----------------------------------------------------------------------------
(* The strengthened invariant holds initially.                             *)
LEMMA IInvInit == Init => IInv
<1> SUFFICES ASSUME Init PROVE IInv
  OBVIOUS
<1>1. TypeOK
  BY ResponsesAssumption DEF Init, TypeOK
<1>2. FiledInv /\ HandlerInv
  BY DEF Init, FiledInv, HandlerInv
<1>3. OneLoopInv
  BY DEF Init, Recording, Popping, OneLoopInv, AloneInv, SpentInv, Spent,
         OneTurnPerRequest
<1> QED BY <1>1, <1>2, <1>3 DEF IInv

(* What the handler has in hand, while it has something.                   *)
LEMMA HandlingType ==
  ASSUME HandlerInv, handlerPc # "idle"
  PROVE  /\ handling \in Response
         /\ handling.nonce \in Calls /\ handling.iss \in Peers
BY DEF HandlerInv, Response

(* A call that has returned stays so.                                      *)
FiledGrows == Filed \subseteq Filed'

(* What record writes: nothing that it has read gets lost.                 *)
LEMMA RecordStep ==
  ASSUME NEW c \in Calls, NEW ok \in BOOLEAN, ToolWritesFile(c, ok)
  PROVE  /\ origins' \subseteq origins \cup snapshot[c] \cup {c}
         /\ origins \cap snapshot[c] \subseteq origins'
<1>1. CASE ok
  BY <1>1 DEF ToolWritesFile, Save
<1>2. CASE ~ok
  BY <1>2 DEF ToolWritesFile, Save
<1> QED BY <1>1, <1>2

(* What pop_if writes: of what it has read only the record that matches    *)
(* goes, and if it stays on disk, that is known.                           *)
LEMMA PopStep ==
  ASSUME NEW ok \in BOOLEAN, HandlerWritesFile(ok), TypeOK, HandlerInv
  PROVE  /\ Popping /\ handling \in Response
         /\ handling.nonce \in Calls
         /\ origins' \subseteq origins \cup handlerSnapshot
         /\ unwritten' \in SUBSET Calls /\ unwritten \subseteq unwritten'
         /\ dropped' \in SUBSET Response
         /\ \/ /\ Matches(handling, handlerSnapshot)
               /\ handlerPc' = "routing"
               /\ origins \cap handlerSnapshot
                     \subseteq origins' \cup {handling.nonce}
               /\ \/ handling.nonce \in unwritten'
                  \/ origins' = handlerSnapshot \ {handling.nonce}
            \/ /\ ~Matches(handling, handlerSnapshot)
               /\ handlerPc' = "idle"
               /\ origins \cap handlerSnapshot \subseteq origins'
<1>1. Popping /\ handling \in Response
  BY DEF HandlerWritesFile, Popping, HandlerInv
<1>2. handling.nonce \in Calls
  BY <1>1 DEF Response
<1>3. CASE Matches(handling, handlerSnapshot)
  <2>1. CASE ok
    BY <1>1, <1>2, <1>3, <2>1 DEF HandlerWritesFile, Save, AfterPop, TypeOK
  <2>2. CASE ~ok
    BY <1>1, <1>2, <1>3, <2>2 DEF HandlerWritesFile, Save, AfterPop, TypeOK
  <2> QED BY <2>1, <2>2
<1>4. CASE ~Matches(handling, handlerSnapshot)
  <2>1. CASE ok
    BY <1>1, <1>2, <1>4, <2>1 DEF HandlerWritesFile, Save, AfterPop, TypeOK
  <2>2. CASE ~ok
    BY <1>1, <1>2, <1>4, <2>2 DEF HandlerWritesFile, Save, AfterPop, TypeOK
  <2> QED BY <2>1, <2>2
<1> QED BY <1>3, <1>4

(* Every action preserves the types.                                       *)
LEMMA TypeStep == TypeOK /\ HandlerInv /\ [Next]_vars => TypeOK'
<1> SUFFICES ASSUME TypeOK, HandlerInv, [Next]_vars PROVE TypeOK'
  OBVIOUS
<1> USE TargetAssumption, ResponsesAssumption
        DEF vars, toolVars, fileVars, handlerVars, pastVars, respVars
<1>1. ASSUME NEW c \in Calls, Refuse(c)
      PROVE  TypeOK'
  BY <1>1 DEF Refuse, TypeOK
<1>2. ASSUME NEW c \in Calls, Send(c)
      PROVE  TypeOK'
  BY <1>2 DEF Send, TypeOK
<1>3. ASSUME NEW c \in Calls, RelayAccepts(c)
      PROVE  TypeOK'
  BY <1>3 DEF RelayAccepts, TypeOK
<1>4. ASSUME NEW c \in Calls, SendFails(c)
      PROVE  TypeOK'
  BY <1>4 DEF SendFails, TypeOK
<1>5. ASSUME NEW c \in Calls, ToolSkipsOrigin(c)
      PROVE  TypeOK'
  BY <1>5 DEF ToolSkipsOrigin, TypeOK
<1>6. ASSUME NEW c \in Calls, NEW readable \in BOOLEAN,
             ToolReadsFile(c, readable)
      PROVE  TypeOK'
  <2>1. PrunedFile(readable) \in SUBSET Calls
        /\ Disturbed(readable) \in SUBSET Calls
    BY DEF PrunedFile, Disturbed, TypeOK
  <2> QED BY <1>6, <2>1 DEF ToolReadsFile, TypeOK
<1>7. ASSUME NEW c \in Calls, NEW ok \in BOOLEAN, ToolWritesFile(c, ok)
      PROVE  TypeOK'
  BY <1>7 DEF ToolWritesFile, Save, TypeOK
<1>8. ASSUME NEW c \in Calls, Age(c)
      PROVE  TypeOK'
  BY <1>8 DEF Age, TypeOK
<1>9. ASSUME NEW c \in Calls, BusinessResponds(c)
      PROVE  TypeOK'
  <2>1. [id |-> issued + 1, nonce |-> c, iss |-> Target[c]] \in Response
    BY <1>9 DEF BusinessResponds, TypeOK, Response
  <2> QED BY <1>9, <2>1 DEF BusinessResponds, TypeOK
<1>10. ASSUME NEW c \in Calls, NEW p \in Peers, OtherPeerResponds(p, c)
      PROVE  TypeOK'
  <2>1. [id |-> issued + 1, nonce |-> c, iss |-> p] \in Response
    BY <1>10 DEF OtherPeerResponds, TypeOK, Response
  <2> QED BY <1>10, <2>1 DEF OtherPeerResponds, TypeOK
<1>11. ASSUME NEW r \in net, NEW readable \in BOOLEAN,
              HandlerReadsFile(r, readable)
      PROVE  TypeOK'
  <2>1. PrunedFile(readable) \in SUBSET Calls
        /\ Disturbed(readable) \in SUBSET Calls
    BY DEF PrunedFile, Disturbed, TypeOK
  <2> QED BY <1>11, <2>1 DEF HandlerReadsFile, TypeOK
<1>12. ASSUME NEW ok \in BOOLEAN, HandlerWritesFile(ok)
      PROVE  TypeOK'
  <2>1. origins' \in SUBSET Calls
    BY <1>12, PopStep DEF TypeOK
  <2> QED BY <1>12, <2>1, PopStep DEF HandlerWritesFile, TypeOK
<1>13. CASE TurnOpens
  BY <1>13, HandlingType DEF TurnOpens, TypeOK
<1>14. CASE NoSession
  BY <1>14, HandlingType DEF NoSession, TypeOK
<1>15. CASE TurnEnds
  BY <1>15 DEF TurnEnds, TypeOK
<1>16. ASSUME NEW polled \in SUBSET net, Crash(polled)
       PROVE  TypeOK'
  <2>1. {r.nonce : r \in polled} \in SUBSET Calls
    BY DEF TypeOK, Response
  <2>2. handlerPc \notin {"idle", "turn"} => handling.nonce \in Calls
    BY HandlingType
  <2>3. cutOff' \in SUBSET Calls
    BY <1>16, <2>1, <2>2 DEF Crash, TypeOK
  <2> QED BY <1>16, <2>3 DEF Crash, Running, TypeOK
<1>17. ASSUME NEW r \in net, Lose(r)
       PROVE  TypeOK'
  <2>1. r.nonce \in Calls
    BY DEF TypeOK, Response
  <2> QED BY <1>17, <2>1 DEF Lose, TypeOK
<1>18. CASE UNCHANGED vars
  BY <1>18 DEF vars, TypeOK
<1> QED
  BY <1>1, <1>2, <1>3, <1>4, <1>5, <1>6, <1>7, <1>8, <1>9, <1>10, <1>11,
     <1>12, <1>13, <1>14, <1>15, <1>16, <1>17, <1>18 DEF Next

(* Once filed, a nonce stays filed.                                        *)
LEMMA GrowStep == TypeOK /\ [Next]_vars => FiledGrows
<1> SUFFICES ASSUME TypeOK, [Next]_vars PROVE FiledGrows
  OBVIOUS
<1> USE TargetAssumption
        DEF vars, toolVars, fileVars, handlerVars, pastVars, respVars
<1>1. ASSUME NEW c \in Calls, Refuse(c)
      PROVE  FiledGrows
  BY <1>1 DEF Refuse, TypeOK, Filed, FiledGrows
<1>2. ASSUME NEW c \in Calls, Send(c)
      PROVE  FiledGrows
  BY <1>2 DEF Send, TypeOK, Filed, FiledGrows
<1>3. ASSUME NEW c \in Calls, RelayAccepts(c)
      PROVE  FiledGrows
  BY <1>3 DEF RelayAccepts, TypeOK, Filed, FiledGrows
<1>4. ASSUME NEW c \in Calls, SendFails(c)
      PROVE  FiledGrows
  BY <1>4 DEF SendFails, TypeOK, Filed, FiledGrows
<1>5. ASSUME NEW c \in Calls, ToolSkipsOrigin(c)
      PROVE  FiledGrows
  BY <1>5 DEF ToolSkipsOrigin, TypeOK, Filed, FiledGrows
<1>6. ASSUME NEW c \in Calls, NEW readable \in BOOLEAN,
             ToolReadsFile(c, readable)
      PROVE  FiledGrows
  BY <1>6 DEF ToolReadsFile, TypeOK, Filed, FiledGrows
<1>7. ASSUME NEW c \in Calls, NEW ok \in BOOLEAN, ToolWritesFile(c, ok)
      PROVE  FiledGrows
  BY <1>7 DEF ToolWritesFile, TypeOK, Filed, FiledGrows
<1>8. ASSUME NEW c \in Calls, Age(c)
      PROVE  FiledGrows
  BY <1>8 DEF Age, TypeOK, Filed, FiledGrows
<1>9. ASSUME NEW c \in Calls, BusinessResponds(c)
      PROVE  FiledGrows
  BY <1>9 DEF BusinessResponds, TypeOK, Filed, FiledGrows
<1>10. ASSUME NEW c \in Calls, NEW p \in Peers, OtherPeerResponds(p, c)
      PROVE  FiledGrows
  BY <1>10 DEF OtherPeerResponds, TypeOK, Filed, FiledGrows
<1>11. ASSUME NEW r \in net, NEW readable \in BOOLEAN,
              HandlerReadsFile(r, readable)
      PROVE  FiledGrows
  BY <1>11 DEF HandlerReadsFile, TypeOK, Filed, FiledGrows
<1>12. ASSUME NEW ok \in BOOLEAN, HandlerWritesFile(ok)
      PROVE  FiledGrows
  BY <1>12 DEF HandlerWritesFile, TypeOK, Filed, FiledGrows
<1>13. CASE TurnOpens
  BY <1>13 DEF TurnOpens, TypeOK, Filed, FiledGrows
<1>14. CASE NoSession
  BY <1>14 DEF NoSession, TypeOK, Filed, FiledGrows
<1>15. CASE TurnEnds
  BY <1>15 DEF TurnEnds, TypeOK, Filed, FiledGrows
<1>16. ASSUME NEW polled \in SUBSET net, Crash(polled)
       PROVE  FiledGrows
  BY <1>16 DEF Crash, Running, TypeOK, Filed, FiledGrows
<1>17. ASSUME NEW r \in net, Lose(r)
       PROVE  FiledGrows
  BY <1>17 DEF Lose, TypeOK, Filed, FiledGrows
<1>18. CASE UNCHANGED vars
  BY <1>18 DEF vars, TypeOK, Filed, FiledGrows
<1> QED
  BY <1>1, <1>2, <1>3, <1>4, <1>5, <1>6, <1>7, <1>8, <1>9, <1>10, <1>11,
     <1>12, <1>13, <1>14, <1>15, <1>16, <1>17, <1>18 DEF Next

(* What is on file was filed by its own call.                              *)
LEMMA FiledStep ==
  TypeOK /\ HandlerInv /\ FiledInv /\ FiledGrows /\ [Next]_vars => FiledInv'
<1> SUFFICES ASSUME TypeOK, HandlerInv, FiledInv, FiledGrows, [Next]_vars
             PROVE  FiledInv'
  OBVIOUS
<1> USE TargetAssumption
        DEF vars, toolVars, fileVars, handlerVars, pastVars, respVars
<1>1. ASSUME NEW c \in Calls, Refuse(c)
      PROVE  FiledInv'
  BY <1>1 DEF Refuse, FiledInv, FiledGrows, TypeOK
<1>2. ASSUME NEW c \in Calls, Send(c)
      PROVE  FiledInv'
  BY <1>2 DEF Send, FiledInv, FiledGrows, TypeOK
<1>3. ASSUME NEW c \in Calls, RelayAccepts(c)
      PROVE  FiledInv'
  BY <1>3 DEF RelayAccepts, FiledInv, FiledGrows, TypeOK
<1>4. ASSUME NEW c \in Calls, SendFails(c)
      PROVE  FiledInv'
  BY <1>4 DEF SendFails, FiledInv, FiledGrows, TypeOK
<1>5. ASSUME NEW c \in Calls, ToolSkipsOrigin(c)
      PROVE  FiledInv'
  BY <1>5 DEF ToolSkipsOrigin, FiledInv, FiledGrows, TypeOK
<1>6. ASSUME NEW c \in Calls, NEW readable \in BOOLEAN,
             ToolReadsFile(c, readable)
      PROVE  FiledInv'
  <2>1. snapshot'[c] \subseteq Filed
    BY <1>6 DEF ToolReadsFile, PrunedFile, FiledInv, TypeOK
  <2> QED BY <1>6, <2>1 DEF ToolReadsFile, FiledInv, FiledGrows, TypeOK
<1>7. ASSUME NEW c \in Calls, NEW ok \in BOOLEAN, ToolWritesFile(c, ok)
      PROVE  FiledInv'
  <2>1. c \in Filed'
    BY <1>7 DEF ToolWritesFile, FiledInv, Filed, TypeOK
  <2>2. origins' \subseteq Filed'
    BY <1>7, <2>1, RecordStep DEF FiledInv, FiledGrows
  <2> QED BY <1>7, <2>2 DEF ToolWritesFile, FiledInv, FiledGrows, TypeOK
<1>8. ASSUME NEW c \in Calls, Age(c)
      PROVE  FiledInv'
  BY <1>8 DEF Age, FiledInv, FiledGrows, TypeOK
<1>9. ASSUME NEW c \in Calls, BusinessResponds(c)
      PROVE  FiledInv'
  BY <1>9 DEF BusinessResponds, FiledInv, FiledGrows, TypeOK
<1>10. ASSUME NEW c \in Calls, NEW p \in Peers, OtherPeerResponds(p, c)
      PROVE  FiledInv'
  BY <1>10 DEF OtherPeerResponds, FiledInv, FiledGrows, TypeOK
<1>11. ASSUME NEW r \in net, NEW readable \in BOOLEAN,
              HandlerReadsFile(r, readable)
      PROVE  FiledInv'
  BY <1>11 DEF HandlerReadsFile, PrunedFile, FiledInv, FiledGrows, TypeOK
<1>12. ASSUME NEW ok \in BOOLEAN, HandlerWritesFile(ok)
      PROVE  FiledInv'
  <2>1. origins' \subseteq Filed
    BY <1>12, PopStep DEF FiledInv
  <2> QED BY <1>12, <2>1 DEF HandlerWritesFile, FiledInv, FiledGrows, TypeOK
<1>13. CASE TurnOpens
  BY <1>13 DEF TurnOpens, FiledInv, FiledGrows, TypeOK
<1>14. CASE NoSession
  BY <1>14 DEF NoSession, FiledInv, FiledGrows, TypeOK
<1>15. CASE TurnEnds
  BY <1>15 DEF TurnEnds, FiledInv, FiledGrows, TypeOK
<1>16. ASSUME NEW polled \in SUBSET net, Crash(polled)
       PROVE  FiledInv'
  BY <1>16 DEF Crash, Running, FiledInv, FiledGrows, TypeOK
<1>17. ASSUME NEW r \in net, Lose(r)
       PROVE  FiledInv'
  BY <1>17 DEF Lose, FiledInv, FiledGrows, TypeOK
<1>18. CASE UNCHANGED vars
  BY <1>18 DEF vars, FiledInv, FiledGrows, TypeOK
<1> QED
  BY <1>1, <1>2, <1>3, <1>4, <1>5, <1>6, <1>7, <1>8, <1>9, <1>10, <1>11,
     <1>12, <1>13, <1>14, <1>15, <1>16, <1>17, <1>18 DEF Next

(* Only an answer of the target to a filed request leaves pop_if.          *)
LEMMA HandlerStep ==
  TypeOK /\ HandlerInv /\ FiledInv /\ FiledGrows /\ [Next]_vars
    => HandlerInv'
<1> SUFFICES ASSUME TypeOK, HandlerInv, FiledInv, FiledGrows, [Next]_vars
             PROVE  HandlerInv'
  OBVIOUS
<1> USE TargetAssumption
        DEF vars, toolVars, fileVars, handlerVars, pastVars, respVars
<1>1. ASSUME NEW c \in Calls, Refuse(c)
      PROVE  HandlerInv'
  BY <1>1 DEF Refuse, HandlerInv, FiledGrows, TypeOK
<1>2. ASSUME NEW c \in Calls, Send(c)
      PROVE  HandlerInv'
  BY <1>2 DEF Send, HandlerInv, FiledGrows, TypeOK
<1>3. ASSUME NEW c \in Calls, RelayAccepts(c)
      PROVE  HandlerInv'
  BY <1>3 DEF RelayAccepts, HandlerInv, FiledGrows, TypeOK
<1>4. ASSUME NEW c \in Calls, SendFails(c)
      PROVE  HandlerInv'
  BY <1>4 DEF SendFails, HandlerInv, FiledGrows, TypeOK
<1>5. ASSUME NEW c \in Calls, ToolSkipsOrigin(c)
      PROVE  HandlerInv'
  BY <1>5 DEF ToolSkipsOrigin, HandlerInv, FiledGrows, TypeOK
<1>6. ASSUME NEW c \in Calls, NEW readable \in BOOLEAN,
             ToolReadsFile(c, readable)
      PROVE  HandlerInv'
  BY <1>6 DEF ToolReadsFile, HandlerInv, FiledGrows, TypeOK
<1>7. ASSUME NEW c \in Calls, NEW ok \in BOOLEAN, ToolWritesFile(c, ok)
      PROVE  HandlerInv'
  BY <1>7 DEF ToolWritesFile, HandlerInv, FiledGrows, TypeOK
<1>8. ASSUME NEW c \in Calls, Age(c)
      PROVE  HandlerInv'
  BY <1>8 DEF Age, HandlerInv, FiledGrows, TypeOK
<1>9. ASSUME NEW c \in Calls, BusinessResponds(c)
      PROVE  HandlerInv'
  BY <1>9 DEF BusinessResponds, HandlerInv, FiledGrows, TypeOK
<1>10. ASSUME NEW c \in Calls, NEW p \in Peers, OtherPeerResponds(p, c)
      PROVE  HandlerInv'
  BY <1>10 DEF OtherPeerResponds, HandlerInv, FiledGrows, TypeOK
<1>11. ASSUME NEW r \in net, NEW readable \in BOOLEAN,
              HandlerReadsFile(r, readable)
      PROVE  HandlerInv'
  <2>1. handlerPc' \in {"looking", "blind"} /\ handling' \in Response
    BY <1>11 DEF HandlerReadsFile, TypeOK
  <2>2. handlerPc' = "blind" => handlerSnapshot' = {}
    BY <1>11 DEF HandlerReadsFile, PrunedFile
  <2> QED BY <1>11, <2>1, <2>2
          DEF HandlerReadsFile, HandlerInv, FiledGrows, TypeOK
<1>12. ASSUME NEW ok \in BOOLEAN, HandlerWritesFile(ok)
      PROVE  HandlerInv'
  <2>1. handlerPc' = "routing" => Matches(handling, handlerSnapshot)
    BY <1>12, PopStep
  <2>2. handlerPc' \in {"routing", "idle"} /\ handling \in Response
    BY <1>12, PopStep
  <2> QED BY <1>12, <2>1, <2>2
          DEF HandlerWritesFile, Matches, FiledInv, FiledGrows, HandlerInv,
              TypeOK
<1>13. CASE TurnOpens
  BY <1>13 DEF TurnOpens, HandlerInv, FiledGrows, TypeOK
<1>14. CASE NoSession
  BY <1>14 DEF NoSession, HandlerInv, FiledGrows, TypeOK
<1>15. CASE TurnEnds
  BY <1>15 DEF TurnEnds, HandlerInv, FiledGrows, TypeOK
<1>16. ASSUME NEW polled \in SUBSET net, Crash(polled)
       PROVE  HandlerInv'
  BY <1>16 DEF Crash, Running, HandlerInv, FiledGrows, TypeOK
<1>17. ASSUME NEW r \in net, Lose(r)
       PROVE  HandlerInv'
  BY <1>17 DEF Lose, HandlerInv, FiledGrows, TypeOK
<1>18. CASE UNCHANGED vars
  BY <1>18 DEF vars, HandlerInv, FiledGrows, TypeOK
<1> QED
  BY <1>1, <1>2, <1>3, <1>4, <1>5, <1>6, <1>7, <1>8, <1>9, <1>10, <1>11,
     <1>12, <1>13, <1>14, <1>15, <1>16, <1>17, <1>18 DEF Next

(* With one event loop, between the read and the write of one access there *)
(* is no other.                                                            *)
LEMMA AloneStep ==
  TypeOK /\ HandlerInv /\ FiledInv /\ AloneInv /\ ~ToolThreads /\ [Next]_vars
    => AloneInv'
<1> SUFFICES ASSUME TypeOK, HandlerInv, FiledInv, AloneInv,
                    ~ToolThreads, [Next]_vars
             PROVE  AloneInv'
  OBVIOUS
<1> USE TargetAssumption
        DEF vars, toolVars, fileVars, handlerVars, pastVars, respVars,
            Recording, Popping
<1>1. ASSUME NEW c \in Calls, Refuse(c)
      PROVE  AloneInv'
  BY <1>1 DEF Refuse, AloneInv, TypeOK
<1>2. ASSUME NEW c \in Calls, Send(c)
      PROVE  AloneInv'
  BY <1>2 DEF Send, AloneInv, TypeOK
<1>3. ASSUME NEW c \in Calls, RelayAccepts(c)
      PROVE  AloneInv'
  BY <1>3 DEF RelayAccepts, AloneInv, TypeOK
<1>4. ASSUME NEW c \in Calls, SendFails(c)
      PROVE  AloneInv'
  BY <1>4 DEF SendFails, AloneInv, TypeOK
<1>5. ASSUME NEW c \in Calls, ToolSkipsOrigin(c)
      PROVE  AloneInv'
  BY <1>5 DEF ToolSkipsOrigin, AloneInv, TypeOK
<1>6. ASSUME NEW c \in Calls, NEW readable \in BOOLEAN,
             ToolReadsFile(c, readable)
      PROVE  AloneInv'
  <2>1. FileFree
    BY <1>6 DEF ToolReadsFile, MayRead
  <2> QED BY <1>6, <2>1
          DEF ToolReadsFile, FileFree, PrunedFile, AloneInv, TypeOK
<1>7. ASSUME NEW c \in Calls, NEW ok \in BOOLEAN, ToolWritesFile(c, ok)
      PROVE  AloneInv'
  <2>1. /\ ~Popping'
        /\ \A d \in Calls : ~Recording(d)'
    BY <1>7 DEF ToolWritesFile, AloneInv, TypeOK
  <2> QED BY <1>7, <2>1 DEF AloneInv
<1>8. ASSUME NEW c \in Calls, Age(c)
      PROVE  AloneInv'
  BY <1>8 DEF Age, AloneInv, TypeOK
<1>9. ASSUME NEW c \in Calls, BusinessResponds(c)
      PROVE  AloneInv'
  BY <1>9 DEF BusinessResponds, AloneInv, TypeOK
<1>10. ASSUME NEW c \in Calls, NEW p \in Peers, OtherPeerResponds(p, c)
      PROVE  AloneInv'
  BY <1>10 DEF OtherPeerResponds, AloneInv, TypeOK
<1>11. ASSUME NEW r \in net, NEW readable \in BOOLEAN,
              HandlerReadsFile(r, readable)
      PROVE  AloneInv'
  <2>1. FileFree
    BY <1>11 DEF HandlerReadsFile, MayRead
  <2> QED BY <1>11, <2>1
          DEF HandlerReadsFile, FileFree, PrunedFile, AloneInv, TypeOK
<1>12. ASSUME NEW ok \in BOOLEAN, HandlerWritesFile(ok)
      PROVE  AloneInv'
  <2>1. /\ ~Popping'
        /\ \A d \in Calls : ~Recording(d)'
    BY <1>12, PopStep DEF HandlerWritesFile, AloneInv
  <2> QED BY <1>12, <2>1 DEF AloneInv
<1>13. CASE TurnOpens
  BY <1>13 DEF TurnOpens, AloneInv, TypeOK
<1>14. CASE NoSession
  BY <1>14 DEF NoSession, AloneInv, TypeOK
<1>15. CASE TurnEnds
  BY <1>15 DEF TurnEnds, AloneInv, TypeOK
<1>16. ASSUME NEW polled \in SUBSET net, Crash(polled)
       PROVE  AloneInv'
  BY <1>16 DEF Crash, Running, AloneInv, TypeOK
<1>17. ASSUME NEW r \in net, Lose(r)
       PROVE  AloneInv'
  BY <1>17 DEF Lose, AloneInv, TypeOK
<1>18. CASE UNCHANGED vars
  BY <1>18 DEF vars, AloneInv, TypeOK
<1> QED
  BY <1>1, <1>2, <1>3, <1>4, <1>5, <1>6, <1>7, <1>8, <1>9, <1>10, <1>11,
     <1>12, <1>13, <1>14, <1>15, <1>16, <1>17, <1>18 DEF Next

(* With one event loop, a record that is used up does not come back.       *)
LEMMA SpentStep ==
  TypeOK /\ HandlerInv /\ FiledInv /\ AloneInv /\ SpentInv
    /\ ~ToolThreads /\ [Next]_vars
    => SpentInv'
<1> SUFFICES ASSUME TypeOK, HandlerInv, FiledInv, AloneInv, SpentInv,
                    ~ToolThreads, [Next]_vars
             PROVE  SpentInv'
  OBVIOUS
<1> USE TargetAssumption
        DEF vars, toolVars, fileVars, handlerVars, pastVars, respVars,
            Recording, Popping
<1>1. ASSUME NEW c \in Calls, Refuse(c)
      PROVE  SpentInv'
  BY <1>1 DEF Refuse, SpentInv, Spent, TypeOK
<1>2. ASSUME NEW c \in Calls, Send(c)
      PROVE  SpentInv'
  BY <1>2 DEF Send, SpentInv, Spent, TypeOK
<1>3. ASSUME NEW c \in Calls, RelayAccepts(c)
      PROVE  SpentInv'
  BY <1>3 DEF RelayAccepts, SpentInv, Spent, TypeOK
<1>4. ASSUME NEW c \in Calls, SendFails(c)
      PROVE  SpentInv'
  BY <1>4 DEF SendFails, SpentInv, Spent, TypeOK
<1>5. ASSUME NEW c \in Calls, ToolSkipsOrigin(c)
      PROVE  SpentInv'
  BY <1>5 DEF ToolSkipsOrigin, SpentInv, Spent, TypeOK
<1>6. ASSUME NEW c \in Calls, NEW readable \in BOOLEAN,
             ToolReadsFile(c, readable)
      PROVE  SpentInv'
  <2>1. \A n : Spent(n)' <=> Spent(n)
    BY <1>6 DEF ToolReadsFile, Spent
  <2> QED BY <1>6, <2>1 DEF ToolReadsFile, PrunedFile, SpentInv, TypeOK
<1>7. ASSUME NEW c \in Calls, NEW ok \in BOOLEAN, ToolWritesFile(c, ok)
      PROVE  SpentInv'
  <2>1. \A n : Spent(n)' <=> Spent(n)
    BY <1>7 DEF ToolWritesFile, Spent
  <2>2. /\ ~Popping'
        /\ \A d \in Calls : ~Recording(d)'
    BY <1>7 DEF ToolWritesFile, AloneInv, TypeOK
  <2>3. ~Spent(c)
    BY <1>7 DEF ToolWritesFile, HandlerInv, Filed, Spent
  <2>4. \A n \in Calls \ unwritten : Spent(n) => n \notin origins'
    BY <1>7, <2>3, RecordStep DEF ToolWritesFile, SpentInv
  <2> QED BY <1>7, <2>1, <2>2, <2>4 DEF ToolWritesFile, SpentInv
<1>8. ASSUME NEW c \in Calls, Age(c)
      PROVE  SpentInv'
  BY <1>8 DEF Age, SpentInv, Spent, TypeOK
<1>9. ASSUME NEW c \in Calls, BusinessResponds(c)
      PROVE  SpentInv'
  BY <1>9 DEF BusinessResponds, SpentInv, Spent, TypeOK
<1>10. ASSUME NEW c \in Calls, NEW p \in Peers, OtherPeerResponds(p, c)
      PROVE  SpentInv'
  BY <1>10 DEF OtherPeerResponds, SpentInv, Spent, TypeOK
<1>11. ASSUME NEW r \in net, NEW readable \in BOOLEAN,
              HandlerReadsFile(r, readable)
      PROVE  SpentInv'
  <2>1. \A n : Spent(n)' => Spent(n)
    BY <1>11 DEF HandlerReadsFile, Spent
  <2> QED BY <1>11, <2>1 DEF HandlerReadsFile, PrunedFile, SpentInv, TypeOK
<1>12. ASSUME NEW ok \in BOOLEAN, HandlerWritesFile(ok)
      PROVE  SpentInv'
  <2>1. Popping /\ \A d \in Calls : ~Recording(d)'
    BY <1>12 DEF HandlerWritesFile, AloneInv
  <2>2. ~Popping' /\ unwritten \subseteq unwritten'
    BY <1>12, PopStep DEF Popping
  <2>3. CASE Matches(handling, handlerSnapshot)
    <3>1. \A n : Spent(n)' => Spent(n) \/ n = handling.nonce
      BY <1>12 DEF HandlerWritesFile, Spent
    <3>2. /\ handling.nonce \in unwritten' \/ handling.nonce \notin origins'
          /\ origins' \subseteq origins \cup handlerSnapshot
      BY <1>12, <2>3, PopStep
    <3>3. \A n \in Calls \ unwritten' : Spent(n)' => n \notin origins'
      BY <2>1, <2>2, <3>1, <3>2 DEF SpentInv
    <3>4. \A r \in dispatched :
            r.nonce = handling.nonce => r.nonce \in unwritten
      BY <2>1, <2>3, HandlingType DEF Matches, SpentInv, Spent
    <3> QED BY <1>12, <2>1, <2>2, <3>3, <3>4 DEF HandlerWritesFile, SpentInv
  <2>4. CASE ~Matches(handling, handlerSnapshot)
    <3>1. /\ handlerPc' = "idle"
          /\ origins' \subseteq origins \cup handlerSnapshot
      BY <1>12, <2>4, PopStep
    <3>2. \A n : Spent(n)' => Spent(n)
      BY <1>12, <3>1 DEF HandlerWritesFile, Spent
    <3> QED BY <1>12, <2>1, <2>2, <3>1, <3>2 DEF HandlerWritesFile, SpentInv
  <2> QED BY <2>3, <2>4
<1>13. CASE TurnOpens
  <2>1. \A n : Spent(n)' => Spent(n)
    BY <1>13 DEF TurnOpens, Spent
  <2> QED BY <1>13, <2>1 DEF TurnOpens, SpentInv
<1>14. CASE NoSession
  BY <1>14 DEF NoSession, SpentInv, Spent, TypeOK
<1>15. CASE TurnEnds
  BY <1>15 DEF TurnEnds, SpentInv, Spent, TypeOK
<1>16. ASSUME NEW polled \in SUBSET net, Crash(polled)
       PROVE  SpentInv'
  BY <1>16 DEF Crash, Running, SpentInv, Spent, TypeOK
<1>17. ASSUME NEW r \in net, Lose(r)
       PROVE  SpentInv'
  BY <1>17 DEF Lose, SpentInv, Spent, TypeOK
<1>18. CASE UNCHANGED vars
  BY <1>18 DEF vars, SpentInv, Spent, TypeOK
<1> QED
  BY <1>1, <1>2, <1>3, <1>4, <1>5, <1>6, <1>7, <1>8, <1>9, <1>10, <1>11,
     <1>12, <1>13, <1>14, <1>15, <1>16, <1>17, <1>18 DEF Next

(* A response that opens a turn is the first of its nonce to do so.        *)
LEMMA OneTurnStep ==
  SpentInv /\ OneTurnPerRequest /\ TypeOK /\ HandlerInv /\ [Next]_vars
    => OneTurnPerRequest'
<1> SUFFICES ASSUME SpentInv, OneTurnPerRequest, TypeOK, HandlerInv,
                    [Next]_vars
             PROVE  OneTurnPerRequest'
  OBVIOUS
<1> USE TargetAssumption
        DEF vars, toolVars, fileVars, handlerVars, pastVars, respVars
<1>1. ASSUME NEW c \in Calls, Refuse(c)
      PROVE  OneTurnPerRequest'
  BY <1>1 DEF Refuse, OneTurnPerRequest
<1>2. ASSUME NEW c \in Calls, Send(c)
      PROVE  OneTurnPerRequest'
  BY <1>2 DEF Send, OneTurnPerRequest
<1>3. ASSUME NEW c \in Calls, RelayAccepts(c)
      PROVE  OneTurnPerRequest'
  BY <1>3 DEF RelayAccepts, OneTurnPerRequest
<1>4. ASSUME NEW c \in Calls, SendFails(c)
      PROVE  OneTurnPerRequest'
  BY <1>4 DEF SendFails, OneTurnPerRequest
<1>5. ASSUME NEW c \in Calls, ToolSkipsOrigin(c)
      PROVE  OneTurnPerRequest'
  BY <1>5 DEF ToolSkipsOrigin, OneTurnPerRequest
<1>6. ASSUME NEW c \in Calls, NEW readable \in BOOLEAN,
             ToolReadsFile(c, readable)
      PROVE  OneTurnPerRequest'
  BY <1>6 DEF ToolReadsFile, OneTurnPerRequest
<1>7. ASSUME NEW c \in Calls, NEW ok \in BOOLEAN, ToolWritesFile(c, ok)
      PROVE  OneTurnPerRequest'
  BY <1>7 DEF ToolWritesFile, OneTurnPerRequest
<1>8. ASSUME NEW c \in Calls, Age(c)
      PROVE  OneTurnPerRequest'
  BY <1>8 DEF Age, OneTurnPerRequest
<1>9. ASSUME NEW c \in Calls, BusinessResponds(c)
      PROVE  OneTurnPerRequest'
  BY <1>9 DEF BusinessResponds, OneTurnPerRequest
<1>10. ASSUME NEW c \in Calls, NEW p \in Peers, OtherPeerResponds(p, c)
      PROVE  OneTurnPerRequest'
  BY <1>10 DEF OtherPeerResponds, OneTurnPerRequest
<1>11. ASSUME NEW r \in net, NEW readable \in BOOLEAN,
              HandlerReadsFile(r, readable)
      PROVE  OneTurnPerRequest'
  BY <1>11 DEF HandlerReadsFile, OneTurnPerRequest
<1>12. ASSUME NEW ok \in BOOLEAN, HandlerWritesFile(ok)
      PROVE  OneTurnPerRequest'
  BY <1>12, PopStep DEF HandlerWritesFile, OneTurnPerRequest
<1>13. CASE TurnOpens
  BY <1>13 DEF TurnOpens, SpentInv, OneTurnPerRequest
<1>14. CASE NoSession
  BY <1>14 DEF NoSession, OneTurnPerRequest
<1>15. CASE TurnEnds
  BY <1>15 DEF TurnEnds, OneTurnPerRequest
<1>16. ASSUME NEW polled \in SUBSET net, Crash(polled)
       PROVE  OneTurnPerRequest'
  BY <1>16 DEF Crash, Running, OneTurnPerRequest
<1>17. ASSUME NEW r \in net, Lose(r)
       PROVE  OneTurnPerRequest'
  BY <1>17 DEF Lose, OneTurnPerRequest
<1>18. CASE UNCHANGED vars
  BY <1>18 DEF vars, OneTurnPerRequest
<1> QED
  BY <1>1, <1>2, <1>3, <1>4, <1>5, <1>6, <1>7, <1>8, <1>9, <1>10, <1>11,
     <1>12, <1>13, <1>14, <1>15, <1>16, <1>17, <1>18 DEF Next

-----------------------------------------------------------------------------
(* The strengthened invariant is inductive.                                *)
LEMMA IInvAlways == Spec => []IInv
<1>1. IInv /\ [Next]_vars => IInv'
  <2> SUFFICES ASSUME IInv, [Next]_vars PROVE IInv'
    OBVIOUS
  <2>1. TypeOK /\ HandlerInv /\ FiledInv
    BY DEF IInv
  <2>2. TypeOK' /\ FiledGrows
    BY <2>1, TypeStep, GrowStep
  <2>3. FiledInv' /\ HandlerInv'
    BY <2>1, <2>2, FiledStep, HandlerStep
  <2>4. ~ToolThreads => OneLoopInv'
    BY <2>1, AloneStep, SpentStep, OneTurnStep DEF IInv, OneLoopInv
  <2> QED BY <2>2, <2>3, <2>4 DEF IInv
<1> QED BY IInvInit, <1>1, PTL DEF Spec

(* Type correctness, with tool calls in any thread.                        *)
THEOREM TypeCorrect == Spec => []TypeOK
<1>1. IInv => TypeOK
  BY DEF IInv
<1> QED BY IInvAlways, <1>1, PTL

(* With tool calls in any thread, whatever they write back, a turn is      *)
(* opened only by an answer of the agent asked, and only to a call         *)
(* that reported sent from a session it knew.                              *)
THEOREM TargetOpensTurn == Spec => []OnlyTargetOpensTurn
<1>1. IInv => OnlyTargetOpensTurn
  BY DEF IInv, HandlerInv, Filed, OnlyTargetOpensTurn
<1> QED BY IInvAlways, <1>1, PTL

(* On one event loop a request opens at most one turn, whatever answers    *)
(* come, however often, across crashes.                                    *)
THEOREM RequestOpensOneTurn ==
  ASSUME ~ToolThreads
  PROVE  Spec => []OneTurnPerRequest
<1>1. IInv => OneTurnPerRequest
  BY DEF IInv, OneLoopInv
<1> QED BY IInvAlways, <1>1, PTL

(* On one event loop a record leaves the file only with the answer of its  *)
(* target, when it is too old, or when an access found the file unreadable: *)
(* no forged response, no write of another call and no crash takes it.     *)
THEOREM RecordsAreKept ==
  ASSUME ~ToolThreads
  PROVE  Spec => OriginKept
<1> DEFINE Taken(c) == /\ handlerPc = "looking"
                       /\ handling.nonce = c /\ handling.iss = Target[c]
           Blind == \/ handlerPc = "blind" /\ handlerPc' = "idle"
                    \/ \E d \in Calls : pc[d] = "blind" /\ pc'[d] = "sent"
<1>1. ASSUME IInv, Next
      PROVE  \A c \in origins \ origins' : c \in aged \/ Taken(c) \/ Blind
  <2>1. TypeOK /\ HandlerInv /\ AloneInv
    BY <1>1 DEF IInv, OneLoopInv
  <2>2. ASSUME NEW d \in Calls, NEW ok \in BOOLEAN, ToolWritesFile(d, ok)
        PROVE  Blind \/ \A c \in origins \ origins' : c \in aged
    <3>1. CASE pc[d] = "loaded"
      BY <2>1, <2>2, <3>1, RecordStep DEF AloneInv
    <3>2. CASE pc[d] = "blind"
      BY <2>1, <2>2, <3>2 DEF ToolWritesFile, TypeOK
    <3> QED BY <2>2, <3>1, <3>2 DEF ToolWritesFile, Recording
  <2>3. ASSUME NEW ok \in BOOLEAN, HandlerWritesFile(ok)
        PROVE  \A c \in origins \ origins' : c \in aged \/ Taken(c) \/ Blind
    <3>1. CASE Matches(handling, handlerSnapshot)
      <4>1. /\ handlerPc = "looking"
            /\ origins \subseteq handlerSnapshot \cup aged
        BY <2>1, <2>3, <3>1, PopStep
           DEF Popping, Matches, HandlerInv, AloneInv
      <4>2. origins \cap handlerSnapshot
              \subseteq origins' \cup {handling.nonce}
        BY <2>1, <2>3, <3>1, PopStep
      <4> QED BY <3>1, <4>1, <4>2 DEF Matches
    <3>2. CASE ~Matches(handling, handlerSnapshot)
      <4>1. /\ origins \cap handlerSnapshot \subseteq origins'
            /\ handlerPc' = "idle"
        BY <2>1, <2>3, <3>2, PopStep
      <4>2. CASE handlerPc = "looking"
        BY <2>1, <4>1, <4>2 DEF AloneInv
      <4>3. CASE handlerPc = "blind"
        BY <4>1, <4>3
      <4> QED BY <2>3, <4>2, <4>3 DEF HandlerWritesFile, Popping
    <3> QED BY <3>1, <3>2
  <2>4. CASE origins' = origins
    BY <2>4
  <2>5. \/ origins' = origins
        \/ \E d \in Calls, ok \in BOOLEAN : ToolWritesFile(d, ok)
        \/ \E ok \in BOOLEAN : HandlerWritesFile(ok)
    BY <1>1 DEF Next, Refuse, Send, RelayAccepts, SendFails, ToolSkipsOrigin,
       ToolReadsFile, Age, BusinessResponds, OtherPeerResponds, Lose,
       HandlerReadsFile, TurnOpens, NoSession, TurnEnds, Crash, fileVars
  <2> QED BY <2>2, <2>3, <2>4, <2>5
<1>2. IInv /\ [Next]_vars =>
        [\A c \in origins \ origins' :
              \/ c \in aged
              \/ /\ handlerPc = "looking"
                 /\ handling.nonce = c /\ handling.iss = Target[c]
              \/ handlerPc = "blind" /\ handlerPc' = "idle"
              \/ \E d \in Calls : pc[d] = "blind" /\ pc'[d] = "sent"]_vars
  BY <1>1
<1> QED BY IInvAlways, <1>2, PTL DEF Spec, OriginKept
=============================================================================
