---------------------------- MODULE ChatProofs -----------------------------
(***************************************************************************)
(* What holds of the chat turns for any peers, threads and numbers of      *)
(* messages and sends.  The strengthened invariant says where each of the  *)
(* things a turn is made of comes from: that a window is open only towards *)
(* a peer we reached (PastInv), that a thread in any hand, the message of  *)
(* the turn, a send in progress, the thread store, was heard from the peer *)
(* it is used for (ThreadInv), that a send of the turn is made inside it   *)
(* (CallInv), that message ids grow, so that no envelope answers a message *)
(* that is still to be dispatched (IdInv), and that sentThisTurn is what   *)
(* adapter.send has sent in answer to the message of the turn (SentInv).   *)
(***************************************************************************)
EXTENDS ChatTurns, TLAPS

(* Peers that have a reply window, or a turn because of one, were reached. *)
PastInv == window \subseteq contacted /\ WindowOnlyAfterContact

(* The turn is not another's: replies and calls of a turn are inside it.   *)
CallInv ==
  /\ call["turn"] # NoCall => turn # NoTurn /\ ~replying
  /\ replying => turn # NoTurn

(* A thread in use for p was heard from p.                                 *)
FromPeer(p, t) == t # NoThread => t \in heard[p]

(* The thread a 1:1 turn has for its own peer, if its message carried one. *)
AnswersInThread(p, t) ==
  (/\ turn # NoTurn /\ p = turn.msg.from
   /\ ~turn.msg.group /\ turn.msg.thread # NoThread) => t = turn.msg.thread

ThreadInv ==
  /\ \A p \in Peers : FromPeer(p, lastThread[p])
  /\ turn # NoTurn /\ ~turn.msg.group
       => FromPeer(turn.msg.from, turn.msg.thread)
  /\ \A s \in Sessions : call[s] # NoCall =>
        FromPeer(call[s].to, call[s].thread)
  /\ (call["turn"] # NoCall /\ call["turn"].step = "sending") =>
        AnswersInThread(call["turn"].to, call["turn"].thread)

(* Messages dispatched so far; the ones in the inbox are numbered on.      *)
Dispatched == received - Len(inbox)

IdInv ==
  /\ Len(inbox) <= received
  /\ \A i \in 1..Len(inbox) : inbox[i].id = Dispatched + i
  /\ turn # NoTurn => turn.msg.id <= Dispatched
  /\ \A e \in out : e.answers # NoTurn => e.answers.id <= Dispatched

(* What adapter.send has sent p in answer to the message of the turn.      *)
AdapterReached(p) ==
  \E e \in out : e.answers = turn.msg /\ e.to = p /\ e.via = "adapter"

SentInv ==
  /\ turn = NoTurn => sentThisTurn = {}
  /\ turn # NoTurn =>
       \A p \in Peers : p \in sentThisTurn <=> AdapterReached(p)

IInv ==
  /\ TypeOK /\ CallInv
  /\ PastInv
  /\ ThreadInv /\ ThreadsStayWithPeer
  /\ IdInv /\ SentInv

-----------------------------------------------------------------------------
(* The strengthened invariant holds initially.                             *)
LEMMA IInvInit == Init => IInv
<1> SUFFICES ASSUME Init PROVE IInv
  OBVIOUS
<1>1. TypeOK
  <2>1. inbox \in Seq(Message) /\ received \in 0..MaxMessages
    BY BoundsAssumption DEF Init
  <2>2. calls \in [Sessions -> 0..MaxCalls] /\ out \in SUBSET Envelope
    BY BoundsAssumption DEF Init
  <2>3. /\ lastThread \in [Peers -> AnyThread]
        /\ heard \in [Peers -> SUBSET Threads]
    BY DEF Init, AnyThread
  <2> QED BY <2>1, <2>2, <2>3 DEF Init, TypeOK
<1>2. PastInv /\ ThreadsStayWithPeer /\ SentInv
  BY DEF Init, PastInv, WindowOnlyAfterContact, ThreadsStayWithPeer, SentInv
<1>3. CallInv /\ ThreadInv /\ IdInv
  BY DEF Init, CallInv, ThreadInv, FromPeer, AnswersInThread, IdInv,
         Dispatched, Sessions
<1> QED BY <1>1, <1>2, <1>3 DEF IInv

(* What is known of the turn, and of a send in progress.                   *)
LEMMA TurnType ==
  ASSUME TypeOK, turn # NoTurn
  PROVE  /\ turn \in Turn /\ turn.msg \in Message
         /\ turn.msg.id \in Nat /\ turn.msg.from \in Peers
         /\ turn.msg.group \in BOOLEAN /\ turn.msg.thread \in AnyThread
         /\ turn.msg # NoTurn
BY NoTurnAssumption DEF TypeOK, Turn, Message

(* A send in progress has a peer, a thread and a way it is made.           *)
LEMMA CallType ==
  ASSUME TypeOK, NEW s \in Sessions, call[s] # NoCall
  PROVE  /\ call[s] \in Call /\ call[s].to \in Peers
         /\ call[s].thread \in AnyThread
         /\ call[s].via \in {"tool", "adapter"}
BY DEF TypeOK, Call

(* The message to be dispatched next carries the next number.              *)
LEMMA HeadType ==
  ASSUME TypeOK, inbox # <<>>
  PROVE  /\ Head(inbox) \in Message /\ Head(inbox) # NoTurn
         /\ Len(inbox) \in Nat /\ Len(inbox) > 0
         /\ Tail(inbox) \in Seq(Message)
         /\ Len(Tail(inbox)) = Len(inbox) - 1
         /\ \A i \in 1..Len(Tail(inbox)) : Tail(inbox)[i] = inbox[i + 1]
         /\ Head(inbox) = inbox[1]
<1>1. inbox \in Seq(Message)
  BY DEF TypeOK
<1> QED BY <1>1, NoTurnAssumption

(* What a crash leaves of the inbox: its rest, as it was.                  *)
LEMMA CrashInbox ==
  ASSUME TypeOK, NEW polled \in 0..Len(inbox), Crash(polled)
  PROVE  /\ polled \in Nat /\ Len(inbox) \in Nat
         /\ inbox' \in Seq(Message) /\ Len(inbox') = Len(inbox) - polled
         /\ \A i \in 1..Len(inbox') : inbox'[i] = inbox[polled + i]
<1>1. inbox \in Seq(Message) /\ inbox' = SubSeq(inbox, polled + 1, Len(inbox))
  BY DEF TypeOK, Crash
<1>2. polled \in Nat /\ Len(inbox) \in Nat /\ polled <= Len(inbox)
  BY <1>1
<1> QED BY <1>1, <1>2

(* The thread a send gets is one of its recipient's, and that of the turn  *)
(* when it answers the turn's own message.                                 *)
LEMMA ThreadFound ==
  ASSUME TypeOK, ThreadInv, NEW s \in Sessions, NEW p \in Peers,
         s = "turn" => turn # NoTurn
  PROVE  /\ ReplyThread(s, p) \in AnyThread /\ ToolThread(s, p) \in AnyThread
         /\ FromPeer(p, ReplyThread(s, p)) /\ FromPeer(p, ToolThread(s, p))
         /\ s = "turn" => /\ AnswersInThread(p, ReplyThread(s, p))
                          /\ AnswersInThread(p, ToolThread(s, p))
<1>1. lastThread[p] \in AnyThread /\ FromPeer(p, lastThread[p])
  BY DEF TypeOK, ThreadInv
<1>2. CASE s = "turn" /\ ~turn.msg.group /\ turn.msg.from = p
  BY <1>1, <1>2, TurnType DEF ReplyThread, ToolThread, ThreadInv, FromPeer,
     AnswersInThread, AnyThread
<1>3. CASE ~(s = "turn" /\ ~turn.msg.group /\ turn.msg.from = p)
  BY <1>1, <1>3 DEF ReplyThread, ToolThread, FromPeer, AnswersInThread,
     AnyThread
<1> QED BY <1>2, <1>3

(* The envelope a session sends.                                           *)
Sending(s, via, p, t) ==
  [to |-> p, thread |-> t, via |-> via,
   answers |-> IF s = "turn" THEN turn.msg ELSE NoTurn]

(* What a send adds to the envelopes is one of them.                       *)
LEMMA SentType ==
  ASSUME TypeOK, NEW s \in Sessions, s = "turn" => turn # NoTurn,
         NEW via \in {"tool", "adapter", "auto", "unreported"},
         NEW p \in Peers, NEW t \in AnyThread, Sent(s, via, p, t)
  PROVE  /\ Sending(s, via, p, t) \in Envelope
         /\ out' = out \cup {Sending(s, via, p, t)}
<1>1. (IF s = "turn" THEN turn.msg ELSE NoTurn) \in Message \cup {NoTurn}
  BY TurnType
<1> QED BY <1>1 DEF Sent, Sending, Envelope

(* What a step may add to the envelopes: one of a send in progress, or the *)
(* auto-reply of the turn.                                                 *)
SendsOne(s, vias, p, t) ==
  \E via \in vias : out' = out \cup {Sending(s, via, p, t)}

(* A send of either session that ends puts one envelope on its way at      *)
(* most, to its peer.                                                      *)
LEMMA CallSends ==
  ASSUME TypeOK, CallInv, NEW s \in Sessions, CallSent(s) \/ CallFails(s)
  PROVE  /\ call[s] # NoCall /\ call[s].step = "sending"
         /\ call[s].to \in Peers /\ call[s].thread \in AnyThread
         /\ s = "turn" => turn # NoTurn
         /\ out' \in SUBSET Envelope
         /\ \/ out' = out
            \/ SendsOne(s, {call[s].via, "unreported"}, call[s].to,
                        call[s].thread)
<1>1. /\ call[s] # NoCall /\ call[s].step = "sending"
      /\ call[s].to \in Peers /\ call[s].thread \in AnyThread
      /\ call[s].via \in {"tool", "adapter"}
      /\ s = "turn" => turn # NoTurn
      /\ out \in SUBSET Envelope
  BY CallType DEF CallSent, CallFails, CallInv, TypeOK
<1>2. \/ out' = out
      \/ Sent(s, call[s].via, call[s].to, call[s].thread)
      \/ Sent(s, "unreported", call[s].to, call[s].thread)
  BY DEF CallSent, CallFails
<1>3. ASSUME NEW via \in {call[s].via, "unreported"},
             Sent(s, via, call[s].to, call[s].thread)
      PROVE  /\ out' \in SUBSET Envelope
             /\ SendsOne(s, {call[s].via, "unreported"}, call[s].to,
                         call[s].thread)
  <2>1. via \in {"tool", "adapter", "auto", "unreported"}
    BY <1>1
  <2>2. /\ Sending(s, via, call[s].to, call[s].thread) \in Envelope
        /\ out' = out \cup {Sending(s, via, call[s].to, call[s].thread)}
    BY <1>1, <1>3, <2>1, SentType
  <2> QED BY <1>1, <2>2 DEF SendsOne
<1> QED BY <1>1, <1>2, <1>3

(* The auto-reply that ends puts one envelope on its way at most, to the   *)
(* peer of the turn.                                                       *)
LEMMA ReplySends ==
  ASSUME TypeOK, CallInv, ThreadInv, ReplySent \/ ReplyFails
  PROVE  /\ turn # NoTurn
         /\ out' \in SUBSET Envelope
         /\ \/ out' = out
            \/ SendsOne("turn", {"auto"}, turn.msg.from,
                        ReplyThread("turn", turn.msg.from))
<1> DEFINE p == turn.msg.from
<1>1. turn # NoTurn /\ p \in Peers /\ out \in SUBSET Envelope
  BY TurnType DEF ReplySent, ReplyFails, CallInv, TypeOK
<1>2. "turn" \in Sessions /\ ReplyThread("turn", p) \in AnyThread
  BY <1>1, ThreadFound DEF Sessions
<1>3. out' = out \/ Sent("turn", "auto", p, ReplyThread("turn", p))
  BY DEF ReplySent, ReplyFails
<1>4. CASE Sent("turn", "auto", p, ReplyThread("turn", p))
  <2>1. /\ Sending("turn", "auto", p, ReplyThread("turn", p)) \in Envelope
        /\ out' = out \cup
                    {Sending("turn", "auto", p, ReplyThread("turn", p))}
    BY <1>1, <1>2, <1>4, SentType
  <2> QED BY <1>1, <2>1 DEF SendsOne
<1> QED BY <1>1, <1>3, <1>4

(* Every action preserves the types.                                       *)
LEMMA TypeStep == TypeOK /\ CallInv /\ ThreadInv /\ [Next]_vars => TypeOK'
<1> SUFFICES ASSUME TypeOK, CallInv, ThreadInv, [Next]_vars PROVE TypeOK'
  OBVIOUS
<1> USE DEF vars, storeVars, inboxVars, turnVars, callVars, pastVars
<1>1. ASSUME NEW p \in Peers, NEW g \in BOOLEAN, NEW t \in AnyThread,
             PeerSends(p, g, t)
      PROVE  TypeOK'
  <2>1. [id |-> received + 1, from |-> p, group |-> g, thread |-> t]
          \in Message
    BY <1>1, BoundsAssumption DEF PeerSends, TypeOK, Message
  <2>2. inbox' \in Seq(Message)
    BY <1>1, <2>1 DEF PeerSends, TypeOK
  <2> QED BY <1>1, <2>2, BoundsAssumption DEF PeerSends, TypeOK
<1>2. CASE DropMessage
  BY <1>2, HeadType DEF DropMessage, TypeOK
<1>3. CASE OpenTurn
  <2> DEFINE m == Head(inbox)
  <2>1. inbox' \in Seq(Message) /\ m \in Message
    BY <1>3, HeadType DEF OpenTurn
  <2>2. turn' \in Turn
    BY <1>3, <2>1 DEF OpenTurn, Turn, Trust, TrustOf
  <2>3. /\ lastThread' \in [Peers -> AnyThread]
        /\ heard' \in [Peers -> SUBSET Threads]
    <3>1. m.from \in Peers /\ m.thread \in AnyThread
      BY <2>1 DEF Message
    <3>2. ChatThreads(m) \subseteq Threads
      BY <3>1 DEF ChatThreads, AnyThread
    <3>3. heard' = [heard EXCEPT ![m.from] = @ \cup ChatThreads(m)]
      BY <1>3 DEF OpenTurn
    <3>4. heard' \in [Peers -> SUBSET Threads]
      BY <3>1, <3>2, <3>3 DEF TypeOK
    <3>5. lastThread' \in [Peers -> AnyThread]
      BY <1>3, <3>1 DEF OpenTurn, RecordThread, TypeOK
    <3> QED BY <3>4, <3>5
  <2> QED BY <1>3, <2>1, <2>2, <2>3 DEF OpenTurn, TypeOK
<1>4. ASSUME NEW s \in Sessions, NEW p \in Peers, ToolBegins(s, p)
      PROVE  TypeOK'
  <2>1. ToolThread(s, p) \in AnyThread
    BY <1>4, ThreadFound DEF ToolBegins, Working
  <2>2. /\ call' \in [Sessions -> Call \cup {NoCall}]
        /\ calls' \in [Sessions -> 0..MaxCalls]
    BY <1>4, <2>1, BoundsAssumption
       DEF ToolBegins, Start, Call, AnyThread, TypeOK
  <2> QED BY <1>4, <2>2 DEF ToolBegins, TypeOK
<1>5. ASSUME NEW s \in Sessions, NEW p \in Peers, AdapterBegins(s, p)
      PROVE  TypeOK'
  <2>1. ReplyThread(s, p) \in AnyThread
    BY <1>5, ThreadFound DEF AdapterBegins, Working
  <2>2. /\ call' \in [Sessions -> Call \cup {NoCall}]
        /\ calls' \in [Sessions -> 0..MaxCalls]
    BY <1>5, <2>1, BoundsAssumption
       DEF AdapterBegins, Start, Call, AnyThread, TypeOK
  <2> QED BY <1>5, <2>2 DEF AdapterBegins, TypeOK
<1>6. ASSUME NEW s \in Sessions, CatalogAllows(s)
      PROVE  TypeOK'
  <2>1. call[s].to \in Peers /\ call[s] \in Call
    BY <1>6, CallType DEF CatalogAllows
  <2>2. s = "turn" => turn # NoTurn
    BY <1>6 DEF CatalogAllows, CallInv
  <2>3. ToolThread(s, call[s].to) \in AnyThread
    BY <2>1, <2>2, ThreadFound
  <2>4. call' = [call EXCEPT ![s] = [call[s] EXCEPT !.step = "sending",
                               !.thread = ToolThread(s, call[s].to)]]
    BY <1>6, <2>1 DEF CatalogAllows, TypeOK
  <2>5. [call[s] EXCEPT !.step = "sending",
                        !.thread = ToolThread(s, call[s].to)] \in Call
    BY <2>1, <2>3 DEF Call
  <2>6. call' \in [Sessions -> Call \cup {NoCall}]
    BY <2>4, <2>5 DEF TypeOK
  <2> QED BY <1>6, <2>6 DEF CatalogAllows, TypeOK
<1>7. ASSUME NEW s \in Sessions, CatalogRefuses(s)
      PROVE  TypeOK'
  BY <1>7 DEF CatalogRefuses, TypeOK
<1>8. ASSUME NEW s \in Sessions, CallSent(s)
      PROVE  TypeOK'
  <2>1. out' \in SUBSET Envelope /\ call[s].to \in Peers
    BY <1>8, CallSends
  <2> QED BY <1>8, <2>1 DEF CallSent, TypeOK
<1>9. ASSUME NEW s \in Sessions, CallFails(s)
      PROVE  TypeOK'
  <2>1. out' \in SUBSET Envelope /\ call[s].to \in Peers
    BY <1>9, CallSends
  <2> QED BY <1>9, <2>1 DEF CallFails, TypeOK
<1>10. CASE EndSilently
  BY <1>10 DEF EndSilently, EndTurn, TypeOK
<1>11. CASE SkipReply
  BY <1>11 DEF SkipReply, EndTurn, TypeOK
<1>12. CASE ReplyRefused
  BY <1>12 DEF ReplyRefused, EndTurn, TypeOK
<1>13. CASE ReplyBegins
  BY <1>13 DEF ReplyBegins, TypeOK
<1>14. CASE ReplySent
  <2>1. out' \in SUBSET Envelope /\ turn.msg.from \in Peers
    BY <1>14, ReplySends, TurnType
  <2> QED BY <1>14, <2>1 DEF ReplySent, EndTurn, TypeOK
<1>15. CASE ReplyFails
  <2>1. out' \in SUBSET Envelope /\ turn.msg.from \in Peers
    BY <1>15, ReplySends, TurnType
  <2> QED BY <1>15, <2>1 DEF ReplyFails, EndTurn, TypeOK
<1>16. ASSUME NEW p \in Peers, Befriend(p)
      PROVE  TypeOK'
  BY <1>16 DEF Befriend, TypeOK
<1>17. ASSUME NEW p \in Peers, Unfriend(p)
      PROVE  TypeOK'
  BY <1>17 DEF Unfriend, TypeOK
<1>18. ASSUME NEW p \in Peers, RequestSent(p)
      PROVE  TypeOK'
  BY <1>18 DEF RequestSent, TypeOK
<1>19. ASSUME NEW p \in Peers, WindowEnds(p)
      PROVE  TypeOK'
  BY <1>19 DEF WindowEnds, TypeOK
<1>20. ASSUME NEW polled \in 0..Len(inbox), Crash(polled)
       PROVE  TypeOK'
  BY <1>20, CrashInbox DEF Crash, EndTurn, TypeOK
<1>21. CASE UNCHANGED vars
  BY <1>21 DEF vars, TypeOK
<1> QED
  BY <1>1, <1>2, <1>3, <1>4, <1>5, <1>6, <1>7, <1>8, <1>9, <1>10, <1>11,
     <1>12, <1>13, <1>14, <1>15, <1>16, <1>17, <1>18, <1>19, <1>20, <1>21
     DEF Next, AnyThread

(* A call of the turn and its reply end with it.                           *)
LEMMA CallStep == TypeOK /\ CallInv /\ [Next]_vars => CallInv'
<1> SUFFICES ASSUME TypeOK, CallInv, [Next]_vars PROVE CallInv'
  OBVIOUS
<1> USE DEF vars, storeVars, inboxVars, turnVars, callVars, pastVars
<1>1. ASSUME NEW p \in Peers, NEW g \in BOOLEAN, NEW t \in AnyThread,
             PeerSends(p, g, t)
      PROVE  CallInv'
  BY <1>1 DEF PeerSends, CallInv, TypeOK
<1>2. CASE DropMessage
  BY <1>2 DEF DropMessage, CallInv, TypeOK
<1>3. CASE OpenTurn
  BY <1>3 DEF OpenTurn, CallInv, TypeOK
<1>4. ASSUME NEW s \in Sessions, NEW p \in Peers, ToolBegins(s, p)
      PROVE  CallInv'
  BY <1>4 DEF ToolBegins, Working, Start, CallInv, TypeOK
<1>5. ASSUME NEW s \in Sessions, NEW p \in Peers, AdapterBegins(s, p)
      PROVE  CallInv'
  BY <1>5 DEF AdapterBegins, Working, Start, CallInv, TypeOK
<1>6. ASSUME NEW s \in Sessions, CatalogAllows(s)
      PROVE  CallInv'
  <2>1. call'["turn"] # NoCall => call["turn"] # NoCall
    BY <1>6 DEF CatalogAllows, TypeOK, Sessions
  <2> QED BY <1>6, <2>1 DEF CatalogAllows, CallInv
<1>7. ASSUME NEW s \in Sessions, CatalogRefuses(s)
      PROVE  CallInv'
  BY <1>7 DEF CatalogRefuses, CallInv, TypeOK
<1>8. ASSUME NEW s \in Sessions, CallSent(s)
      PROVE  CallInv'
  BY <1>8 DEF CallSent, CallInv, TypeOK
<1>9. ASSUME NEW s \in Sessions, CallFails(s)
      PROVE  CallInv'
  BY <1>9 DEF CallFails, CallInv, TypeOK
<1>10. CASE EndSilently
  BY <1>10 DEF EndSilently, HandlerDone, EndTurn, CallInv, TypeOK
<1>11. CASE SkipReply
  BY <1>11 DEF SkipReply, HandlerDone, EndTurn, CallInv, TypeOK
<1>12. CASE ReplyRefused
  BY <1>12 DEF ReplyRefused, HandlerDone, EndTurn, CallInv, TypeOK
<1>13. CASE ReplyBegins
  BY <1>13 DEF ReplyBegins, HandlerDone, CallInv, TypeOK
<1>14. CASE ReplySent
  BY <1>14, NoCallAssumption DEF ReplySent, EndTurn, CallInv
<1>15. CASE ReplyFails
  BY <1>15 DEF ReplyFails, EndTurn, CallInv, TypeOK
<1>16. ASSUME NEW p \in Peers, Befriend(p)
      PROVE  CallInv'
  BY <1>16 DEF Befriend, CallInv, TypeOK
<1>17. ASSUME NEW p \in Peers, Unfriend(p)
      PROVE  CallInv'
  BY <1>17 DEF Unfriend, CallInv, TypeOK
<1>18. ASSUME NEW p \in Peers, RequestSent(p)
      PROVE  CallInv'
  BY <1>18 DEF RequestSent, CallInv, TypeOK
<1>19. ASSUME NEW p \in Peers, WindowEnds(p)
      PROVE  CallInv'
  BY <1>19 DEF WindowEnds, CallInv, TypeOK
<1>20. ASSUME NEW polled \in 0..Len(inbox), Crash(polled)
       PROVE  CallInv'
  BY <1>20 DEF Crash, EndTurn, Sessions, CallInv
<1>21. CASE UNCHANGED vars
  BY <1>21 DEF vars, CallInv, TypeOK
<1> QED
  BY <1>1, <1>2, <1>3, <1>4, <1>5, <1>6, <1>7, <1>8, <1>9, <1>10, <1>11,
     <1>12, <1>13, <1>14, <1>15, <1>16, <1>17, <1>18, <1>19, <1>20, <1>21
     DEF Next, AnyThread

(* A window is opened only once the peer was reached.                      *)
LEMMA PastStep == TypeOK /\ CallInv /\ PastInv /\ [Next]_vars => PastInv'
<1> SUFFICES ASSUME TypeOK, CallInv, PastInv, [Next]_vars PROVE PastInv'
  OBVIOUS
<1> USE DEF vars, storeVars, inboxVars, turnVars, callVars, pastVars
<1>1. ASSUME NEW p \in Peers, NEW g \in BOOLEAN, NEW t \in AnyThread,
             PeerSends(p, g, t)
      PROVE  PastInv'
  BY <1>1 DEF PeerSends, PastInv, WindowOnlyAfterContact, TypeOK
<1>2. CASE DropMessage
  BY <1>2 DEF DropMessage, PastInv, WindowOnlyAfterContact, TypeOK
<1>3. CASE OpenTurn
  <2> DEFINE m == Head(inbox)
  <2>1. TrustOf(m) = "window" => m.from \in window
    BY <1>3 DEF OpenTurn, TrustOf, Authorized
  <2>2. turn'.msg = m /\ turn'.trust = TrustOf(m)
    BY <1>3 DEF OpenTurn
  <2> QED BY <1>3, <2>1, <2>2 DEF OpenTurn, PastInv, WindowOnlyAfterContact
<1>4. ASSUME NEW s \in Sessions, NEW p \in Peers, ToolBegins(s, p)
      PROVE  PastInv'
  BY <1>4 DEF ToolBegins, PastInv, WindowOnlyAfterContact, TypeOK
<1>5. ASSUME NEW s \in Sessions, NEW p \in Peers, AdapterBegins(s, p)
      PROVE  PastInv'
  BY <1>5 DEF AdapterBegins, PastInv, WindowOnlyAfterContact, TypeOK
<1>6. ASSUME NEW s \in Sessions, CatalogAllows(s)
      PROVE  PastInv'
  BY <1>6 DEF CatalogAllows, PastInv, WindowOnlyAfterContact, TypeOK
<1>7. ASSUME NEW s \in Sessions, CatalogRefuses(s)
      PROVE  PastInv'
  BY <1>7 DEF CatalogRefuses, PastInv, WindowOnlyAfterContact, TypeOK
<1>8. ASSUME NEW s \in Sessions, CallSent(s)
      PROVE  PastInv'
  BY <1>8 DEF CallSent, PastInv, WindowOnlyAfterContact, TypeOK
<1>9. ASSUME NEW s \in Sessions, CallFails(s)
      PROVE  PastInv'
  BY <1>9 DEF CallFails, PastInv, WindowOnlyAfterContact, TypeOK
<1>10. CASE EndSilently
  BY <1>10 DEF EndSilently, EndTurn, PastInv, WindowOnlyAfterContact, TypeOK
<1>11. CASE SkipReply
  BY <1>11 DEF SkipReply, EndTurn, PastInv, WindowOnlyAfterContact, TypeOK
<1>12. CASE ReplyRefused
  BY <1>12 DEF ReplyRefused, EndTurn, PastInv, WindowOnlyAfterContact, TypeOK
<1>13. CASE ReplyBegins
  BY <1>13 DEF ReplyBegins, PastInv, WindowOnlyAfterContact, TypeOK
<1>14. CASE ReplySent
  BY <1>14 DEF ReplySent, EndTurn, PastInv, WindowOnlyAfterContact, TypeOK
<1>15. CASE ReplyFails
  BY <1>15 DEF ReplyFails, EndTurn, PastInv, WindowOnlyAfterContact, TypeOK
<1>16. ASSUME NEW p \in Peers, Befriend(p)
      PROVE  PastInv'
  BY <1>16 DEF Befriend, PastInv, WindowOnlyAfterContact, TypeOK
<1>17. ASSUME NEW p \in Peers, Unfriend(p)
      PROVE  PastInv'
  BY <1>17 DEF Unfriend, PastInv, WindowOnlyAfterContact, TypeOK
<1>18. ASSUME NEW p \in Peers, RequestSent(p)
      PROVE  PastInv'
  BY <1>18 DEF RequestSent, PastInv, WindowOnlyAfterContact, TypeOK
<1>19. ASSUME NEW p \in Peers, WindowEnds(p)
      PROVE  PastInv'
  BY <1>19 DEF WindowEnds, PastInv, WindowOnlyAfterContact, TypeOK
<1>20. ASSUME NEW polled \in 0..Len(inbox), Crash(polled)
       PROVE  PastInv'
  BY <1>20 DEF Crash, EndTurn, PastInv, WindowOnlyAfterContact, TypeOK
<1>21. CASE UNCHANGED vars
  BY <1>21 DEF vars, PastInv, WindowOnlyAfterContact, TypeOK
<1> QED
  BY <1>1, <1>2, <1>3, <1>4, <1>5, <1>6, <1>7, <1>8, <1>9, <1>10, <1>11,
     <1>12, <1>13, <1>14, <1>15, <1>16, <1>17, <1>18, <1>19, <1>20, <1>21
     DEF Next, AnyThread

(* A thread is used only for the peer it came from.                        *)
LEMMA ThreadStep ==
  TypeOK /\ CallInv /\ ThreadInv /\ [Next]_vars => ThreadInv'
<1> SUFFICES ASSUME TypeOK, CallInv, ThreadInv, [Next]_vars PROVE ThreadInv'
  OBVIOUS
<1> USE DEF vars, storeVars, inboxVars, turnVars, callVars, pastVars
<1>1. ASSUME NEW p \in Peers, NEW g \in BOOLEAN, NEW t \in AnyThread,
             PeerSends(p, g, t)
      PROVE  ThreadInv'
  BY <1>1 DEF PeerSends, ThreadInv, FromPeer, AnswersInThread, TypeOK,
     Sessions
<1>2. CASE DropMessage
  BY <1>2 DEF DropMessage, ThreadInv, FromPeer, AnswersInThread, TypeOK,
     Sessions
<1>3. CASE OpenTurn
  <2> DEFINE m == Head(inbox)
  <2>1. /\ m.from \in Peers /\ m.thread \in AnyThread
        /\ turn'.msg = m /\ call' = call /\ call["turn"] = NoCall
    BY <1>3, HeadType DEF OpenTurn, CallInv, Message
  <2>2. CASE ~m.group /\ m.thread # NoThread
    <3>1. /\ lastThread' = [lastThread EXCEPT ![m.from] = m.thread]
          /\ heard' = [heard EXCEPT ![m.from] = @ \cup {m.thread}]
      <4>1. ChatThreads(m) = {m.thread}
        BY <2>2 DEF ChatThreads
      <4> QED BY <1>3, <2>2, <4>1 DEF OpenTurn, RecordThread
    <3>2. \A q \in Peers, t \in AnyThread : FromPeer(q, t) => FromPeer(q, t)'
      BY <2>1, <3>1 DEF FromPeer, TypeOK
    <3>3. m.thread \in heard'[m.from]
      BY <2>1, <3>1 DEF TypeOK
    <3>4. \A q \in Peers : FromPeer(q, lastThread[q])'
      BY <2>1, <3>1, <3>3 DEF FromPeer, ThreadInv, TypeOK
    <3> QED BY <2>1, <2>2, <3>2, <3>3, <3>4, CallType DEF ThreadInv, FromPeer
  <2>3. CASE ~(~m.group /\ m.thread # NoThread)
    <3>1. lastThread' = lastThread /\ heard' = heard
      <4>1. ChatThreads(m) = {}
        BY <2>3 DEF ChatThreads
      <4> QED BY <1>3, <2>1, <2>3, <4>1 DEF OpenTurn, RecordThread, TypeOK
    <3> QED BY <2>1, <2>3, <3>1 DEF ThreadInv, FromPeer
  <2> QED BY <2>2, <2>3
<1>4. ASSUME NEW s \in Sessions, NEW p \in Peers, ToolBegins(s, p)
      PROVE  ThreadInv'
  <2> DEFINE t == IF p \in friends THEN ToolThread(s, p) ELSE NoThread
  <2>1. /\ FromPeer(p, t)
        /\ s = "turn" /\ p \in friends => AnswersInThread(p, t)
    BY <1>4, ThreadFound DEF ToolBegins, Working, FromPeer
  <2>2. /\ call' = [call EXCEPT ![s] = call'[s]]
        /\ call'[s].to = p /\ call'[s].thread = t
        /\ call'[s].step = "sending" => p \in friends
    BY <1>4 DEF ToolBegins, Start, TypeOK
  <2> HIDE DEF t
  <2> QED BY <1>4, <2>1, <2>2
          DEF ToolBegins, ThreadInv, FromPeer, AnswersInThread, TypeOK,
              Sessions
<1>5. ASSUME NEW s \in Sessions, NEW p \in Peers, AdapterBegins(s, p)
      PROVE  ThreadInv'
  <2> DEFINE t == ReplyThread(s, p)
  <2>1. FromPeer(p, t) /\ (s = "turn" => AnswersInThread(p, t))
    BY <1>5, ThreadFound DEF AdapterBegins, Working
  <2>2. /\ call' = [call EXCEPT ![s] = call'[s]]
        /\ call'[s].to = p /\ call'[s].thread = t
    BY <1>5 DEF AdapterBegins, Start, TypeOK
  <2> HIDE DEF t
  <2> QED BY <1>5, <2>1, <2>2
          DEF AdapterBegins, ThreadInv, FromPeer, AnswersInThread, TypeOK,
              Sessions
<1>6. ASSUME NEW s \in Sessions, CatalogAllows(s)
      PROVE  ThreadInv'
  <2> DEFINE p == call[s].to
             t == ToolThread(s, p)
  <2>1. /\ call[s] \in Call /\ p \in Peers
        /\ s = "turn" => turn # NoTurn
    BY <1>6, CallType DEF CatalogAllows, CallInv
  <2>2. FromPeer(p, t) /\ (s = "turn" => AnswersInThread(p, t))
    BY <2>1, ThreadFound
  <2>3. /\ call' = [call EXCEPT ![s] = call'[s]]
        /\ call'[s].to = p /\ call'[s].thread = t
    BY <1>6, <2>1 DEF CatalogAllows, TypeOK, Call
  <2> HIDE DEF t
  <2> QED BY <1>6, <2>1, <2>2, <2>3
          DEF CatalogAllows, ThreadInv, FromPeer, AnswersInThread, TypeOK,
              Sessions
<1>7. ASSUME NEW s \in Sessions, CatalogRefuses(s)
      PROVE  ThreadInv'
  BY <1>7 DEF CatalogRefuses, ThreadInv, FromPeer, AnswersInThread, TypeOK,
     Sessions
<1>8. ASSUME NEW s \in Sessions, CallSent(s)
      PROVE  ThreadInv'
  BY <1>8 DEF CallSent, ThreadInv, FromPeer, AnswersInThread, TypeOK, Sessions
<1>9. ASSUME NEW s \in Sessions, CallFails(s)
      PROVE  ThreadInv'
  BY <1>9 DEF CallFails, ThreadInv, FromPeer, AnswersInThread, TypeOK,
     Sessions
<1>10. CASE EndSilently
  BY <1>10 DEF EndSilently, HandlerDone, EndTurn, ThreadInv, FromPeer,
     AnswersInThread, TypeOK, Sessions
<1>11. CASE SkipReply
  BY <1>11 DEF SkipReply, HandlerDone, EndTurn, ThreadInv, FromPeer,
     AnswersInThread, TypeOK, Sessions
<1>12. CASE ReplyRefused
  BY <1>12 DEF ReplyRefused, HandlerDone, EndTurn, ThreadInv, FromPeer,
     AnswersInThread, TypeOK, Sessions
<1>13. CASE ReplyBegins
  BY <1>13 DEF ReplyBegins, ThreadInv, FromPeer, AnswersInThread, TypeOK,
     Sessions
<1>14. CASE ReplySent
  BY <1>14 DEF ReplySent, EndTurn, ThreadInv, FromPeer, AnswersInThread,
     TypeOK, Sessions
<1>15. CASE ReplyFails
  BY <1>15 DEF ReplyFails, EndTurn, ThreadInv, FromPeer, AnswersInThread,
     TypeOK, Sessions
<1>16. ASSUME NEW p \in Peers, Befriend(p)
      PROVE  ThreadInv'
  BY <1>16 DEF Befriend, ThreadInv, FromPeer, AnswersInThread, TypeOK,
     Sessions
<1>17. ASSUME NEW p \in Peers, Unfriend(p)
      PROVE  ThreadInv'
  BY <1>17 DEF Unfriend, ThreadInv, FromPeer, AnswersInThread, TypeOK,
     Sessions
<1>18. ASSUME NEW p \in Peers, RequestSent(p)
      PROVE  ThreadInv'
  BY <1>18 DEF RequestSent, ThreadInv, FromPeer, AnswersInThread, TypeOK,
     Sessions
<1>19. ASSUME NEW p \in Peers, WindowEnds(p)
      PROVE  ThreadInv'
  BY <1>19 DEF WindowEnds, ThreadInv, FromPeer, AnswersInThread, TypeOK,
     Sessions
<1>20. ASSUME NEW polled \in 0..Len(inbox), Crash(polled)
       PROVE  ThreadInv'
  <2>1. \A s \in Sessions : call'[s] = NoCall
    BY <1>20 DEF Crash
  <2> QED BY <1>20, <2>1 DEF Crash, EndTurn, ThreadInv, FromPeer, Sessions
<1>21. CASE UNCHANGED vars
  BY <1>21 DEF vars, ThreadInv, FromPeer, AnswersInThread, TypeOK, Sessions
<1> QED
  BY <1>1, <1>2, <1>3, <1>4, <1>5, <1>6, <1>7, <1>8, <1>9, <1>10, <1>11,
     <1>12, <1>13, <1>14, <1>15, <1>16, <1>17, <1>18, <1>19, <1>20, <1>21
     DEF Next, AnyThread

(* ThreadsStayWithPeer, one envelope at a time.                            *)
ThreadFits(e) ==
  /\ FromPeer(e.to, e.thread)
  /\ (/\ e.answers # NoTurn /\ e.to = e.answers.from
      /\ ~e.answers.group /\ e.answers.thread # NoThread)
       => e.thread = e.answers.thread

ThreadsFit == \A e \in out : ThreadFits(e)

(* ThreadsStayWithPeer, said of one envelope at a time.                    *)
LEMMA ThreadsFitIs == ThreadsFit <=> ThreadsStayWithPeer
BY DEF ThreadsFit, ThreadFits, FromPeer, ThreadsStayWithPeer

(* An envelope carries a thread of its recipient.                          *)
LEMMA EnvelopeStep ==
  TypeOK /\ CallInv /\ ThreadInv /\ ThreadsFit /\ [Next]_vars => ThreadsFit'
<1> SUFFICES ASSUME TypeOK, CallInv, ThreadInv, ThreadsFit, [Next]_vars
             PROVE  ThreadsFit'
  OBVIOUS
<1> USE DEF vars, storeVars, inboxVars, turnVars, callVars, pastVars
<1>1. ASSUME NEW p \in Peers, NEW g \in BOOLEAN, NEW t \in AnyThread,
             PeerSends(p, g, t)
      PROVE  ThreadsFit'
  BY <1>1 DEF PeerSends, ThreadsFit, ThreadFits, FromPeer
<1>2. CASE DropMessage
  BY <1>2 DEF DropMessage, ThreadsFit, ThreadFits, FromPeer
<1>3. CASE OpenTurn
  <2>1. out' = out /\ \A e \in out : e.to \in Peers
    BY <1>3 DEF OpenTurn, TypeOK, Envelope
  <2>2. \A q \in Peers : heard[q] \subseteq heard'[q]
    BY <1>3, HeadType DEF OpenTurn, TypeOK
  <2> QED BY <2>1, <2>2 DEF ThreadsFit, ThreadFits, FromPeer
<1>4. ASSUME NEW s \in Sessions, NEW p \in Peers, ToolBegins(s, p)
      PROVE  ThreadsFit'
  BY <1>4 DEF ToolBegins, ThreadsFit, ThreadFits, FromPeer
<1>5. ASSUME NEW s \in Sessions, NEW p \in Peers, AdapterBegins(s, p)
      PROVE  ThreadsFit'
  BY <1>5 DEF AdapterBegins, ThreadsFit, ThreadFits, FromPeer
<1>6. ASSUME NEW s \in Sessions, CatalogAllows(s)
      PROVE  ThreadsFit'
  BY <1>6 DEF CatalogAllows, ThreadsFit, ThreadFits, FromPeer
<1>7. ASSUME NEW s \in Sessions, CatalogRefuses(s)
      PROVE  ThreadsFit'
  BY <1>7 DEF CatalogRefuses, ThreadsFit, ThreadFits, FromPeer
<1>8. ASSUME NEW s \in Sessions, CallSent(s)
      PROVE  ThreadsFit'
  <2> DEFINE p == call[s].to
             t == call[s].thread
  <2>1. /\ p \in Peers /\ FromPeer(p, t)
        /\ s = "turn" => turn # NoTurn /\ AnswersInThread(p, t)
        /\ out' = out \/ SendsOne(s, {call[s].via, "unreported"}, p, t)
        /\ heard' = heard
    BY <1>8, CallSends DEF ThreadInv, CallSent
  <2>2. ASSUME NEW e \in out' PROVE ThreadFits(e)'
    <3>1. CASE e \in out
      BY <2>1, <3>1 DEF ThreadsFit, ThreadFits, FromPeer
    <3>2. CASE e \notin out
      <4>1. /\ e.to = p /\ e.thread = t
            /\ e.answers = IF s = "turn" THEN turn.msg ELSE NoTurn
        BY <2>1, <3>2 DEF SendsOne, Sending
      <4> HIDE DEF p, t
      <4> QED BY <2>1, <4>1 DEF ThreadFits, FromPeer, AnswersInThread
    <3> QED BY <3>1, <3>2
  <2> QED BY <2>2 DEF ThreadsFit
<1>9. ASSUME NEW s \in Sessions, CallFails(s)
      PROVE  ThreadsFit'
  <2> DEFINE p == call[s].to
             t == call[s].thread
  <2>1. /\ p \in Peers /\ FromPeer(p, t)
        /\ s = "turn" => turn # NoTurn /\ AnswersInThread(p, t)
        /\ out' = out \/ SendsOne(s, {call[s].via, "unreported"}, p, t)
        /\ heard' = heard
    BY <1>9, CallSends DEF ThreadInv, CallFails
  <2>2. ASSUME NEW e \in out' PROVE ThreadFits(e)'
    <3>1. CASE e \in out
      BY <2>1, <3>1 DEF ThreadsFit, ThreadFits, FromPeer
    <3>2. CASE e \notin out
      <4>1. /\ e.to = p /\ e.thread = t
            /\ e.answers = IF s = "turn" THEN turn.msg ELSE NoTurn
        BY <2>1, <3>2 DEF SendsOne, Sending
      <4> HIDE DEF p, t
      <4> QED BY <2>1, <4>1 DEF ThreadFits, FromPeer, AnswersInThread
    <3> QED BY <3>1, <3>2
  <2> QED BY <2>2 DEF ThreadsFit
<1>10. CASE EndSilently
  BY <1>10 DEF EndSilently, EndTurn, ThreadsFit, ThreadFits, FromPeer
<1>11. CASE SkipReply
  BY <1>11 DEF SkipReply, EndTurn, ThreadsFit, ThreadFits, FromPeer
<1>12. CASE ReplyRefused
  BY <1>12 DEF ReplyRefused, EndTurn, ThreadsFit, ThreadFits, FromPeer
<1>13. CASE ReplyBegins
  BY <1>13 DEF ReplyBegins, ThreadsFit, ThreadFits, FromPeer
<1>14. CASE ReplySent
  <2> DEFINE p == turn.msg.from
             t == ReplyThread("turn", p)
  <2>1. /\ p \in Peers /\ turn # NoTurn
        /\ out' = out \/ SendsOne("turn", {"auto"}, p, t)
        /\ heard' = heard
    BY <1>14, ReplySends, TurnType DEF ReplySent
  <2>2. FromPeer(p, t) /\ AnswersInThread(p, t)
    BY <2>1, ThreadFound DEF Sessions
  <2>3. ASSUME NEW e \in out' PROVE ThreadFits(e)'
    <3>1. CASE e \in out
      BY <2>1, <3>1 DEF ThreadsFit, ThreadFits, FromPeer
    <3>2. CASE e \notin out
      <4>1. e.to = p /\ e.thread = t /\ e.answers = turn.msg
        BY <2>1, <3>2 DEF SendsOne, Sending
      <4> HIDE DEF t
      <4> QED BY <2>1, <2>2, <4>1 DEF ThreadFits, FromPeer, AnswersInThread
    <3> QED BY <3>1, <3>2
  <2> QED BY <2>3 DEF ThreadsFit
<1>15. CASE ReplyFails
  <2> DEFINE p == turn.msg.from
             t == ReplyThread("turn", p)
  <2>1. /\ p \in Peers /\ turn # NoTurn
        /\ out' = out \/ SendsOne("turn", {"auto"}, p, t)
        /\ heard' = heard
    BY <1>15, ReplySends, TurnType DEF ReplyFails
  <2>2. FromPeer(p, t) /\ AnswersInThread(p, t)
    BY <2>1, ThreadFound DEF Sessions
  <2>3. ASSUME NEW e \in out' PROVE ThreadFits(e)'
    <3>1. CASE e \in out
      BY <2>1, <3>1 DEF ThreadsFit, ThreadFits, FromPeer
    <3>2. CASE e \notin out
      <4>1. e.to = p /\ e.thread = t /\ e.answers = turn.msg
        BY <2>1, <3>2 DEF SendsOne, Sending
      <4> HIDE DEF t
      <4> QED BY <2>1, <2>2, <4>1 DEF ThreadFits, FromPeer, AnswersInThread
    <3> QED BY <3>1, <3>2
  <2> QED BY <2>3 DEF ThreadsFit
<1>16. ASSUME NEW p \in Peers, Befriend(p)
      PROVE  ThreadsFit'
  BY <1>16 DEF Befriend, ThreadsFit, ThreadFits, FromPeer
<1>17. ASSUME NEW p \in Peers, Unfriend(p)
      PROVE  ThreadsFit'
  BY <1>17 DEF Unfriend, ThreadsFit, ThreadFits, FromPeer
<1>18. ASSUME NEW p \in Peers, RequestSent(p)
      PROVE  ThreadsFit'
  BY <1>18 DEF RequestSent, ThreadsFit, ThreadFits, FromPeer
<1>19. ASSUME NEW p \in Peers, WindowEnds(p)
      PROVE  ThreadsFit'
  BY <1>19 DEF WindowEnds, ThreadsFit, ThreadFits, FromPeer
<1>20. ASSUME NEW polled \in 0..Len(inbox), Crash(polled)
       PROVE  ThreadsFit'
  BY <1>20 DEF Crash, EndTurn, ThreadsFit, ThreadFits, FromPeer
<1>21. CASE UNCHANGED vars
  BY <1>21 DEF vars, ThreadsFit, ThreadFits, FromPeer
<1> QED
  BY <1>1, <1>2, <1>3, <1>4, <1>5, <1>6, <1>7, <1>8, <1>9, <1>10, <1>11,
     <1>12, <1>13, <1>14, <1>15, <1>16, <1>17, <1>18, <1>19, <1>20, <1>21
     DEF Next, AnyThread

(* Message numbers grow.                                                   *)
LEMMA IdStep ==
  TypeOK /\ CallInv /\ ThreadInv /\ IdInv /\ [Next]_vars => IdInv'
<1> SUFFICES ASSUME TypeOK, CallInv, ThreadInv, IdInv, [Next]_vars
             PROVE  IdInv'
  OBVIOUS
<1> USE DEF vars, storeVars, inboxVars, turnVars, callVars, pastVars
<1>1. ASSUME NEW p \in Peers, NEW g \in BOOLEAN, NEW t \in AnyThread,
             PeerSends(p, g, t)
      PROVE  IdInv'
  <2> DEFINE m == [id |-> received + 1, from |-> p, group |-> g, thread |-> t]
  <2>1. /\ inbox' = Append(inbox, m) /\ received' = received + 1
        /\ inbox \in Seq(Message) /\ received \in Nat
        /\ m.id = received + 1 /\ m \in Message
    BY <1>1, BoundsAssumption DEF PeerSends, TypeOK, Message
  <2> HIDE DEF m
  <2>2. /\ Len(inbox') = Len(inbox) + 1 /\ Len(inbox) \in Nat
        /\ inbox'[Len(inbox) + 1] = m
        /\ \A i \in 1..Len(inbox) : inbox'[i] = inbox[i]
    BY <2>1
  <2>3. Dispatched' = Dispatched
    BY <2>1, <2>2 DEF Dispatched
  <2>4. \A i \in 1..Len(inbox') : inbox'[i].id = Dispatched' + i
    BY <2>1, <2>2, <2>3 DEF IdInv, Dispatched
  <2> QED BY <1>1, <2>1, <2>2, <2>3, <2>4 DEF PeerSends, IdInv
<1>2. CASE DropMessage
  <2>1. /\ inbox' = Tail(inbox) /\ received' = received /\ out' = out
        /\ turn' = turn
        /\ received \in Nat
    BY <1>2 DEF DropMessage, TypeOK
  <2>2. Dispatched' = Dispatched + 1 /\ Dispatched \in Nat
    BY <2>1, HeadType, <1>2 DEF Dispatched, IdInv, DropMessage
  <2>3. Len(inbox') <= received'
    BY <2>1, HeadType, <1>2 DEF IdInv, DropMessage
  <2>4. \A i \in 1..Len(inbox') : inbox'[i].id = Dispatched' + i
    BY <2>1, <2>2, HeadType, <1>2 DEF IdInv, DropMessage
  <2>5. \A e \in out' : e.answers # NoTurn => e.answers.id <= Dispatched'
    <3>1. \A e \in out : e.answers # NoTurn => e.answers.id \in Nat
      BY DEF TypeOK, Envelope, Message
    <3> QED BY <2>1, <2>2, <3>1 DEF IdInv
  <2>6. turn' # NoTurn => turn'.msg.id <= Dispatched'
    BY <2>1, <2>2, HeadType, <1>2 DEF IdInv, DropMessage
  <2> QED BY <2>3, <2>4, <2>5, <2>6 DEF IdInv, Dispatched
<1>3. CASE OpenTurn
  <2>1. /\ inbox' = Tail(inbox) /\ received' = received /\ out' = out
        /\ turn'.msg = Head(inbox)
        /\ received \in Nat
    BY <1>3 DEF OpenTurn, TypeOK
  <2>2. Dispatched' = Dispatched + 1 /\ Dispatched \in Nat
    BY <2>1, HeadType, <1>3 DEF Dispatched, IdInv, OpenTurn
  <2>3. Len(inbox') <= received'
    BY <2>1, HeadType, <1>3 DEF IdInv, OpenTurn
  <2>4. \A i \in 1..Len(inbox') : inbox'[i].id = Dispatched' + i
    BY <2>1, <2>2, HeadType, <1>3 DEF IdInv, OpenTurn
  <2>5. \A e \in out' : e.answers # NoTurn => e.answers.id <= Dispatched'
    <3>1. \A e \in out : e.answers # NoTurn => e.answers.id \in Nat
      BY DEF TypeOK, Envelope, Message
    <3> QED BY <2>1, <2>2, <3>1 DEF IdInv
  <2>6. turn' # NoTurn => turn'.msg.id <= Dispatched'
    <3>1. turn'.msg = Head(inbox) /\ Head(inbox) = inbox[1]
      BY HeadType, <1>3 DEF OpenTurn
    <3>2. inbox[1].id = Dispatched + 1
      BY HeadType, <1>3 DEF OpenTurn, IdInv
    <3> QED BY <2>2, <3>1, <3>2
  <2> QED BY <2>3, <2>4, <2>5, <2>6 DEF IdInv, Dispatched
<1>4. ASSUME NEW s \in Sessions, NEW p \in Peers, ToolBegins(s, p)
      PROVE  IdInv'
  BY <1>4 DEF ToolBegins, IdInv, Dispatched
<1>5. ASSUME NEW s \in Sessions, NEW p \in Peers, AdapterBegins(s, p)
      PROVE  IdInv'
  BY <1>5 DEF AdapterBegins, IdInv, Dispatched
<1>6. ASSUME NEW s \in Sessions, CatalogAllows(s)
      PROVE  IdInv'
  BY <1>6 DEF CatalogAllows, IdInv, Dispatched
<1>7. ASSUME NEW s \in Sessions, CatalogRefuses(s)
      PROVE  IdInv'
  BY <1>7 DEF CatalogRefuses, IdInv, Dispatched
<1>8. ASSUME NEW s \in Sessions, CallSent(s)
      PROVE  IdInv'
  <2>1. \A e \in out' \ out : e.answers # NoTurn =>
           turn # NoTurn /\ e.answers = turn.msg
    BY <1>8, CallSends DEF SendsOne, Sending
  <2>2. /\ inbox' = inbox /\ received' = received /\ turn' = turn
    BY <1>8 DEF CallSent
  <2> QED BY <2>1, <2>2 DEF IdInv, Dispatched
<1>9. ASSUME NEW s \in Sessions, CallFails(s)
      PROVE  IdInv'
  <2>1. \A e \in out' \ out : e.answers # NoTurn =>
           turn # NoTurn /\ e.answers = turn.msg
    BY <1>9, CallSends DEF SendsOne, Sending
  <2>2. /\ inbox' = inbox /\ received' = received /\ turn' = turn
    BY <1>9 DEF CallFails
  <2> QED BY <2>1, <2>2 DEF IdInv, Dispatched
<1>10. CASE EndSilently
  BY <1>10 DEF EndSilently, EndTurn, IdInv, Dispatched
<1>11. CASE SkipReply
  BY <1>11 DEF SkipReply, EndTurn, IdInv, Dispatched
<1>12. CASE ReplyRefused
  BY <1>12 DEF ReplyRefused, EndTurn, IdInv, Dispatched
<1>13. CASE ReplyBegins
  BY <1>13 DEF ReplyBegins, IdInv, Dispatched
<1>14. CASE ReplySent
  <2>1. \A e \in out' \ out : turn # NoTurn /\ e.answers = turn.msg
    BY <1>14, ReplySends DEF SendsOne, Sending
  <2>2. /\ inbox' = inbox /\ received' = received /\ turn' = NoTurn
    BY <1>14 DEF ReplySent, EndTurn
  <2> QED BY <2>1, <2>2 DEF IdInv, Dispatched
<1>15. CASE ReplyFails
  <2>1. \A e \in out' \ out : turn # NoTurn /\ e.answers = turn.msg
    BY <1>15, ReplySends DEF SendsOne, Sending
  <2>2. /\ inbox' = inbox /\ received' = received /\ turn' = NoTurn
    BY <1>15 DEF ReplyFails, EndTurn
  <2> QED BY <2>1, <2>2 DEF IdInv, Dispatched
<1>16. ASSUME NEW p \in Peers, Befriend(p)
      PROVE  IdInv'
  BY <1>16 DEF Befriend, IdInv, Dispatched
<1>17. ASSUME NEW p \in Peers, Unfriend(p)
      PROVE  IdInv'
  BY <1>17 DEF Unfriend, IdInv, Dispatched
<1>18. ASSUME NEW p \in Peers, RequestSent(p)
      PROVE  IdInv'
  BY <1>18 DEF RequestSent, IdInv, Dispatched
<1>19. ASSUME NEW p \in Peers, WindowEnds(p)
      PROVE  IdInv'
  BY <1>19 DEF WindowEnds, IdInv, Dispatched
<1>20. ASSUME NEW polled \in 0..Len(inbox), Crash(polled)
       PROVE  IdInv'
  <2> DEFINE left == Len(inbox')
  <2>0. /\ polled \in Nat /\ Len(inbox) \in Nat /\ polled <= Len(inbox)
        /\ received \in Nat /\ received' = received
        /\ left = Len(inbox) - polled
        /\ \A i \in 1..left : inbox'[i] = inbox[polled + i]
    BY <1>20, CrashInbox, BoundsAssumption DEF Crash, TypeOK
  <2> HIDE DEF left
  <2>1. Dispatched' = Dispatched + polled /\ left <= received'
        /\ Dispatched \in Nat
    BY <2>0 DEF Dispatched, IdInv, left
  <2>2. \A i \in 1..left : inbox'[i].id = Dispatched' + i
    <3> SUFFICES ASSUME NEW i \in 1..left
                 PROVE  inbox'[i].id = Dispatched' + i
      OBVIOUS
    <3>1. polled + i \in 1..Len(inbox)
      BY <2>0
    <3>2. inbox[polled + i].id = Dispatched + (polled + i)
      BY <3>1 DEF IdInv
    <3> QED BY <2>0, <2>1, <3>2
  <2>3. \A e \in out' : e.answers # NoTurn => e.answers.id <= Dispatched'
    <3> SUFFICES ASSUME NEW e \in out, e.answers # NoTurn
                 PROVE  e.answers.id <= Dispatched'
      BY <1>20 DEF Crash
    <3>1. e.answers.id \in Nat /\ e.answers.id <= Dispatched
      BY DEF IdInv, TypeOK, Envelope, Message
    <3> QED BY <2>0, <2>1, <3>1
  <2> QED BY <1>20, <2>1, <2>2, <2>3 DEF Crash, EndTurn, IdInv, left
<1>21. CASE UNCHANGED vars
  BY <1>21 DEF vars, IdInv, Dispatched
<1> QED
  BY <1>1, <1>2, <1>3, <1>4, <1>5, <1>6, <1>7, <1>8, <1>9, <1>10, <1>11,
     <1>12, <1>13, <1>14, <1>15, <1>16, <1>17, <1>18, <1>19, <1>20, <1>21
     DEF Next, AnyThread

(* sentThisTurn is what adapter.send has sent to answer the turn.          *)
LEMMA SentStep ==
  TypeOK /\ CallInv /\ IdInv /\ SentInv /\ [Next]_vars => SentInv'
<1> SUFFICES ASSUME TypeOK, CallInv, IdInv, SentInv, [Next]_vars
             PROVE  SentInv'
  OBVIOUS
<1> USE DEF vars, storeVars, inboxVars, turnVars, callVars, pastVars
<1>1. ASSUME NEW p \in Peers, NEW g \in BOOLEAN, NEW t \in AnyThread,
             PeerSends(p, g, t)
      PROVE  SentInv'
  BY <1>1 DEF PeerSends, SentInv, AdapterReached
<1>2. CASE DropMessage
  BY <1>2 DEF DropMessage, SentInv, AdapterReached
<1>3. CASE OpenTurn
  <2>1. turn' # NoTurn /\ turn'.msg = Head(inbox) /\ sentThisTurn' = {}
    <3>1. Head(inbox) \in Message /\ turn'.msg = Head(inbox)
          /\ sentThisTurn' = {}
      BY <1>3, HeadType DEF OpenTurn
    <3>2. turn' \in Turn
      BY <1>3, <3>1 DEF OpenTurn, Turn, Trust, TrustOf
    <3> QED BY <3>1, <3>2, NoTurnAssumption
  <2>2. /\ Head(inbox) # NoTurn /\ Head(inbox).id = Dispatched + 1
        /\ Dispatched \in Nat
    BY <1>3, HeadType DEF OpenTurn, IdInv, Dispatched, TypeOK
  <2>3. \A e \in out : e.answers # NoTurn => e.answers.id \in Nat
    BY DEF TypeOK, Envelope, Message
  <2>4. out' = out /\ \A e \in out : e.answers # Head(inbox)
    BY <1>3, <2>2, <2>3 DEF OpenTurn, IdInv
  <2> QED BY <2>1, <2>4 DEF SentInv, AdapterReached
<1>4. ASSUME NEW s \in Sessions, NEW p \in Peers, ToolBegins(s, p)
      PROVE  SentInv'
  BY <1>4 DEF ToolBegins, SentInv, AdapterReached
<1>5. ASSUME NEW s \in Sessions, NEW p \in Peers, AdapterBegins(s, p)
      PROVE  SentInv'
  BY <1>5 DEF AdapterBegins, SentInv, AdapterReached
<1>6. ASSUME NEW s \in Sessions, CatalogAllows(s)
      PROVE  SentInv'
  BY <1>6 DEF CatalogAllows, SentInv, AdapterReached
<1>7. ASSUME NEW s \in Sessions, CatalogRefuses(s)
      PROVE  SentInv'
  BY <1>7 DEF CatalogRefuses, SentInv, AdapterReached
<1>8. ASSUME NEW s \in Sessions, CallSent(s)
      PROVE  SentInv'
  <2> DEFINE e0 == Sending(s, call[s].via, call[s].to, call[s].thread)
  <2>1. /\ out' = out \cup {e0} /\ turn' = turn
        /\ sentThisTurn' = IF call[s].via = "adapter" /\ s = "turn"
                           THEN sentThisTurn \cup {call[s].to}
                           ELSE sentThisTurn
    BY <1>8 DEF CallSent, Sent, Sending
  <2>2. /\ e0.to = call[s].to /\ e0.via = call[s].via
        /\ e0.answers = IF s = "turn" THEN turn.msg ELSE NoTurn
    BY DEF Sending
  <2>3. (turn # NoTurn => turn.msg # NoTurn) /\ (s = "turn" => turn # NoTurn)
    BY <1>8, CallSends, TurnType
  <2> HIDE DEF e0
  <2>4. turn = NoTurn => sentThisTurn' = {}
    BY <2>1, <2>3 DEF SentInv
  <2>5. ASSUME turn # NoTurn, NEW p \in Peers
        PROVE  p \in sentThisTurn' <=> AdapterReached(p)'
    <3>1. CASE call[s].via = "adapter" /\ s = "turn" /\ p = call[s].to
      BY <2>1, <2>2, <3>1 DEF AdapterReached
    <3>2. CASE ~(call[s].via = "adapter" /\ s = "turn" /\ p = call[s].to)
      <4>1. p \in sentThisTurn' <=> p \in sentThisTurn
        BY <2>1, <3>2
      <4>2. AdapterReached(p)' <=> AdapterReached(p)
        BY <2>1, <2>2, <2>3, <2>5, <3>2 DEF AdapterReached
      <4> QED BY <2>5, <4>1, <4>2 DEF SentInv
    <3> QED BY <3>1, <3>2
  <2> QED BY <2>1, <2>4, <2>5 DEF SentInv
<1>9. ASSUME NEW s \in Sessions, CallFails(s)
      PROVE  SentInv'
  <2>1. \/ out' = out
        \/ out' = out \cup
             {Sending(s, "unreported", call[s].to, call[s].thread)}
    BY <1>9 DEF CallFails, Sent, Sending
  <2>2. \A p \in Peers : AdapterReached(p)' <=> AdapterReached(p)
    BY <1>9, <2>1 DEF CallFails, AdapterReached, Sending
  <2> QED BY <1>9, <2>2 DEF CallFails, SentInv
<1>10. CASE EndSilently
  BY <1>10 DEF EndSilently, EndTurn, SentInv, AdapterReached
<1>11. CASE SkipReply
  BY <1>11 DEF SkipReply, EndTurn, SentInv, AdapterReached
<1>12. CASE ReplyRefused
  BY <1>12 DEF ReplyRefused, EndTurn, SentInv, AdapterReached
<1>13. CASE ReplyBegins
  BY <1>13 DEF ReplyBegins, SentInv, AdapterReached
<1>14. CASE ReplySent
  BY <1>14 DEF ReplySent, EndTurn, SentInv, AdapterReached
<1>15. CASE ReplyFails
  BY <1>15 DEF ReplyFails, EndTurn, SentInv, AdapterReached
<1>16. ASSUME NEW p \in Peers, Befriend(p)
      PROVE  SentInv'
  BY <1>16 DEF Befriend, SentInv, AdapterReached
<1>17. ASSUME NEW p \in Peers, Unfriend(p)
      PROVE  SentInv'
  BY <1>17 DEF Unfriend, SentInv, AdapterReached
<1>18. ASSUME NEW p \in Peers, RequestSent(p)
      PROVE  SentInv'
  BY <1>18 DEF RequestSent, SentInv, AdapterReached
<1>19. ASSUME NEW p \in Peers, WindowEnds(p)
      PROVE  SentInv'
  BY <1>19 DEF WindowEnds, SentInv, AdapterReached
<1>20. ASSUME NEW polled \in 0..Len(inbox), Crash(polled)
       PROVE  SentInv'
  BY <1>20 DEF Crash, EndTurn, SentInv, AdapterReached
<1>21. CASE UNCHANGED vars
  BY <1>21 DEF vars, SentInv, AdapterReached
<1> QED
  BY <1>1, <1>2, <1>3, <1>4, <1>5, <1>6, <1>7, <1>8, <1>9, <1>10, <1>11,
     <1>12, <1>13, <1>14, <1>15, <1>16, <1>17, <1>18, <1>19, <1>20, <1>21
     DEF Next, AnyThread

-----------------------------------------------------------------------------
(* The strengthened invariant is inductive.                                *)
LEMMA IInvAlways == Spec => []IInv
<1>1. IInv /\ [Next]_vars => IInv'
  <2> SUFFICES ASSUME IInv, [Next]_vars PROVE IInv'
    OBVIOUS
  <2>1. /\ TypeOK /\ CallInv /\ PastInv /\ ThreadInv /\ ThreadsFit
        /\ IdInv /\ SentInv
    BY ThreadsFitIs DEF IInv
  <2>2. TypeOK' /\ CallInv' /\ PastInv'
    BY <2>1, TypeStep, CallStep, PastStep
  <2>3. ThreadInv' /\ ThreadsFit'
    BY <2>1, ThreadStep, EnvelopeStep
  <2>4. ThreadsStayWithPeer'
    BY <2>3 DEF ThreadsFit, ThreadFits, FromPeer, ThreadsStayWithPeer
  <2>5. IdInv' /\ SentInv'
    BY <2>1, IdStep, SentStep
  <2> QED BY <2>2, <2>3, <2>4, <2>5 DEF IInv
<1> QED BY IInvInit, <1>1, PTL DEF Spec

(* Type correctness.                                                       *)
THEOREM TypeCorrect == Spec => []TypeOK
<1>1. IInv => TypeOK
  BY DEF IInv
<1> QED BY IInvAlways, <1>1, PTL

(* A reply window never authorizes a turn for a peer nothing of ours ever  *)
(* reached, whatever sends fail and however windows come and go.           *)
THEOREM WindowNeedsContact == Spec => []WindowOnlyAfterContact
<1>1. IInv => WindowOnlyAfterContact
  BY DEF IInv, PastInv
<1> QED BY IInvAlways, <1>1, PTL

(* No envelope carries a thread its recipient never used, and an answer to *)
(* the turn's own peer carries the thread of the message it answers,       *)
(* whatever other messages, calls and crashes come in between.             *)
THEOREM ThreadsAreScoped == Spec => []ThreadsStayWithPeer
<1>1. IInv => ThreadsStayWithPeer
  BY DEF IInv
<1> QED BY IInvAlways, <1>1, PTL

(* The auto-reply is skipped only when the turn did send to its peer, and  *)
(* never repeats what adapter.send sent.                                   *)
THEOREM RepliesFollowSends == Spec => SkipFollowsSends
<1>1. ASSUME IInv, SkipReply
      PROVE  SentToPeer({"tool", "adapter"})
  <2>1. turn # NoTurn /\ turn.msg.from \in sentThisTurn
    BY <1>1 DEF SkipReply, HandlerDone
  <2>2. turn.msg.from \in Peers
    BY <1>1, <2>1, TurnType DEF IInv
  <2> QED BY <1>1, <2>1, <2>2 DEF IInv, SentInv, AdapterReached, SentToPeer
<1>2. ASSUME IInv, ReplyBegins
      PROVE  ~SentToPeer({"adapter"})
  <2>1. turn # NoTurn /\ turn.msg.from \notin sentThisTurn
    BY <1>2 DEF ReplyBegins, HandlerDone
  <2>2. turn.msg.from \in Peers
    BY <1>2, <2>1, TurnType DEF IInv
  <2> QED BY <1>2, <2>1, <2>2 DEF IInv, SentInv, AdapterReached, SentToPeer
<1>3. IInv /\ [Next]_vars =>
        [/\ SkipReply => SentToPeer({"tool", "adapter"})
         /\ ReplyBegins => ~SentToPeer({"adapter"})]_vars
  BY <1>1, <1>2
<1> QED BY IInvAlways, <1>3, PTL DEF Spec, SkipFollowsSends
=============================================================================
