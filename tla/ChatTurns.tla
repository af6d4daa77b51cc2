------------------------------ MODULE ChatTurns ------------------------------
(***************************************************************************)
(* Chat turns of the gateway without decoupled ingest (src/adapter.py):    *)
(* the gate of _dispatch, the turn it opens, the sends made during the     *)
(* turn, and the post-turn auto-reply.  A send is made by the tool         *)
(* aap_send_message (src/tools.py) or through adapter.send, which the      *)
(* gateway calls for its own send_message tool and the auto-reply uses     *)
(* too.  Beside the turn the user's own session ("home") may call the same *)
(* tools, and relationships and reply windows come and go.  The stores are *)
(* on disk, and the code under "tool" and "adapter" is cut at its awaits:  *)
(* the relationship is read before the lookup of the catalog, the thread   *)
(* before the send, and both are used after it.                            *)
(*                                                                         *)
(* The context variables of the turn (src/turn_context.py) are turn, for   *)
(* the originating peer and the session source, and sentThisTurn; the home *)
(* session has none of them.  The text of a message is left out, but for   *)
(* whether the turn ends with a text worth sending.  One group             *)
(* conversation is enough: its member list is the subject of another       *)
(* module and fixed here.                                                  *)
(***************************************************************************)
EXTENDS Naturals, Sequences, FiniteSets

CONSTANTS
  Peers,
  Businesses,   \* peers that publish a services catalog
  Members,      \* peers in our member list of the group conversation
  Threads,      \* thread ids of 1:1 chats
  NoThread,
  NoTurn,
  NoCall,
  MaxMessages,  \* bound: chat messages peers send
  MaxCalls      \* bound: sends of the turns, and of the home session

ASSUME BusinessesAssumption == Businesses \subseteq Peers
ASSUME MembersAssumption    == Members \subseteq Peers
ASSUME BoundsAssumption     == MaxMessages \in Nat /\ MaxCalls \in Nat
ASSUME NoThreadAssumption   == NoThread \notin Threads

AnyThread == Threads \cup {NoThread}

Message == [id : 1..MaxMessages, from : Peers, group : BOOLEAN,
            thread : AnyThread]

(* What the preamble of the turn says it is authorized by.                 *)
Trust == {"group", "relationship", "window"}

Turn == [msg : Message, trust : Trust]

Sessions == {"turn", "home"}

(* A send in progress: related is what the tool found in the relationship  *)
(* store when it was called.                                               *)
Call == [step : {"catalog", "sending"}, via : {"tool", "adapter"},
         to : Peers, thread : AnyThread, related : BOOLEAN]

(* An envelope the relay accepted: answers is the message whose turn sent  *)
(* it, the home session answers none; "unreported" is one of a call whose  *)
(* send raised all the same, because the relay's answer was lost.          *)
Envelope == [to : Peers, thread : AnyThread,
             via : {"tool", "adapter", "auto", "unreported"},
             answers : Message \cup {NoTurn}]

ASSUME NoTurnAssumption == NoTurn \notin Turn \cup Message
ASSUME NoCallAssumption == NoCall \notin Call

VARIABLES
  friends,      \* peers we hold a relationship with
  window,       \* outbound_contacts: peers whose reply window is open
  lastThread,   \* peer_threads: lastThread[p] is p's latest inbound thread
  inbox,        \* chat messages not yet dispatched, oldest first: the
                \* first of them polled, the rest still at the relay
  received,     \* number of messages so far
  turn,         \* the turn the dispatch loop waits for
  replying,     \* its auto-reply is being sent
  sentThisTurn, \* peers adapter.send reached during the turn
  call,         \* call[s]: the send in progress of session s
  calls,        \* calls[s]: number of sends of session s so far
  out,          \* history: envelopes sent
  contacted,    \* history: peers we ever reached with a message or request
  heard         \* history: heard[p]: threads of 1:1 messages taken from p

storeVars == <<friends, window>>
inboxVars == <<inbox, received>>
turnVars  == <<turn, replying, sentThisTurn>>
callVars  == <<call, calls>>
pastVars  == <<contacted, heard>>
vars ==
  <<storeVars, lastThread, inboxVars, turnVars, callVars, out, pastVars>>

TypeOK ==
  /\ friends \in SUBSET Peers /\ window \in SUBSET Peers
  /\ lastThread \in [Peers -> AnyThread]
  /\ inbox \in Seq(Message) /\ received \in 0..MaxMessages
  /\ turn \in Turn \cup {NoTurn}
  /\ replying \in BOOLEAN
  /\ sentThisTurn \in SUBSET Peers
  /\ call \in [Sessions -> Call \cup {NoCall}]
  /\ calls \in [Sessions -> 0..MaxCalls]
  /\ out \in SUBSET Envelope
  /\ contacted \in SUBSET Peers
  /\ heard \in [Peers -> SUBSET Threads]

Init ==
  /\ friends = {} /\ window = {}
  /\ lastThread = [p \in Peers |-> NoThread]
  /\ inbox = <<>> /\ received = 0
  /\ turn = NoTurn /\ replying = FALSE /\ sentThisTurn = {}
  /\ call = [s \in Sessions |-> NoCall]
  /\ calls = [s \in Sessions |-> 0]
  /\ out = {}
  /\ contacted = {}
  /\ heard = [p \in Peers |-> {}]

-----------------------------------------------------------------------------
(* A peer sends a chat message; one of a group may carry a thread, too.    *)
PeerSends(p, group, t) ==
  /\ received < MaxMessages
  /\ received' = received + 1
  /\ inbox' = Append(inbox, [id |-> received + 1, from |-> p,
                             group |-> group, thread |-> t])
  /\ UNCHANGED <<storeVars, lastThread, turnVars, callVars, out, pastVars>>

(* The gate: what authorizes a message, if anything does.                  *)
Authorized(m) ==
  IF m.group THEN m.from \in Members ELSE m.from \in friends \cup window

TrustOf(m) ==
  IF m.group THEN "group"
  ELSE IF m.from \in friends THEN "relationship" ELSE "window"

(* _dispatch drops a message the gate does not accept.                     *)
DropMessage ==
  /\ turn = NoTurn /\ inbox # <<>>
  /\ ~Authorized(Head(inbox))
  /\ inbox' = Tail(inbox)
  /\ UNCHANGED <<storeVars, lastThread, received, turnVars, callVars, out,
                 pastVars>>

(* record_inbound_thread, for a 1:1 message that carries a thread.         *)
RecordThread(m) ==
  lastThread' = IF ~m.group /\ m.thread # NoThread
                THEN [lastThread EXCEPT ![m.from] = m.thread]
                ELSE lastThread

(* What m tells of the threads of the 1:1 chat with its sender.            *)
ChatThreads(m) == IF m.group THEN {} ELSE {m.thread} \ {NoThread}

(* _dispatch accepts a message: its thread is recorded, the context of the *)
(* turn is set, and the message handler is awaited.                        *)
OpenTurn ==
  /\ turn = NoTurn /\ inbox # <<>>
  /\ Authorized(Head(inbox))
  /\ inbox' = Tail(inbox)
  /\ RecordThread(Head(inbox))
  /\ heard' = [heard EXCEPT ![Head(inbox).from] =
                 @ \cup ChatThreads(Head(inbox))]
  /\ turn' = [msg |-> Head(inbox), trust |-> TrustOf(Head(inbox))]
  /\ sentThisTurn' = {}
  /\ UNCHANGED <<storeVars, received, replying, callVars, out, contacted>>

-----------------------------------------------------------------------------
(* The LLM of the turn is at work, or the user's session is.               *)
Working(s) == s = "turn" => turn # NoTurn /\ ~replying

(* Mutant of ReplyThread: the session of a group is not excluded.          *)
ThreadOfTurn(s, p) ==
  IF s = "turn" /\ turn.msg.from = p THEN turn.msg.thread ELSE NoThread

(* reply_thread_id_for: the thread of the turn, when its own peer is       *)
(* answered and the session is not a group's.                              *)
ReplyThread(s, p) ==
  IF s = "turn" /\ ~turn.msg.group /\ turn.msg.from = p
  THEN turn.msg.thread ELSE NoThread

(* aap_send_message falls back to the peer's latest inbound thread.        *)
ToolThread(s, p) ==
  IF ReplyThread(s, p) # NoThread THEN ReplyThread(s, p) ELSE lastThread[p]

Start(s, c) ==
  /\ call[s] = NoCall /\ calls[s] < MaxCalls
  /\ call' = [call EXCEPT ![s] = c]
  /\ calls' = [calls EXCEPT ![s] = @ + 1]

(* aap_send_message up to its first await: a turn may only write to its    *)
(* own peer; a peer we hold no relationship with is looked up first.       *)
ToolBegins(s, p) ==
  /\ Working(s)
  /\ s = "turn" => p = turn.msg.from
  /\ Start(s, [step |-> IF p \in friends THEN "sending" ELSE "catalog",
               via |-> "tool", to |-> p,
               thread |-> IF p \in friends THEN ToolThread(s, p)
                          ELSE NoThread,
               related |-> p \in friends])
  /\ UNCHANGED <<storeVars, lastThread, inboxVars, turnVars, out, pastVars>>

(* The catalog says the peer is a business: the send begins.               *)
CatalogAllows(s) ==
  /\ call[s] # NoCall /\ call[s].step = "catalog"
  /\ call[s].to \in Businesses
  /\ call' = [call EXCEPT ![s].step = "sending",
                          ![s].thread = ToolThread(s, call[s].to)]
  /\ UNCHANGED <<storeVars, lastThread, inboxVars, turnVars, calls, out,
                 pastVars>>

(* No catalog, another canonical agent, or the fetch failed.               *)
CatalogRefuses(s) ==
  /\ call[s] # NoCall /\ call[s].step = "catalog"
  /\ call' = [call EXCEPT ![s] = NoCall]
  /\ UNCHANGED <<storeVars, lastThread, inboxVars, turnVars, calls, out,
                 pastVars>>

(* adapter.send, called by the gateway: refused without a relationship.    *)
AdapterBegins(s, p) ==
  /\ Working(s)
  /\ p \in friends
  /\ Start(s, [step |-> "sending", via |-> "adapter", to |-> p,
               thread |-> ReplyThread(s, p), related |-> TRUE])
  /\ UNCHANGED <<storeVars, lastThread, inboxVars, turnVars, out, pastVars>>

Sent(s, via, p, t) ==
  out' = out \cup {[to |-> p, thread |-> t, via |-> via,
                    answers |-> IF s = "turn" THEN turn.msg ELSE NoTurn]}

(* The send returned.  The tool records the contact when it had found no   *)
(* relationship; adapter.send records the peer for the turn, if any.       *)
CallSent(s) ==
  /\ call[s] # NoCall /\ call[s].step = "sending"
  /\ Sent(s, call[s].via, call[s].to, call[s].thread)
  /\ contacted' = contacted \cup {call[s].to}
  /\ window' = IF call[s].via = "tool" /\ ~call[s].related
               THEN window \cup {call[s].to} ELSE window
  /\ sentThisTurn' = IF call[s].via = "adapter" /\ s = "turn"
                     THEN sentThisTurn \cup {call[s].to} ELSE sentThisTurn
  /\ call' = [call EXCEPT ![s] = NoCall]
  /\ UNCHANGED <<friends, lastThread, inboxVars, turn, replying, calls,
                 heard>>

(* Mutant of CallFails: the contact was recorded before the send.          *)
ContactBeforeSend(s) ==
  /\ call[s] # NoCall /\ call[s].step = "sending"
  /\ call' = [call EXCEPT ![s] = NoCall]
  /\ window' = IF call[s].via = "tool" /\ ~call[s].related
               THEN window \cup {call[s].to} ELSE window
  /\ UNCHANGED <<friends, lastThread, inboxVars, turnVars, calls, out,
                 pastVars>>

(* Mutant of CallFails: the peer is recorded for the turn all the same.    *)
RecordsFailedSend(s) ==
  /\ call[s] # NoCall /\ call[s].step = "sending"
  /\ sentThisTurn' = IF call[s].via = "adapter" /\ s = "turn"
                     THEN sentThisTurn \cup {call[s].to} ELSE sentThisTurn
  /\ call' = [call EXCEPT ![s] = NoCall]
  /\ UNCHANGED <<storeVars, lastThread, inboxVars, turn, replying, calls, out,
                 pastVars>>

(* The send raised, whether or not the relay accepted it: an error for the *)
(* LLM, and nothing is recorded.                                           *)
CallFails(s) ==
  /\ call[s] # NoCall /\ call[s].step = "sending"
  /\ \/ UNCHANGED <<out, contacted>>
     \/ /\ Sent(s, "unreported", call[s].to, call[s].thread)
        /\ contacted' = contacted \cup {call[s].to}
  /\ call' = [call EXCEPT ![s] = NoCall]
  /\ UNCHANGED <<storeVars, lastThread, inboxVars, turnVars, calls, heard>>

-----------------------------------------------------------------------------
(* The message handler has returned: no tool call of the turn is left.     *)
HandlerDone == turn # NoTurn /\ ~replying /\ call["turn"] = NoCall

(* The finally of _dispatch: the context of the turn is reset.             *)
EndTurn == turn' = NoTurn /\ replying' = FALSE /\ sentThisTurn' = {}

(* The turn is over without a reply: the handler raised, the text is       *)
(* empty, says no reply or is status noise, or the turn is a group's.      *)
EndSilently ==
  /\ HandlerDone
  /\ EndTurn
  /\ UNCHANGED <<storeVars, lastThread, inboxVars, callVars, out, pastVars>>

(* already_sent_to(sender).                                                *)
SkipReply ==
  /\ HandlerDone /\ ~turn.msg.group
  /\ turn.msg.from \in sentThisTurn
  /\ EndTurn
  /\ UNCHANGED <<storeVars, lastThread, inboxVars, callVars, out, pastVars>>

(* adapter.send finds no relationship: the text goes nowhere.              *)
ReplyRefused ==
  /\ HandlerDone /\ ~turn.msg.group
  /\ turn.msg.from \notin sentThisTurn
  /\ turn.msg.from \notin friends
  /\ EndTurn
  /\ UNCHANGED <<storeVars, lastThread, inboxVars, callVars, out, pastVars>>

(* The auto-reply: adapter.send up to the await on the send.               *)
ReplyBegins ==
  /\ HandlerDone /\ ~turn.msg.group
  /\ turn.msg.from \notin sentThisTurn
  /\ turn.msg.from \in friends
  /\ replying' = TRUE
  /\ UNCHANGED <<storeVars, lastThread, inboxVars, turn, sentThisTurn,
                 callVars, out, pastVars>>

ReplySent ==
  /\ replying
  /\ Sent("turn", "auto", turn.msg.from, ReplyThread("turn", turn.msg.from))
  /\ contacted' = contacted \cup {turn.msg.from}
  /\ EndTurn
  /\ UNCHANGED <<storeVars, lastThread, inboxVars, callVars, heard>>

(* Mutant of ReplyFails: it is tried again instead of ending the turn.     *)
RetryReply ==
  /\ replying
  /\ replying' = FALSE
  /\ UNCHANGED <<storeVars, lastThread, inboxVars, turn, sentThisTurn,
                 callVars, out, pastVars>>

(* The send raised: adapter.send reports it, and _dispatch goes on.        *)
ReplyFails ==
  /\ replying
  /\ \/ UNCHANGED <<out, contacted>>
     \/ /\ Sent("turn", "auto", turn.msg.from,
             ReplyThread("turn", turn.msg.from))
        /\ contacted' = contacted \cup {turn.msg.from}
  /\ EndTurn
  /\ UNCHANGED <<storeVars, lastThread, inboxVars, callVars, heard>>

-----------------------------------------------------------------------------
(* A handshake ends with a relationship; the user or the peer revokes it.  *)
Befriend(p) ==
  /\ friends' = friends \cup {p}
  /\ UNCHANGED <<window, lastThread, inboxVars, turnVars, callVars, out,
                 pastVars>>

Unfriend(p) ==
  /\ friends' = friends \ {p}
  /\ UNCHANGED <<window, lastThread, inboxVars, turnVars, callVars, out,
                 pastVars>>

(* A service request was sent to a business: its reply window opens.       *)
RequestSent(p) ==
  /\ p \in Businesses
  /\ window' = window \cup {p}
  /\ contacted' = contacted \cup {p}
  /\ UNCHANGED <<friends, lastThread, inboxVars, turnVars, callVars, out,
                 heard>>

(* 24 hours have passed since the latest contact.                          *)
WindowEnds(p) ==
  /\ window' = window \ {p}
  /\ UNCHANGED <<friends, lastThread, inboxVars, turnVars, callVars, out,
                 pastVars>>

(* The process dies and is restarted: the stores are on disk, the relay    *)
(* keeps what was not polled; the messages polled, turn and calls are gone. *)
Crash(polled) ==
  /\ turn # NoTurn \/ call["home"] # NoCall \/ polled > 0
  /\ inbox' = SubSeq(inbox, polled + 1, Len(inbox))
  /\ EndTurn
  /\ call' = [s \in Sessions |-> NoCall]
  /\ UNCHANGED <<storeVars, lastThread, received, calls, out, pastVars>>

Next ==
  \/ \E p \in Peers, group \in BOOLEAN, t \in AnyThread :
        PeerSends(p, group, t)
  \/ DropMessage \/ OpenTurn
  \/ \E s \in Sessions :
        \/ \E p \in Peers : ToolBegins(s, p) \/ AdapterBegins(s, p)
        \/ CatalogAllows(s) \/ CatalogRefuses(s)
        \/ CallSent(s) \/ CallFails(s)
  \/ EndSilently \/ SkipReply \/ ReplyRefused
  \/ ReplyBegins \/ ReplySent \/ ReplyFails
  \/ \E p \in Peers :
        Befriend(p) \/ Unfriend(p) \/ RequestSent(p) \/ WindowEnds(p)
  \/ \E polled \in 0..Len(inbox) : Crash(polled)

Spec == Init /\ [][Next]_vars

(* The dispatch loop takes the next message when it is free; a lookup and  *)
(* a send return or raise; a message handler without a tool call in        *)
(* progress returns.                                                       *)
Fairness ==
  /\ WF_vars(DropMessage \/ OpenTurn)
  /\ \A s \in Sessions :
       WF_vars(CatalogAllows(s) \/ CatalogRefuses(s) \/ CallSent(s)
               \/ CallFails(s))
  /\ WF_vars(EndSilently \/ SkipReply \/ ReplyRefused \/ ReplyBegins)
  /\ WF_vars(ReplySent \/ ReplyFails)

FairSpec == Spec /\ Fairness

-----------------------------------------------------------------------------
(* The reply window cannot be opened from outside: the turn it authorizes  *)
(* is for a peer that a message or a request of ours reached, not one a    *)
(* send was only tried to.                                                 *)
WindowOnlyAfterContact ==
  (turn # NoTurn /\ turn.trust = "window") => turn.msg.from \in contacted

(* A thread is scoped to one channel: an envelope carries only a thread    *)
(* its recipient used in a 1:1 chat with us, also when the turn it leaves  *)
(* from is another peer's, or one a group message with a thread opened;    *)
(* and what a 1:1 turn sends to its own peer carries the thread of the     *)
(* message it answers.                                                     *)
ThreadsStayWithPeer ==
  \A e \in out :
    /\ e.thread # NoThread => e.thread \in heard[e.to]
    /\ (/\ e.answers # NoTurn /\ e.to = e.answers.from
        /\ ~e.answers.group /\ e.answers.thread # NoThread)
         => e.thread = e.answers.thread

(* What the present turn has sent to its own peer by one of the ways.      *)
SentToPeer(ways) ==
  \E e \in out :
    e.answers = turn.msg /\ e.to = turn.msg.from /\ e.via \in ways

(* An auto-reply is skipped as a repeat only when an envelope of the same  *)
(* turn did reach the peer: neither a send that failed nor one of an       *)
(* earlier turn, or of the home session, silences the reply.  And what the *)
(* turn sent to its peer through adapter.send, and was told so, is not     *)
(* sent a second time by the auto-reply.                                   *)
SkipFollowsSends ==
  [][/\ SkipReply => SentToPeer({"tool", "adapter"})
     /\ ReplyBegins => ~SentToPeer({"adapter"})]_vars

(* Nothing a turn does wedges the dispatch loop: every message that comes  *)
(* in leaves the inbox, by the gate, for its turn or with a process that   *)
(* died, whatever sends fail and whichever relationships and windows come  *)
(* and go meanwhile.                                                       *)
EveryMessageServed ==
  \A i \in 1..MaxMessages :
    received >= i ~> received - Len(inbox) >= i

(* "Avoids double-send to the same peer": the auto-reply is skipped "when  *)
(* the LLM already shipped a reply via aap_send_message (or any other tool *)
(* that emits an envelope)" (turn_context).                                *)
NoDoubleSend ==
  [][ReplyBegins => ~SentToPeer({"tool", "adapter"})]_vars
=============================================================================
