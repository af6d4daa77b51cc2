--------------------------- MODULE ServiceRequests ---------------------------
(***************************************************************************)
(* Asynchronous service requests: the tool aap_send_service_request        *)
(* (src/tools.py) sends a request and files the session it came from under *)
(* the request nonce in the origin index                                   *)
(* (src/service_request_origins.py); _handle_service_response              *)
(* (src/adapter.py) pops the record when the business answers and opens a  *)
(* turn in that session.                                                   *)
(*                                                                         *)
(* A tool call and its nonce are the same thing here: the SDK draws a      *)
(* fresh nonce for each request.  The index is one JSON file that record   *)
(* and pop_if read, change and write back whole, without a lock.  Tool     *)
(* calls "can fire from any platform's thread" (src/_runtime.py), so with  *)
(* ToolThreads another access can come between the read and the write;     *)
(* without it the event loop runs each access to its end.                  *)
(*                                                                         *)
(* The pending_responses branch of the handler is not modelled: nothing in *)
(* src/ registers a waiter, so resolve never finds one.  outbound_contacts, *)
(* which the tool writes before the origin, is ChatTurns' subject.         *)
(***************************************************************************)
EXTENDS Naturals, FiniteSets

CONSTANTS
  Calls,         \* tool calls, each with its nonce
  Peers,         \* agents that may send us a service response
  Target,        \* Target[c]: the business call c addresses
  MaxResponses,  \* bound: responses in a behaviour
  ToolThreads,   \* TRUE when tool calls run beside the dispatch loop
  NoResponse

ASSUME TargetAssumption      == Target \in [Calls -> Peers]
ASSUME ResponsesAssumption   == MaxResponses \in Nat
ASSUME ToolThreadsAssumption == ToolThreads \in BOOLEAN

Response == [id : 1..MaxResponses, nonce : Calls, iss : Peers]

ASSUME NoResponseAssumption == NoResponse \notin Response

VARIABLES
  pc,         \* pc[c]: where the tool call is
  accepted,   \* calls whose request envelope the relay accepted
  origins,    \* nonces on file in the origin index
  aged,       \* nonces whose record is older than the TTL of seven days
  snapshot,   \* snapshot[c]: the file as call c read it
  net,        \* responses on their way to us: at the relay, or polled
  issued,     \* number of responses issued so far
  handlerPc,  \* where _handle_service_response is
  handling,   \* the response it is about
  handlerSnapshot,  \* the file as pop_if read it
  dispatched, \* history: responses that opened a turn in their session
  dropped,    \* history: responses mirrored to the user and dropped
  unwritten,  \* history: nonces whose deletion did not reach the disk
  cutOff      \* history: nonces cut off by a crash, a missing session,
              \* a lost response or an unreadable file

toolVars == <<pc, accepted, snapshot>>
fileVars == <<origins, aged>>
handlerVars == <<handlerPc, handling, handlerSnapshot>>
pastVars == <<dispatched, dropped, unwritten, cutOff>>
respVars == <<net, issued, handlerVars, pastVars>>
vars == <<toolVars, fileVars, respVars>>

TypeOK ==
  /\ pc \in [Calls -> {"idle", "sending", "loaded", "blind", "sent",
                      "unfiled", "error", "dead"}]
  /\ accepted \in SUBSET Calls
  /\ origins \in SUBSET Calls
  /\ aged \in SUBSET Calls
  /\ snapshot \in [Calls -> SUBSET Calls]
  /\ net \in SUBSET Response
  /\ issued \in 0..MaxResponses
  /\ handlerPc \in {"idle", "looking", "blind", "routing", "turn"}
  /\ handling \in Response \cup {NoResponse}
  /\ handlerSnapshot \in SUBSET Calls
  /\ dispatched \in SUBSET Response
  /\ dropped \in SUBSET Response
  /\ unwritten \in SUBSET Calls /\ cutOff \in SUBSET Calls

Init ==
  /\ pc = [c \in Calls |-> "idle"]
  /\ accepted = {}
  /\ origins = {} /\ aged = {}
  /\ snapshot = [c \in Calls |-> {}]
  /\ net = {} /\ issued = 0
  /\ handlerPc = "idle" /\ handling = NoResponse /\ handlerSnapshot = {}
  /\ dispatched = {} /\ dropped = {} /\ unwritten = {} /\ cutOff = {}

(* record, or pop_if, is between its read of the file and its write;       *)
(* "blind": the read found no file it could use.                           *)
Recording(c) == pc[c] \in {"loaded", "blind"}

Popping == handlerPc \in {"looking", "blind"}

FileFree == ~Popping /\ \A c \in Calls : ~Recording(c)

MayRead == ToolThreads \/ FileFree

(* _load and _prune: an unreadable or corrupt file, or one of another      *)
(* shape, counts as empty, and what is saved next replaces it.             *)
PrunedFile(readable) == IF readable THEN origins \ aged ELSE {}

(* The records that an unreadable file puts at risk.                       *)
Disturbed(readable) == IF readable THEN {} ELSE origins

-----------------------------------------------------------------------------
(* Every check before the send: address, anti-relay, catalog, canonical    *)
(* address, service, payload schema, attestations.                         *)
Refuse(c) ==
  /\ pc[c] = "idle"
  /\ pc' = [pc EXCEPT ![c] = "error"]
  /\ UNCHANGED <<accepted, snapshot, fileVars, respVars>>

(* await send_envelope_raw begins.                                         *)
Send(c) ==
  /\ pc[c] = "idle"
  /\ pc' = [pc EXCEPT ![c] = "sending"]
  /\ UNCHANGED <<accepted, snapshot, fileVars, respVars>>

RelayAccepts(c) ==
  /\ pc[c] = "sending"
  /\ accepted' = accepted \cup {c}
  /\ UNCHANGED <<pc, snapshot, fileVars, respVars>>

(* AAPClientError, for instance a response that never came: the envelope   *)
(* may have been accepted or not.                                          *)
SendFails(c) ==
  /\ pc[c] = "sending"
  /\ pc' = [pc EXCEPT ![c] = "error"]
  /\ UNCHANGED <<accepted, snapshot, fileVars, respVars>>

(* The send returned, and no session context is known: the tool reports    *)
(* sent and files no origin.                                               *)
ToolSkipsOrigin(c) ==
  /\ pc[c] = "sending" /\ c \in accepted
  /\ pc' = [pc EXCEPT ![c] = "unfiled"]
  /\ UNCHANGED <<accepted, snapshot, fileVars, respVars>>

(* The send returned: record(nonce, origin) reads the file.                *)
ToolReadsFile(c, readable) ==
  /\ pc[c] = "sending" /\ c \in accepted /\ MayRead
  /\ snapshot' = [snapshot EXCEPT ![c] = PrunedFile(readable)]
  /\ pc' = [pc EXCEPT ![c] = IF readable THEN "loaded" ELSE "blind"]
  /\ cutOff' = cutOff \cup Disturbed(readable)
  /\ UNCHANGED <<accepted, fileVars, net, issued, handlerVars,
                 dispatched, dropped, unwritten>>

(* _save replaces the file, or fails: the error is logged, not raised.     *)
Save(file, ok) == origins' = IF ok THEN file ELSE origins

(* Mutant of ToolWritesFile: the file is started afresh.                   *)
ToolWritesFresh(c, ok) ==
  /\ Recording(c)
  /\ Save({c}, ok)
  /\ pc' = [pc EXCEPT ![c] = "sent"]
  /\ UNCHANGED <<accepted, snapshot, aged, respVars>>

(* record writes the file back with the new origin, and the tool returns.  *)
ToolWritesFile(c, ok) ==
  /\ Recording(c)
  /\ Save(snapshot[c] \cup {c}, ok)
  /\ pc' = [pc EXCEPT ![c] = "sent"]
  /\ UNCHANGED <<accepted, snapshot, aged, respVars>>

(* A record gets older than DEFAULT_TTL.                                   *)
Age(c) ==
  /\ c \in origins \ aged
  /\ aged' = aged \cup {c}
  /\ UNCHANGED <<toolVars, origins, respVars>>

(* The business answers a request that reached it, as often as it likes:   *)
(* "pending" now and "confirmed" later, or the same answer again.          *)
BusinessResponds(c) ==
  /\ c \in accepted /\ issued < MaxResponses
  /\ issued' = issued + 1
  /\ net' = net \cup {[id |-> issued + 1, nonce |-> c, iss |-> Target[c]]}
  /\ UNCHANGED <<toolVars, fileVars, handlerVars, pastVars>>

(* Another agent answers with the nonce of a request not addressed to it.  *)
OtherPeerResponds(p, c) ==
  /\ p # Target[c] /\ c \in accepted /\ issued < MaxResponses
  /\ issued' = issued + 1
  /\ net' = net \cup {[id |-> issued + 1, nonce |-> c, iss |-> p]}
  /\ UNCHANGED <<toolVars, fileVars, handlerVars, pastVars>>

(* A row is lost on its way: its poll batch dies with the session, or      *)
(* acknowledges it and fails (InboxPipeline).                              *)
Lose(r) ==
  /\ r \in net
  /\ net' = net \ {r}
  /\ cutOff' = cutOff \cup {r.nonce}
  /\ UNCHANGED <<toolVars, fileVars, issued, handlerVars,
                 dispatched, dropped, unwritten>>

(* _handle_service_response up to the read in pop_if.  The dispatch loop   *)
(* handles one envelope at a time.                                         *)
HandlerReadsFile(r, readable) ==
  /\ handlerPc = "idle" /\ MayRead
  /\ r \in net
  /\ net' = net \ {r}
  /\ handlerPc' = IF readable THEN "looking" ELSE "blind"
  /\ handling' = r
  /\ handlerSnapshot' = PrunedFile(readable)
  /\ cutOff' = cutOff \cup Disturbed(readable)
  /\ UNCHANGED <<toolVars, fileVars, issued, dispatched, dropped, unwritten>>

(* Mutant of Matches: the issuer is not compared.                          *)
NonceMatches(r, file) == r.nonce \in file

(* pop_if finds the record under the nonce, and its issuer is the agent    *)
(* the request was sent to.                                                *)
Matches(r, file) == r.nonce \in file /\ r.iss = Target[r.nonce]

(* Mutants of AfterPop: a lookup that never deletes, and a plain pop.      *)
AfterPeek(r, file) == file

AfterBlindPop(r, file) == file \ {r.nonce}

(* The file after pop_if: the record goes only when it matches.            *)
AfterPop(r, file) ==
  IF Matches(r, file) THEN file \ {r.nonce} ELSE file

(* pop_if writes the file back.  A match goes on; anything else is         *)
(* mirrored to the user and dropped.                                       *)
HandlerWritesFile(ok) ==
  /\ Popping
  /\ Save(AfterPop(handling, handlerSnapshot), ok)
  /\ IF Matches(handling, handlerSnapshot)
     THEN /\ handlerPc' = "routing"
          /\ unwritten' = IF ok THEN unwritten
                          ELSE unwritten \cup {handling.nonce}
          /\ UNCHANGED dropped
     ELSE /\ handlerPc' = "idle"
          /\ dropped' = dropped \cup {handling}
          /\ UNCHANGED unwritten
  /\ UNCHANGED <<toolVars, aged, net, issued, handling, handlerSnapshot,
                 dispatched, cutOff>>

(* A turn opens in the originating session.                                *)
TurnOpens ==
  /\ handlerPc = "routing"
  /\ handlerPc' = "turn"
  /\ dispatched' = dispatched \cup {handling}
  /\ UNCHANGED <<toolVars, fileVars, net, issued, handling, handlerSnapshot,
                 dropped, unwritten, cutOff>>

(* No message handler is bound, the record has another shape, or its       *)
(* session cannot be rebuilt: the record is spent and no turn opens.       *)
NoSession ==
  /\ handlerPc = "routing"
  /\ handlerPc' = "idle"
  /\ cutOff' = cutOff \cup {handling.nonce}
  /\ UNCHANGED <<toolVars, fileVars, net, issued, handling, handlerSnapshot,
                 dispatched, dropped, unwritten>>

(* The message handler returned or raised.                                 *)
TurnEnds ==
  /\ handlerPc = "turn"
  /\ handlerPc' = "idle"
  /\ UNCHANGED <<toolVars, fileVars, net, issued, handling, handlerSnapshot,
                 pastVars>>

(* A call that the death of the process ends.                              *)
Running(c) == pc[c] \in {"sending", "loaded", "blind"}

(* The process dies and is restarted: tool calls, the response in hand and *)
(* the ones polled but not handled are forgotten, the file and the relay's *)
(* mailbox stay.                                                           *)
Crash(polled) ==
  /\ polled # {} \/ handlerPc # "idle" \/ \E c \in Calls : Running(c)
  /\ pc' = [c \in Calls |-> IF Running(c) THEN "dead" ELSE pc[c]]
  /\ net' = net \ polled
  /\ handlerPc' = "idle"
  /\ cutOff' = cutOff \cup {r.nonce : r \in polled}
                 \cup IF handlerPc \in {"idle", "turn"} THEN {}
                      ELSE {handling.nonce}
  /\ UNCHANGED <<accepted, snapshot, fileVars, issued,
                 handling, handlerSnapshot, dispatched, dropped, unwritten>>

Next ==
  \/ \E c \in Calls :
        \/ Refuse(c)
        \/ Send(c) \/ RelayAccepts(c) \/ SendFails(c)
        \/ ToolSkipsOrigin(c)
        \/ \E readable \in BOOLEAN : ToolReadsFile(c, readable)
        \/ \E ok \in BOOLEAN : ToolWritesFile(c, ok)
        \/ Age(c)
  \/ \E c \in Calls :
        \/ BusinessResponds(c)
        \/ \E p \in Peers : OtherPeerResponds(p, c)
  \/ \E r \in net :
        \/ Lose(r)
        \/ \E readable \in BOOLEAN : HandlerReadsFile(r, readable)
  \/ \E ok \in BOOLEAN : HandlerWritesFile(ok)
  \/ TurnOpens \/ NoSession \/ TurnEnds
  \/ \E polled \in SUBSET net : Crash(polled)

Spec == Init /\ [][Next]_vars

(* The inbound pipeline hands every response to the handler at last, and   *)
(* what runs is not stopped: tools write, handlers go on, turns end.       *)
Fairness ==
  /\ \A c \in Calls : WF_vars(\E ok \in BOOLEAN : ToolWritesFile(c, ok))
  /\ SF_vars(\E r \in net, readable \in BOOLEAN :
               HandlerReadsFile(r, readable))
  /\ WF_vars(\E ok \in BOOLEAN : HandlerWritesFile(ok))
  /\ WF_vars(TurnOpens \/ NoSession)
  /\ WF_vars(TurnEnds)

FairSpec == Spec /\ Fairness
-----------------------------------------------------------------------------
(* However often the business answers, duplicated or "pending" before      *)
(* "confirmed", across crashes, a request opens at most one turn, unless   *)
(* the deletion of its record failed on disk: pop_if deletes what it       *)
(* returns.                                                                *)
OneTurnPerRequest ==
  \A q, r \in dispatched :
    q.nonce = r.nonce => (q = r \/ q.nonce \in unwritten)

(* A turn is opened only by the agent the request was sent to, and only for *)
(* a call that reported sent from a session it knew: no answer of another  *)
(* agent, or to a call that failed, died or had no session, gets into a    *)
(* conversation, whatever stale copies of the file are written back.       *)
OnlyTargetOpensTurn ==
  \A r \in dispatched : r.iss = Target[r.nonce] /\ pc[r.nonce] = "sent"

(* "A mismatch leaves the record in place so a forged response can't       *)
(* snipe the legitimate one" (ServiceRequestOriginIndex): a record leaves  *)
(* the file only while its target's response is being handled, when it is  *)
(* older than the TTL, or when the access that writes the file had found it *)
(* unreadable ("In-flight service responses for prior nonces will be       *)
(* dropped").                                                              *)
OriginKept ==
  [][\A c \in origins \ origins' :
        \/ c \in aged
        \/ /\ handlerPc = "looking"
           /\ handling.nonce = c /\ handling.iss = Target[c]
        \/ handlerPc = "blind" /\ handlerPc' = "idle"
        \/ \E d \in Calls : pc[d] = "blind" /\ pc'[d] = "sent"]_vars

(* While the origin of a request is on file, an answer of its target leads *)
(* to a turn in the session that asked, whatever other answers come before *)
(* it, unless the record outlives its TTL, a failed write touched it, the  *)
(* file was unreadable while it was on file, or the answer was lost on its *)
(* way or in a crash.                                                      *)
AnswerOpensTurn ==
  \A c \in Calls :
    (/\ c \in origins
     /\ \E r \in net : r.nonce = c /\ r.iss = Target[c])
      ~> \/ \E q \in dispatched : q.nonce = c
         \/ c \in aged \cup unwritten \cup cutOff

(* What the index is for: "the eventual inbound aap.service-response/v1    *)
(* can be routed back into the originating user/group session".  The first *)
(* answer of the business to a call that reports sent and has filed its    *)
(* origin is not dropped, unless the file was unreadable or a crash came.  *)
FirstAnswerRouted ==
  \A r \in dropped :
    (r.iss = Target[r.nonce] /\ r.nonce \in (origins \ aged) \ cutOff)
      => \E q \in dispatched : q.nonce = r.nonce
=============================================================================
