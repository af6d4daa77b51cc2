---------------------------- MODULE InboxPipeline ----------------------------
(***************************************************************************)
(* The inbound half of AAPPlatformAdapter (src/adapter.py): the relay's    *)
(* queue for this agent, the poll loop that drains it, the bounded         *)
(* asyncio.Queue between the two loops, and the single dispatch loop.      *)
(*                                                                         *)
(* Rows are numbered in the order the relay accepted them.  A row is in    *)
(* exactly one place: on the relay, in the batch the last poll returned,   *)
(* in the queue, handed to _dispatch (begun), or lost.  asyncio runs one   *)
(* task at a time, so an action is the code between two awaits.            *)
(*                                                                         *)
(* The relay is external.  Nothing in src/ acknowledges a row, so a row    *)
(* that poll_inbox returned is gone from the relay; a poll that fails may  *)
(* have consumed rows whose response never arrived.                        *)
(***************************************************************************)
EXTENDS Naturals, Sequences, FiniteSets

CONSTANTS
  MaxRows,    \* bound: rows peers send in a behaviour
  QueueSize,  \* asyncio.Queue(maxsize=256)
  MaxBoots    \* bound: times the gateway connects in a behaviour

ASSUME MaxRowsAssumption   == MaxRows \in Nat
ASSUME QueueSizeAssumption == QueueSize \in Nat \ {0}
ASSUME MaxBootsAssumption  == MaxBoots \in Nat

VARIABLES
  sent,      \* number of rows the relay has accepted so far
  relay,     \* rows still held by the relay, oldest first
  batch,     \* rows of the last poll the poll loop has not yet put
  queue,     \* _inbox_queue
  current,   \* the row _dispatch is working on, 0 when there is none
  begun,     \* history: rows handed to _dispatch, in order
  lost,      \* history: rows that will never be dispatched
  pollPc,    \* where the poll loop is suspended
  dispPc,    \* where the dispatch loop is suspended
  phase,     \* the adapter between connect() and disconnect()
  boots      \* number of connects so far

vars == <<sent, relay, batch, queue, current, begun, lost,
          pollPc, dispPc, phase, boots>>

loopVars == <<pollPc, dispPc, phase, boots>>

Rows == 1..MaxRows

ElemsOf(s) == {s[i] : i \in DOMAIN s}

Dropped(s, k) == SubSeq(s, k + 1, Len(s))

TypeOK ==
  /\ sent \in 0..MaxRows
  /\ relay \in Seq(Rows)
  /\ batch \in Seq(Rows)
  /\ queue \in Seq(Rows) /\ Len(queue) <= QueueSize
  /\ current \in {0} \cup Rows
  /\ begun \in Seq(Rows)
  /\ lost \in SUBSET Rows
  /\ pollPc \in {"polling", "putting", "backoff", "stopped"}
  /\ dispPc \in {"getting", "dispatching", "stopped"}
  /\ phase \in {"down", "up", "stopping"}
  /\ boots \in 0..MaxBoots

Init ==
  /\ sent = 0
  /\ relay = <<>> /\ batch = <<>> /\ queue = <<>> /\ begun = <<>>
  /\ current = 0
  /\ lost = {}
  /\ pollPc = "stopped" /\ dispPc = "stopped"
  /\ phase = "down"
  /\ boots = 0

-----------------------------------------------------------------------------
(* A peer's envelope is accepted by the relay, whether or not we are up.   *)
PeerSends ==
  /\ sent < MaxRows
  /\ sent' = sent + 1
  /\ relay' = Append(relay, sent + 1)
  /\ UNCHANGED <<batch, queue, current, begun, lost, loopVars>>

(* connect() once register() succeeded: a fresh queue and both loops.  A   *)
(* rejected registration returns False and changes nothing.                *)
Connect ==
  /\ phase = "down"
  /\ boots < MaxBoots
  /\ boots' = boots + 1
  /\ phase' = "up"
  /\ queue' = <<>>
  /\ pollPc' = "polling" /\ dispPc' = "getting"
  /\ UNCHANGED <<sent, relay, batch, current, begun, lost>>

(* Mutants of PollReturns: a poll that leaves its rows on the relay, and   *)
(* the older design, one loop that polls only between two dispatches.      *)
PollReturnsKeepsRows ==
  /\ phase = "up" /\ pollPc = "polling"
  /\ \E k \in 1..Len(relay) : batch' = SubSeq(relay, 1, k)
  /\ pollPc' = "putting"
  /\ UNCHANGED <<sent, relay, queue, current, begun, lost, dispPc, phase, boots>>

PollReturnsInline ==
  /\ phase = "up" /\ pollPc = "polling" /\ dispPc = "getting"
  /\ \E k \in 1..Len(relay) :
        /\ batch' = SubSeq(relay, 1, k)
        /\ relay' = Dropped(relay, k)
  /\ pollPc' = "putting"
  /\ UNCHANGED <<sent, queue, current, begun, lost, dispPc, phase, boots>>

(* poll_inbox(wait=30) returns the k oldest rows.  An empty long poll      *)
(* changes nothing: the loop yields and polls again.                       *)
PollReturns ==
  /\ phase = "up" /\ pollPc = "polling"
  /\ \E k \in 1..Len(relay) :
        /\ batch' = SubSeq(relay, 1, k)
        /\ relay' = Dropped(relay, k)
  /\ pollPc' = "putting"
  /\ UNCHANGED <<sent, queue, current, begun, lost, dispPc, phase, boots>>

(* poll_inbox raises: rows the relay had already handed out are gone.  The *)
(* exponential delay has no effect but time, so only the suspension point  *)
(* is kept.                                                                *)
PollFails ==
  /\ phase = "up" /\ pollPc = "polling"
  /\ \E k \in 0..Len(relay) :
        /\ relay' = Dropped(relay, k)
        /\ lost' = lost \cup ElemsOf(SubSeq(relay, 1, k))
  /\ pollPc' = "backoff"
  /\ UNCHANGED <<sent, batch, queue, current, begun, dispPc, phase, boots>>

(* Mutant of BackoffEnds: the poll loop gives up.                          *)
PollGivesUp ==
  /\ phase = "up" /\ pollPc = "backoff"
  /\ pollPc' = "stopped"
  /\ UNCHANGED <<sent, relay, batch, queue, current, begun, lost,
                 dispPc, phase, boots>>

(* The backoff sleep ends and the loop polls again; it never gives up.     *)
BackoffEnds ==
  /\ phase = "up" /\ pollPc = "backoff"
  /\ pollPc' = "polling"
  /\ UNCHANGED <<sent, relay, batch, queue, current, begun, lost,
                 dispPc, phase, boots>>

(* Mutants of PutRow: a queue without maxsize, and put_nowait with the     *)
(* QueueFull swallowed.                                                    *)
PutRowUnbounded ==
  /\ phase = "up" /\ pollPc = "putting"
  /\ queue' = Append(queue, Head(batch))
  /\ batch' = Tail(batch)
  /\ pollPc' = IF Len(batch) = 1 THEN "polling" ELSE "putting"
  /\ UNCHANGED <<sent, relay, current, begun, lost, dispPc, phase, boots>>

PutRowNoWait ==
  /\ phase = "up" /\ pollPc = "putting"
  /\ queue' = IF Len(queue) < QueueSize THEN Append(queue, Head(batch))
              ELSE queue
  /\ batch' = Tail(batch)
  /\ pollPc' = IF Len(batch) = 1 THEN "polling" ELSE "putting"
  /\ UNCHANGED <<sent, relay, current, begun, lost, dispPc, phase, boots>>

(* await _inbox_queue.put(row): suspended while the queue is full.  After  *)
(* the last row of the batch the loop yields and polls again.              *)
PutRow ==
  /\ phase = "up" /\ pollPc = "putting"
  /\ Len(queue) < QueueSize
  /\ queue' = Append(queue, Head(batch))
  /\ batch' = Tail(batch)
  /\ pollPc' = IF Len(batch) = 1 THEN "polling" ELSE "putting"
  /\ UNCHANGED <<sent, relay, current, begun, lost, dispPc, phase, boots>>

(* Mutant of DispatchBegins: the newest row first, as a LifoQueue would.   *)
DispatchNewest ==
  /\ phase # "down" /\ dispPc = "getting"
  /\ queue # <<>>
  /\ current' = queue[Len(queue)]
  /\ queue' = SubSeq(queue, 1, Len(queue) - 1)
  /\ begun' = Append(begun, queue[Len(queue)])
  /\ dispPc' = "dispatching"
  /\ UNCHANGED <<sent, relay, batch, lost, pollPc, phase, boots>>

(* The dispatch loop takes the oldest row and enters _dispatch.  A loop    *)
(* already suspended in get() does so even after _running was cleared.     *)
DispatchBegins ==
  /\ phase # "down" /\ dispPc = "getting"
  /\ queue # <<>>
  /\ current' = Head(queue)
  /\ queue' = Tail(queue)
  /\ begun' = Append(begun, Head(queue))
  /\ dispPc' = "dispatching"
  /\ UNCHANGED <<sent, relay, batch, lost, pollPc, phase, boots>>

(* _dispatch returns, or raises and is logged: the loop goes on either     *)
(* way, unless _running was cleared meanwhile.                             *)
DispatchEnds ==
  /\ phase # "down" /\ dispPc = "dispatching"
  /\ current' = 0
  /\ dispPc' = IF phase = "up" THEN "getting" ELSE "stopped"
  /\ UNCHANGED <<sent, relay, batch, queue, begun, lost, pollPc, phase, boots>>

(* A CancelledError comes out of _dispatch although nobody cancelled the   *)
(* loop (a handler awaited something that was cancelled): the loop takes   *)
(* it for its own cancellation and returns, while the poll loop goes on.   *)
DispatchCancelledFromWithin ==
  /\ phase = "up" /\ dispPc = "dispatching"
  /\ current' = 0
  /\ dispPc' = "stopped"
  /\ UNCHANGED <<sent, relay, batch, queue, begun, lost, pollPc, phase, boots>>

(* disconnect() up to the await on the cancelled poll task: _running is    *)
(* cleared, and the rows of the batch, or of a poll still in flight, die   *)
(* with the task.                                                          *)
DisconnectPoll ==
  /\ phase = "up"
  /\ phase' = "stopping"
  /\ pollPc' = "stopped"
  /\ \E k \in 0..(IF pollPc = "polling" THEN Len(relay) ELSE 0) :
        /\ relay' = Dropped(relay, k)
        /\ lost' = lost \cup ElemsOf(batch) \cup ElemsOf(SubSeq(relay, 1, k))
  /\ batch' = <<>>
  /\ UNCHANGED <<sent, queue, current, begun, dispPc, boots>>

(* The rest of disconnect(): the dispatch task is cancelled wherever it    *)
(* is, and the queue is discarded.                                         *)
DisconnectDispatch ==
  /\ phase = "stopping"
  /\ phase' = "down"
  /\ dispPc' = "stopped"
  /\ current' = 0
  /\ lost' = lost \cup ElemsOf(queue)
  /\ queue' = <<>>
  /\ UNCHANGED <<sent, relay, batch, begun, pollPc, boots>>

(* The process dies: nothing of the pipeline is on disk.                   *)
Crash ==
  /\ phase # "down"
  /\ phase' = "down"
  /\ pollPc' = "stopped" /\ dispPc' = "stopped"
  /\ current' = 0
  /\ \E k \in 0..(IF pollPc = "polling" THEN Len(relay) ELSE 0) :
        /\ relay' = Dropped(relay, k)
        /\ lost' = lost \cup ElemsOf(queue) \cup ElemsOf(batch)
                        \cup ElemsOf(SubSeq(relay, 1, k))
  /\ queue' = <<>> /\ batch' = <<>>
  /\ UNCHANGED <<sent, begun, boots>>

Next ==
  \/ PeerSends
  \/ Connect
  \/ PollReturns \/ PollFails \/ BackoffEnds \/ PutRow
  \/ DispatchBegins \/ DispatchEnds \/ DispatchCancelledFromWithin
  \/ DisconnectPoll \/ DisconnectDispatch
  \/ Crash

Spec == Init /\ [][Next]_vars

(* What the event loop guarantees: a task that can run, runs.  The network *)
(* is assumed to heal: a poll tried again and again succeeds at last.      *)
PollFairness ==
  /\ SF_vars(PollReturns)
  /\ WF_vars(BackoffEnds)
  /\ WF_vars(PutRow)

(* Nothing is assumed of the dispatch loop here: a turn may never end.     *)
FairSpec == Spec /\ PollFairness

(* Every _dispatch ends: the LLM turn it waits for terminates.             *)
DispatchFairness ==
  /\ WF_vars(DispatchBegins)
  /\ WF_vars(DispatchEnds)
-----------------------------------------------------------------------------
(* Everything accepted and not yet begun, in the order it will be begun.   *)
Pending == queue \o batch \o relay

(* "The LLM sees messages in the order the relay delivered them"           *)
(* (_dispatch_loop): no row is begun twice, and none before an older one,  *)
(* across failed polls, disconnects and restarts.                          *)
InOrderOnce ==
  \A i, j \in DOMAIN begun : i < j => begun[i] < begun[j]

(* No row disappears silently: a row is on the relay, in the batch, in the *)
(* queue, begun, or was lost to a failed poll, a disconnect or a crash,    *)
(* and a lost row was never begun.                                         *)
NothingVanishes ==
  /\ 1..sent = ElemsOf(Pending) \cup ElemsOf(begun) \cup lost
  /\ lost \cap (ElemsOf(Pending) \cup ElemsOf(begun)) = {}

(* Why the loops are split (_poll_loop): the relay is drained even when    *)
(* the dispatch in flight never ends, until the queue is full.             *)
RelayDrained ==
  (phase = "up" /\ relay # <<>>)
    ~> (relay = <<>> \/ Len(queue) = QueueSize \/ phase # "up")

(* The dispatch loop returned while the gateway is up.                     *)
ConsumerGone == phase = "up" /\ dispPc = "stopped"

(* A failing dispatch never takes the consumer offline, and the poll loop  *)
(* never gives up: if turns end, every row accepted while we are up is at  *)
(* last begun, unless a failed poll lost it, the gateway went down, or a   *)
(* dispatch was cancelled from within.                                     *)
EveryRowBegun ==
  DispatchFairness =>
    \A r \in Rows :
      (phase = "up" /\ r <= sent)
        ~> (r \in ElemsOf(begun) \cup lost \/ phase # "up" \/ ConsumerGone)
-----------------------------------------------------------------------------
(* The pipeline implements an ordered at-most-once channel: the three      *)
(* buffers together are the channel, and delivery is the call of           *)
(* _dispatch.                                                              *)
Channel == INSTANCE OrderedDelivery
             WITH accepted <- sent, pending <- Pending, delivered <- begun

ImplementsOrderedDelivery == Channel!Spec
=============================================================================
