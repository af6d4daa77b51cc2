-------------------------- MODULE ReasoningScheduler --------------------------
(***************************************************************************)
(* Decoupled ingest (AAP_INGEST_DECOUPLED): src/ingest.py writes every     *)
(* inbound row to the session DB, and src/reasoning.py runs one loop per   *)
(* session that turns unread rows into LLM turns.  The writers are the     *)
(* chat branch of _dispatch and enqueue_group_home_reply (src/adapter.py). *)
(*                                                                         *)
(* A turn reads the whole session history when it starts (the gateway      *)
(* loads conv_history then), so the rows of a session are counted and not  *)
(* named: a turn covers every row written before it began.                 *)
(*                                                                         *)
(* signal() has no await that suspends, so the write and the signal of     *)
(* _dispatch are one step.  enqueue_group_home_reply only schedules its    *)
(* signal as a task: that one runs later, possibly after close().          *)
(***************************************************************************)
EXTENDS Naturals, FiniteSets

CONSTANTS
  Sessions,   \* session keys: a peer address or aap-group:<conv>
  MaxInputs,  \* bound: inputs (relay rows and home replies) per session
  MaxBoots    \* bound: times the gateway connects in a behaviour

ASSUME MaxInputsAssumption == MaxInputs \in Nat
ASSUME MaxBootsAssumption  == MaxBoots \in Nat

VARIABLES
  rows,       \* rows[s]: user rows of s in the session DB, which is on disk
  covered,    \* covered[s]: rows the latest turn of s found at its start
  base,       \* history: rows[s] when the present scheduler was created
  hasInput,   \* hasInput[s]: the asyncio.Event of s is set
  registered, \* the keys of _sessions
  waiting,    \* waiting[s]: loops of s suspended in has_input.wait()
  turning,    \* turning[s]: loops of s suspended in the message handler
  lateSignal, \* lateSignal[s]: signal() tasks created and not yet run
  phase,      \* the scheduler: "down", "up" or "closing"
  inputs,     \* history: inputs of s so far
  turns,      \* history: turns of s since the scheduler was created
  signals,    \* history: signals of s it took, or has scheduled
  boots

vars == <<rows, covered, base, hasInput, registered, waiting, turning,
          lateSignal, phase, inputs, turns, signals, boots>>

Zero == [s \in Sessions |-> 0]

TypeOK ==
  /\ rows \in [Sessions -> 0..MaxInputs]
  /\ covered \in [Sessions -> 0..MaxInputs]
  /\ base \in [Sessions -> 0..MaxInputs]
  /\ hasInput \in [Sessions -> BOOLEAN]
  /\ registered \in SUBSET Sessions
  /\ waiting \in [Sessions -> Nat]
  /\ turning \in [Sessions -> Nat]
  /\ lateSignal \in [Sessions -> 0..MaxInputs]
  /\ phase \in {"down", "up", "closing"}
  /\ inputs \in [Sessions -> 0..MaxInputs]
  /\ turns \in [Sessions -> Nat]
  /\ signals \in [Sessions -> 0..MaxInputs]
  /\ boots \in 0..MaxBoots

Init ==
  /\ rows = Zero /\ covered = Zero /\ base = Zero
  /\ hasInput = [s \in Sessions |-> FALSE]
  /\ registered = {}
  /\ waiting = Zero /\ turning = Zero /\ lateSignal = Zero
  /\ phase = "down"
  /\ inputs = Zero /\ turns = Zero /\ signals = Zero
  /\ boots = 0

-----------------------------------------------------------------------------
(* connect() builds a new scheduler.  Signal tasks left from the previous  *)
(* one hold the closed object and do nothing, so they are forgotten.       *)
Connect ==
  /\ phase = "down" /\ boots < MaxBoots
  /\ boots' = boots + 1
  /\ phase' = "up"
  /\ base' = rows
  /\ registered' = {}
  /\ hasInput' = [s \in Sessions |-> FALSE]
  /\ lateSignal' = Zero /\ turns' = Zero /\ signals' = Zero
  /\ UNCHANGED <<rows, covered, waiting, turning, inputs>>

(* Mutants of Signal: a loop for every signal, no look at the closed       *)
(* flag, and the event set only when the session is new.                   *)
SignalAlwaysSpawns(s) ==
  IF phase = "up"
  THEN /\ registered' = registered \cup {s}
       /\ waiting' = [waiting EXCEPT ![s] = @ + 1]
       /\ hasInput' = [hasInput EXCEPT ![s] = TRUE]
  ELSE UNCHANGED <<registered, waiting, hasInput>>

SignalAfterClose(s) ==
  /\ registered' = registered \cup {s}
  /\ waiting' = IF s \in registered THEN waiting
                ELSE [waiting EXCEPT ![s] = @ + 1]
  /\ hasInput' = [hasInput EXCEPT ![s] = TRUE]

SignalOnlyNew(s) ==
  IF phase = "up" /\ s \notin registered
  THEN /\ registered' = registered \cup {s}
       /\ waiting' = [waiting EXCEPT ![s] = @ + 1]
       /\ hasInput' = [hasInput EXCEPT ![s] = TRUE]
  ELSE UNCHANGED <<registered, waiting, hasInput>>

(* signal(s): nothing once closing; otherwise the session and its loop are *)
(* created on first use and the event is set.                              *)
Signal(s) ==
  IF phase = "up"
  THEN /\ registered' = registered \cup {s}
       /\ waiting' = IF s \in registered THEN waiting
                     ELSE [waiting EXCEPT ![s] = @ + 1]
       /\ hasInput' = [hasInput EXCEPT ![s] = TRUE]
  ELSE UNCHANGED <<registered, waiting, hasInput>>

(* persist_user_message(s): one more row, or None when the write failed.   *)
Persist(s, written) ==
  rows' = IF written THEN [rows EXCEPT ![s] = @ + 1] ELSE rows

(* The chat branch of _dispatch.  It signals even if the write failed.     *)
(* The dispatch task is gone before the scheduler is closed.               *)
IngestRelayRow(s, written) ==
  /\ phase = "up" /\ inputs[s] < MaxInputs
  /\ inputs' = [inputs EXCEPT ![s] = @ + 1]
  /\ Persist(s, written)
  /\ Signal(s)
  /\ signals' = [signals EXCEPT ![s] = @ + 1]
  /\ UNCHANGED <<covered, base, turning, lateSignal, phase, turns, boots>>

(* enqueue_group_home_reply: gives up if the write failed, else schedules  *)
(* the signal.  disconnect() drops the scheduler only after close()        *)
(* returned, so a reply is still accepted while it is closing.             *)
EnqueueHomeReply(s, written) ==
  /\ phase \in {"up", "closing"} /\ inputs[s] < MaxInputs
  /\ inputs' = [inputs EXCEPT ![s] = @ + 1]
  /\ Persist(s, written)
  /\ lateSignal' = IF written THEN [lateSignal EXCEPT ![s] = @ + 1]
                   ELSE lateSignal
  /\ signals' = IF written THEN [signals EXCEPT ![s] = @ + 1] ELSE signals
  /\ UNCHANGED <<covered, base, hasInput, registered, waiting, turning,
                 phase, turns, boots>>

(* The scheduled signal runs, before, during or after close().             *)
RunLateSignal(s) ==
  /\ lateSignal[s] > 0
  /\ lateSignal' = [lateSignal EXCEPT ![s] = @ - 1]
  /\ Signal(s)
  /\ UNCHANGED <<rows, covered, base, turning, phase, inputs, turns,
                 signals, boots>>

(* Mutant of TurnStarts: the event is never cleared.                       *)
TurnStartsUncleared(s) ==
  /\ phase = "up"
  /\ waiting[s] > 0 /\ hasInput[s]
  /\ covered' = [covered EXCEPT ![s] = rows[s]]
  /\ waiting' = [waiting EXCEPT ![s] = @ - 1]
  /\ turning' = [turning EXCEPT ![s] = @ + 1]
  /\ turns' = [turns EXCEPT ![s] = @ + 1]
  /\ UNCHANGED <<rows, base, hasInput, registered, lateSignal, phase, inputs,
                 signals, boots>>

(* The loop of s wakes, clears the event, builds the tick and enters the   *)
(* message handler, which loads the history.                               *)
TurnStarts(s) ==
  /\ phase = "up"
  /\ waiting[s] > 0 /\ hasInput[s]
  /\ hasInput' = [hasInput EXCEPT ![s] = FALSE]
  /\ covered' = [covered EXCEPT ![s] = rows[s]]
  /\ waiting' = [waiting EXCEPT ![s] = @ - 1]
  /\ turning' = [turning EXCEPT ![s] = @ + 1]
  /\ turns' = [turns EXCEPT ![s] = @ + 1]
  /\ UNCHANGED <<rows, base, registered, lateSignal, phase, inputs,
                 signals, boots>>

(* Mutant of TurnEnds: the event is cleared after the turn.                *)
TurnEndsThenClears(s) ==
  /\ phase = "up" /\ turning[s] > 0
  /\ turning' = [turning EXCEPT ![s] = @ - 1]
  /\ waiting' = [waiting EXCEPT ![s] = @ + 1]
  /\ hasInput' = [hasInput EXCEPT ![s] = FALSE]
  /\ UNCHANGED <<rows, covered, base, registered, lateSignal, phase, inputs,
                 turns, signals, boots>>

(* The handler returns, or raises an Exception that is logged.             *)
TurnEnds(s) ==
  /\ phase = "up" /\ turning[s] > 0
  /\ turning' = [turning EXCEPT ![s] = @ - 1]
  /\ waiting' = [waiting EXCEPT ![s] = @ + 1]
  /\ UNCHANGED <<rows, covered, base, hasInput, registered, lateSignal,
                 phase, inputs, turns, signals, boots>>

(* The handler raises CancelledError although nobody closes the scheduler  *)
(* (it awaited something that was cancelled): the loop returns, and s      *)
(* stays in _sessions without a loop.                                      *)
TurnCancelledFromWithin(s) ==
  /\ phase = "up" /\ turning[s] > 0
  /\ turning' = [turning EXCEPT ![s] = @ - 1]
  /\ UNCHANGED <<rows, covered, base, hasInput, registered, waiting,
                 lateSignal, phase, inputs, turns, signals, boots>>

(* close(), first half: no more signals, every loop is cancelled.  A       *)
(* suspended loop ends at once; a handler may take its time to unwind.     *)
CloseBegins ==
  /\ phase = "up"
  /\ phase' = "closing"
  /\ waiting' = Zero
  /\ UNCHANGED <<rows, covered, base, hasInput, registered, turning,
                 lateSignal, inputs, turns, signals, boots>>

(* Mutant of TurnUnwinds: the loop treats the cancellation as a failed     *)
(* turn and carries on.                                                    *)
TurnCarriesOn(s) ==
  /\ phase = "closing" /\ turning[s] > 0
  /\ covered' = [covered EXCEPT ![s] = rows[s]]
  /\ UNCHANGED <<rows, base, hasInput, registered, waiting, turning,
                 lateSignal, phase, inputs, turns, signals, boots>>

(* A cancelled handler is through with unwinding.                          *)
TurnUnwinds(s) ==
  /\ phase = "closing" /\ turning[s] > 0
  /\ turning' = [turning EXCEPT ![s] = @ - 1]
  /\ UNCHANGED <<rows, covered, base, hasInput, registered, waiting,
                 lateSignal, phase, inputs, turns, signals, boots>>

(* close(), second half: every task was awaited, _sessions is cleared.     *)
CloseEnds ==
  /\ phase = "closing"
  /\ \A s \in Sessions : turning[s] = 0
  /\ phase' = "down"
  /\ registered' = {}
  /\ UNCHANGED <<rows, covered, base, hasInput, waiting, turning,
                 lateSignal, inputs, turns, signals, boots>>

(* The process dies: only the session DB survives.                         *)
Crash ==
  /\ phase # "down"
  /\ phase' = "down"
  /\ registered' = {}
  /\ hasInput' = [s \in Sessions |-> FALSE]
  /\ waiting' = Zero /\ turning' = Zero /\ lateSignal' = Zero
  /\ UNCHANGED <<rows, covered, base, inputs, turns, signals, boots>>

Next ==
  \/ Connect
  \/ \E s \in Sessions, written \in BOOLEAN :
        IngestRelayRow(s, written) \/ EnqueueHomeReply(s, written)
  \/ \E s \in Sessions :
        \/ RunLateSignal(s)
        \/ TurnStarts(s) \/ TurnEnds(s)
        \/ TurnCancelledFromWithin(s)
        \/ TurnUnwinds(s)
  \/ CloseBegins \/ CloseEnds
  \/ Crash

Spec == Init /\ [][Next]_vars

(* The event loop runs every task that can run, and every turn ends.       *)
Fairness ==
  \A s \in Sessions :
    /\ WF_vars(RunLateSignal(s))
    /\ WF_vars(TurnStarts(s))
    /\ WF_vars(TurnEnds(s))
    /\ WF_vars(TurnUnwinds(s))

FairSpec == Spec /\ Fairness /\ WF_vars(CloseEnds)
-----------------------------------------------------------------------------
(* A loop that returned after a cancellation from within, see above.       *)
LoopDead(s) == s \in registered /\ waiting[s] + turning[s] = 0

(* Rows of s written under the present scheduler that no turn has read.    *)
Unread(s) == rows[s] > base[s] /\ rows[s] > covered[s]

(* "The scheduler runs one LLM turn per session" (reasoning.py): never two *)
(* loops for a session, not even across close() and a new connect().       *)
OneLoopPerSession ==
  \A s \in Sessions : waiting[s] + turning[s] <= 1

(* No lost wake-up: while the scheduler is up, a row no turn has read is   *)
(* announced by the event or by a signal that is still to run.  Clearing   *)
(* the event before the turn is what makes this true.                      *)
NoLostWakeup ==
  \A s \in Sessions :
    (phase = "up" /\ Unread(s)) => (hasInput[s] \/ lateSignal[s] > 0)

(* No turn without input: since connect() a session had at most one turn   *)
(* for each signal, counting the turn its event still promises.            *)
TurnsArePaidFor ==
  \A s \in Sessions :
    turns[s] + lateSignal[s] + (IF hasInput[s] THEN 1 ELSE 0) <= signals[s]

(* After close() nothing of the scheduler runs: a signal task that was     *)
(* still scheduled must not start a loop nobody will cancel.               *)
ClosedIsQuiet ==
  phase = "down" =>
    \A s \in Sessions : s \notin registered /\ waiting[s] + turning[s] = 0

(* Every row written while the scheduler is up is read by some turn,       *)
(* unless the scheduler closes first or a handler was cancelled from       *)
(* within, after which the session has no loop.                            *)
EveryRowRead ==
  \A s \in Sessions :
    (phase = "up" /\ Unread(s)) ~> (~Unread(s) \/ phase # "up" \/ LoopDead(s))

(* close() returns: cancelled turns unwind and nothing new is started.     *)
CloseReturns == (phase = "closing") ~> (phase = "down")
=============================================================================
