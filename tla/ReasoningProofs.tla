--------------------------- MODULE ReasoningProofs ---------------------------
(***************************************************************************)
(* Proofs about ReasoningScheduler for any set of sessions and any number  *)
(* of inputs and boots.                                                    *)
(***************************************************************************)
EXTENDS ReasoningScheduler, TLAPS

(* A session has at most one loop, and one that is not registered has      *)
(* none.  No loop waits for input once closing has begun, and after it     *)
(* nothing is registered: this is what lets connect() start over.          *)
LoopInv ==
  /\ \A s \in Sessions : waiting[s] + turning[s] <= 1
  /\ \A s \in Sessions : s \notin registered => waiting[s] + turning[s] = 0
  /\ phase # "up" => \A s \in Sessions : waiting[s] = 0
  /\ phase = "down" => registered = {}

(* A row and a signal come from an input of their own.                     *)
InputInv ==
  \A s \in Sessions : rows[s] <= inputs[s] /\ signals[s] <= inputs[s]

IInv == TypeOK /\ LoopInv /\ InputInv /\ TurnsArePaidFor /\ NoLostWakeup

-----------------------------------------------------------------------------
(* What one signal() does to the session table: the session is registered  *)
(* and gets a loop if it had none, and its event is set; or nothing        *)
(* changes, since the scheduler is closing.                                *)
LEMMA SignalStep ==
  ASSUME NEW s \in Sessions, TypeOK, LoopInv, Signal(s)
  PROVE  /\ hasInput' \in [Sessions -> BOOLEAN]
         /\ registered' \in SUBSET Sessions
         /\ waiting' \in [Sessions -> Nat]
         /\ \A t \in Sessions : waiting'[t] + turning[t] <= 1
         /\ \A t \in Sessions :
              t \notin registered' => waiting'[t] + turning[t] = 0
         /\ phase # "up" => \A t \in Sessions : waiting'[t] = 0
         /\ phase = "down" => registered' = {}
         /\ phase = "up" => hasInput'[s]
         /\ \A t \in Sessions \ {s} : hasInput'[t] = hasInput[t]
         /\ \A t \in Sessions : hasInput[t] => hasInput'[t]
<1>1. CASE phase = "up" /\ s \in registered
  BY <1>1 DEF Signal, TypeOK, LoopInv
<1>2. CASE phase = "up" /\ s \notin registered
  <2>1. /\ waiting' = [waiting EXCEPT ![s] = @ + 1]
        /\ registered' = registered \cup {s}
        /\ hasInput' = [hasInput EXCEPT ![s] = TRUE]
    BY <1>2 DEF Signal
  <2>2. waiting[s] = 0 /\ turning[s] = 0
    BY <1>2 DEF LoopInv, TypeOK
  <2> QED BY <1>2, <2>1, <2>2 DEF TypeOK, LoopInv
<1>3. CASE phase # "up"
  BY <1>3 DEF Signal, TypeOK, LoopInv
<1> QED BY <1>1, <1>2, <1>3

(* The strengthened invariant holds initially.                             *)
LEMMA IInvInit == Init => IInv
<1> SUFFICES ASSUME Init PROVE IInv
  OBVIOUS
<1>1. TypeOK
  BY MaxInputsAssumption, MaxBootsAssumption DEF Init, Zero, TypeOK
<1>2. LoopInv
  BY DEF Init, Zero, LoopInv
<1>3. InputInv /\ TurnsArePaidFor /\ NoLostWakeup
  BY DEF Init, Zero, InputInv, TurnsArePaidFor, NoLostWakeup
<1> QED BY <1>1, <1>2, <1>3 DEF IInv

(* Every action of the scheduler preserves the types; the bounds of the    *)
(* counters follow from the inputs they count.                             *)
LEMMA TypeStep == IInv /\ [Next]_vars => TypeOK'
<1> SUFFICES ASSUME IInv, [Next]_vars PROVE TypeOK'
  OBVIOUS
<1> USE MaxInputsAssumption, MaxBootsAssumption DEF IInv
<1>1. CASE Connect
  BY <1>1 DEF Connect, Zero, TypeOK
<1>2. ASSUME NEW s \in Sessions, NEW written \in BOOLEAN,
             IngestRelayRow(s, written)
      PROVE  TypeOK'
  BY <1>2, SignalStep DEF IngestRelayRow, Persist, TypeOK, InputInv
<1>3. ASSUME NEW s \in Sessions, NEW written \in BOOLEAN,
             EnqueueHomeReply(s, written)
      PROVE  TypeOK'
  BY <1>3 DEF EnqueueHomeReply, Persist, TypeOK, InputInv, TurnsArePaidFor
<1>4. ASSUME NEW s \in Sessions, RunLateSignal(s)
      PROVE  TypeOK'
  BY <1>4, SignalStep DEF RunLateSignal, TypeOK
<1>5. ASSUME NEW s \in Sessions, TurnStarts(s)
      PROVE  TypeOK'
  BY <1>5 DEF TurnStarts, TypeOK
<1>6. ASSUME NEW s \in Sessions, TurnEnds(s)
      PROVE  TypeOK'
  BY <1>6 DEF TurnEnds, TypeOK
<1>7. ASSUME NEW s \in Sessions, TurnCancelledFromWithin(s)
      PROVE  TypeOK'
  BY <1>7 DEF TurnCancelledFromWithin, TypeOK
<1>8. ASSUME NEW s \in Sessions, TurnUnwinds(s)
      PROVE  TypeOK'
  BY <1>8 DEF TurnUnwinds, TypeOK
<1>9. CASE CloseBegins
  BY <1>9 DEF CloseBegins, Zero, TypeOK
<1>10. CASE CloseEnds
  BY <1>10 DEF CloseEnds, TypeOK
<1>11. CASE Crash
  BY <1>11 DEF Crash, Zero, TypeOK
<1>12. CASE UNCHANGED vars
  BY <1>12 DEF vars, TypeOK
<1> QED
  BY <1>1, <1>2, <1>3, <1>4, <1>5, <1>6, <1>7, <1>8, <1>9,
     <1>10, <1>11, <1>12 DEF Next

(* Every action keeps one loop per session and a quiet scheduler after     *)
(* close().                                                                *)
LEMMA LoopStep == IInv /\ [Next]_vars => LoopInv'
<1> SUFFICES ASSUME IInv, [Next]_vars PROVE LoopInv'
  OBVIOUS
<1> USE MaxInputsAssumption, MaxBootsAssumption DEF IInv
<1>1. CASE Connect
  BY <1>1 DEF Connect, Zero, LoopInv, TypeOK
<1>2. ASSUME NEW s \in Sessions, NEW written \in BOOLEAN,
             IngestRelayRow(s, written)
      PROVE  LoopInv'
  BY <1>2, SignalStep DEF IngestRelayRow, LoopInv
<1>3. ASSUME NEW s \in Sessions, NEW written \in BOOLEAN,
             EnqueueHomeReply(s, written)
      PROVE  LoopInv'
  BY <1>3 DEF EnqueueHomeReply, LoopInv, TypeOK
<1>4. ASSUME NEW s \in Sessions, RunLateSignal(s)
      PROVE  LoopInv'
  BY <1>4, SignalStep DEF RunLateSignal, LoopInv
<1>5. ASSUME NEW s \in Sessions, TurnStarts(s)
      PROVE  LoopInv'
  BY <1>5 DEF TurnStarts, LoopInv, TypeOK
<1>6. ASSUME NEW s \in Sessions, TurnEnds(s)
      PROVE  LoopInv'
  BY <1>6 DEF TurnEnds, LoopInv, TypeOK
<1>7. ASSUME NEW s \in Sessions, TurnCancelledFromWithin(s)
      PROVE  LoopInv'
  BY <1>7 DEF TurnCancelledFromWithin, LoopInv, TypeOK
<1>8. ASSUME NEW s \in Sessions, TurnUnwinds(s)
      PROVE  LoopInv'
  BY <1>8 DEF TurnUnwinds, LoopInv, TypeOK
<1>9. CASE CloseBegins
  BY <1>9 DEF CloseBegins, Zero, LoopInv, TypeOK
<1>10. CASE CloseEnds
  BY <1>10 DEF CloseEnds, LoopInv, TypeOK
<1>11. CASE Crash
  BY <1>11 DEF Crash, Zero, LoopInv, TypeOK
<1>12. CASE UNCHANGED vars
  BY <1>12 DEF vars, LoopInv, TypeOK
<1> QED
  BY <1>1, <1>2, <1>3, <1>4, <1>5, <1>6, <1>7, <1>8, <1>9,
     <1>10, <1>11, <1>12 DEF Next

(* Rows and signals stay within the inputs.                                *)
LEMMA InputStep == IInv /\ [Next]_vars => InputInv'
<1> SUFFICES ASSUME IInv, [Next]_vars PROVE InputInv'
  OBVIOUS
<1> USE MaxInputsAssumption, MaxBootsAssumption DEF IInv
<1>1. CASE Connect
  BY <1>1 DEF Connect, Zero, InputInv, TypeOK
<1>2. ASSUME NEW s \in Sessions, NEW written \in BOOLEAN,
             IngestRelayRow(s, written)
      PROVE  InputInv'
  BY <1>2 DEF IngestRelayRow, Persist, InputInv, TypeOK
<1>3. ASSUME NEW s \in Sessions, NEW written \in BOOLEAN,
             EnqueueHomeReply(s, written)
      PROVE  InputInv'
  BY <1>3 DEF EnqueueHomeReply, Persist, InputInv, TypeOK
<1>4. ASSUME NEW s \in Sessions, RunLateSignal(s)
      PROVE  InputInv'
  BY <1>4 DEF RunLateSignal, InputInv, TypeOK
<1>5. ASSUME NEW s \in Sessions, TurnStarts(s)
      PROVE  InputInv'
  BY <1>5 DEF TurnStarts, InputInv, TypeOK
<1>6. ASSUME NEW s \in Sessions, TurnEnds(s)
      PROVE  InputInv'
  BY <1>6 DEF TurnEnds, InputInv, TypeOK
<1>7. ASSUME NEW s \in Sessions, TurnCancelledFromWithin(s)
      PROVE  InputInv'
  BY <1>7 DEF TurnCancelledFromWithin, InputInv, TypeOK
<1>8. ASSUME NEW s \in Sessions, TurnUnwinds(s)
      PROVE  InputInv'
  BY <1>8 DEF TurnUnwinds, InputInv, TypeOK
<1>9. CASE CloseBegins
  BY <1>9 DEF CloseBegins, InputInv, TypeOK
<1>10. CASE CloseEnds
  BY <1>10 DEF CloseEnds, InputInv, TypeOK
<1>11. CASE Crash
  BY <1>11 DEF Crash, InputInv, TypeOK
<1>12. CASE UNCHANGED vars
  BY <1>12 DEF vars, InputInv, TypeOK
<1> QED
  BY <1>1, <1>2, <1>3, <1>4, <1>5, <1>6, <1>7, <1>8, <1>9,
     <1>10, <1>11, <1>12 DEF Next

(* A turn uses up the event that a signal has set.                         *)
LEMMA TurnsStep == IInv /\ [Next]_vars => TurnsArePaidFor'
<1> SUFFICES ASSUME IInv, [Next]_vars PROVE TurnsArePaidFor'
  OBVIOUS
<1> USE MaxInputsAssumption, MaxBootsAssumption DEF IInv
<1>1. CASE Connect
  BY <1>1 DEF Connect, Zero, TurnsArePaidFor, TypeOK
<1>2. ASSUME NEW s \in Sessions, NEW written \in BOOLEAN,
             IngestRelayRow(s, written)
      PROVE  TurnsArePaidFor'
  BY <1>2, SignalStep DEF IngestRelayRow, TurnsArePaidFor, TypeOK
<1>3. ASSUME NEW s \in Sessions, NEW written \in BOOLEAN,
             EnqueueHomeReply(s, written)
      PROVE  TurnsArePaidFor'
  BY <1>3 DEF EnqueueHomeReply, TurnsArePaidFor, TypeOK
<1>4. ASSUME NEW s \in Sessions, RunLateSignal(s)
      PROVE  TurnsArePaidFor'
  BY <1>4, SignalStep DEF RunLateSignal, TurnsArePaidFor, TypeOK
<1>5. ASSUME NEW s \in Sessions, TurnStarts(s)
      PROVE  TurnsArePaidFor'
  BY <1>5 DEF TurnStarts, TurnsArePaidFor, TypeOK
<1>6. ASSUME NEW s \in Sessions, TurnEnds(s)
      PROVE  TurnsArePaidFor'
  BY <1>6 DEF TurnEnds, TurnsArePaidFor, TypeOK
<1>7. ASSUME NEW s \in Sessions, TurnCancelledFromWithin(s)
      PROVE  TurnsArePaidFor'
  BY <1>7 DEF TurnCancelledFromWithin, TurnsArePaidFor, TypeOK
<1>8. ASSUME NEW s \in Sessions, TurnUnwinds(s)
      PROVE  TurnsArePaidFor'
  BY <1>8 DEF TurnUnwinds, TurnsArePaidFor, TypeOK
<1>9. CASE CloseBegins
  BY <1>9 DEF CloseBegins, TurnsArePaidFor, TypeOK
<1>10. CASE CloseEnds
  BY <1>10 DEF CloseEnds, TurnsArePaidFor, TypeOK
<1>11. CASE Crash
  BY <1>11 DEF Crash, Zero, TurnsArePaidFor, TypeOK
<1>12. CASE UNCHANGED vars
  BY <1>12 DEF vars, TurnsArePaidFor, TypeOK
<1> QED
  BY <1>1, <1>2, <1>3, <1>4, <1>5, <1>6, <1>7, <1>8, <1>9,
     <1>10, <1>11, <1>12 DEF Next

(* Every action that leaves a row unread leaves it announced.              *)
LEMMA WakeupStep == IInv /\ [Next]_vars => NoLostWakeup'
<1> SUFFICES ASSUME IInv, [Next]_vars PROVE NoLostWakeup'
  OBVIOUS
<1> USE MaxInputsAssumption, MaxBootsAssumption DEF IInv
<1>1. CASE Connect
  BY <1>1 DEF Connect, NoLostWakeup, Unread, TypeOK
<1>2. ASSUME NEW s \in Sessions, NEW written \in BOOLEAN,
             IngestRelayRow(s, written)
      PROVE  NoLostWakeup'
  BY <1>2, SignalStep DEF IngestRelayRow, Persist, NoLostWakeup, Unread, TypeOK
<1>3. ASSUME NEW s \in Sessions, NEW written \in BOOLEAN,
             EnqueueHomeReply(s, written)
      PROVE  NoLostWakeup'
  BY <1>3 DEF EnqueueHomeReply, Persist, NoLostWakeup, Unread, TypeOK
<1>4. ASSUME NEW s \in Sessions, RunLateSignal(s)
      PROVE  NoLostWakeup'
  BY <1>4, SignalStep DEF RunLateSignal, NoLostWakeup, Unread, TypeOK
<1>5. ASSUME NEW s \in Sessions, TurnStarts(s)
      PROVE  NoLostWakeup'
  BY <1>5 DEF TurnStarts, NoLostWakeup, Unread, TypeOK
<1>6. ASSUME NEW s \in Sessions, TurnEnds(s)
      PROVE  NoLostWakeup'
  BY <1>6 DEF TurnEnds, NoLostWakeup, Unread, TypeOK
<1>7. ASSUME NEW s \in Sessions, TurnCancelledFromWithin(s)
      PROVE  NoLostWakeup'
  BY <1>7 DEF TurnCancelledFromWithin, NoLostWakeup, Unread, TypeOK
<1>8. ASSUME NEW s \in Sessions, TurnUnwinds(s)
      PROVE  NoLostWakeup'
  BY <1>8 DEF TurnUnwinds, NoLostWakeup, Unread, TypeOK
<1>9. CASE CloseBegins
  BY <1>9 DEF CloseBegins, NoLostWakeup, Unread, TypeOK
<1>10. CASE CloseEnds
  BY <1>10 DEF CloseEnds, NoLostWakeup, Unread, TypeOK
<1>11. CASE Crash
  BY <1>11 DEF Crash, NoLostWakeup, Unread, TypeOK
<1>12. CASE UNCHANGED vars
  BY <1>12 DEF vars, NoLostWakeup, Unread, TypeOK
<1> QED
  BY <1>1, <1>2, <1>3, <1>4, <1>5, <1>6, <1>7, <1>8, <1>9,
     <1>10, <1>11, <1>12 DEF Next

-----------------------------------------------------------------------------
(* The strengthened invariant is inductive.                                *)
LEMMA IInvAlways == Spec => []IInv
<1>1. IInv /\ [Next]_vars => IInv'
  BY TypeStep, LoopStep, InputStep, TurnsStep, WakeupStep DEF IInv
<1> QED BY IInvInit, <1>1, PTL DEF Spec

(* Type correctness: in particular no counter of loops goes below zero.    *)
THEOREM TypeCorrect == Spec => []TypeOK
<1>1. IInv => TypeOK
  BY DEF IInv
<1> QED BY IInvAlways, <1>1, PTL

(* "The scheduler runs one LLM turn per session" (reasoning.py), across    *)
(* close(), a crash and any number of reconnects.                          *)
THEOREM LoopsAreSingle == Spec => []OneLoopPerSession
<1>1. IInv => OneLoopPerSession
  BY DEF IInv, LoopInv, OneLoopPerSession
<1> QED BY IInvAlways, <1>1, PTL

(* No row written while the scheduler is up is left unread and             *)
(* unannounced, whatever turn the input races with.                        *)
THEOREM WakeupsAreKept == Spec => []NoLostWakeup
<1>1. IInv => NoLostWakeup
  BY DEF IInv
<1> QED BY IInvAlways, <1>1, PTL

(* A session never gets more turns than signals.                           *)
THEOREM NoIdleTurns == Spec => []TurnsArePaidFor
<1>1. IInv => TurnsArePaidFor
  BY DEF IInv
<1> QED BY IInvAlways, <1>1, PTL

(* After close() or a crash no session is registered and no loop runs,     *)
(* though signal tasks may still be scheduled.                             *)
THEOREM CloseIsFinal == Spec => []ClosedIsQuiet
<1>1. IInv => ClosedIsQuiet
  BY DEF IInv, LoopInv, ClosedIsQuiet
<1> QED BY IInvAlways, <1>1, PTL
=============================================================================
