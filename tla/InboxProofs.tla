----------------------------- MODULE InboxProofs -----------------------------
(***************************************************************************)
(* Proofs about InboxPipeline for every number of rows, queue size and     *)
(* number of boots.                                                        *)
(***************************************************************************)
EXTENDS InboxPipeline, SequenceTheorems, TLAPS

Sorted(s) == \A i, j \in DOMAIN s : i < j => s[i] < s[j]

(* Every row of s is older than every row of t.                            *)
Before(s, t) == \A i \in DOMAIN s, j \in DOMAIN t : s[i] < t[j]

UpTo(s, n) == \A i \in DOMAIN s : s[i] <= n

(* The rows lie in the order of the stages, oldest furthest on.            *)
OrderInv ==
  /\ Sorted(begun) /\ Sorted(queue) /\ Sorted(batch) /\ Sorted(relay)
  /\ Before(begun, queue) /\ Before(begun, batch) /\ Before(begun, relay)
  /\ Before(queue, batch) /\ Before(queue, relay)
  /\ Before(batch, relay)
  /\ UpTo(begun, sent) /\ UpTo(queue, sent)
  /\ UpTo(batch, sent) /\ UpTo(relay, sent)

(* A poll loop that puts rows has one to put, and no other keeps a batch:  *)
(* the next poll overwrites nothing, nor does a new queue.                 *)
PutInv ==
  /\ pollPc = "putting" <=> batch # <<>>
  /\ phase # "up" => pollPc = "stopped"
  /\ phase = "down" => queue = <<>>

(* NothingVanishes, stage by stage.                                        *)
PlaceInv ==
  /\ 1..sent = ElemsOf(queue) \cup ElemsOf(batch) \cup ElemsOf(relay)
                 \cup ElemsOf(begun) \cup lost
  /\ lost \cap ElemsOf(queue) = {} /\ lost \cap ElemsOf(batch) = {}
  /\ lost \cap ElemsOf(relay) = {} /\ lost \cap ElemsOf(begun) = {}

IInv == TypeOK /\ PutInv /\ OrderInv /\ PlaceInv

-----------------------------------------------------------------------------
(* Dropping a prefix, or keeping one, gives a sequence of the same rows.   *)
LEMMA DroppedSeq ==
  ASSUME NEW s \in Seq(Rows), NEW k \in 0..Len(s)
  PROVE  /\ Dropped(s, k) \in Seq(Rows)
         /\ DOMAIN Dropped(s, k) = 1..(Len(s) - k)
         /\ \A i \in DOMAIN Dropped(s, k) :
              k + i \in DOMAIN s /\ Dropped(s, k)[i] = s[k + i]
BY DEF Dropped

(* A prefix of a sequence of rows is one.                                  *)
LEMMA PrefixSeq ==
  ASSUME NEW s \in Seq(Rows), NEW k \in 0..Len(s)
  PROVE  /\ SubSeq(s, 1, k) \in Seq(Rows)
         /\ DOMAIN SubSeq(s, 1, k) = 1..k
         /\ \A i \in 1..k : i \in DOMAIN s /\ SubSeq(s, 1, k)[i] = s[i]
OBVIOUS

(* The elements of a sequence of rows are rows.                            *)
LEMMA ElemsRows ==
  ASSUME NEW s \in Seq(Rows)
  PROVE  ElemsOf(s) \subseteq Rows
BY DEF ElemsOf

(* The places of a sequence without its head.                              *)
LEMMA HeadTail ==
  ASSUME NEW s \in Seq(Rows), s # <<>>
  PROVE  /\ Head(s) = s[1] /\ 1 \in DOMAIN s
         /\ Tail(s) \in Seq(Rows)
         /\ Len(Tail(s)) = Len(s) - 1
         /\ DOMAIN Tail(s) = 1..(Len(s) - 1)
         /\ \A i \in DOMAIN Tail(s) :
              i + 1 \in DOMAIN s /\ Tail(s)[i] = s[i + 1]
OBVIOUS

(* The places of a sequence with one row more.                             *)
LEMMA AppendSeq ==
  ASSUME NEW s \in Seq(Rows), NEW r \in Rows
  PROVE  /\ Append(s, r) \in Seq(Rows)
         /\ Len(Append(s, r)) = Len(s) + 1
         /\ DOMAIN Append(s, r) = 1..(Len(s) + 1)
         /\ \A i \in 1..(Len(s) + 1) :
              IF i = Len(s) + 1 THEN Append(s, r)[i] = r
              ELSE i \in DOMAIN s /\ Append(s, r)[i] = s[i]
OBVIOUS

(* Moving a row from the front of one stage to the end of the one before   *)
(* it, or dropping a prefix, keeps both in order.                          *)
LEMMA DroppedOrder ==
  ASSUME NEW s \in Seq(Rows), NEW k \in 0..Len(s), NEW t \in Seq(Rows),
         NEW n \in Nat
  PROVE  /\ Sorted(s) => Sorted(Dropped(s, k))
         /\ Before(t, s) => Before(t, Dropped(s, k))
         /\ UpTo(s, n) => UpTo(Dropped(s, k), n)
<1>1. /\ DOMAIN Dropped(s, k) \subseteq Nat
      /\ \A i \in DOMAIN Dropped(s, k) :
           k + i \in DOMAIN s /\ Dropped(s, k)[i] = s[k + i]
  BY DroppedSeq
<1>2. Sorted(s) => Sorted(Dropped(s, k))
  BY <1>1 DEF Sorted
<1>3. Before(t, s) => Before(t, Dropped(s, k))
  BY <1>1 DEF Before
<1>4. UpTo(s, n) => UpTo(Dropped(s, k), n)
  BY <1>1 DEF UpTo
<1> QED BY <1>2, <1>3, <1>4

(* What is kept of a sorted sequence is sorted, and before what is         *)
(* dropped.                                                                *)
LEMMA PrefixOrder ==
  ASSUME NEW s \in Seq(Rows), NEW k \in 0..Len(s), NEW t \in Seq(Rows),
         NEW n \in Nat, Sorted(s)
  PROVE  /\ Sorted(SubSeq(s, 1, k))
         /\ Before(SubSeq(s, 1, k), Dropped(s, k))
         /\ Before(t, s) => Before(t, SubSeq(s, 1, k))
         /\ UpTo(s, n) => UpTo(SubSeq(s, 1, k), n)
<1> DEFINE pre == SubSeq(s, 1, k)
<1>1. /\ DOMAIN pre = 1..k
      /\ \A i \in DOMAIN pre : i \in DOMAIN s /\ pre[i] = s[i]
  BY PrefixSeq
<1>2. /\ DOMAIN Dropped(s, k) \subseteq Nat \ {0}
      /\ \A i \in DOMAIN Dropped(s, k) :
           k + i \in DOMAIN s /\ Dropped(s, k)[i] = s[k + i]
  BY DroppedSeq
<1> HIDE DEF pre
<1>3. Sorted(pre)
  BY <1>1 DEF Sorted
<1>4. Before(pre, Dropped(s, k))
  BY <1>1, <1>2 DEF Before, Sorted
<1>5. (Before(t, s) => Before(t, pre)) /\ (UpTo(s, n) => UpTo(pre, n))
  BY <1>1 DEF Before, UpTo
<1> QED BY <1>3, <1>4, <1>5 DEF pre

(* A sequence without its head is where it was in the order.               *)
LEMMA TailOrder ==
  ASSUME NEW s \in Seq(Rows), s # <<>>, NEW t \in Seq(Rows), NEW n \in Nat
  PROVE  /\ Sorted(s) => Sorted(Tail(s))
         /\ Before(t, s) => Before(t, Tail(s))
         /\ Before(s, t) => Before(Tail(s), t)
         /\ UpTo(s, n) => UpTo(Tail(s), n)
<1>1. /\ DOMAIN Tail(s) \subseteq Nat
      /\ \A i \in DOMAIN Tail(s) : i + 1 \in DOMAIN s /\ Tail(s)[i] = s[i + 1]
  BY HeadTail
<1>2. Sorted(s) => Sorted(Tail(s))
  BY <1>1 DEF Sorted
<1>3. /\ Before(t, s) => Before(t, Tail(s))
      /\ Before(s, t) => Before(Tail(s), t)
  BY <1>1 DEF Before
<1>4. UpTo(s, n) => UpTo(Tail(s), n)
  BY <1>1 DEF UpTo
<1> QED BY <1>2, <1>3, <1>4

(* The head of t goes to the end of s, which lay before t.                 *)
LEMMA MoveOrder ==
  ASSUME NEW s \in Seq(Rows), NEW t \in Seq(Rows), t # <<>>,
         NEW u \in Seq(Rows), NEW n \in Nat,
         Sorted(s), Sorted(t), Before(s, t), UpTo(s, n), UpTo(t, n)
  PROVE  /\ Sorted(Append(s, Head(t)))
         /\ Before(Append(s, Head(t)), Tail(t))
         /\ UpTo(Append(s, Head(t)), n)
         /\ Before(s, u) /\ Before(t, u) => Before(Append(s, Head(t)), u)
         /\ Before(u, s) /\ Before(u, t) => Before(u, Append(s, Head(t)))
<1> DEFINE new == Append(s, Head(t))
<1>1. Head(t) \in Rows /\ Head(t) = t[1] /\ 1 \in DOMAIN t
  BY HeadTail
<1>2. /\ DOMAIN new = 1..(Len(s) + 1)
      /\ DOMAIN s = 1..Len(s) /\ Len(s) \in Nat
      /\ \A i \in DOMAIN new :
           IF i = Len(s) + 1 THEN new[i] = t[1]
           ELSE i \in DOMAIN s /\ new[i] = s[i]
  BY <1>1, AppendSeq
<1>3. /\ DOMAIN Tail(t) \subseteq Nat \ {0}
      /\ \A i \in DOMAIN Tail(t) : i + 1 \in DOMAIN t /\ Tail(t)[i] = t[i + 1]
  BY HeadTail
<1> HIDE DEF new
<1>4. Sorted(new)
  BY <1>1, <1>2 DEF Sorted, Before
<1>5. Before(new, Tail(t))
  BY <1>1, <1>2, <1>3 DEF Sorted, Before
<1>6. UpTo(new, n)
  BY <1>1, <1>2 DEF UpTo
<1>7. /\ Before(s, u) /\ Before(t, u) => Before(new, u)
      /\ Before(u, s) /\ Before(u, t) => Before(u, new)
  BY <1>1, <1>2 DEF Before
<1> QED BY <1>4, <1>5, <1>6, <1>7 DEF new

(* Nothing comes before or after an empty stage.                           *)
LEMMA EmptyOrder ==
  ASSUME NEW s, NEW n
  PROVE  /\ Sorted(<<>>) /\ UpTo(<<>>, n)
         /\ Before(s, <<>>) /\ Before(<<>>, s)
BY DEF Sorted, Before, UpTo

(* The relay numbers rows in the order it accepts them, so a new row comes *)
(* after every other.                                                      *)
LEMMA NewestOrder ==
  ASSUME NEW s \in Seq(Rows), NEW t \in Seq(Rows), NEW n \in Nat,
         n + 1 \in Rows, Sorted(s), UpTo(s, n), UpTo(t, n), Before(t, s)
  PROVE  /\ Sorted(Append(s, n + 1))
         /\ Before(t, Append(s, n + 1))
         /\ UpTo(Append(s, n + 1), n + 1)
         /\ UpTo(t, n + 1)
<1> DEFINE new == Append(s, n + 1)
<1>1. /\ DOMAIN new = 1..(Len(s) + 1)
      /\ DOMAIN s = 1..Len(s) /\ Len(s) \in Nat
      /\ \A i \in DOMAIN new :
           IF i = Len(s) + 1 THEN new[i] = n + 1
           ELSE i \in DOMAIN s /\ new[i] = s[i]
  BY AppendSeq
<1>2. /\ \A i \in DOMAIN s : s[i] \in Nat
      /\ \A i \in DOMAIN t : t[i] \in Nat
  BY MaxRowsAssumption DEF Rows
<1> HIDE DEF new
<1>3. Sorted(new)
  BY <1>1, <1>2 DEF Sorted, UpTo
<1>4. Before(t, new)
  BY <1>1, <1>2 DEF Before, UpTo
<1>5. UpTo(new, n + 1) /\ UpTo(t, n + 1)
  BY <1>1, <1>2 DEF UpTo
<1> QED BY <1>3, <1>4, <1>5 DEF new

(* The rows of a sequence built from others.                               *)
LEMMA ElemsOfEmpty == ElemsOf(<<>>) = {}
BY DEF ElemsOf

(* The elements of two sequences, end to end.                              *)
LEMMA ElemsOfConcat ==
  ASSUME NEW s \in Seq(Rows), NEW t \in Seq(Rows)
  PROVE  ElemsOf(s \o t) = ElemsOf(s) \cup ElemsOf(t)
<1>1. /\ s \o t \in Seq(Rows)
      /\ Len(s \o t) = Len(s) + Len(t)
      /\ \A i \in 1 .. Len(s) + Len(t) : (s \o t)[i] =
                  IF i <= Len(s) THEN s[i] ELSE t[i - Len(s)]
  BY ConcatProperties
<1>2. /\ DOMAIN s = 1..Len(s) /\ DOMAIN t = 1..Len(t)
      /\ DOMAIN (s \o t) = 1..(Len(s) + Len(t))
      /\ Len(s) \in Nat /\ Len(t) \in Nat
  BY <1>1
<1>3. ElemsOf(s \o t) \subseteq ElemsOf(s) \cup ElemsOf(t)
  BY <1>1, <1>2 DEF ElemsOf
<1>4. ElemsOf(s) \subseteq ElemsOf(s \o t)
  BY <1>1, <1>2 DEF ElemsOf
<1>5. ElemsOf(t) \subseteq ElemsOf(s \o t)
  <2> SUFFICES ASSUME NEW i \in DOMAIN t PROVE t[i] \in ElemsOf(s \o t)
    BY DEF ElemsOf
  <2>1. Len(s) + i \in DOMAIN (s \o t) /\ (s \o t)[Len(s) + i] = t[i]
    BY <1>1, <1>2
  <2> QED BY <2>1 DEF ElemsOf
<1> QED BY <1>3, <1>4, <1>5

(* The elements of a sequence with one row more.                           *)
LEMMA ElemsOfAppend ==
  ASSUME NEW s \in Seq(Rows), NEW r \in Rows
  PROVE  ElemsOf(Append(s, r)) = ElemsOf(s) \cup {r}
<1>1. /\ DOMAIN Append(s, r) = 1..(Len(s) + 1)
      /\ DOMAIN s = 1..Len(s) /\ Len(s) \in Nat
      /\ \A i \in DOMAIN s : Append(s, r)[i] = s[i]
      /\ Append(s, r)[Len(s) + 1] = r
  BY AppendProperties
<1> QED BY <1>1 DEF ElemsOf

(* The elements of a sequence are its head and those behind it.            *)
LEMMA ElemsOfTail ==
  ASSUME NEW s \in Seq(Rows), s # <<>>
  PROVE  ElemsOf(s) = {Head(s)} \cup ElemsOf(Tail(s))
<1>1. /\ DOMAIN Tail(s) = 1..(Len(s) - 1)
      /\ DOMAIN s = 1..Len(s) /\ Len(s) \in Nat /\ 1 \in DOMAIN s
      /\ Head(s) = s[1]
      /\ \A i \in DOMAIN Tail(s) : Tail(s)[i] = s[i + 1]
  BY HeadTail
<1>2. ElemsOf(Tail(s)) \subseteq ElemsOf(s) /\ Head(s) \in ElemsOf(s)
  BY <1>1 DEF ElemsOf
<1>3. ASSUME NEW i \in DOMAIN s, i # 1
      PROVE  s[i] \in ElemsOf(Tail(s))
  <2>1. i - 1 \in DOMAIN Tail(s) /\ Tail(s)[i - 1] = s[i]
    BY <1>1, <1>3
  <2> QED BY <2>1 DEF ElemsOf
<1>4. ElemsOf(s) \subseteq {Head(s)} \cup ElemsOf(Tail(s))
  BY <1>1, <1>3 DEF ElemsOf
<1> QED BY <1>2, <1>4

(* Splitting a sequence splits its rows, and if they are in order no row   *)
(* is on both sides.                                                       *)
LEMMA ElemsOfSplit ==
  ASSUME NEW s \in Seq(Rows), NEW k \in 0..Len(s)
  PROVE  ElemsOf(s) = ElemsOf(SubSeq(s, 1, k)) \cup ElemsOf(Dropped(s, k))
<1> DEFINE pre == SubSeq(s, 1, k)
           post == Dropped(s, k)
<1>1. /\ DOMAIN pre = 1..k
      /\ \A i \in DOMAIN pre : i \in DOMAIN s /\ pre[i] = s[i]
  BY PrefixSeq
<1>2. /\ DOMAIN post = 1..(Len(s) - k)
      /\ \A i \in DOMAIN post : k + i \in DOMAIN s /\ post[i] = s[k + i]
  BY DroppedSeq
<1> HIDE DEF pre, post
<1>3. ElemsOf(pre) \cup ElemsOf(post) \subseteq ElemsOf(s)
  BY <1>1, <1>2 DEF ElemsOf
<1>4. ASSUME NEW i \in DOMAIN s
      PROVE  s[i] \in ElemsOf(pre) \cup ElemsOf(post)
  <2>1. CASE i <= k
    <3>1. i \in DOMAIN pre /\ pre[i] = s[i]
      BY <1>1, <2>1
    <3> QED BY <3>1 DEF ElemsOf
  <2>2. CASE i > k
    <3>1. i - k \in DOMAIN post /\ post[i - k] = s[i]
      BY <1>2, <2>2
    <3> QED BY <3>1 DEF ElemsOf
  <2> QED BY <2>1, <2>2
<1>5. ElemsOf(s) \subseteq ElemsOf(pre) \cup ElemsOf(post)
  BY <1>4 DEF ElemsOf
<1> QED BY <1>3, <1>5 DEF pre, post

(* Sequences of which one is before the other have no row in common.       *)
LEMMA BeforeApart ==
  ASSUME NEW s \in Seq(Rows), NEW t \in Seq(Rows), Before(s, t)
  PROVE  ElemsOf(s) \cap ElemsOf(t) = {}
<1>1. \A i \in DOMAIN s, j \in DOMAIN t :
        s[i] \in Nat /\ t[j] \in Nat /\ s[i] < t[j]
  BY MaxRowsAssumption DEF Before, Rows
<1>2. \A i \in DOMAIN s, j \in DOMAIN t : s[i] # t[j]
  BY <1>1
<1> QED BY <1>2 DEF ElemsOf

(* The rows handed out by a poll that fails lie before those that stay on  *)
(* the relay, and after those of every other stage.                        *)
LEMMA PrefixApart ==
  ASSUME NEW k \in 0..Len(relay), TypeOK, OrderInv
  PROVE  /\ SubSeq(relay, 1, k) \in Seq(Rows)
         /\ Dropped(relay, k) \in Seq(Rows)
         /\ ElemsOf(relay) = ElemsOf(SubSeq(relay, 1, k))
                                \cup ElemsOf(Dropped(relay, k))
         /\ ElemsOf(SubSeq(relay, 1, k)) \cap ElemsOf(Dropped(relay, k)) = {}
<1>1. relay \in Seq(Rows) /\ Sorted(relay) /\ sent \in Nat
  BY MaxRowsAssumption DEF TypeOK, OrderInv
<1>2. SubSeq(relay, 1, k) \in Seq(Rows) /\ Dropped(relay, k) \in Seq(Rows)
  BY <1>1, PrefixSeq, DroppedSeq
<1>3. Before(SubSeq(relay, 1, k), Dropped(relay, k))
  BY <1>1, PrefixOrder
<1> QED BY <1>1, <1>2, <1>3, ElemsOfSplit, BeforeApart
-----------------------------------------------------------------------------
(* The strengthened invariant holds initially.                             *)
LEMMA IInvInit == Init => IInv
<1> SUFFICES ASSUME Init PROVE IInv
  OBVIOUS
<1>1. TypeOK
  BY MaxRowsAssumption, QueueSizeAssumption, MaxBootsAssumption
     DEF Init, TypeOK
<1>2. PutInv
  BY DEF Init, PutInv
<1>3. OrderInv
  BY EmptyOrder DEF Init, OrderInv
<1>4. PlaceInv
  BY ElemsOfEmpty DEF Init, PlaceInv
<1> QED BY <1>1, <1>2, <1>3, <1>4 DEF IInv

(* Every action of the pipeline preserves the types, and a batch is kept   *)
(* by a poll loop that puts it and by no other.                            *)
LEMMA TypeStep == TypeOK /\ PutInv /\ [Next]_vars => TypeOK' /\ PutInv'
<1> SUFFICES ASSUME TypeOK, PutInv, [Next]_vars PROVE TypeOK' /\ PutInv'
  OBVIOUS
<1> USE MaxRowsAssumption, QueueSizeAssumption, MaxBootsAssumption
<1>1. CASE PeerSends
  <2>1. sent + 1 \in Rows
    BY <1>1 DEF PeerSends, TypeOK, Rows
  <2>2. relay' \in Seq(Rows)
    BY <1>1, <2>1, AppendSeq DEF PeerSends, TypeOK
  <2> QED BY <1>1, <2>2 DEF PeerSends, TypeOK, PutInv, loopVars
<1>2. CASE Connect
  BY <1>2 DEF Connect, TypeOK, PutInv
<1>3. CASE PollReturns
  <2>1. PICK k \in 1..Len(relay) : batch' = SubSeq(relay, 1, k)
                                   /\ relay' = Dropped(relay, k)
    BY <1>3 DEF PollReturns
  <2>2. k \in 0..Len(relay) /\ relay \in Seq(Rows)
    BY DEF TypeOK
  <2>3. relay' \in Seq(Rows)
    BY <2>1, <2>2, DroppedSeq
  <2>4. batch' \in Seq(Rows) /\ batch' # <<>>
    BY <2>1, <2>2, PrefixSeq
  <2> QED BY <1>3, <2>3, <2>4 DEF PollReturns, TypeOK, PutInv
<1>4. CASE PollFails
  <2>1. PICK k \in 0..Len(relay) :
          /\ relay' = Dropped(relay, k)
          /\ lost' = lost \cup ElemsOf(SubSeq(relay, 1, k))
    BY <1>4 DEF PollFails
  <2>2. relay' \in Seq(Rows)
    BY <2>1, DroppedSeq DEF TypeOK
  <2>3. lost' \in SUBSET Rows
    BY <2>1, PrefixSeq, ElemsRows DEF TypeOK
  <2> QED BY <1>4, <2>2, <2>3 DEF PollFails, TypeOK, PutInv
<1>5. CASE BackoffEnds
  BY <1>5 DEF BackoffEnds, TypeOK, PutInv
<1>6. CASE PutRow
  <2>1. batch \in Seq(Rows) /\ queue \in Seq(Rows) /\ batch # <<>>
    BY <1>6 DEF PutRow, TypeOK, PutInv
  <2>2. Head(batch) \in Rows /\ batch' \in Seq(Rows)
        /\ Len(batch') = Len(batch) - 1
    BY <1>6, <2>1, HeadTail DEF PutRow
  <2>3. queue' \in Seq(Rows) /\ Len(queue') <= QueueSize
    BY <1>6, <2>1, <2>2, AppendSeq DEF PutRow, TypeOK
  <2>4. batch' = <<>> <=> Len(batch) = 1
    BY <2>1, <2>2, EmptySeq
  <2>5. pollPc' = (IF Len(batch) = 1 THEN "polling" ELSE "putting")
        /\ phase' = "up" /\ UNCHANGED <<sent, relay, current, begun, lost,
                                        dispPc, boots>>
    BY <1>6 DEF PutRow
  <2>6. PutInv'
    BY <2>4, <2>5 DEF PutInv
  <2>7. TypeOK'
    BY <2>2, <2>3, <2>5 DEF TypeOK
  <2> QED BY <2>6, <2>7
<1>7. CASE DispatchBegins
  <2>1. queue \in Seq(Rows) /\ queue # <<>> /\ begun \in Seq(Rows)
    BY <1>7 DEF DispatchBegins, TypeOK
  <2>2. Head(queue) \in Rows /\ queue' \in Seq(Rows)
        /\ Len(queue') = Len(queue) - 1
    BY <1>7, <2>1, HeadTail DEF DispatchBegins
  <2>3. begun' \in Seq(Rows) /\ Len(queue') <= QueueSize
    BY <1>7, <2>1, <2>2, AppendSeq DEF DispatchBegins, TypeOK
  <2> QED BY <1>7, <2>2, <2>3 DEF DispatchBegins, TypeOK, PutInv
<1>8. CASE DispatchEnds
  BY <1>8 DEF DispatchEnds, TypeOK, PutInv
<1>9. CASE DisconnectPoll
  <2>1. PICK k \in 0..Len(relay) :
          /\ relay' = Dropped(relay, k)
          /\ lost' = lost \cup ElemsOf(batch) \cup ElemsOf(SubSeq(relay, 1, k))
    BY <1>9 DEF DisconnectPoll, TypeOK
  <2>2. relay' \in Seq(Rows)
    BY <2>1, DroppedSeq DEF TypeOK
  <2>3. lost' \in SUBSET Rows
    BY <2>1, PrefixSeq, ElemsRows DEF TypeOK
  <2> QED BY <1>9, <2>2, <2>3 DEF DisconnectPoll, TypeOK, PutInv
<1>10. CASE DisconnectDispatch
  <2>1. lost' \in SUBSET Rows
    BY <1>10, ElemsRows DEF DisconnectDispatch, TypeOK
  <2> QED BY <1>10, <2>1 DEF DisconnectDispatch, TypeOK, PutInv
<1>11. CASE Crash
  <2>1. PICK k \in 0..Len(relay) :
          /\ relay' = Dropped(relay, k)
          /\ lost' = lost \cup ElemsOf(queue) \cup ElemsOf(batch)
                          \cup ElemsOf(SubSeq(relay, 1, k))
    BY <1>11 DEF Crash, TypeOK
  <2>2. relay' \in Seq(Rows)
    BY <2>1, DroppedSeq DEF TypeOK
  <2>3. lost' \in SUBSET Rows
    BY <2>1, PrefixSeq, ElemsRows DEF TypeOK
  <2> QED BY <1>11, <2>2, <2>3 DEF Crash, TypeOK, PutInv
<1>12. CASE DispatchCancelledFromWithin
  BY <1>12 DEF DispatchCancelledFromWithin, TypeOK, PutInv
<1>13. CASE UNCHANGED vars
  BY <1>13 DEF vars, TypeOK, PutInv
<1> QED
  BY <1>1, <1>2, <1>3, <1>4, <1>5, <1>6, <1>7, <1>8, <1>9, <1>10, <1>11,
     <1>12, <1>13 DEF Next

(* Every action keeps the rows in order.                                   *)
LEMMA OrderStep == IInv /\ [Next]_vars => OrderInv'
<1> SUFFICES ASSUME IInv, [Next]_vars PROVE OrderInv'
  OBVIOUS
<1> USE MaxRowsAssumption
<1>0. /\ relay \in Seq(Rows) /\ batch \in Seq(Rows)
      /\ queue \in Seq(Rows) /\ begun \in Seq(Rows)
      /\ sent \in Nat /\ OrderInv
      /\ pollPc = "putting" => batch # <<>>
  BY DEF IInv, TypeOK, PutInv
<1>1. CASE PeerSends
  <2>1. sent + 1 \in Rows
    BY <1>0, <1>1 DEF PeerSends, IInv, TypeOK, Rows
  <2>2. /\ Sorted(relay') /\ UpTo(relay', sent')
        /\ Before(begun, relay') /\ Before(queue, relay')
        /\ Before(batch, relay')
        /\ UpTo(begun, sent') /\ UpTo(queue, sent') /\ UpTo(batch, sent')
    BY <1>0, <1>1, <2>1, NewestOrder DEF PeerSends, OrderInv
  <2> QED BY <1>0, <1>1, <2>2 DEF PeerSends, OrderInv
<1>2. CASE Connect
  BY <1>0, <1>2, EmptyOrder DEF Connect, OrderInv
<1>3. CASE PollReturns
  <2>1. PICK k \in 1..Len(relay) : batch' = SubSeq(relay, 1, k)
                                   /\ relay' = Dropped(relay, k)
    BY <1>3 DEF PollReturns
  <2>2. k \in 0..Len(relay)
    BY <1>0
  <2>3. /\ Sorted(relay') /\ UpTo(relay', sent)
        /\ Before(begun, relay') /\ Before(queue, relay')
    BY <1>0, <2>1, <2>2, DroppedOrder DEF OrderInv
  <2>4. /\ Sorted(batch') /\ UpTo(batch', sent) /\ Before(batch', relay')
        /\ Before(begun, batch') /\ Before(queue, batch')
    BY <1>0, <2>1, <2>2, PrefixOrder DEF OrderInv
  <2> QED BY <1>0, <1>3, <2>3, <2>4 DEF PollReturns, OrderInv
<1>4. CASE PollFails
  <2>1. PICK k \in 0..Len(relay) : relay' = Dropped(relay, k)
    BY <1>4 DEF PollFails
  <2>2. /\ Sorted(relay') /\ UpTo(relay', sent) /\ Before(begun, relay')
        /\ Before(queue, relay') /\ Before(batch, relay')
    BY <1>0, <2>1, DroppedOrder DEF OrderInv
  <2> QED BY <1>0, <1>4, <2>2 DEF PollFails, OrderInv
<1>5. CASE BackoffEnds
  BY <1>0, <1>5 DEF BackoffEnds, OrderInv
<1>6. CASE PutRow
  <2>1. batch # <<>> /\ queue' = Append(queue, Head(batch))
        /\ batch' = Tail(batch)
    BY <1>0, <1>6 DEF PutRow
  <2>2. /\ Sorted(queue') /\ Before(queue', batch') /\ UpTo(queue', sent)
        /\ Before(queue', relay) /\ Before(begun, queue')
    BY <1>0, <2>1, MoveOrder DEF OrderInv
  <2>3. /\ Sorted(batch') /\ UpTo(batch', sent) /\ Before(begun, batch')
        /\ Before(batch', relay)
    BY <1>0, <2>1, TailOrder DEF OrderInv
  <2> QED BY <1>0, <1>6, <2>2, <2>3 DEF PutRow, OrderInv
<1>7. CASE DispatchBegins
  <2>1. queue # <<>> /\ begun' = Append(begun, Head(queue))
        /\ queue' = Tail(queue)
    BY <1>7 DEF DispatchBegins
  <2>2. /\ Sorted(begun') /\ Before(begun', queue') /\ UpTo(begun', sent)
        /\ Before(begun', batch) /\ Before(begun', relay)
    BY <1>0, <2>1, MoveOrder DEF OrderInv
  <2>3. /\ Sorted(queue') /\ UpTo(queue', sent)
        /\ Before(queue', batch) /\ Before(queue', relay)
    BY <1>0, <2>1, TailOrder DEF OrderInv
  <2> QED BY <1>0, <1>7, <2>2, <2>3 DEF DispatchBegins, OrderInv
<1>8. CASE DispatchEnds
  BY <1>0, <1>8 DEF DispatchEnds, OrderInv
<1>9. CASE DisconnectPoll
  <2>1. PICK k \in 0..Len(relay) : relay' = Dropped(relay, k)
    BY <1>0, <1>9 DEF DisconnectPoll
  <2>2. /\ Sorted(relay') /\ UpTo(relay', sent) /\ Before(begun, relay')
        /\ Before(queue, relay')
    BY <1>0, <2>1, DroppedOrder DEF OrderInv
  <2> QED BY <1>0, <1>9, <2>2, EmptyOrder DEF DisconnectPoll, OrderInv
<1>10. CASE DisconnectDispatch
  BY <1>0, <1>10, EmptyOrder DEF DisconnectDispatch, OrderInv
<1>11. CASE Crash
  <2>1. PICK k \in 0..Len(relay) : relay' = Dropped(relay, k)
    BY <1>0, <1>11 DEF Crash
  <2>2. Sorted(relay') /\ UpTo(relay', sent) /\ Before(begun, relay')
    BY <1>0, <2>1, DroppedOrder DEF OrderInv
  <2> QED BY <1>0, <1>11, <2>2, EmptyOrder DEF Crash, OrderInv
<1>12. CASE DispatchCancelledFromWithin
  BY <1>0, <1>12 DEF DispatchCancelledFromWithin, OrderInv
<1>13. CASE UNCHANGED vars
  BY <1>0, <1>13 DEF vars, OrderInv
<1> QED
  BY <1>1, <1>2, <1>3, <1>4, <1>5, <1>6, <1>7, <1>8, <1>9, <1>10, <1>11,
     <1>12, <1>13 DEF Next

(* Every action moves rows between the stages, or loses them, and loses    *)
(* none that it leaves in a stage.                                         *)
LEMMA PlaceStep == IInv /\ [Next]_vars => PlaceInv'
<1> SUFFICES ASSUME IInv, [Next]_vars PROVE PlaceInv'
  OBVIOUS
<1> USE MaxRowsAssumption
<1>0. /\ TypeOK /\ PutInv /\ OrderInv /\ PlaceInv
      /\ relay \in Seq(Rows) /\ batch \in Seq(Rows)
      /\ queue \in Seq(Rows) /\ begun \in Seq(Rows)
      /\ sent \in Nat
  BY DEF IInv, TypeOK
<1>a. /\ ElemsOf(relay) \cap ElemsOf(begun) = {}
      /\ ElemsOf(relay) \cap ElemsOf(queue) = {}
      /\ ElemsOf(relay) \cap ElemsOf(batch) = {}
      /\ ElemsOf(batch) \cap ElemsOf(begun) = {}
      /\ ElemsOf(batch) \cap ElemsOf(queue) = {}
      /\ ElemsOf(queue) \cap ElemsOf(begun) = {}
  BY <1>0, BeforeApart DEF OrderInv
<1>1. CASE PeerSends
  <2>1. sent + 1 \in Rows /\ 1..(sent + 1) = (1..sent) \cup {sent + 1}
        /\ sent + 1 \notin 1..sent
    BY <1>0, <1>1 DEF PeerSends, TypeOK, Rows
  <2>2. ElemsOf(relay') = ElemsOf(relay) \cup {sent + 1}
    BY <1>0, <1>1, <2>1, ElemsOfAppend DEF PeerSends
  <2>3. sent + 1 \notin lost
    BY <1>0, <2>1 DEF PlaceInv
  <2> QED BY <1>0, <1>1, <2>1, <2>2, <2>3 DEF PeerSends, PlaceInv
<1>2. CASE Connect
  BY <1>0, <1>2, ElemsOfEmpty DEF Connect, PutInv, PlaceInv
<1>3. CASE PollReturns
  <2>1. PICK k \in 1..Len(relay) : batch' = SubSeq(relay, 1, k)
                                   /\ relay' = Dropped(relay, k)
    BY <1>3 DEF PollReturns
  <2>2. ElemsOf(relay) = ElemsOf(batch') \cup ElemsOf(relay')
    BY <1>0, <2>1, ElemsOfSplit
  <2>3. ElemsOf(batch) = {}
    BY <1>0, <1>3, ElemsOfEmpty DEF PollReturns, PutInv
  <2> QED BY <1>0, <1>3, <2>2, <2>3 DEF PollReturns, PlaceInv
<1>4. CASE PollFails
  <2>1. PICK k \in 0..Len(relay) :
          /\ relay' = Dropped(relay, k)
          /\ lost' = lost \cup ElemsOf(SubSeq(relay, 1, k))
    BY <1>4 DEF PollFails
  <2>2. /\ ElemsOf(relay) = ElemsOf(SubSeq(relay, 1, k)) \cup ElemsOf(relay')
        /\ ElemsOf(SubSeq(relay, 1, k)) \cap ElemsOf(relay') = {}
    BY <1>0, <2>1, PrefixApart
  <2> QED BY <1>0, <1>a, <1>4, <2>1, <2>2 DEF PollFails, PlaceInv
<1>5. CASE BackoffEnds
  BY <1>0, <1>5 DEF BackoffEnds, PlaceInv
<1>6. CASE PutRow
  <2>1. batch # <<>> /\ queue' = Append(queue, Head(batch))
        /\ batch' = Tail(batch) /\ Head(batch) \in Rows
    BY <1>0, <1>6, HeadTail DEF PutRow, PutInv
  <2>2. /\ ElemsOf(queue') = ElemsOf(queue) \cup {Head(batch)}
        /\ ElemsOf(batch) = {Head(batch)} \cup ElemsOf(batch')
    BY <1>0, <2>1, ElemsOfAppend, ElemsOfTail
  <2> QED BY <1>0, <1>6, <2>2 DEF PutRow, PlaceInv
<1>7. CASE DispatchBegins
  <2>1. queue # <<>> /\ begun' = Append(begun, Head(queue))
        /\ queue' = Tail(queue) /\ Head(queue) \in Rows
    BY <1>0, <1>7, HeadTail DEF DispatchBegins
  <2>2. /\ ElemsOf(begun') = ElemsOf(begun) \cup {Head(queue)}
        /\ ElemsOf(queue) = {Head(queue)} \cup ElemsOf(queue')
    BY <1>0, <2>1, ElemsOfAppend, ElemsOfTail
  <2> QED BY <1>0, <1>7, <2>2 DEF DispatchBegins, PlaceInv
<1>8. CASE DispatchEnds
  BY <1>0, <1>8 DEF DispatchEnds, PlaceInv
<1>9. CASE DisconnectPoll
  <2>1. PICK k \in 0..Len(relay) :
          /\ relay' = Dropped(relay, k)
          /\ lost' = lost \cup ElemsOf(batch) \cup ElemsOf(SubSeq(relay, 1, k))
    BY <1>0, <1>9 DEF DisconnectPoll
  <2>2. /\ ElemsOf(relay) = ElemsOf(SubSeq(relay, 1, k)) \cup ElemsOf(relay')
        /\ ElemsOf(SubSeq(relay, 1, k)) \cap ElemsOf(relay') = {}
    BY <1>0, <2>1, PrefixApart
  <2>3. ElemsOf(batch') = {}
    BY <1>9, ElemsOfEmpty DEF DisconnectPoll
  <2> QED BY <1>0, <1>a, <1>9, <2>1, <2>2, <2>3 DEF DisconnectPoll, PlaceInv
<1>10. CASE DisconnectDispatch
  <2>1. ElemsOf(queue') = {}
    BY <1>10, ElemsOfEmpty DEF DisconnectDispatch
  <2> QED BY <1>0, <1>a, <1>10, <2>1 DEF DisconnectDispatch, PlaceInv
<1>11. CASE Crash
  <2>1. PICK k \in 0..Len(relay) :
          /\ relay' = Dropped(relay, k)
          /\ lost' = lost \cup ElemsOf(queue) \cup ElemsOf(batch)
                          \cup ElemsOf(SubSeq(relay, 1, k))
    BY <1>0, <1>11 DEF Crash
  <2>2. /\ ElemsOf(relay) = ElemsOf(SubSeq(relay, 1, k)) \cup ElemsOf(relay')
        /\ ElemsOf(SubSeq(relay, 1, k)) \cap ElemsOf(relay') = {}
    BY <1>0, <2>1, PrefixApart
  <2>3. ElemsOf(batch') = {} /\ ElemsOf(queue') = {}
    BY <1>11, ElemsOfEmpty DEF Crash
  <2> QED BY <1>0, <1>a, <1>11, <2>1, <2>2, <2>3 DEF Crash, PlaceInv
<1>12. CASE DispatchCancelledFromWithin
  BY <1>0, <1>12 DEF DispatchCancelledFromWithin, PlaceInv
<1>13. CASE UNCHANGED vars
  BY <1>0, <1>13 DEF vars, PlaceInv
<1> QED
  BY <1>1, <1>2, <1>3, <1>4, <1>5, <1>6, <1>7, <1>8, <1>9, <1>10, <1>11,
     <1>12, <1>13 DEF Next

-----------------------------------------------------------------------------
(* The strengthened invariant is inductive.                                *)
LEMMA IInvAlways == Spec => []IInv
<1>1. IInv /\ [Next]_vars => IInv'
  BY TypeStep, OrderStep, PlaceStep DEF IInv
<1> QED BY IInvInit, <1>1, PTL DEF Spec

(* Type correctness, with the bound of the queue: the poll loop never puts *)
(* a row into a full queue.                                                *)
THEOREM TypeCorrect == Spec => []TypeOK
<1>1. IInv => TypeOK
  BY DEF IInv
<1> QED BY IInvAlways, <1>1, PTL

(* "The LLM sees messages in the order the relay delivered them", and none *)
(* twice, for any number of rows, any queue size, and any disconnects and  *)
(* crashes.                                                                *)
THEOREM DispatchInOrder == Spec => []InOrderOnce
<1>1. IInv => InOrderOnce
  BY DEF IInv, OrderInv, Sorted, InOrderOnce
<1> QED BY IInvAlways, <1>1, PTL

(* No row disappears silently, and none is both lost and dispatched: a     *)
(* poll or a disconnect that loses rows loses the ones it says.            *)
THEOREM EveryRowAccounted == Spec => []NothingVanishes
<1>1. ASSUME IInv PROVE NothingVanishes
  <2>1. /\ relay \in Seq(Rows) /\ batch \in Seq(Rows) /\ queue \in Seq(Rows)
        /\ PlaceInv
    BY <1>1 DEF IInv, TypeOK
  <2>2. queue \o batch \in Seq(Rows)
    BY <2>1, ConcatProperties
  <2>3. ElemsOf(Pending)
          = ElemsOf(queue) \cup ElemsOf(batch) \cup ElemsOf(relay)
    BY <2>1, <2>2, ElemsOfConcat DEF Pending
  <2> QED BY <2>1, <2>3 DEF PlaceInv, NothingVanishes
<1> QED BY IInvAlways, <1>1, PTL
-----------------------------------------------------------------------------
(* The refinement.  Rows are lost from the front of a stage, so what is    *)
(* lost at once is a stretch of the channel: its rows leave and the stages *)
(* before and after it close up.                                           *)
LEMMA ConcatIndex ==
  ASSUME NEW a \in Seq(Rows), NEW b \in Seq(Rows), NEW c \in Seq(Rows)
  PROVE  /\ a \o b \o c \in Seq(Rows)
         /\ Len(a \o b \o c) = Len(a) + Len(b) + Len(c)
         /\ \A i \in 1..Len(a) : (a \o b \o c)[i] = a[i]
         /\ \A i \in 1..Len(c) :
              (a \o b \o c)[Len(a) + Len(b) + i] = c[i]
<1>1. /\ a \o b \in Seq(Rows)
      /\ Len(a \o b) = Len(a) + Len(b)
      /\ \A i \in 1 .. Len(a) + Len(b) :
           (a \o b)[i] = IF i <= Len(a) THEN a[i] ELSE b[i - Len(a)]
  BY ConcatProperties
<1> DEFINE ab == a \o b
<1>2. Len(a) \in Nat /\ Len(b) \in Nat /\ Len(c) \in Nat /\ ab \in Seq(Rows)
  BY <1>1
<1> HIDE DEF ab
<1>3. /\ ab \o c \in Seq(Rows)
      /\ Len(ab \o c) = Len(ab) + Len(c)
      /\ \A i \in 1 .. Len(ab) + Len(c) :
           (ab \o c)[i] = IF i <= Len(ab) THEN ab[i] ELSE c[i - Len(ab)]
  BY <1>2, ConcatProperties
<1>4. Len(ab) = Len(a) + Len(b) /\ \A i \in 1..Len(a) : ab[i] = a[i]
  BY <1>1, <1>2 DEF ab
<1>5. \A i \in 1..Len(a) : (ab \o c)[i] = a[i]
  BY <1>2, <1>3, <1>4
<1>6. \A i \in 1..Len(c) : (ab \o c)[Len(a) + Len(b) + i] = c[i]
  BY <1>2, <1>3, <1>4
<1> QED BY <1>2, <1>3, <1>4, <1>5, <1>6 DEF ab

(* Dropping the middle of three sequences drops a section of the channel.  *)
LEMMA LoseMiddle ==
  ASSUME NEW a \in Seq(Rows), NEW b \in Seq(Rows), NEW c \in Seq(Rows),
         b # <<>>
  PROVE  \E i, j \in DOMAIN (a \o b \o c) :
           /\ i <= j
           /\ a \o c = SubSeq(a \o b \o c, 1, i - 1)
                        \o SubSeq(a \o b \o c, j + 1, Len(a \o b \o c))
<1> DEFINE p == a \o b \o c
           i == Len(a) + 1
           j == Len(a) + Len(b)
<1>1. /\ p \in Seq(Rows) /\ Len(p) = Len(a) + Len(b) + Len(c)
      /\ \A n \in 1..Len(a) : p[n] = a[n]
      /\ \A n \in 1..Len(c) : p[Len(a) + Len(b) + n] = c[n]
  BY ConcatIndex
<1>2. Len(a) \in Nat /\ Len(b) \in Nat \ {0} /\ Len(c) \in Nat
  BY EmptySeq
<1> HIDE DEF p
<1>3. \A n \in DOMAIN p : p[n] \in Rows
  BY <1>1
<1>4. SubSeq(p, 1, i - 1) = a
  <2>1. /\ SubSeq(p, 1, Len(a)) \in Seq(Rows)
        /\ Len(SubSeq(p, 1, Len(a))) = Len(a)
        /\ \A n \in 1..Len(a) : SubSeq(p, 1, Len(a))[n] = a[n]
    BY <1>1, <1>2, PrefixSeq
  <2> QED BY <1>2, <2>1, SeqEqual
<1>5. SubSeq(p, j + 1, Len(p)) = c
  <2>1. /\ Dropped(p, j) \in Seq(Rows)
        /\ DOMAIN Dropped(p, j) = 1..Len(c)
        /\ \A n \in DOMAIN Dropped(p, j) : Dropped(p, j)[n] = p[j + n]
    BY <1>1, <1>2, DroppedSeq
  <2>2. Len(Dropped(p, j)) = Len(c)
    BY <1>2, <2>1, LenProperties
  <2>3. \A n \in 1..Len(c) : Dropped(p, j)[n] = c[n]
    BY <1>1, <2>1
  <2>4. Dropped(p, j) = c
    BY <2>1, <2>2, <2>3, SeqEqual
  <2> QED BY <2>4 DEF Dropped
<1>6. i \in DOMAIN p /\ j \in DOMAIN p /\ i <= j
  BY <1>1, <1>2
<1>7. a \o c = SubSeq(p, 1, i - 1) \o SubSeq(p, j + 1, Len(p))
  BY <1>4, <1>5
<1> QED BY <1>6, <1>7 DEF p

(* Rows b leave the channel between a and c: a Lose, or nothing if there   *)
(* are none.                                                               *)
LEMMA LoseStep ==
  ASSUME NEW a \in Seq(Rows), NEW b \in Seq(Rows), NEW c \in Seq(Rows),
         Pending = a \o b \o c, Pending' = a \o c,
         UNCHANGED <<sent, begun>>
  PROVE  [Channel!Next]_Channel!vars
<1>1. CASE b = <<>>
  <2>1. a \o b = a
    BY <1>1, ConcatEmptySeq
  <2> QED BY <2>1 DEF Channel!vars
<1>2. CASE b # <<>>
  <2> DEFINE p == a \o b \o c
  <2>1. PICK i \in DOMAIN p, j \in DOMAIN p :
          /\ i <= j
          /\ a \o c = SubSeq(p, 1, i - 1) \o SubSeq(p, j + 1, Len(p))
    BY <1>2, LoseMiddle
  <2>2. Pending = p /\ Pending' = a \o c
    OBVIOUS
  <2> HIDE DEF p
  <2>3. Channel!Lose
    BY <2>1, <2>2 DEF Channel!Lose
  <2> QED BY <2>3 DEF Channel!Next
<1> QED BY <1>1, <1>2

(* A stage is its front followed by the rest.                              *)
LEMMA SplitSeq ==
  ASSUME NEW s \in Seq(Rows), NEW k \in 0..Len(s)
  PROVE  /\ SubSeq(s, 1, k) \in Seq(Rows) /\ Dropped(s, k) \in Seq(Rows)
         /\ s = SubSeq(s, 1, k) \o Dropped(s, k)
<1>1. Len(s) \in Nat /\ 1 \in 1..Len(s) + 1
      /\ k \in 1 - 1 .. Len(s) /\ Len(s) \in k..Len(s)
  OBVIOUS
<1>2. SubSeq(s, 1, k) \o SubSeq(s, k + 1, Len(s)) = SubSeq(s, 1, Len(s))
  BY <1>1, ConcatAdjacentSubSeq
<1> QED BY <1>2, SubSeqFull, PrefixSeq, DroppedSeq DEF Dropped

(* A row that moves from the front of t to the end of s stays where it is  *)
(* in the channel.                                                         *)
LEMMA MoveConcat ==
  ASSUME NEW s \in Seq(Rows), NEW t \in Seq(Rows), t # <<>>
  PROVE  Append(s, Head(t)) \o Tail(t) = s \o t
<1>1. Head(t) \in Rows /\ Tail(t) \in Seq(Rows) /\ Head(t) = t[1]
      /\ Len(Tail(t)) = Len(t) - 1 /\ Len(t) \in Nat \ {0}
      /\ \A i \in 1..Len(Tail(t)) : Tail(t)[i] = t[i + 1]
  BY HeadTailProperties, EmptySeq
<1> DEFINE new == Append(s, Head(t))
<1>2. /\ new \in Seq(Rows) /\ Len(new) = Len(s) + 1 /\ Len(s) \in Nat
      /\ \A i \in 1..Len(s) : new[i] = s[i]
      /\ new[Len(s) + 1] = t[1]
  BY <1>1, AppendProperties
<1> HIDE DEF new
<1>3. /\ new \o Tail(t) \in Seq(Rows)
      /\ Len(new \o Tail(t)) = Len(new) + Len(Tail(t))
      /\ \A i \in 1 .. Len(new) + Len(Tail(t)) : (new \o Tail(t))[i] =
            IF i <= Len(new) THEN new[i] ELSE Tail(t)[i - Len(new)]
  BY <1>1, <1>2, ConcatProperties
<1>4. /\ s \o t \in Seq(Rows)
      /\ Len(s \o t) = Len(s) + Len(t)
      /\ \A i \in 1 .. Len(s) + Len(t) : (s \o t)[i] =
            IF i <= Len(s) THEN s[i] ELSE t[i - Len(s)]
  BY ConcatProperties
<1>5. Len(new \o Tail(t)) = Len(s \o t)
  BY <1>1, <1>2, <1>3, <1>4
<1>6. ASSUME NEW i \in 1..Len(s \o t)
      PROVE  (new \o Tail(t))[i] = (s \o t)[i]
  <2>1. CASE i <= Len(s)
    BY <1>1, <1>2, <1>3, <1>4, <2>1
  <2>2. CASE i = Len(s) + 1
    BY <1>1, <1>2, <1>3, <1>4, <2>2
  <2>3. CASE i > Len(s) + 1
    BY <1>1, <1>2, <1>3, <1>4, <2>3
  <2> QED BY <1>2, <1>4, <2>1, <2>2, <2>3
<1> QED BY <1>3, <1>4, <1>5, <1>6, SeqEqual DEF new

(* The oldest row of a concatenation is that of its first part.            *)
LEMMA HeadConcat ==
  ASSUME NEW s \in Seq(Rows), NEW t \in Seq(Rows), s # <<>>
  PROVE  /\ s \o t # <<>> /\ Head(s \o t) = Head(s)
         /\ Tail(s \o t) = Tail(s) \o t
<1>1. /\ s \o t \in Seq(Rows) /\ Len(s \o t) = Len(s) + Len(t)
      /\ \A i \in 1 .. Len(s) + Len(t) : (s \o t)[i] =
           IF i <= Len(s) THEN s[i] ELSE t[i - Len(s)]
  BY ConcatProperties
<1>2. Len(s) \in Nat \ {0} /\ Len(t) \in Nat /\ Len(<<>>) = 0
  BY EmptySeq
<1> DEFINE st == s \o t
<1>3. st # <<>> /\ st \in Seq(Rows)
  BY <1>1, <1>2
<1> HIDE DEF st
<1>4. /\ Head(st) = st[1] /\ Tail(st) \in Seq(Rows)
      /\ Len(Tail(st)) = Len(st) - 1
      /\ \A i \in 1 .. Len(Tail(st)) : Tail(st)[i] = st[i + 1]
  BY <1>3, HeadTailProperties, HeadTail
<1>5. /\ Head(s) = s[1] /\ Tail(s) \in Seq(Rows)
      /\ Len(Tail(s)) = Len(s) - 1
      /\ \A i \in 1 .. Len(Tail(s)) : Tail(s)[i] = s[i + 1]
  BY HeadTailProperties, HeadTail
<1>6. /\ Tail(s) \o t \in Seq(Rows)
      /\ Len(Tail(s) \o t) = Len(Tail(s)) + Len(t)
      /\ \A i \in 1 .. Len(Tail(s)) + Len(t) : (Tail(s) \o t)[i] =
           IF i <= Len(Tail(s)) THEN Tail(s)[i] ELSE t[i - Len(Tail(s))]
  BY <1>5, ConcatProperties
<1>7. Head(st) = Head(s)
  BY <1>1, <1>2, <1>4, <1>5 DEF st
<1>8. Len(Tail(st)) = Len(Tail(s) \o t)
  BY <1>1, <1>2, <1>4, <1>5, <1>6 DEF st
<1>9. ASSUME NEW i \in 1..Len(Tail(st))
      PROVE  Tail(st)[i] = (Tail(s) \o t)[i]
  BY <1>1, <1>2, <1>4, <1>5, <1>6 DEF st
<1>10. Tail(st) = Tail(s) \o t
  BY <1>4, <1>6, <1>8, <1>9, SeqEqual
<1> QED BY <1>3, <1>7, <1>10 DEF st

(* ConcatAssociative for rows, so that the provers need not look for the   *)
(* set of elements.                                                        *)
LEMMA RowsAssociative ==
  \A s, t, u \in Seq(Rows) :
    /\ (s \o t) \o u = s \o (t \o u)
    /\ s \o t \in Seq(Rows)
BY ConcatAssociative, ConcatProperties

(* The front of the relay may be counted with any stage before it.         *)
LEMMA RegroupRows ==
  ASSUME NEW k \in 0..Len(relay),
         queue \in Seq(Rows), batch \in Seq(Rows), relay \in Seq(Rows)
  PROVE  LET pre  == SubSeq(relay, 1, k)
             post == Dropped(relay, k)
         IN  /\ pre \in Seq(Rows) /\ post \in Seq(Rows)
             /\ queue \o batch \in Seq(Rows) /\ batch \o pre \in Seq(Rows)
             /\ queue \o batch \o pre \in Seq(Rows)
             /\ queue \o relay = queue \o pre \o post
             /\ Pending = (queue \o batch) \o pre \o post
             /\ Pending = queue \o (batch \o pre) \o post
<1> DEFINE pre == SubSeq(relay, 1, k)
           post == Dropped(relay, k)
           qb == queue \o batch
<1>1. pre \in Seq(Rows) /\ post \in Seq(Rows)
  BY SplitSeq
<1>2. relay = pre \o post
  BY SplitSeq
<1> HIDE DEF pre, post
<1>3. qb \in Seq(Rows)
  BY RowsAssociative
<1>4. (queue \o batch) \o pre = queue \o (batch \o pre)
      /\ batch \o pre \in Seq(Rows)
  BY <1>1, RowsAssociative
<1>5. (queue \o pre) \o post = queue \o (pre \o post)
  BY <1>1, RowsAssociative
<1> HIDE DEF qb
<1>6. qb \o pre \o post = qb \o (pre \o post) /\ qb \o pre \in Seq(Rows)
  BY <1>1, <1>3, RowsAssociative
<1>7. Pending = qb \o (pre \o post)
  BY <1>2 DEF Pending, qb
<1> QED
  BY <1>1, <1>2, <1>3, <1>4, <1>5, <1>6, <1>7 DEF pre, post, qb

(* Every step of the pipeline is a step of the channel or leaves it as it  *)
(* is: the batch and the queue are moved through without a trace.          *)
LEMMA ChannelStep == IInv /\ [Next]_vars => [Channel!Next]_Channel!vars
<1> SUFFICES ASSUME IInv, [Next]_vars PROVE [Channel!Next]_Channel!vars
  OBVIOUS
<1>0. /\ relay \in Seq(Rows) /\ batch \in Seq(Rows)
      /\ queue \in Seq(Rows) /\ begun \in Seq(Rows) /\ PutInv
  BY DEF IInv, TypeOK
<1>b. <<>> \in Seq(Rows)
  BY EmptySeq
<1>a. queue \o batch \in Seq(Rows) /\ batch \o relay \in Seq(Rows)
  BY <1>0, ConcatProperties
<1>1. CASE PeerSends
  <2>1. sent + 1 \in Rows
    BY <1>1, MaxRowsAssumption DEF PeerSends, IInv, TypeOK, Rows
  <2>2. <<sent + 1>> \in Seq(Rows)
    BY <2>1
  <2>3. relay' = relay \o <<sent + 1>>
    BY <1>0, <1>1, <2>1, AppendIsConcat DEF PeerSends
  <2>4. Pending' = queue \o batch \o (relay \o <<sent + 1>>)
    BY <1>1, <2>3 DEF PeerSends, Pending
  <2>5. Pending \in Seq(Rows) /\ Pending' = Pending \o <<sent + 1>>
    BY <1>0, <1>a, <2>2, <2>4, RowsAssociative, ConcatProperties
       DEF Pending
  <2>6. Pending' = Append(Pending, sent + 1)
    BY <2>1, <2>5, AppendIsConcat
  <2>7. Channel!Accept
    BY <1>1, <2>6 DEF PeerSends, Channel!Accept
  <2> QED BY <2>7 DEF Channel!Next
<1>2. CASE Connect
  BY <1>0, <1>2 DEF Connect, PutInv, Channel!vars, Pending
<1>3. CASE PollReturns
  <2>1. PICK k \in 1..Len(relay) : batch' = SubSeq(relay, 1, k)
                                   /\ relay' = Dropped(relay, k)
    BY <1>3 DEF PollReturns
  <2>0. k \in 0..Len(relay)
    OBVIOUS
  <2>2. queue \o relay = queue \o batch' \o relay'
    BY <1>0, <2>0, <2>1, RegroupRows
  <2>3. batch = <<>>
    BY <1>0, <1>3 DEF PollReturns, PutInv
  <2>4. Pending = queue \o relay
    BY <1>0, <2>3, ConcatEmptySeq DEF Pending
  <2>5. Pending' = queue \o batch' \o relay'
    BY <1>3 DEF PollReturns, Pending
  <2>6. Pending' = Pending
    BY <2>2, <2>4, <2>5
  <2> QED BY <1>3, <2>6 DEF PollReturns, Channel!vars
<1>4. CASE PollFails
  <2>1. PICK k \in 0..Len(relay) : relay' = Dropped(relay, k)
    BY <1>4 DEF PollFails
  <2> DEFINE pre == SubSeq(relay, 1, k)
  <2>2. /\ pre \in Seq(Rows) /\ relay' \in Seq(Rows)
        /\ Pending = (queue \o batch) \o pre \o relay'
    BY <1>0, <2>1, RegroupRows
  <2>3. Pending' = (queue \o batch) \o relay'
    BY <1>4 DEF PollFails, Pending
  <2> HIDE DEF pre
  <2> QED BY <1>a, <1>4, <2>2, <2>3, LoseStep DEF PollFails
<1>5. CASE BackoffEnds
  BY <1>5 DEF BackoffEnds, Channel!vars, Pending
<1>6. CASE PutRow
  <2>1. batch # <<>>
    BY <1>0, <1>6 DEF PutRow, PutInv
  <2>2. queue' \o batch' = queue \o batch
    BY <1>0, <1>6, <2>1, MoveConcat DEF PutRow
  <2> QED BY <1>6, <2>2 DEF PutRow, Channel!vars, Pending
<1>7. CASE DispatchBegins
  <2>1. queue # <<>> /\ Tail(queue) \in Seq(Rows)
    BY <1>0, <1>7, HeadTail DEF DispatchBegins
  <2>2. Pending = queue \o (batch \o relay)
    BY <1>0, RowsAssociative DEF Pending
  <2>3. /\ Pending # <<>> /\ Head(Pending) = Head(queue)
        /\ Tail(Pending) = Tail(queue) \o (batch \o relay)
    BY <1>0, <1>a, <2>1, <2>2, HeadConcat
  <2>4. Pending' = Tail(queue) \o batch \o relay
    BY <1>7 DEF DispatchBegins, Pending
  <2>5. (Tail(queue) \o batch) \o relay = Tail(queue) \o (batch \o relay)
    BY <1>0, <2>1, RowsAssociative
  <2>6. Pending' = Tail(Pending)
    BY <2>3, <2>4, <2>5
  <2>7. Channel!Deliver
    BY <1>7, <2>3, <2>6 DEF DispatchBegins, Channel!Deliver
  <2> QED BY <2>7 DEF Channel!Next
<1>8. CASE DispatchEnds
  BY <1>8 DEF DispatchEnds, Channel!vars, Pending
<1>9. CASE DisconnectPoll
  <2>1. PICK k \in 0..Len(relay) : relay' = Dropped(relay, k)
    BY <1>0, <1>9 DEF DisconnectPoll
  <2> DEFINE gone == batch \o SubSeq(relay, 1, k)
  <2>2. /\ gone \in Seq(Rows) /\ relay' \in Seq(Rows)
        /\ Pending = queue \o gone \o relay'
    BY <1>0, <2>1, RegroupRows
  <2>3. Pending' = queue \o relay'
    BY <1>0, <1>9, ConcatEmptySeq DEF DisconnectPoll, Pending
  <2> HIDE DEF gone
  <2> QED BY <1>0, <1>9, <2>2, <2>3, LoseStep DEF DisconnectPoll
<1>10. CASE DisconnectDispatch
  <2>a. <<>> \o queue = queue
    BY <1>0, ConcatEmptySeq
  <2>b. (queue \o batch) \o relay = queue \o (batch \o relay)
    BY <1>0, RowsAssociative
  <2>1. Pending = <<>> \o queue \o (batch \o relay)
    BY <2>a, <2>b DEF Pending
  <2>2. Pending' = <<>> \o (batch \o relay)
    BY <1>0, <1>10, RowsAssociative DEF DisconnectDispatch, Pending
  <2> QED BY <1>0, <1>a, <1>b, <1>10, <2>1, <2>2, LoseStep DEF DisconnectDispatch
<1>11. CASE Crash
  <2>1. PICK k \in 0..Len(relay) : relay' = Dropped(relay, k)
    BY <1>0, <1>11 DEF Crash
  <2> DEFINE gone == queue \o batch \o SubSeq(relay, 1, k)
  <2>2. /\ gone \in Seq(Rows) /\ relay' \in Seq(Rows)
        /\ Pending = gone \o relay'
    BY <1>0, <2>1, RegroupRows
  <2> HIDE DEF gone
  <2>3. Pending = <<>> \o gone \o relay'
    BY <2>2, ConcatEmptySeq
  <2>4. Pending' = <<>> \o relay'
    BY <1>0, <1>11, ConcatEmptySeq DEF Crash, Pending
  <2> QED BY <1>0, <1>b, <1>11, <2>2, <2>3, <2>4, LoseStep DEF Crash
<1>12. CASE DispatchCancelledFromWithin
  BY <1>12 DEF DispatchCancelledFromWithin, Channel!vars, Pending
<1>13. CASE UNCHANGED vars
  BY <1>13 DEF vars, Channel!vars, Pending
<1> QED
  BY <1>1, <1>2, <1>3, <1>4, <1>5, <1>6, <1>7, <1>8, <1>9, <1>10, <1>11,
     <1>12, <1>13 DEF Next

(* The pipeline implements OrderedDelivery: seen from its two ends, three  *)
(* buffers, two loops and every way they stop are one channel that         *)
(* delivers in order, at most once, and loses only what it has not         *)
(* delivered.                                                              *)
THEOREM PipelineIsChannel == Spec => ImplementsOrderedDelivery
<1>1. Init => Channel!Init
  BY DEF Init, Channel!Init, Pending
<1>2. IInv /\ [Next]_vars => [Channel!Next]_Channel!vars
  BY ChannelStep
<1> QED BY IInvAlways, <1>1, <1>2, PTL
        DEF Spec, ImplementsOrderedDelivery, Channel!Spec
=============================================================================
