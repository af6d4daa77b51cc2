----------------------------- MODULE GroupsProofs -----------------------------
(***************************************************************************)
(* Theorems about Groups.                                                  *)
(***************************************************************************)
EXTENDS Groups, FiniteSetTheorems, WellFoundedInduction, TLAPS

-----------------------------------------------------------------------------
(* The inductive invariant.                                                *)

Types ==
  /\ related \in SUBSET Agents
  /\ view \in [Agents -> Record \cup {NoRecord}]
  /\ inbox \in [Agents -> Seq(Envelope)]
  /\ fanouts \in SUBSET Fanout
  /\ ops \in 0..MaxOps
  /\ left \in SUBSET Agents
  /\ lists \in SUBSET Lists
  /\ announced \in SUBSET Announcements
  /\ mishaps \in 0..MaxMishaps /\ conflict \in BOOLEAN

(* Fan-outs are told apart by their number.                                *)
NumberInv ==
  /\ \A f \in fanouts : f.op <= ops
  /\ \A f, g \in fanouts : f.op = g.op => f = g

(* Nothing has happened before the Start.                                  *)
StartInv ==
  ops = 0 =>
    /\ fanouts = {} /\ left = {} /\ lists = {} /\ announced = {}
    /\ \A a \in Agents : inbox[a] = <<>> /\ view[a] = NoRecord

(* A list that is sent is one its sender, a convener, has put in force, or *)
(* has been announced; and a leave is sent by an agent that leaves.        *)
Honest(e) ==
  /\ e.kind \in ListKinds =>
       \/ /\ e.list \in lists /\ e.from \in Conveners
          /\ e.names = e.from /\ ~e.changed
       \/ \E n \in announced : e = UpdateOf(n)
  /\ e.kind = "leave" => e.from \in left

SentInv ==
  /\ \A a \in Agents : \A i \in DOMAIN inbox[a] : Honest(inbox[a][i])
  /\ \A f \in fanouts :
       Honest(Letter(f))

(* Whom an agent takes for the convener may pass for it.                   *)
RoleInv == \A a \in Agents : Holds(a) => view[a].convener \in Conveners

SizeInv ==
  /\ \A list \in lists : Size(list) <= MaxMembers
  /\ ListsFromConvener

(* Lists and invitations on their way: in fan-outs, and in an inbox.       *)
Coming(a, kinds) == \E f \in fanouts : f.kind \in kinds /\ a \in Named(f.left)

ListsIn(queue)   == {i \in DOMAIN queue : queue[i].kind \in ListKinds}
InvitesIn(queue) == {i \in DOMAIN queue : queue[i].kind = "invite"}

(* Who was named once is invited once, and has no record before; the       *)
(* convener is not invited.                                                *)
InviteInv ==
  /\ \A f, g \in fanouts : f.kind = "invite" /\ g.kind = "invite" => f = g
  /\ \A a \in Agents : NamedOnce(a) =>
       /\ \A f \in fanouts : f.kind = "invite" =>
            \A p, q \in DOMAIN f.left : f.left[p] = a /\ f.left[q] = a
              => p = q
       /\ \A i, j \in InvitesIn(inbox[a]) : i = j
       /\ Coming(a, {"invite"}) => InvitesIn(inbox[a]) = {}
       /\ Holds(a) \/ a \in left
            => ~Coming(a, {"invite"}) /\ InvitesIn(inbox[a]) = {}

(* Records are for those with a relationship.                              *)
RelatedInv == \A a \in Agents : Holds(a) => a \in related \cup {Convener}

(* The convener has its record until it leaves, and is sent no list unless *)
(* somebody else passes for the convener.                                  *)
ConvenerInv ==
  /\ ops > 0 /\ Convener \notin left => Holds(Convener)
  /\ announced = {} =>
       ~Coming(Convener, ListKinds) /\ ListsIn(inbox[Convener]) = {}

-----------------------------------------------------------------------------
(* Why the copies agree: what is on its way to an agent turns what it has  *)
(* into what the convener has, as soon as the same is done for the         *)
(* convener.                                                               *)

(* The leavers of whom a is told by a fan-out, or in its inbox behind k.   *)
LeaversComing(a) ==
  {f.at : f \in {g \in fanouts : g.kind = "leave" /\ a \in Named(g.left)}}

LeaversBehind(queue, k) ==
  {queue[i].from :
     i \in {j \in DOMAIN queue : j > k /\ queue[j].kind = "leave"}}

LeaversFor(a, k) == LeaversComing(a) \cup LeaversBehind(inbox[a], k)

(* The group: what the convener lists, without those that are leaving.     *)
Group == Without(view[Convener].members, LeaversFor(Convener, 0))

(* A list that is being sent is the convener's, and no one on it leaves.   *)
SendingInv ==
  \A f \in fanouts : f.kind \in ListKinds =>
    /\ f.list = view[Convener].members
    /\ \A a \in Agents : LeaversFor(a, 0) \cap Named(f.list) = {}

(* The last list in the inbox and, without one, the record lack nothing    *)
(* but the leaves behind it.                                               *)
CatchesUp(a) ==
  /\ \A k \in ListsIn(inbox[a]) : (\A i \in ListsIn(inbox[a]) : i <= k) =>
       Without(inbox[a][k].list, LeaversFor(a, k)) = Group
  /\ Holds(a) /\ ListsIn(inbox[a]) = {} =>
       Without(view[a].members, LeaversFor(a, 0)) = Group

AgreeInv ==
  Undisturbed /\ ops > 0 =>
    /\ SendingInv
    /\ \A a \in Named(Group) \ {Convener} :
         ~Coming(a, ListKinds) => CatchesUp(a)

IInv ==
  /\ Types /\ NumberInv /\ StartInv /\ SentInv /\ RoleInv /\ SizeInv
  /\ InviteInv /\ RelatedInv /\ ConvenerInv /\ AgreeInv

-----------------------------------------------------------------------------
(* Member lists.                                                           *)

(* A list has agents at places.                                            *)
LEMMA ListType ==
  ASSUME NEW list \in Lists
  PROVE  /\ DOMAIN list \in SUBSET Places
         /\ list = [p \in DOMAIN list |-> list[p]]
         /\ \A p \in DOMAIN list : list[p] \in Agents
         /\ Named(list) \in SUBSET Agents
         /\ \A a : a \in Named(list) <=> \E p \in DOMAIN list : list[p] = a
BY DEF Lists, Named, Range

(* A list without some agents has the others, where they were.             *)
LEMMA WithoutType ==
  ASSUME NEW list \in Lists, NEW gone
  PROVE  /\ Without(list, gone) \in Lists
         /\ Named(Without(list, gone)) = Named(list) \ gone
         /\ DOMAIN Without(list, gone)
              = {p \in DOMAIN list : list[p] \notin gone}
         /\ \A p \in DOMAIN Without(list, gone) : Without(list, gone)[p]
              = list[p]
<1> DEFINE rest == {p \in DOMAIN list : list[p] \notin gone}
<1>1. Without(list, gone) = [p \in rest |-> list[p]]
  BY DEF Without, Restrict
<1>2. rest \in SUBSET Places /\ \A p \in rest : list[p] \in Agents
  BY ListType
<1>3. Without(list, gone) \in [rest -> Agents]
  BY <1>1, <1>2
<1>4. Without(list, gone) \in Lists
  BY <1>2, <1>3 DEF Lists
<1>5. Named(Without(list, gone)) = {list[p] : p \in rest}
  BY <1>1 DEF Named, Range
<1>6. Named(list) \ gone = {list[p] : p \in rest}
  BY DEF Named, Range
<1> QED BY <1>1, <1>4, <1>5, <1>6

(* It does not matter in which order agents are taken out.                 *)
LEMMA WithoutTwice ==
  ASSUME NEW list \in Lists, NEW gone, NEW more
  PROVE  Without(Without(list, gone), more) = Without(list, gone \cup more)
BY DEF Lists, Without, Restrict

(* Who is not on a list can be left out of it.                             *)
LEMMA WithoutNone ==
  ASSUME NEW list \in Lists, NEW gone, gone \cap Named(list) = {}
  PROVE  Without(list, gone) = list
<1>1. {p \in DOMAIN list : list[p] \notin gone} = DOMAIN list
  BY DEF Named, Range
<1> QED BY <1>1, ListType DEF Without, Restrict

(* There are finitely many places.                                         *)
LEMMA PlacesFinite ==
  ASSUME BoundsAssumption
  PROVE  IsFiniteSet(Places) /\ Places \subseteq Nat
<1>1. 1 \in Int /\ MaxMembers + MaxOps \in Int
  BY BoundsAssumption
<1>2. IsFiniteSet(1..(MaxMembers + MaxOps))
  BY <1>1, FS_Interval
<1> QED BY <1>1, <1>2 DEF Places

(* A list does not grow when agents are taken out.                         *)
LEMMA SizeShrinks ==
  ASSUME BoundsAssumption, NEW list \in Lists, NEW gone,
         Size(list) <= MaxMembers
  PROVE  Size(Without(list, gone)) <= MaxMembers
<1>1. IsFiniteSet(Places)
  BY PlacesFinite
<1>2. IsFiniteSet(DOMAIN list)
  BY <1>1, FS_Subset, ListType
<1>3. DOMAIN Without(list, gone) \subseteq DOMAIN list
  BY WithoutType
<1>4. Cardinality(DOMAIN Without(list, gone)) <= Cardinality(DOMAIN list)
  BY <1>2, <1>3, FS_Subset
<1>5. /\ Cardinality(DOMAIN list) \in Nat
      /\ Cardinality(DOMAIN Without(list, gone)) \in Nat
  BY <1>2, <1>3, FS_Subset, FS_CardinalityType
<1> QED BY <1>4, <1>5, BoundsAssumption DEF Size

(* The empty list has nobody on it.                                        *)
LEMMA NoListType == NoList \in Lists /\ Named(NoList) = {}
BY DEF NoList, Lists, Named, Range

(* A set of places has a least one.                                        *)
LEMMA LeastExists ==
  ASSUME NEW S \in SUBSET Nat, IsFiniteSet(S), S # {}
  PROVE  \E m \in S : \A k \in S : m <= k
<1> DEFINE HasLeast(U) == \E m \in U : \A k \in U : m <= k
           Bad == {U \in SUBSET S : U # {} /\ ~HasLeast(U)}
<1> SUFFICES ASSUME Bad # {} PROVE FALSE
  OBVIOUS
<1>1. Bad \subseteq FiniteSubsetsOf(S)
  BY FS_Subset DEF FiniteSubsetsOf
<1>2. PICK U \in Bad : \A V \in Bad : <<V, U>> \notin StrictSubsetOrdering(S)
  <2> HIDE DEF Bad
  <2> QED BY <1>1, WFMin, FS_StrictSubsetOrderingWellFounded
<1>3. PICK x : x \in U
  OBVIOUS
<1>4. U \ {x} \notin Bad
  BY <1>2, <1>3 DEF StrictSubsetOrdering
<1>5. CASE U = {x}
  BY <1>5
<1>6. CASE U # {x}
  <2>1. PICK m \in U \ {x} : \A k \in U \ {x} : m <= k
    <3>1. U \ {x} \in SUBSET S /\ U \ {x} # {}
      BY <1>3, <1>6
    <3> QED BY <1>4, <3>1
  <2>2. x \in Nat /\ m \in Nat
    BY <1>3
  <2> DEFINE l == IF m <= x THEN m ELSE x
  <2>3. l \in U /\ \A k \in U : k \in Nat /\ l <= k
    BY <1>3, <2>1, <2>2
  <2> QED BY <2>3
<1> QED BY <1>5, <1>6

(* The first of a list that is not empty is on it.                         *)
LEMMA FirstType ==
  ASSUME BoundsAssumption, NEW list \in Lists, DOMAIN list # {}
  PROVE  /\ First(list) \in DOMAIN list
         /\ list[First(list)] \in Agents
         /\ list[First(list)] \in Named(list)
<1>1. DOMAIN list \subseteq Places /\ IsFiniteSet(Places)
        /\ Places \subseteq Nat
  BY PlacesFinite, ListType
<1>2. IsFiniteSet(DOMAIN list)
  BY <1>1, FS_Subset
<1>3. \E p \in DOMAIN list : \A q \in DOMAIN list : p <= q
  BY <1>1, <1>2, LeastExists
<1>4. First(list) \in DOMAIN list
  BY <1>3 DEF First
<1> QED BY <1>4, ListType DEF Named, Range

(* The rest of a list has everybody but the first, where they were.        *)
LEMMA RestType ==
  ASSUME NEW list \in Lists
  PROVE  /\ Rest(list) \in Lists
         /\ DOMAIN Rest(list) = DOMAIN list \ {First(list)}
         /\ \A p \in DOMAIN Rest(list) : Rest(list)[p] = list[p]
         /\ Named(Rest(list)) \subseteq Named(list)
         /\ Named(list) \subseteq Named(Rest(list)) \cup {list[First(list)]}
<1>1. /\ DOMAIN Rest(list) = DOMAIN list \ {First(list)}
      /\ Rest(list) = [p \in DOMAIN list \ {First(list)} |-> list[p]]
      /\ \A p \in DOMAIN Rest(list) : Rest(list)[p] = list[p]
  BY DEF Rest, Restrict
<1>2. Rest(list) \in Lists
  BY <1>1 DEF Lists
<1> QED BY <1>1, <1>2 DEF Named, Range

(* A list that is extended has the newcomer on it, at a new place.         *)
LEMMA ExtendedType ==
  ASSUME BoundsAssumption, ops \in 0..MaxOps, ops < MaxOps,
         NEW list \in Lists, NEW n \in Agents
  PROVE  /\ Extended(list, n) \in Lists
         /\ Named(Extended(list, n)) \subseteq Named(list) \cup {n}
<1>1. NextPlace \in Places
  BY BoundsAssumption DEF NextPlace, Places
<1>2. Extended(list, n) \in [DOMAIN list \cup {NextPlace} -> Agents]
  BY ListType DEF Extended
<1>3. DOMAIN list \cup {NextPlace} \in SUBSET Places
  BY <1>1, ListType
<1>4. Extended(list, n) \in Lists
  BY <1>2, <1>3 DEF Lists
<1>5. Named(Extended(list, n)) \subseteq Named(list) \cup {n}
  BY DEF Extended, Named, Range
<1> QED BY <1>4, <1>5

(* The list of a Start.                                                    *)
LEMMA StartType ==
  ASSUME BoundsAssumption, ConvenerAssumption, InviteesAssumption,
         NEW others \in Invitees,
         Size(<<Convener>> \o others) <= MaxMembers
  PROVE  /\ others \in Lists
         /\ <<Convener>> \o others \in Lists
         /\ Convener \notin Named(others)
         /\ Named(<<Convener>> \o others) = Named(others) \cup {Convener}
         /\ \A p \in DOMAIN others :
              p + 1 \in DOMAIN (<<Convener>> \o others)
              /\ (<<Convener>> \o others)[p + 1] = others[p]
<1> DEFINE list == <<Convener>> \o others
<1>1. others \in Seq(Agents) /\ Len(others) \in Nat
  BY InviteesAssumption
<1>2. /\ list \in Seq(Agents)
      /\ Len(list) = Len(others) + 1
      /\ \A i \in 1..Len(others) : list[i + 1] = others[i]
      /\ list[1] = Convener
  BY <1>1, ConvenerAssumption
<1>3. DOMAIN list = 1..(Len(others) + 1) /\ DOMAIN others = 1..Len(others)
  BY <1>1, <1>2
<1>4. Len(others) + 1 <= MaxMembers
  <2>1. 1 \in Int /\ Len(others) + 1 \in Int /\ Len(others) + 1 >= 1
    BY <1>1
  <2>2. Cardinality(1..(Len(others) + 1)) = Len(others) + 1 - 1 + 1
    BY <2>1, FS_Interval
  <2> QED BY <1>1, <1>3, <2>2 DEF Size
<1>5. DOMAIN list \in SUBSET Places /\ DOMAIN others \in SUBSET Places
  BY <1>1, <1>3, <1>4, BoundsAssumption DEF Places
<1>6. list \in [DOMAIN list -> Agents] /\ others \in [DOMAIN others -> Agents]
  <2> HIDE DEF list
  <2> QED BY <1>1, <1>2, <1>3
<1>7. list \in Lists /\ others \in Lists
  BY <1>5, <1>6 DEF Lists
<1>8. Convener \notin Named(others)
  BY InviteesAssumption DEF Named, Range
<1>9. Named(list) = Named(others) \cup {Convener}
  <2>1. ASSUME NEW i \in 1..(Len(others) + 1)
        PROVE  list[i] \in Named(others) \cup {Convener}
    <3>1. CASE i = 1
      BY <3>1, <1>2
    <3>2. CASE i # 1
      <4>1. i - 1 \in 1..Len(others) /\ i = (i - 1) + 1
        BY <3>2, <1>1
      <4> QED BY <4>1, <1>2, <1>3 DEF Named, Range
    <3> QED BY <3>1, <3>2
  <2>2. Named(list) \subseteq Named(others) \cup {Convener}
    BY <2>1, <1>3 DEF Named, Range
  <2>3. 1 \in DOMAIN list /\ \A i \in DOMAIN others : i + 1 \in DOMAIN list
    BY <1>1, <1>3
  <2>4. Named(others) \cup {Convener} \subseteq Named(list)
    BY <2>3, <1>2, <1>3 DEF Named, Range
  <2> QED BY <2>2, <2>4
<1>10. \A p \in DOMAIN others : p + 1 \in DOMAIN list
         /\ list[p + 1] = others[p]
  BY <1>1, <1>2, <1>3
<1> QED BY <1>7, <1>8, <1>9, <1>10

-----------------------------------------------------------------------------
(* What the parts of the actions do.                                       *)

Recipient(f) == f.left[First(f.left)]

NewFanout(a, kind, list, targets) ==
  FanoutOf(OwnLetter(a, kind, list), targets)

Advanced(f) == [f EXCEPT !.left = Rest(@)]

(* A fan-out begins, unless it has nothing to do, and the others go on.    *)
LEMMA BeginLetterEffect ==
  ASSUME BoundsAssumption, Types, NEW letter \in Envelope,
         NEW targets \in Lists, BeginLetter(letter, targets)
  PROVE  /\ ops < MaxOps /\ ops' = ops + 1 /\ ops' \in 1..MaxOps
         /\ UNCHANGED <<related, inbox, mishaps>>
         /\ FanoutOf(letter, targets) \in Fanout
         /\ Letter(FanoutOf(letter, targets)) = letter
         /\ fanouts' \subseteq fanouts \cup {FanoutOf(letter, targets)}
         /\ fanouts' \in SUBSET Fanout
         /\ \A f \in fanouts \cup {FanoutOf(letter, targets)} :
              \A b : b \in Named(f.left) => f \in fanouts'
<1> DEFINE new == FanoutOf(letter, targets)
<1>1. ops < MaxOps /\ ops' = ops + 1 /\ ops' \in 1..MaxOps
  BY BoundsAssumption DEF BeginLetter, Types
<1>2. UNCHANGED <<related, inbox, mishaps>>
  BY DEF BeginLetter
<1>3. new \in Fanout /\ Letter(new) = letter
  BY <1>1 DEF FanoutOf, Fanout, Envelope, Letter
<1>4. fanouts' = Unfinished(fanouts \cup {new})
  BY DEF BeginLetter
<1> HIDE DEF new
<1>5. fanouts' \subseteq fanouts \cup {new}
  BY <1>4 DEF Unfinished
<1>6. \A f \in fanouts \cup {new} : \A b : b \in Named(f.left)
        => f \in fanouts'
  <2>1. \A f, b : b \in Named(f.left) => DOMAIN f.left # {}
    BY DEF Named, Range
  <2> QED BY <1>4, <2>1 DEF Unfinished
<1>7. fanouts' \in SUBSET Fanout
  BY <1>3, <1>5 DEF Types
<1> QED BY <1>1, <1>2, <1>3, <1>5, <1>6, <1>7 DEF new

(* The same for what an agent of this program says.                        *)
LEMMA BeginEffect ==
  ASSUME BoundsAssumption, Types, NEW a \in Agents, NEW kind \in Kinds,
         NEW list \in Lists, NEW targets \in Lists,
         Begin(a, kind, list, targets)
  PROVE  /\ ops < MaxOps /\ ops' = ops + 1 /\ ops' \in 1..MaxOps
         /\ UNCHANGED <<related, inbox, announced, mishaps>>
         /\ NewFanout(a, kind, list, targets) \in Fanout
         /\ fanouts'
              \subseteq fanouts \cup {NewFanout(a, kind, list, targets)}
         /\ fanouts' \in SUBSET Fanout
         /\ \A b, kinds : Coming(b, kinds)' <=>
              Coming(b, kinds) \/ (kind \in kinds /\ b \in Named(targets))
         /\ \A b : LeaversComing(b)' =
              LeaversComing(b) \cup {c \in {a} : kind = "leave"
                /\ b \in Named(targets)}
<1> DEFINE letter == OwnLetter(a, kind, list)
           new    == NewFanout(a, kind, list, targets)
<1>1. letter \in Envelope /\ BeginLetter(letter, targets)
        /\ announced' = announced
  BY DEF Begin, OwnLetter, Envelope
<1>2. new = FanoutOf(letter, targets)
  BY DEF NewFanout
<1>5. /\ new.kind = kind /\ new.at = a /\ new.left = targets
  BY DEF NewFanout, FanoutOf, OwnLetter
<1> HIDE DEF letter, new
<1>3. /\ ops < MaxOps /\ ops' = ops + 1 /\ ops' \in 1..MaxOps
      /\ UNCHANGED <<related, inbox, announced, mishaps>>
      /\ new \in Fanout /\ fanouts' \in SUBSET Fanout
  BY <1>1, <1>2, BeginLetterEffect
<1>6. fanouts' \subseteq fanouts \cup {new}
  BY <1>1, <1>2, BeginLetterEffect
<1>7. \A f \in fanouts \cup {new} : \A b : b \in Named(f.left)
        => f \in fanouts'
  BY <1>1, <1>2, BeginLetterEffect
<1>9. ASSUME NEW b, NEW kinds
      PROVE  Coming(b, kinds)' <=>
               Coming(b, kinds) \/ (kind \in kinds /\ b \in Named(targets))
  BY <1>5, <1>6, <1>7 DEF Coming
<1>10. ASSUME NEW b
       PROVE  LeaversComing(b)' = LeaversComing(b) \cup
                {c \in {a} : kind = "leave" /\ b \in Named(targets)}
  BY <1>5, <1>6, <1>7 DEF LeaversComing
<1> QED BY <1>3, <1>6, <1>9, <1>10 DEF new

(* An announcement changes no record, and invites nobody.                  *)
LEMMA AnnounceEffect ==
  ASSUME BoundsAssumption, AnnouncementsAssumption, Types,
         NEW n \in Announcements, Announce(n)
  PROVE  /\ ops' = ops + 1 /\ ops' \in 1..MaxOps /\ ops # 0
         /\ UNCHANGED <<related, view, inbox, left, lists, mishaps, conflict>>
         /\ announced' = announced \cup {n}
         /\ announced' \in SUBSET Announcements
         /\ fanouts' \in SUBSET Fanout
         /\ \E new \in Fanout :
              /\ new.op = ops + 1 /\ new.kind = "update"
              /\ Letter(new) = UpdateOf(n)
              /\ fanouts' \subseteq fanouts \cup {new}
<1> DEFINE letter  == UpdateOf(n)
           targets == Without(n.list, {n.from})
           new     == FanoutOf(letter, targets)
<1>1. n \in Announcement
  BY AnnouncementsAssumption
<1>2. letter \in Envelope /\ letter.kind = "update" /\ targets \in Lists
  <2>1. n.list \in Lists
    BY <1>1 DEF Announcement
  <2> QED BY <1>1, <2>1, WithoutType
          DEF Announcement, UpdateOf, Envelope, Kinds, ListKinds
<1>3. new.op = ops + 1 /\ new.kind = "update"
  BY DEF FanoutOf, UpdateOf
<1>4. BeginLetter(letter, targets)
  BY DEF Announce
<1>5. /\ UNCHANGED <<view, left, lists, conflict>>
      /\ announced' = announced \cup {n} /\ ops # 0
  BY DEF Announce, Types
<1> HIDE DEF letter, targets
<1>6. /\ ops' = ops + 1 /\ ops' \in 1..MaxOps
      /\ UNCHANGED <<related, inbox, mishaps>>
      /\ new \in Fanout /\ Letter(new) = letter
      /\ fanouts' \subseteq fanouts \cup {new}
      /\ fanouts' \in SUBSET Fanout
  BY <1>2, <1>4, BeginLetterEffect
<1>7. announced' \in SUBSET Announcements
  BY <1>5 DEF Types
<1> HIDE DEF new
<1> QED BY <1>3, <1>5, <1>6, <1>7 DEF letter

(* A fan-out that goes on has one recipient less; nothing else comes to    *)
(* anybody.                                                                *)
LEMMA AdvanceEffect ==
  ASSUME BoundsAssumption, Types, NEW f \in fanouts, DOMAIN f.left # {},
         Advance(f)
  PROVE  /\ Recipient(f) \in Agents /\ Recipient(f) \in Named(f.left)
         /\ Letter(f) \in Envelope
         /\ Advanced(f) \in Fanout
         /\ fanouts' \subseteq (fanouts \ {f}) \cup {Advanced(f)}
         /\ fanouts' \in SUBSET Fanout
         /\ \A b, kinds : Coming(b, kinds)' => Coming(b, kinds)
         /\ \A b, kinds : Coming(b, kinds) /\ ~Coming(b, kinds)' =>
              b = Recipient(f) /\ f.kind \in kinds
         /\ \A b : LeaversComing(b)' \subseteq LeaversComing(b)
         /\ \A b : LeaversComing(b) \subseteq LeaversComing(b)' \cup
              {c \in {f.at} : b = Recipient(f) /\ f.kind = "leave"}
<1> DEFINE next == Advanced(f)
<1>1. f \in Fanout
  BY DEF Types
<1>2. f.left \in Lists /\ f.kind \in Kinds /\ f.at \in Agents
        /\ f.list \in Lists
  BY <1>1 DEF Fanout
<1>3. Recipient(f) \in Agents /\ Recipient(f) \in Named(f.left)
  BY <1>2, FirstType DEF Recipient
<1>4. Letter(f) \in Envelope
  BY <1>1, <1>2 DEF Letter, Envelope, Fanout
<1>5. Rest(f.left) \in Lists
  BY <1>2, RestType
<1>6. next \in Fanout
  BY <1>1, <1>5 DEF Advanced, Fanout
<1>7. fanouts' = Unfinished((fanouts \ {f}) \cup {next})
  BY DEF Advance, Advanced
<1>8. next.kind = f.kind /\ next.at = f.at /\ next.left = Rest(f.left)
  BY <1>1 DEF Advanced, Fanout
<1> HIDE DEF next
<1>9. fanouts' \subseteq (fanouts \ {f}) \cup {next}
  BY <1>7 DEF Unfinished
<1>10. \A g \in (fanouts \ {f}) \cup {next} : \A b : b \in Named(g.left)
         => g \in fanouts'
  <2>1. \A g, b : b \in Named(g.left) => DOMAIN g.left # {}
    BY DEF Named, Range
  <2> QED BY <1>7, <2>1 DEF Unfinished
<1>11. fanouts' \in SUBSET Fanout
  BY <1>6, <1>9 DEF Types
<1>12. /\ Named(next.left) \subseteq Named(f.left)
       /\ Named(f.left) \subseteq Named(next.left) \cup {Recipient(f)}
  BY <1>2, <1>8, RestType DEF Recipient
<1>13. ASSUME NEW b, NEW kinds
       PROVE  /\ Coming(b, kinds)' => Coming(b, kinds)
              /\ Coming(b, kinds) /\ ~Coming(b, kinds)' =>
                   b = Recipient(f) /\ f.kind \in kinds
  BY <1>8, <1>9, <1>10, <1>12 DEF Coming
<1>14. ASSUME NEW b
       PROVE  /\ LeaversComing(b)' \subseteq LeaversComing(b)
              /\ LeaversComing(b) \subseteq LeaversComing(b)' \cup
                   {c \in {f.at} : b = Recipient(f) /\ f.kind = "leave"}
  BY <1>8, <1>9, <1>10, <1>12 DEF LeaversComing
<1> QED BY <1>3, <1>4, <1>6, <1>9, <1>11, <1>13, <1>14 DEF next

(* What the head of an inbox makes of the record of its agent.             *)
Ignored(a, e) ==
  /\ view' = view
  /\ e.kind = "invite" => a \notin related
  /\ e.kind = "update" => ~MayUpdate(a, e)
  /\ e.kind = "leave" => ~Listed(a, e.from)

Changed(a, list, done) ==
  /\ \A b \in Agents \ {a} : view'[b] = view[b]
  /\ view'[a] \in Record
  /\ view'[a].members = list /\ view'[a].done = done

SameConvener(a) == view'[a].convener = view[a].convener

Joined(a, e) ==
  /\ e.kind = "invite" /\ a \in related
  /\ Changed(a, e.list, FALSE) /\ view'[a].convener = e.names

Updated(a, e) ==
  /\ e.kind = "update" /\ Holds(a) /\ MayUpdate(a, e)
  /\ Changed(a, e.list, view[a].done)
  /\ IF e.changed THEN view'[a].convener = e.names ELSE SameConvener(a)

Struck(a, e) ==
  /\ e.kind = "leave" /\ Holds(a) /\ SameConvener(a)
  /\ Changed(a, Without(view[a].members, {e.from}), view[a].done)

Closed(a, e) ==
  /\ e.kind = "complete" /\ Holds(a) /\ SameConvener(a)
  /\ Changed(a, view[a].members, TRUE)

(* What a handler does with the head of the inbox is one of five things.   *)
LEMMA HandleEffect ==
  ASSUME Types, NEW a \in Agents, Handle(a)
  PROVE  /\ inbox[a] # <<>> /\ Take(a)
         /\ \/ Ignored(a, Head(inbox[a])) \/ Joined(a, Head(inbox[a]))
            \/ Updated(a, Head(inbox[a])) \/ Struck(a, Head(inbox[a]))
            \/ Closed(a, Head(inbox[a]))
<1> USE DEF Received
<1>1. view \in [Agents -> Record \cup {NoRecord}]
  BY DEF Types
<1>2. Holds(a) => view[a] \in Record
  BY <1>1 DEF Holds
<1>0. inbox[a] # <<>> => Head(inbox[a]) \in Envelope
  BY DEF Types
<1>3. CASE InvitationAccepted(a)
  <2>1. inbox[a] # <<>>
    BY <1>3 DEF InvitationAccepted
  <2>2. /\ Head(inbox[a]).list \in Lists /\ Head(inbox[a]).names \in Agents
    BY <1>0, <2>1 DEF Envelope
  <2>3. [members |-> Head(inbox[a]).list, done |-> FALSE,
         convener |-> Head(inbox[a]).names] \in Record
    BY <2>2 DEF Record
  <2> QED BY <1>1, <1>3, <2>3 DEF InvitationAccepted, Joined, Changed
<1>4. CASE InvitationDropped(a)
  BY <1>4 DEF InvitationDropped, Ignored
<1>5. CASE UpdateApplied(a)
  <2> DEFINE e == Head(inbox[a])
  <2>1. /\ inbox[a] # <<>> /\ e.kind = "update" /\ MayUpdate(a, e)
        /\ Update(a, e) /\ Take(a)
    BY <1>5 DEF UpdateApplied
  <2>2. e \in Envelope
    BY <1>0, <2>1
  <2> HIDE DEF e
  <2>3. Holds(a) /\ view[a] \in Record
    BY <1>2, <2>1 DEF MayUpdate
  <2>4. Changed(a, e.list, view[a].done)
    BY <1>1, <2>1, <2>2, <2>3 DEF Update, Changed, Record, Envelope
  <2>5. IF e.changed THEN view'[a].convener = e.names ELSE SameConvener(a)
    BY <1>1, <2>1, <2>2, <2>3 DEF Update, SameConvener, Record, Envelope
  <2> QED BY <2>1, <2>3, <2>4, <2>5 DEF Updated, e
<1>6. CASE UpdateDropped(a)
  BY <1>6 DEF UpdateDropped, Ignored
<1>7. CASE LeaverRemoved(a)
  <2> DEFINE list == Without(view[a].members, {Head(inbox[a]).from})
  <2>1. /\ Holds(a) /\ view[a] \in Record /\ ReplaceMembers(a, list)
        /\ inbox[a] # <<>> /\ Head(inbox[a]).kind = "leave" /\ Take(a)
    BY <1>2, <1>7 DEF LeaverRemoved, Listed
  <2>2. list \in Lists
    BY <2>1, WithoutType DEF Record
  <2> HIDE DEF list
  <2>3. Changed(a, list, view[a].done) /\ SameConvener(a)
    BY <1>1, <2>1, <2>2 DEF ReplaceMembers, Changed, SameConvener, Record
  <2> QED BY <2>1, <2>3 DEF Struck, list
<1>8. CASE LeaveDropped(a)
  BY <1>8 DEF LeaveDropped, Ignored
<1>9. CASE MarkedComplete(a)
  BY <1>1, <1>2, <1>9 DEF MarkedComplete, Closed, Changed, SameConvener, Record
<1>10. CASE CompleteDropped(a)
  BY <1>10 DEF CompleteDropped, Ignored
<1>11. CASE ChatAccepted(a)
  BY <1>11 DEF ChatAccepted, Ignored
<1>12. CASE ChatDropped(a)
  BY <1>12 DEF ChatDropped, Ignored
<1> QED BY <1>3, <1>4, <1>5, <1>6, <1>7, <1>8, <1>9, <1>10, <1>11, <1>12
          DEF Handle

(* A record has a list and a flag.                                         *)
LEMMA MembersType ==
  ASSUME Types, NEW a \in Agents, Holds(a)
  PROVE  /\ view[a] \in Record
         /\ view[a].members \in Lists /\ view[a].done \in BOOLEAN
<1>1. view[a] \in Record
  BY DEF Types, Holds
<1> QED BY <1>1 DEF Record

(* Replacing the members leaves the flag of the record.                    *)
LEMMA ReplaceEffect ==
  ASSUME Types, NEW a \in Agents, Holds(a), NEW list \in Lists,
         ReplaceMembers(a, list)
  PROVE  /\ view' \in [Agents -> Record \cup {NoRecord}]
         /\ Changed(a, list, view[a].done) /\ SameConvener(a)
<1>1. view[a] \in Record /\ view \in [Agents -> Record \cup {NoRecord}]
  BY MembersType DEF Types
<1>2. [view[a] EXCEPT !.members = list]
        = [members |-> list, done |-> view[a].done,
           convener |-> view[a].convener]
  BY <1>1 DEF Record
<1>3. view' = [view EXCEPT ![a] = [members |-> list, done |-> view[a].done,
                                   convener |-> view[a].convener]]
  BY <1>1, <1>2 DEF ReplaceMembers
<1>4. [members |-> list, done |-> view[a].done,
       convener |-> view[a].convener] \in Record
  BY <1>1 DEF Record
<1> QED BY <1>1, <1>3, <1>4 DEF Changed, SameConvener

(* A list put in force has been held, and meets no other change and no     *)
(* leaver unless a conflict is noted.                                      *)
LEMMA NewListEffect ==
  ASSUME Types, NEW list \in Lists, NewList(list)
  PROVE  /\ lists' = lists \cup {list} /\ lists' \in SUBSET Lists
         /\ left' = left /\ conflict' \in BOOLEAN
         /\ ~conflict' => /\ ~conflict /\ ~ListsBeingSent
                          /\ LeaversUnderWay \cap Named(list) = {}
<1>1. lists' = lists \cup {list} /\ left' = left
  BY DEF NewList
<1>2. conflict' \in BOOLEAN
  BY DEF NewList
<1>3. ~conflict' => /\ ~conflict /\ ~ListsBeingSent
                   /\ LeaversUnderWay \cap Named(list) = {}
  BY DEF NewList
<1> QED BY <1>1, <1>2, <1>3 DEF Types

(* The head of an inbox goes, to the dispatch loop or for good.            *)
LEMMA TakeEffect ==
  ASSUME Types, NEW a \in Agents, inbox[a] # <<>>,
         inbox' = [inbox EXCEPT ![a] = Tail(@)]
  PROVE  /\ inbox' \in [Agents -> Seq(Envelope)]
         /\ \A b \in Agents \ {a} : inbox'[b] = inbox[b]
         /\ inbox[a] \in Seq(Envelope) /\ inbox'[a] = Tail(inbox[a])
         /\ Head(inbox[a]) \in Envelope
BY DEF Types

(* An envelope goes to the end of one inbox.                               *)
LEMMA PutEffect ==
  ASSUME Types, NEW a \in Agents, NEW e \in Envelope,
         inbox' = [inbox EXCEPT ![a] = Append(@, e)]
  PROVE  /\ inbox' \in [Agents -> Seq(Envelope)]
         /\ \A b \in Agents \ {a} : inbox'[b] = inbox[b]
         /\ inbox[a] \in Seq(Envelope) /\ inbox'[a] = Append(inbox[a], e)
BY DEF Types

(* A send that succeeds puts the envelope in the recipient's inbox.        *)
LEMMA SendNextEffect ==
  ASSUME BoundsAssumption, Types, NEW f \in fanouts, SendNext(f)
  PROVE  /\ inbox' = [inbox EXCEPT ![Recipient(f)] = Append(@, Letter(f))]
         /\ DOMAIN f.left # {} /\ Advance(f)
         /\ UNCHANGED <<related, view, ops, pastVars>>
BY DEF SendNext, Recipient, Letter

(* Handlers keep the types of the records.                                 *)
LEMMA HandleKeepsType ==
  ASSUME Types, NEW a \in Agents, Handle(a)
  PROVE  view' \in [Agents -> Record \cup {NoRecord}]
<1> DEFINE e == Head(inbox[a])
<1>1. /\ inbox[a] # <<>>
      /\ \/ Ignored(a, e) \/ Joined(a, e) \/ Updated(a, e) \/ Struck(a, e)
         \/ Closed(a, e)
  BY HandleEffect
<1>2. e \in Envelope
  BY <1>1 DEF Types
<1> HIDE DEF e
<1>3. e.list \in Lists /\ e.from \in Agents
  BY <1>2 DEF Envelope
<1>4. view' = [b \in Agents |-> view'[b]]
  BY DEF Handle, Types, InvitationAccepted, InvitationDropped, UpdateApplied,
         UpdateDropped, LeaverRemoved, LeaveDropped, MarkedComplete,
         CompleteDropped, ChatAccepted, ChatDropped, Update,
         ReplaceMembers
<1>5. ASSUME NEW list \in Lists, NEW done \in BOOLEAN, Changed(a, list, done)
      PROVE  view' \in [Agents -> Record \cup {NoRecord}]
  <2>1. \A b \in Agents : view'[b] \in Record \cup {NoRecord}
    BY <1>5 DEF Types, Changed
  <2> QED BY <1>4, <2>1
<1>6. Holds(a) => /\ view[a].members \in Lists /\ view[a].done \in BOOLEAN
                  /\ Without(view[a].members, {e.from}) \in Lists
  BY MembersType, WithoutType
<1> QED BY <1>1, <1>3, <1>5, <1>6
        DEF Ignored, Joined, Updated, Struck, Closed, Types

(* Every step keeps the types.                                             *)
LEMMA TypesStep == Types /\ [Next]_vars => Types'
<1> SUFFICES ASSUME Types, [Next]_vars PROVE Types'
  OBVIOUS
<1>1. ASSUME NEW others \in Invitees, Start(others)
      PROVE  Types'
  <2> DEFINE list == <<Convener>> \o others
  <2>1. list \in Lists /\ others \in Lists
    BY <1>1, StartType, ConvenerAssumption, BoundsAssumption,
       InviteesAssumption
       DEF Start
  <2> HIDE DEF list
  <2>2. Begin(Convener, "invite", list, others) /\ NewList(list)
    BY <1>1 DEF Start, list
  <2>3. ops' \in 0..MaxOps /\ fanouts' \in SUBSET Fanout
    /\ UNCHANGED <<related, inbox, announced, mishaps>>
    BY <2>1, <2>2, BeginEffect, ConvenerAssumption, BoundsAssumption
       DEF Kinds, ListKinds
  <2>4. left' = left /\ lists' \in SUBSET Lists /\ conflict' \in BOOLEAN
    BY <2>1, <2>2, NewListEffect
  <2>5. view' = [view EXCEPT ![Convener] =
                   [members |-> list, done |-> FALSE, convener |-> Convener]]
    BY <1>1 DEF Start, list
  <2>6. [members |-> list, done |-> FALSE, convener |-> Convener] \in Record
    BY <2>1, ConvenerAssumption DEF Record
  <2>7. view' \in [Agents -> Record \cup {NoRecord}]
    BY <2>5, <2>6 DEF Types
  <2> QED BY <2>3, <2>4, <2>7 DEF Types
<1>2. ASSUME NEW a \in Agents, NEW n \in Agents, AddMember(a, n)
      PROVE  Types'
  <2> DEFINE old  == view[a].members
             list == Extended(old, n)
             targets == Without(list, {a})
  <2>1. Holds(a) /\ old \in Lists
    BY <1>2, MembersType, ConvenerAssumption DEF AddMember, Convenes
  <2>2. list \in Lists /\ targets \in Lists
    BY <1>2, <2>1, ExtendedType, BoundsAssumption, WithoutType
       DEF AddMember, Begin, BeginLetter, Types
  <2>3. /\ Begin(a, "update", list, targets)
        /\ NewList(list) /\ ReplaceMembers(a, list)
    BY <1>2 DEF AddMember
  <2> HIDE DEF list, targets
  <2>4. ops' \in 0..MaxOps /\ fanouts' \in SUBSET Fanout
    /\ UNCHANGED <<related, inbox, announced, mishaps>>
    BY <2>2, <2>3, BeginEffect, ConvenerAssumption, BoundsAssumption
       DEF Kinds, ListKinds
  <2>5. left' = left /\ lists' \in SUBSET Lists /\ conflict' \in BOOLEAN
    BY <2>2, <2>3, NewListEffect
  <2>6. view' \in [Agents -> Record \cup {NoRecord}]
    BY <2>1, <2>2, <2>3, ReplaceEffect, ConvenerAssumption
  <2> QED BY <2>4, <2>5, <2>6 DEF Types
<1>3. ASSUME NEW a \in Agents, NEW n \in Agents, RemoveMember(a, n)
      PROVE  Types'
  <2> DEFINE old  == view[a].members
             list == Without(old, {n})
             targets == Without(old, {a})
  <2>1. Holds(a) /\ old \in Lists
    BY <1>3, MembersType, ConvenerAssumption DEF RemoveMember, Convenes
  <2>2. list \in Lists /\ targets \in Lists
    BY <1>3, <2>1, WithoutType
  <2>3. /\ Begin(a, "update", list, targets)
        /\ NewList(list) /\ ReplaceMembers(a, list)
    BY <1>3 DEF RemoveMember
  <2> HIDE DEF list, targets
  <2>4. ops' \in 0..MaxOps /\ fanouts' \in SUBSET Fanout
    /\ UNCHANGED <<related, inbox, announced, mishaps>>
    BY <2>2, <2>3, BeginEffect, ConvenerAssumption, BoundsAssumption
       DEF Kinds, ListKinds
  <2>5. left' = left /\ lists' \in SUBSET Lists /\ conflict' \in BOOLEAN
    BY <2>2, <2>3, NewListEffect
  <2>6. view' \in [Agents -> Record \cup {NoRecord}]
    BY <2>1, <2>2, <2>3, ReplaceEffect, ConvenerAssumption
  <2> QED BY <2>4, <2>5, <2>6 DEF Types
<1>4. ASSUME NEW a \in Agents, Leave(a)
      PROVE  Types'
  <2> DEFINE targets == Without(view[a].members, {a})
  <2>1. Holds(a) /\ targets \in Lists
    BY <1>4, MembersType, WithoutType, ConvenerAssumption DEF Leave
  <2>2. Begin(a, "leave", NoList, targets)
    BY <1>4 DEF Leave
  <2> HIDE DEF targets
  <2>3. ops' \in 0..MaxOps /\ fanouts' \in SUBSET Fanout
    /\ UNCHANGED <<related, inbox, announced, mishaps>>
    BY <2>1, <2>2, BeginEffect, NoListType, ConvenerAssumption,
       BoundsAssumption
       DEF Kinds
  <2>4. conflict' \in BOOLEAN
    BY <1>4 DEF Leave
  <2>5. left' \in SUBSET Agents /\ UNCHANGED <<view, lists>>
    BY <1>4 DEF Leave, Types
  <2> QED BY <2>3, <2>4, <2>5 DEF Types
<1>5. ASSUME NEW a \in Agents, Broadcast(a)
      PROVE  Types'
  <2> DEFINE targets == Without(view[a].members, {a})
  <2>1. Holds(a) /\ targets \in Lists
    BY <1>5, MembersType, WithoutType, ConvenerAssumption DEF Broadcast
  <2>2. Begin(a, "chat", NoList, targets)
    BY <1>5 DEF Broadcast
  <2> HIDE DEF targets
  <2>3. ops' \in 0..MaxOps /\ fanouts' \in SUBSET Fanout
    /\ UNCHANGED <<related, inbox, announced, mishaps>>
    <3>1. "chat" \in Kinds /\ NoList \in Lists
      BY NoListType DEF Kinds
    <3> QED BY <2>1, <2>2, <3>1, BeginEffect, BoundsAssumption
  <2> QED BY <1>5, <2>3 DEF Broadcast, Types
<1>6. ASSUME NEW a \in Agents, Complete(a)
      PROVE  Types'
  <2> DEFINE targets == Without(view[a].members, {a})
  <2>1. Holds(a) /\ targets \in Lists
    BY <1>6, MembersType, WithoutType, ConvenerAssumption DEF Complete, Convenes
  <2>2. Begin(a, "complete", NoList, targets)
    BY <1>6 DEF Complete
  <2> HIDE DEF targets
  <2>3. ops' \in 0..MaxOps /\ fanouts' \in SUBSET Fanout
    /\ UNCHANGED <<related, inbox, announced, mishaps>>
    <3>1. "complete" \in Kinds /\ NoList \in Lists
      BY NoListType DEF Kinds
    <3> QED BY <2>1, <2>2, <3>1, BeginEffect, BoundsAssumption
  <2>4. view[a] \in Record
    BY <2>1, MembersType
  <2>5. [view[a] EXCEPT !.done = TRUE] \in Record
    BY <2>4 DEF Record
  <2>6. view' \in [Agents -> Record \cup {NoRecord}]
    BY <1>6, <2>5 DEF Complete, Types
  <2> QED BY <1>6, <2>3, <2>6 DEF Complete, Types
<1>7. ASSUME NEW f \in fanouts, SendNext(f)
      PROVE  Types'
  <2>1. /\ inbox' = [inbox EXCEPT ![Recipient(f)] =
                         Append(@, Letter(f))]
        /\ DOMAIN f.left # {} /\ Advance(f)
        /\ UNCHANGED <<related, view, ops, pastVars>>
    BY <1>7, SendNextEffect, BoundsAssumption
  <2>2. /\ Recipient(f) \in Agents /\ Letter(f) \in Envelope
        /\ fanouts' \in SUBSET Fanout
    BY <2>1, AdvanceEffect, BoundsAssumption
  <2>3. inbox' \in [Agents -> Seq(Envelope)]
    BY <2>1, <2>2, PutEffect
  <2> QED BY <2>1, <2>2, <2>3 DEF Types, pastVars
<1>8. ASSUME NEW f \in fanouts, SendFails(f)
      PROVE  Types'
  <2>1. fanouts' \in SUBSET Fanout
    BY <1>8, AdvanceEffect, BoundsAssumption DEF SendFails
  <2>2. mishaps' \in 0..MaxMishaps
    BY <1>8, BoundsAssumption DEF SendFails, Mishap, Types
  <2> QED BY <1>8, <2>1, <2>2 DEF SendFails, Types
<1>9. ASSUME NEW f \in fanouts, LeaveEnds(f)
      PROVE  Types'
  BY <1>9 DEF LeaveEnds, Types, pastVars
<1>10. ASSUME NEW a \in Agents, Handle(a)
      PROVE  Types'
  <2>1. inbox[a] # <<>> /\ Take(a)
    BY <1>10, HandleEffect
  <2>2. inbox' \in [Agents -> Seq(Envelope)] /\ Head(inbox[a]) \in Envelope
    BY <2>1, TakeEffect DEF Take
  <2>3. view' \in [Agents -> Record \cup {NoRecord}]
    BY <1>10, HandleKeepsType
  <2> QED BY <2>1, <2>2, <2>3 DEF Take, Types, pastVars
<1>11. ASSUME NEW a \in Agents, Lose(a)
      PROVE  Types'
  <2>1. inbox' \in [Agents -> Seq(Envelope)]
    BY <1>11, TakeEffect DEF Lose
  <2>2. mishaps' \in 0..MaxMishaps
    BY <1>11, BoundsAssumption DEF Lose, Mishap, Types
  <2> QED BY <1>11, <2>1, <2>2 DEF Lose, Types
<1>12. ASSUME NEW a \in Agents, Crash(a)
      PROVE  Types'
  <2>1. mishaps' \in 0..MaxMishaps
    BY <1>12, BoundsAssumption DEF Crash, Mishap, Types
  <2> QED BY <1>12, <2>1 DEF Crash, Types
<1>13. CASE UNCHANGED vars
  BY <1>13 DEF vars, pastVars, Types
<1>14. ASSUME NEW n \in Announcements, Announce(n)
       PROVE  Types'
  <2>1. /\ ops' \in 0..MaxOps /\ fanouts' \in SUBSET Fanout
        /\ announced' \in SUBSET Announcements
        /\ UNCHANGED <<related, view, inbox, left, lists, mishaps, conflict>>
    BY <1>14, AnnounceEffect, BoundsAssumption, AnnouncementsAssumption
  <2> QED BY <2>1 DEF Types
<1> QED
  BY <1>1, <1>2, <1>3, <1>4, <1>5, <1>6, <1>7, <1>8, <1>9, <1>10, <1>11,
     <1>12, <1>13, <1>14 DEF Next

-----------------------------------------------------------------------------
(* What the operations do.                                                 *)

(* The Start records the list and invites everyone on it but the convener. *)
LEMMA StartEffect ==
  ASSUME ConvenerAssumption, BoundsAssumption, InviteesAssumption, Types,
         NEW others \in Invitees, Start(others)
  PROVE  LET list == <<Convener>> \o others
         IN /\ list \in Lists /\ others \in Lists
            /\ Begin(Convener, "invite", list, others)
            /\ NewList(list)
            /\ Changed(Convener, list, FALSE)
            /\ view'[Convener].convener = Convener
            /\ ops = 0 /\ Size(list) <= MaxMembers
            /\ Convener \notin Named(others)
            /\ Named(list) = Named(others) \cup {Convener}
            /\ \A p \in DOMAIN others :
                 p + 1 \in DOMAIN list /\ list[p + 1] = others[p]
<1> DEFINE list == <<Convener>> \o others
<1>1. /\ list \in Lists /\ others \in Lists
      /\ Convener \notin Named(others)
      /\ Named(list) = Named(others) \cup {Convener}
      /\ \A p \in DOMAIN others :
           p + 1 \in DOMAIN list /\ list[p + 1] = others[p]
  BY StartType DEF Start
<1>2. /\ Begin(Convener, "invite", list, others) /\ NewList(list)
      /\ ops = 0 /\ Size(list) <= MaxMembers
      /\ view' = [view EXCEPT ![Convener] =
                     [members |-> list, done |-> FALSE, convener |-> Convener]]
  BY DEF Start
<1> HIDE DEF list
<1>3. /\ Changed(Convener, list, FALSE)
      /\ view'[Convener].convener = Convener
  BY <1>1, <1>2, ConvenerAssumption DEF Changed, Types, Record
<1> QED BY <1>1, <1>2, <1>3 DEF list

(* An update goes to everyone on the new list but its sender, a convener,  *)
(* who has recorded it.                                                    *)
LEMMA UpdateEffect ==
  ASSUME BoundsAssumption, Types, NEW a \in Agents, NEW n \in Agents,
         AddMember(a, n) \/ RemoveMember(a, n)
  PROVE  \E list, targets \in Lists :
           /\ Convenes(a) /\ Holds(a)
           /\ Begin(a, "update", list, targets)
           /\ NewList(list)
           /\ Changed(a, list, view[a].done) /\ SameConvener(a)
           /\ a \notin Named(targets)
           /\ Named(list) \ {a} \subseteq Named(targets)
           /\ Size(view[a].members) <= MaxMembers
                => Size(list) <= MaxMembers
<1> DEFINE old == view[a].members
<1>1. Convenes(a) /\ Holds(a) /\ old \in Lists
  BY MembersType DEF AddMember, RemoveMember, Convenes
<1> HIDE DEF old
<1>2. CASE AddMember(a, n)
  <2> DEFINE list == Extended(old, n)
  <2>1. list \in Lists
    BY <1>1, <1>2, ExtendedType DEF AddMember, Begin, BeginLetter, Types
  <2>2. /\ Begin(a, "update", list, Without(list, {a}))
        /\ NewList(list) /\ ReplaceMembers(a, list)
        /\ Size(list) <= MaxMembers
    BY <1>2 DEF AddMember, old
  <2> HIDE DEF list
  <2>3. Changed(a, list, view[a].done) /\ SameConvener(a)
    BY <1>1, <2>1, <2>2, ReplaceEffect
  <2>4. /\ Without(list, {a}) \in Lists
        /\ Named(Without(list, {a})) = Named(list) \ {a}
    BY <2>1, WithoutType
  <2> QED BY <1>1, <2>1, <2>2, <2>3, <2>4
<1>3. CASE RemoveMember(a, n)
  <2> DEFINE list == Without(old, {n})
  <2>1. list \in Lists /\ Named(list) = Named(old) \ {n}
    BY <1>1, WithoutType
  <2>2. /\ Begin(a, "update", list, Without(old, {a}))
        /\ NewList(list) /\ ReplaceMembers(a, list)
    BY <1>3 DEF RemoveMember, old
  <2>3. Size(old) <= MaxMembers => Size(list) <= MaxMembers
    BY <1>1, SizeShrinks
  <2> HIDE DEF list
  <2>4. Changed(a, list, view[a].done) /\ SameConvener(a)
    BY <1>1, <2>1, <2>2, ReplaceEffect
  <2>5. /\ Without(old, {a}) \in Lists
        /\ Named(Without(old, {a})) = Named(old) \ {a}
    BY <1>1, WithoutType
  <2> QED BY <1>1, <2>1, <2>2, <2>3, <2>4, <2>5 DEF old
<1> QED BY <1>2, <1>3

(* The operations that leave the list as it is.                            *)
LEMMA LeaveEffect ==
  ASSUME BoundsAssumption, Types, NEW a \in Agents, Leave(a)
  PROVE  /\ Holds(a) /\ view[a].members \in Lists
         /\ Without(view[a].members, {a}) \in Lists
         /\ Begin(a, "leave", NoList, Without(view[a].members, {a}))
         /\ left' = left \cup {a} /\ UNCHANGED <<view, lists>>
BY MembersType, WithoutType DEF Leave

(* A completion or a message changes no list, and no convener.             *)
LEMMA TellEffect ==
  ASSUME BoundsAssumption, Types, NEW a \in Agents,
         Complete(a) \/ Broadcast(a)
  PROVE  /\ Holds(a)
         /\ \E kind \in {"complete", "chat"}, targets \in Lists :
              Begin(a, kind, NoList, targets)
         /\ UNCHANGED <<left, lists, conflict>>
         /\ view' = view \/ Changed(a, view[a].members, TRUE)
         /\ \A b \in Agents :
              /\ Holds(b)' <=> Holds(b)
              /\ Holds(b) =>
                   SameConvener(b) /\ view'[b].members = view[b].members
<1>1. CASE Complete(a)
  <2>1. /\ Holds(a) /\ view[a] \in Record
        /\ Without(view[a].members, {a}) \in Lists
    BY <1>1, MembersType, WithoutType DEF Complete, Convenes
  <2>2. /\ view' = [view EXCEPT ![a].done = TRUE]
        /\ Begin(a, "complete", NoList, Without(view[a].members, {a}))
        /\ UNCHANGED <<left, lists, conflict>>
    BY <1>1 DEF Complete
  <2>3. /\ Changed(a, view[a].members, TRUE) /\ SameConvener(a)
    BY <2>1, <2>2 DEF Types, Changed, SameConvener, Record
  <2>4. Holds(a)'
    BY <2>3, NoRecordAssumption DEF Changed, Holds
  <2>5. \A b \in Agents :
          /\ Holds(b)' <=> Holds(b)
          /\ Holds(b) => SameConvener(b) /\ view'[b].members = view[b].members
    BY <2>1, <2>3, <2>4 DEF Changed, SameConvener, Holds
  <2> QED BY <2>1, <2>2, <2>3, <2>5
<1>2. CASE Broadcast(a)
  <2>1. Holds(a) /\ Without(view[a].members, {a}) \in Lists
    BY <1>2, MembersType, WithoutType DEF Broadcast
  <2>2. /\ view' = view /\ UNCHANGED <<left, lists, conflict>>
        /\ Begin(a, "chat", NoList, Without(view[a].members, {a}))
    BY <1>2 DEF Broadcast
  <2>3. \A b \in Agents :
          /\ Holds(b)' <=> Holds(b)
          /\ Holds(b) => SameConvener(b) /\ view'[b].members = view[b].members
    BY <2>2 DEF SameConvener, Holds
  <2> QED BY <2>1, <2>2, <2>3
<1> QED BY <1>1, <1>2

(* History is not forgotten.                                               *)
PastGrows ==
  lists \subseteq lists' /\ left \subseteq left' /\ announced \subseteq announced'

(* No step forgets it.                                                     *)
LEMMA PastKept == [Next]_vars => PastGrows
<1> SUFFICES ASSUME [Next]_vars PROVE PastGrows
  OBVIOUS
<1> USE DEF PastGrows, Begin
<1>1. ASSUME NEW others \in Invitees, Start(others)
      PROVE  PastGrows
  BY <1>1 DEF Start, NewList, pastVars
<1>2. ASSUME NEW a \in Agents, NEW n \in Agents, AddMember(a, n)
      PROVE  PastGrows
  BY <1>2 DEF AddMember, NewList, pastVars
<1>3. ASSUME NEW a \in Agents, NEW n \in Agents, RemoveMember(a, n)
      PROVE  PastGrows
  BY <1>3 DEF RemoveMember, NewList, pastVars
<1>4. ASSUME NEW a \in Agents, Leave(a)
      PROVE  PastGrows
  BY <1>4 DEF Leave, NewList, pastVars
<1>5. ASSUME NEW a \in Agents, Broadcast(a)
      PROVE  PastGrows
  BY <1>5 DEF Broadcast, NewList, pastVars
<1>6. ASSUME NEW a \in Agents, Complete(a)
      PROVE  PastGrows
  BY <1>6 DEF Complete, NewList, pastVars
<1>7. ASSUME NEW f \in fanouts, SendNext(f)
      PROVE  PastGrows
  BY <1>7 DEF SendNext, NewList, pastVars
<1>8. ASSUME NEW f \in fanouts, SendFails(f)
      PROVE  PastGrows
  BY <1>8 DEF SendFails, NewList, pastVars
<1>9. ASSUME NEW f \in fanouts, LeaveEnds(f)
      PROVE  PastGrows
  BY <1>9 DEF LeaveEnds, NewList, pastVars
<1>10. ASSUME NEW a \in Agents, Handle(a)
      PROVE  PastGrows
  BY <1>10 DEF Handle, InvitationAccepted, InvitationDropped, UpdateApplied,
     UpdateDropped, LeaverRemoved, LeaveDropped, MarkedComplete,
     CompleteDropped, ChatAccepted, ChatDropped, Take, pastVars
<1>11. ASSUME NEW a \in Agents, Lose(a)
      PROVE  PastGrows
  BY <1>11 DEF Lose, NewList, pastVars
<1>12. ASSUME NEW a \in Agents, Crash(a)
      PROVE  PastGrows
  BY <1>12 DEF Crash, NewList, pastVars
<1>13. CASE UNCHANGED vars
  BY <1>13 DEF vars, NewList, pastVars
<1>14. ASSUME NEW n \in Announcements, Announce(n)
       PROVE  PastGrows
  BY <1>14 DEF Announce
<1> QED
  BY <1>1, <1>2, <1>3, <1>4, <1>5, <1>6, <1>7, <1>8, <1>9, <1>10, <1>11,
     <1>12, <1>13, <1>14 DEF Next

(* Who may pass for the convener: its own agent, and whom the updates sent *)
(* so far have made one.                                                   *)
LEMMA ConvenersType ==
  ASSUME ConvenerAssumption
  PROVE  /\ Conveners \subseteq Agents /\ Convener \in Conveners
         /\ \A n \in announced : n.names \in Agents
              /\ (n.from = n.names \/ (n.changed /\ n.from \in Conveners))
              => n.names \in Conveners
         /\ announced = {} => Conveners = {Convener}
<1>1. Conveners \subseteq Agents /\ Convener \in Conveners
  BY DEF Conveners, HandsOverIn
<1>2. \A C \in SUBSET Agents : HandsOverIn(C) => Conveners \subseteq C
  BY DEF Conveners
<1>3. ASSUME NEW n \in announced, n.names \in Agents,
             n.from = n.names \/ (n.changed /\ n.from \in Conveners)
      PROVE  n.names \in Conveners
  <2>1. ASSUME NEW C \in SUBSET Agents, HandsOverIn(C)
        PROVE  n.names \in C
    BY <1>2, <1>3, <2>1 DEF HandsOverIn
  <2> QED BY <1>3, <2>1 DEF Conveners
<1>4. ASSUME announced = {}
      PROVE  Conveners = {Convener}
  <2>1. HandsOverIn({Convener})
    BY <1>4 DEF HandsOverIn
  <2> QED BY <1>1, <1>2, <2>1
<1> QED BY <1>1, <1>3, <1>4

(* They become more, and so do their lists.                                *)
LEMMA ConvenersGrow ==
  ASSUME PastGrows
  PROVE  Conveners \subseteq Conveners'
         /\ ConvenersLists \subseteq ConvenersLists'
<1>1. \A C : HandsOverIn(C)' => HandsOverIn(C)
  BY DEF HandsOverIn, PastGrows
<1>2. Conveners \subseteq Conveners'
  BY <1>1 DEF Conveners
<1> QED BY <1>2 DEF ConvenersLists, PastGrows

(* A list of theirs is a list, and no longer than the cap if those put in  *)
(* force are not.                                                          *)
LEMMA ConvenersListsType ==
  ASSUME AnnouncementsAssumption, Types, NEW list \in ConvenersLists,
         \A l \in lists : Size(l) <= MaxMembers
  PROVE  list \in Lists /\ Size(list) <= MaxMembers
BY DEF ConvenersLists, Types, Announcement

(* The places of a queue without its head, and with one envelope more.     *)
LEMMA TailAt ==
  ASSUME NEW queue \in Seq(Envelope), queue # <<>>
  PROVE  /\ 1 \in DOMAIN queue /\ Head(queue) = queue[1]
         /\ \A i \in DOMAIN Tail(queue) :
              i \in Nat /\ i >= 1 /\ i + 1 \in DOMAIN queue
              /\ Tail(queue)[i] = queue[i + 1]
         /\ \A i \in DOMAIN queue : i # 1 =>
              i \in Nat /\ i - 1 \in DOMAIN Tail(queue)
              /\ Tail(queue)[i - 1] = queue[i]
<1>1. /\ Len(queue) \in Nat /\ Len(queue) >= 1
      /\ DOMAIN queue = 1..Len(queue)
           /\ DOMAIN Tail(queue) = 1..(Len(queue) - 1)
  OBVIOUS
<1>2. \A i \in 1..(Len(queue) - 1) : Tail(queue)[i] = queue[i + 1]
  OBVIOUS
<1>3. Head(queue) = queue[1]
  OBVIOUS
<1>4. ASSUME NEW i \in 1..Len(queue), i # 1
      PROVE  i - 1 \in 1..(Len(queue) - 1) /\ (i - 1) + 1 = i
  BY <1>1, <1>4
<1>5. \A i \in 1..Len(queue) : i # 1 => Tail(queue)[i - 1] = queue[i]
  BY <1>2, <1>4
<1>6. \A i \in 1..(Len(queue) - 1) : i + 1 \in 1..Len(queue)
  BY <1>1
<1> QED BY <1>1, <1>2, <1>3, <1>4, <1>5, <1>6

(* A queue with one envelope more has it at its end.                       *)
LEMMA AppendAt ==
  ASSUME NEW queue \in Seq(Envelope), NEW e \in Envelope
  PROVE  /\ Len(queue) \in Nat /\ DOMAIN queue = 1..Len(queue)
         /\ DOMAIN Append(queue, e) = 1..(Len(queue) + 1)
         /\ \A i \in DOMAIN queue : Append(queue, e)[i] = queue[i]
         /\ Append(queue, e)[Len(queue) + 1] = e
OBVIOUS

-----------------------------------------------------------------------------
(* The fan-outs.                                                           *)

(* A new fan-out gets a number of its own.                                 *)
LEMMA BeginNumber ==
  ASSUME BoundsAssumption, Types, NumberInv, NEW a \in Agents,
         NEW kind \in Kinds, NEW list \in Lists, NEW targets \in Lists,
         Begin(a, kind, list, targets)
  PROVE  NumberInv'
<1> DEFINE new == NewFanout(a, kind, list, targets)
<1>1. fanouts' \subseteq fanouts \cup {new} /\ ops' = ops + 1
  BY BeginEffect
<1>2. new.op = ops + 1 /\ ops \in Nat /\ \A f \in fanouts : f.op \in Nat
  BY BoundsAssumption DEF NewFanout, FanoutOf, OwnLetter, Types, Fanout
<1> HIDE DEF new
<1> QED BY <1>1, <1>2 DEF NumberInv

(* A fan-out that goes on keeps its number.                                *)
LEMMA AdvanceNumber ==
  ASSUME BoundsAssumption, Types, NumberInv,
         NEW f \in fanouts, DOMAIN f.left # {}, Advance(f), ops' = ops
  PROVE  NumberInv'
<1> DEFINE next == Advanced(f)
<1>1. fanouts' \subseteq (fanouts \ {f}) \cup {next}
  BY AdvanceEffect
<1>2. next.op = f.op
  BY DEF Advanced, Types, Fanout
<1> HIDE DEF next
<1> QED BY <1>1, <1>2 DEF NumberInv

(* Fan-outs keep their numbers.                                            *)
LEMMA NumberStep == Types /\ NumberInv /\ [Next]_vars => NumberInv'
<1> SUFFICES ASSUME Types, NumberInv, [Next]_vars PROVE NumberInv'
  OBVIOUS
<1> USE ConvenerAssumption, BoundsAssumption, InviteesAssumption,
        AnnouncementsAssumption
<1>1. ASSUME NEW others \in Invitees, Start(others)
      PROVE  NumberInv'
  <2>1. \E list \in Lists : others \in Lists
          /\ Begin(Convener, "invite", list, others)
    BY <1>1, StartEffect
  <2> QED BY <2>1, BeginNumber DEF Kinds, ListKinds
<1>2. ASSUME NEW a \in Agents, NEW n \in Agents, AddMember(a, n)
      PROVE  NumberInv'
  <2>1. \E list, targets \in Lists : Begin(a, "update", list, targets)
    BY <1>2, UpdateEffect
  <2> QED BY <2>1, BeginNumber DEF Kinds, ListKinds
<1>3. ASSUME NEW a \in Agents, NEW n \in Agents, RemoveMember(a, n)
      PROVE  NumberInv'
  <2>1. \E list, targets \in Lists : Begin(a, "update", list, targets)
    BY <1>3, UpdateEffect
  <2> QED BY <2>1, BeginNumber DEF Kinds, ListKinds
<1>4. ASSUME NEW a \in Agents, Leave(a)
      PROVE  NumberInv'
  BY <1>4, LeaveEffect, NoListType, BeginNumber DEF Kinds
<1>5. ASSUME NEW a \in Agents, Broadcast(a)
      PROVE  NumberInv'
  <2>1. \E kind \in {"complete", "chat"}, targets \in Lists :
          Begin(a, kind, NoList, targets)
    BY <1>5, TellEffect
  <2> QED BY <2>1, NoListType, BeginNumber DEF Kinds
<1>6. ASSUME NEW a \in Agents, Complete(a)
      PROVE  NumberInv'
  <2>1. \E kind \in {"complete", "chat"}, targets \in Lists :
          Begin(a, kind, NoList, targets)
    BY <1>6, TellEffect
  <2> QED BY <2>1, NoListType, BeginNumber DEF Kinds
<1>7. ASSUME NEW f \in fanouts, SendNext(f)
      PROVE  NumberInv'
  BY <1>7, SendNextEffect, AdvanceNumber
<1>8. ASSUME NEW f \in fanouts, SendFails(f)
      PROVE  NumberInv'
  BY <1>8, AdvanceNumber DEF SendFails
<1>9. ASSUME NEW f \in fanouts, LeaveEnds(f)
      PROVE  NumberInv'
  BY <1>9 DEF LeaveEnds, NumberInv
<1>10. ASSUME NEW a \in Agents, Handle(a)
      PROVE  NumberInv'
  BY <1>10, HandleEffect DEF Take, NumberInv
<1>11. ASSUME NEW a \in Agents, Lose(a)
      PROVE  NumberInv'
  BY <1>11 DEF Lose, NumberInv
<1>12. ASSUME NEW a \in Agents, Crash(a)
      PROVE  NumberInv'
  BY <1>12 DEF Crash, NumberInv
<1>13. CASE UNCHANGED vars
  BY <1>13 DEF vars, NumberInv
<1>14. ASSUME NEW n \in Announcements, Announce(n)
       PROVE  NumberInv'
  <2>1. PICK new \in Fanout :
          new.op = ops + 1 /\ fanouts' \subseteq fanouts \cup {new}
    BY <1>14, AnnounceEffect
  <2>2. ops' = ops + 1 /\ ops \in Nat /\ \A f \in fanouts : f.op \in Nat
    BY <1>14, AnnounceEffect DEF Types, Fanout
  <2> QED BY <2>1, <2>2 DEF NumberInv
<1> QED
  BY <1>1, <1>2, <1>3, <1>4, <1>5, <1>6, <1>7, <1>8, <1>9, <1>10, <1>11,
     <1>12, <1>13, <1>14 DEF Next

(* A fan-out is an operation: the group has been started.                  *)
LEMMA BeginStart ==
  ASSUME BoundsAssumption, Types, NEW a \in Agents,
         NEW kind \in Kinds, NEW list \in Lists, NEW targets \in Lists,
         Begin(a, kind, list, targets)
  PROVE  StartInv'
<1>1. ops' \in 1..MaxOps
  BY BeginEffect
<1>2. ops' # 0
  BY <1>1, BoundsAssumption
<1> QED BY <1>2 DEF StartInv

(* Everything begins with the Start.                                       *)
LEMMA StartStep == Types /\ StartInv /\ [Next]_vars => StartInv'
<1> SUFFICES ASSUME Types, StartInv, [Next]_vars PROVE StartInv'
  OBVIOUS
<1> USE ConvenerAssumption, BoundsAssumption, InviteesAssumption,
        AnnouncementsAssumption
<1>1. ASSUME NEW others \in Invitees, Start(others)
      PROVE  StartInv'
  <2>1. \E list \in Lists : others \in Lists
          /\ Begin(Convener, "invite", list, others)
    BY <1>1, StartEffect
  <2> QED BY <2>1, BeginStart DEF Kinds, ListKinds
<1>2. ASSUME NEW a \in Agents, NEW n \in Agents, AddMember(a, n)
      PROVE  StartInv'
  <2>1. \E list, targets \in Lists : Begin(a, "update", list, targets)
    BY <1>2, UpdateEffect
  <2> QED BY <2>1, BeginStart DEF Kinds, ListKinds
<1>3. ASSUME NEW a \in Agents, NEW n \in Agents, RemoveMember(a, n)
      PROVE  StartInv'
  <2>1. \E list, targets \in Lists : Begin(a, "update", list, targets)
    BY <1>3, UpdateEffect
  <2> QED BY <2>1, BeginStart DEF Kinds, ListKinds
<1>4. ASSUME NEW a \in Agents, Leave(a)
      PROVE  StartInv'
  BY <1>4, LeaveEffect, NoListType, BeginStart DEF Kinds
<1>5. ASSUME NEW a \in Agents, Broadcast(a)
      PROVE  StartInv'
  <2>1. \E kind \in {"complete", "chat"}, targets \in Lists :
          Begin(a, kind, NoList, targets)
    BY <1>5, TellEffect
  <2> QED BY <2>1, NoListType, BeginStart DEF Kinds
<1>6. ASSUME NEW a \in Agents, Complete(a)
      PROVE  StartInv'
  <2>1. \E kind \in {"complete", "chat"}, targets \in Lists :
          Begin(a, kind, NoList, targets)
    BY <1>6, TellEffect
  <2> QED BY <2>1, NoListType, BeginStart DEF Kinds
<1>7. ASSUME NEW f \in fanouts, SendNext(f)
      PROVE  StartInv'
  BY <1>7 DEF SendNext, StartInv
<1>8. ASSUME NEW f \in fanouts, SendFails(f)
      PROVE  StartInv'
  BY <1>8 DEF SendFails, StartInv
<1>9. ASSUME NEW f \in fanouts, LeaveEnds(f)
      PROVE  StartInv'
  BY <1>9 DEF LeaveEnds, StartInv
<1>10. ASSUME NEW a \in Agents, Handle(a)
      PROVE  StartInv'
  BY <1>10, HandleEffect DEF Take, StartInv
<1>11. ASSUME NEW a \in Agents, Lose(a)
      PROVE  StartInv'
  BY <1>11 DEF Lose, StartInv
<1>12. ASSUME NEW a \in Agents, Crash(a)
      PROVE  StartInv'
  BY <1>12 DEF Crash, StartInv
<1>13. CASE UNCHANGED vars
  BY <1>13 DEF vars, pastVars, StartInv
<1>14. ASSUME NEW n \in Announcements, Announce(n)
       PROVE  StartInv'
  <2>1. ops' \in 1..MaxOps
    BY <1>14, AnnounceEffect
  <2>2. ops' # 0
    BY <2>1
  <2> QED BY <2>2 DEF StartInv
<1> QED
  BY <1>1, <1>2, <1>3, <1>4, <1>5, <1>6, <1>7, <1>8, <1>9, <1>10, <1>11,
     <1>12, <1>13, <1>14 DEF Next

(* An honest envelope stays one.                                           *)
LEMMA HonestKept ==
  ASSUME PastGrows, NEW e, Honest(e)
  PROVE  Honest(e)'
BY ConvenersGrow DEF Honest, PastGrows

(* A fan-out that begins is honest if a convener has put its list in       *)
(* force, or its agent leaves.                                             *)
LEMMA BeginSent ==
  ASSUME BoundsAssumption, Types, SentInv, NEW a \in Agents,
         NEW kind \in Kinds, NEW list \in Lists, NEW targets \in Lists,
         Begin(a, kind, list, targets),
         PastGrows, kind \in ListKinds => list \in lists' /\ a \in Conveners',
         kind = "leave" => a \in left'
  PROVE  SentInv'
<1> DEFINE new == NewFanout(a, kind, list, targets)
<1>1. fanouts' \subseteq fanouts \cup {new} /\ inbox' = inbox
  BY BeginEffect
<1>2. Letter(new) = OwnLetter(a, kind, list)
  BY DEF NewFanout, FanoutOf, OwnLetter, Letter
<1>3. Honest(OwnLetter(a, kind, list))'
  BY DEF Honest, OwnLetter
<1> HIDE DEF new
<1>4. \A f \in fanouts' : Honest(Letter(f))'
  BY <1>1, <1>2, <1>3, HonestKept DEF SentInv
<1>5. \A b \in Agents : \A i \in DOMAIN inbox[b] : Honest(inbox[b][i])'
  BY <1>1, HonestKept DEF SentInv
<1> QED BY <1>1, <1>4, <1>5 DEF SentInv

(* A fan-out goes on, having sent its envelope or not.                     *)
LEMMA AdvanceSent ==
  ASSUME BoundsAssumption, Types, SentInv, NEW f \in fanouts,
         DOMAIN f.left # {},
         Advance(f), UNCHANGED <<lists, left, announced>>,
         \/ inbox' = inbox
         \/ inbox' = [inbox EXCEPT ![Recipient(f)] = Append(@, Letter(f))]
  PROVE  SentInv'
<1> DEFINE next == Advanced(f)
<1>1. /\ fanouts' \subseteq (fanouts \ {f}) \cup {next}
      /\ Recipient(f) \in Agents /\ Letter(f) \in Envelope
  BY AdvanceEffect
<1>2. Letter(next) = Letter(f)
  BY DEF Advanced, Types, Fanout, Letter
<1> HIDE DEF next
<1>3. \A e : Honest(e) => Honest(e)'
  BY HonestKept DEF PastGrows
<1>4. \A g \in fanouts' : Honest(Letter(g))'
  BY <1>1, <1>2, <1>3 DEF SentInv
<1>5. ASSUME NEW b \in Agents, NEW i \in DOMAIN inbox'[b]
      PROVE  Honest(inbox[b][i])'
  <2>1. CASE inbox'[b] = inbox[b]
    BY <2>1, <1>3, <1>5 DEF SentInv
  <2>2. CASE inbox'[b] # inbox[b]
    <3>1. /\ inbox'[b] = Append(inbox[b], Letter(f))
          /\ inbox[b] \in Seq(Envelope)
      BY <2>2, <1>5, <1>1 DEF Types
    <3>2. \/ i \in DOMAIN inbox[b] /\ inbox'[b][i] = inbox[b][i]
          \/ inbox'[b][i] = Letter(f)
      BY <1>1, <1>5, <3>1
    <3>3. Honest(Letter(f))
      BY DEF SentInv
    <3> QED BY <1>3, <3>2, <3>3 DEF SentInv
  <2> QED BY <2>1, <2>2
<1> QED BY <1>4, <1>5 DEF SentInv

(* An inbox loses its head.                                                *)
LEMMA TakeSent ==
  ASSUME Types, SentInv, NEW a \in Agents, inbox[a] # <<>>,
         inbox' = [inbox EXCEPT ![a] = Tail(@)],
         UNCHANGED <<fanouts, lists, left, announced>>
  PROVE  SentInv'
<1>0. \A e : Honest(e) => Honest(e)'
  BY HonestKept DEF PastGrows
<1>1. \A f \in fanouts : Honest(Letter(f))'
  BY <1>0 DEF SentInv
<1>2. ASSUME NEW b \in Agents, NEW i \in DOMAIN inbox'[b]
      PROVE  Honest(inbox[b][i])'
  <2>1. CASE b # a
    BY <2>1, <1>0, <1>2, TakeEffect DEF SentInv
  <2>2. CASE b = a
    <3>1. inbox[a] \in Seq(Envelope) /\ inbox'[a] = Tail(inbox[a])
      BY TakeEffect
    <3>2. i + 1 \in DOMAIN inbox[a] /\ inbox'[a][i] = inbox[a][i + 1]
      BY <1>2, <2>2, <3>1, TailAt
    <3> QED BY <1>0, <2>2, <3>2 DEF SentInv
  <2> QED BY <2>1, <2>2
<1> QED BY <1>1, <1>2 DEF SentInv

(* Only what a convener has put in force, and only who leaves, is sent,    *)
(* but for what is announced.                                              *)
LEMMA SentStep == Types /\ SentInv /\ RoleInv /\ [Next]_vars => SentInv'
<1> SUFFICES ASSUME Types, SentInv, RoleInv, [Next]_vars PROVE SentInv'
  OBVIOUS
<1> USE ConvenerAssumption, BoundsAssumption, InviteesAssumption,
        AnnouncementsAssumption
<1>1. ASSUME NEW others \in Invitees, Start(others)
      PROVE  SentInv'
  <2>0. PastGrows
    BY PastKept
  <2>1. \E list \in Lists : /\ others \in Lists /\ list \in lists'
                           /\ Begin(Convener, "invite", list, others)
    BY <1>1, StartEffect, NewListEffect
  <2>2. Convener \in Conveners'
    BY <2>0, ConvenersGrow, ConvenersType
  <2> QED BY <2>0, <2>1, <2>2, BeginSent DEF Kinds, ListKinds
<1>2. ASSUME NEW a \in Agents, NEW n \in Agents, AddMember(a, n)
      PROVE  SentInv'
  <2>0. PastGrows
    BY PastKept
  <2>1. \E list, targets \in Lists :
          /\ Begin(a, "update", list, targets)
          /\ list \in lists' /\ Convenes(a)
    BY <1>2, UpdateEffect, NewListEffect
  <2>2. a \in Conveners'
    BY <2>0, <2>1, ConvenersGrow DEF RoleInv, Convenes
  <2> QED BY <2>0, <2>1, <2>2, BeginSent DEF Kinds, ListKinds
<1>3. ASSUME NEW a \in Agents, NEW n \in Agents, RemoveMember(a, n)
      PROVE  SentInv'
  <2>0. PastGrows
    BY PastKept
  <2>1. \E list, targets \in Lists :
          /\ Begin(a, "update", list, targets)
          /\ list \in lists' /\ Convenes(a)
    BY <1>3, UpdateEffect, NewListEffect
  <2>2. a \in Conveners'
    BY <2>0, <2>1, ConvenersGrow DEF RoleInv, Convenes
  <2> QED BY <2>0, <2>1, <2>2, BeginSent DEF Kinds, ListKinds
<1>4. ASSUME NEW a \in Agents, Leave(a)
      PROVE  SentInv'
  <2>0. PastGrows
    BY PastKept
  <2> QED BY <1>4, <2>0, LeaveEffect, NoListType, BeginSent
            DEF Kinds, ListKinds
<1>5. ASSUME NEW a \in Agents, Broadcast(a)
      PROVE  SentInv'
  <2>0. PastGrows
    BY PastKept
  <2>1. \E kind \in {"complete", "chat"}, targets \in Lists :
          Begin(a, kind, NoList, targets)
    BY <1>5, TellEffect
  <2> QED BY <2>0, <2>1, NoListType, BeginSent DEF Kinds, ListKinds
<1>6. ASSUME NEW a \in Agents, Complete(a)
      PROVE  SentInv'
  <2>0. PastGrows
    BY PastKept
  <2>1. \E kind \in {"complete", "chat"}, targets \in Lists :
          Begin(a, kind, NoList, targets)
    BY <1>6, TellEffect
  <2> QED BY <2>0, <2>1, NoListType, BeginSent DEF Kinds, ListKinds
<1>7. ASSUME NEW f \in fanouts, SendNext(f)
      PROVE  SentInv'
  BY <1>7, SendNextEffect, AdvanceSent DEF pastVars
<1>8. ASSUME NEW f \in fanouts, SendFails(f)
      PROVE  SentInv'
  BY <1>8, AdvanceSent DEF SendFails
<1>9. ASSUME NEW f \in fanouts, LeaveEnds(f)
      PROVE  SentInv'
  <2>1. fanouts' \subseteq fanouts /\ inbox' = inbox
    BY <1>9 DEF LeaveEnds, pastVars
  <2>2. \A e : Honest(e) => Honest(e)'
    BY PastKept, HonestKept
  <2> QED BY <2>1, <2>2 DEF SentInv
<1>10. ASSUME NEW a \in Agents, Handle(a)
      PROVE  SentInv'
  BY <1>10, HandleEffect, TakeSent DEF Take, pastVars
<1>11. ASSUME NEW a \in Agents, Lose(a)
      PROVE  SentInv'
  BY <1>11, TakeSent DEF Lose
<1>12. ASSUME NEW a \in Agents, Crash(a)
      PROVE  SentInv'
  <2>1. fanouts' \subseteq fanouts /\ inbox' = inbox
    BY <1>12 DEF Crash
  <2>2. \A e : Honest(e) => Honest(e)'
    BY PastKept, HonestKept
  <2> QED BY <2>1, <2>2 DEF SentInv
<1>13. CASE UNCHANGED vars
  <2>1. fanouts' = fanouts /\ inbox' = inbox
    BY <1>13 DEF vars
  <2>2. \A e : Honest(e) => Honest(e)'
    BY PastKept, HonestKept
  <2> QED BY <2>1, <2>2 DEF SentInv
<1>14. ASSUME NEW n \in Announcements, Announce(n)
       PROVE  SentInv'
  <2>1. \A e : Honest(e) => Honest(e)'
    BY PastKept, HonestKept
  <2>2. PICK new \in Fanout :
          /\ Letter(new) = UpdateOf(n) /\ new.kind = "update"
          /\ fanouts' \subseteq fanouts \cup {new}
    BY <1>14, AnnounceEffect
  <2>3. inbox' = inbox /\ n \in announced'
    BY <1>14, AnnounceEffect
  <2>4. Honest(Letter(new))'
    BY <2>2, <2>3 DEF Honest, UpdateOf
  <2> QED BY <2>1, <2>2, <2>3, <2>4 DEF SentInv
<1> QED
  BY <1>1, <1>2, <1>3, <1>4, <1>5, <1>6, <1>7, <1>8, <1>9, <1>10, <1>11,
     <1>12, <1>13, <1>14 DEF Next

-----------------------------------------------------------------------------
(* The records.                                                            *)

(* A record changed at one agent is no other's.                            *)
LEMMA ChangedHolds ==
  ASSUME NEW a \in Agents, NEW list, NEW done, Changed(a, list, done)
  PROVE  Holds(a)' /\ \A b \in Agents \ {a} : Holds(b)' <=> Holds(b)
<1>1. view'[a] # NoRecord
  BY NoRecordAssumption DEF Changed
<1> QED BY <1>1 DEF Changed, Holds

(* The head of an inbox is honest.                                         *)
LEMMA HeadType ==
  ASSUME Types, SentInv, NEW a \in Agents, inbox[a] # <<>>
  PROVE  /\ Head(inbox[a]) \in Envelope /\ Honest(Head(inbox[a]))
         /\ Head(inbox[a]).list \in Lists /\ Head(inbox[a]).from \in Agents
         /\ Head(inbox[a]).names \in Agents
<1>1. inbox[a] \in Seq(Envelope)
  BY DEF Types
<1>2. Head(inbox[a]) \in Envelope /\ 1 \in DOMAIN inbox[a]
      /\ Head(inbox[a]) = inbox[a][1]
  BY <1>1, TailAt
<1> QED BY <1>2 DEF SentInv, Envelope

(* A handler dissolves no record, and makes one from an invitation only.   *)
LEMMA HandleHolds ==
  ASSUME Types, SentInv, NEW a \in Agents, Handle(a)
  PROVE  /\ \A b \in Agents : Holds(b) => Holds(b)'
         /\ \A b \in Agents : ~Holds(b) /\ Holds(b)' =>
              b = a /\ Joined(a, Head(inbox[a]))
<1> DEFINE e == Head(inbox[a])
<1>1. /\ inbox[a] # <<>>
      /\ \/ Ignored(a, e) \/ Joined(a, e) \/ Updated(a, e) \/ Struck(a, e)
         \/ Closed(a, e)
  BY HandleEffect
<1>2. e.list \in Lists /\ e.from \in Agents
  BY <1>1, HeadType
<1> HIDE DEF e
<1>3. CASE Ignored(a, e)
  BY <1>3 DEF Ignored, Holds
<1>4. CASE Joined(a, e)
  BY <1>2, <1>4, ChangedHolds DEF Joined, e
<1>5. Holds(a) => /\ view[a].members \in Lists /\ view[a].done \in BOOLEAN
                  /\ Without(view[a].members, {e.from}) \in Lists
  BY MembersType, WithoutType
<1>6. CASE Updated(a, e) \/ Struck(a, e) \/ Closed(a, e)
  BY <1>2, <1>5, <1>6, ChangedHolds DEF Updated, Struck, Closed
<1> QED BY <1>1, <1>3, <1>4, <1>6

(* Only those with a relationship get a record.                            *)
LEMMA RelatedStep ==
  Types /\ SentInv /\ RelatedInv /\ [Next]_vars => RelatedInv'
<1> SUFFICES ASSUME Types, SentInv, RelatedInv, [Next]_vars
             PROVE  RelatedInv'
  OBVIOUS
<1> USE ConvenerAssumption, BoundsAssumption, InviteesAssumption,
        AnnouncementsAssumption
<1>1. ASSUME NEW others \in Invitees, Start(others)
      PROVE  RelatedInv'
  <2>1. \E list \in Lists : Changed(Convener, list, FALSE)
    BY <1>1, StartEffect
  <2>2. related' = related
    BY <1>1 DEF Start, Begin, BeginLetter
  <2> QED BY <2>1, <2>2, ChangedHolds DEF RelatedInv
<1>2. ASSUME NEW a \in Agents, NEW n \in Agents, AddMember(a, n)
      PROVE  RelatedInv'
  <2>1. \E list \in Lists : Changed(a, list, view[a].done) /\ Holds(a)
    BY <1>2, UpdateEffect
  <2>2. related' = related
    BY <1>2 DEF AddMember, Begin, BeginLetter
  <2> QED BY <2>1, <2>2, ChangedHolds DEF RelatedInv
<1>3. ASSUME NEW a \in Agents, NEW n \in Agents, RemoveMember(a, n)
      PROVE  RelatedInv'
  <2>1. \E list \in Lists : Changed(a, list, view[a].done) /\ Holds(a)
    BY <1>3, UpdateEffect
  <2>2. related' = related
    BY <1>3 DEF RemoveMember, Begin, BeginLetter
  <2> QED BY <2>1, <2>2, ChangedHolds DEF RelatedInv
<1>4. ASSUME NEW a \in Agents, Leave(a)
      PROVE  RelatedInv'
  BY <1>4 DEF Leave, Begin, BeginLetter, RelatedInv, Holds
<1>5. ASSUME NEW a \in Agents, Broadcast(a)
      PROVE  RelatedInv'
  BY <1>5 DEF Broadcast, Begin, BeginLetter, RelatedInv, Holds
<1>6. ASSUME NEW a \in Agents, Complete(a)
      PROVE  RelatedInv'
  <2>1. related' = related
    BY <1>6 DEF Complete, Begin, BeginLetter
  <2> QED BY <1>6, <2>1, TellEffect DEF RelatedInv
<1>7. ASSUME NEW f \in fanouts, SendNext(f)
      PROVE  RelatedInv'
  BY <1>7 DEF SendNext, pastVars, RelatedInv, Holds
<1>8. ASSUME NEW f \in fanouts, SendFails(f)
      PROVE  RelatedInv'
  BY <1>8 DEF SendFails, RelatedInv, Holds
<1>9. ASSUME NEW f \in fanouts, LeaveEnds(f)
      PROVE  RelatedInv'
  BY <1>9 DEF LeaveEnds, pastVars, RelatedInv, Holds, Types
<1>10. ASSUME NEW a \in Agents, Handle(a)
      PROVE  RelatedInv'
  <2>1. related' = related
    BY <1>10, HandleEffect DEF Take
  <2> QED BY <1>10, <2>1, HandleHolds DEF Joined, RelatedInv
<1>11. ASSUME NEW a \in Agents, Lose(a)
      PROVE  RelatedInv'
  BY <1>11 DEF Lose, RelatedInv, Holds
<1>12. ASSUME NEW a \in Agents, Crash(a)
      PROVE  RelatedInv'
  BY <1>12 DEF Crash, RelatedInv, Holds
<1>13. CASE UNCHANGED vars
  BY <1>13 DEF vars, pastVars, RelatedInv, Holds
<1>14. ASSUME NEW n \in Announcements, Announce(n)
       PROVE  RelatedInv'
  BY <1>14, AnnounceEffect DEF RelatedInv, Holds
<1> QED
  BY <1>1, <1>2, <1>3, <1>4, <1>5, <1>6, <1>7, <1>8, <1>9, <1>10, <1>11,
     <1>12, <1>13, <1>14 DEF Next

(* The convener on record is unchanged, or named by an invitation or by an *)
(* update that changes it.                                                 *)
LEMMA HandleRole ==
  ASSUME ConvenerAssumption, AnnouncementsAssumption, Types, SentInv, RoleInv,
         NEW a \in Agents, Handle(a), Holds(a)'
  PROVE  view'[a].convener \in Conveners
<1> DEFINE e == Head(inbox[a])
<1>1. /\ inbox[a] # <<>>
      /\ \/ Ignored(a, e) \/ Joined(a, e) \/ Updated(a, e) \/ Struck(a, e)
         \/ Closed(a, e)
  BY HandleEffect
<1>2. Honest(e)
  BY <1>1, HeadType
<1> HIDE DEF e
<1>3. CASE Ignored(a, e)
  BY <1>3 DEF Ignored, Holds, RoleInv
<1>4. CASE Joined(a, e)
  BY <1>2, <1>4 DEF Joined, Honest, ListKinds, UpdateOf
<1>5. CASE Updated(a, e)
  <2>1. view[a].convener \in Conveners
    BY <1>5 DEF Updated, RoleInv
  <2>2. ASSUME e.changed
        PROVE  e.names \in Conveners
    <3>1. e.from \in {view[a].convener, e.names}
      BY <1>5 DEF Updated, MayUpdate
    <3>2. PICK n \in announced : e = UpdateOf(n)
      BY <1>2, <1>5, <2>2 DEF Honest, Updated, ListKinds
    <3>3. n.from = e.from /\ n.names = e.names /\ n.changed
      BY <2>2, <3>2 DEF UpdateOf
    <3>4. n.names \in Agents
      BY AnnouncementsAssumption DEF Types, Announcement
    <3> QED BY <2>1, <3>1, <3>3, <3>4, ConvenersType
  <2> QED BY <1>5, <2>1, <2>2 DEF Updated, SameConvener
<1>6. CASE Struck(a, e) \/ Closed(a, e)
  BY <1>6 DEF Struck, Closed, SameConvener, RoleInv
<1> QED BY <1>1, <1>3, <1>4, <1>5, <1>6

(* Where the records keep their conveners, those may still pass for one.   *)
LEMMA RoleKept ==
  ASSUME PastGrows, RoleInv,
         \A a \in Agents : Holds(a)' => Holds(a) /\ SameConvener(a)
  PROVE  RoleInv'
BY ConvenersGrow DEF RoleInv, SameConvener

(* A list changed by one agent leaves the others' conveners.               *)
LEMMA RoleChanged ==
  ASSUME PastGrows, RoleInv, NEW a \in Agents, NEW list, NEW done, Holds(a),
         Changed(a, list, done), SameConvener(a)
  PROVE  RoleInv'
<1>1. \A b \in Agents : Holds(b)' => Holds(b) /\ SameConvener(b)
  BY DEF Changed, SameConvener, Holds
<1> QED BY <1>1, RoleKept

(* Nobody takes another than such an agent for the convener.               *)
LEMMA RoleStep == Types /\ SentInv /\ RoleInv /\ [Next]_vars => RoleInv'
<1> SUFFICES ASSUME Types, SentInv, RoleInv, [Next]_vars PROVE RoleInv'
  OBVIOUS
<1> USE ConvenerAssumption, BoundsAssumption, InviteesAssumption,
        AnnouncementsAssumption
<1>0. PastGrows
  BY PastKept
<1>1. ASSUME NEW others \in Invitees, Start(others)
      PROVE  RoleInv'
  <2>1. \E list \in Lists : Changed(Convener, list, FALSE)
    BY <1>1, StartEffect
  <2>2. view'[Convener].convener = Convener
    BY <1>1, StartEffect
  <2>3. \A a \in Agents \ {Convener} : view'[a] = view[a]
    BY <2>1 DEF Changed
  <2>4. Conveners \subseteq Conveners' /\ Convener \in Conveners
    BY <1>0, ConvenersGrow, ConvenersType
  <2> QED BY <2>2, <2>3, <2>4 DEF RoleInv, Holds
<1>2. ASSUME NEW a \in Agents, NEW n \in Agents, AddMember(a, n)
      PROVE  RoleInv'
  <2>1. \E list \in Lists : /\ Changed(a, list, view[a].done)
                            /\ Holds(a) /\ SameConvener(a)
    BY <1>2, UpdateEffect
  <2> QED BY <1>0, <2>1, RoleChanged
<1>3. ASSUME NEW a \in Agents, NEW n \in Agents, RemoveMember(a, n)
      PROVE  RoleInv'
  <2>1. \E list \in Lists : /\ Changed(a, list, view[a].done)
                            /\ Holds(a) /\ SameConvener(a)
    BY <1>3, UpdateEffect
  <2> QED BY <1>0, <2>1, RoleChanged
<1>4. ASSUME NEW a \in Agents, Leave(a)
      PROVE  RoleInv'
  BY <1>0, <1>4, RoleKept DEF Leave, Holds, SameConvener
<1>5. ASSUME NEW a \in Agents, Broadcast(a)
      PROVE  RoleInv'
  BY <1>0, <1>5, TellEffect, RoleKept
<1>6. ASSUME NEW a \in Agents, Complete(a)
      PROVE  RoleInv'
  BY <1>0, <1>6, TellEffect, RoleKept
<1>7. ASSUME NEW f \in fanouts, SendNext(f)
      PROVE  RoleInv'
  BY <1>0, <1>7, RoleKept DEF SendNext, Holds, SameConvener
<1>8. ASSUME NEW f \in fanouts, SendFails(f)
      PROVE  RoleInv'
  BY <1>0, <1>8, RoleKept DEF SendFails, Holds, SameConvener
<1>9. ASSUME NEW f \in fanouts, LeaveEnds(f)
      PROVE  RoleInv'
  <2>1. \A a \in Agents : view'[a] = view[a] \/ view'[a] = NoRecord
    BY <1>9 DEF LeaveEnds, Types
  <2> QED BY <1>0, <2>1, RoleKept DEF Holds, SameConvener
<1>10. ASSUME NEW a \in Agents, Handle(a)
      PROVE  RoleInv'
  <2>1. Holds(a)' => view'[a].convener \in Conveners
    BY <1>10, HandleRole
  <2>2. \A b \in Agents \ {a} : view'[b] = view[b]
    BY <1>10, HandleEffect
       DEF Ignored, Joined, Updated, Struck, Closed, Changed
  <2>3. Conveners \subseteq Conveners'
    BY <1>0, ConvenersGrow
  <2> QED BY <2>1, <2>2, <2>3 DEF RoleInv, Holds
<1>11. ASSUME NEW a \in Agents, Lose(a)
      PROVE  RoleInv'
  BY <1>0, <1>11, RoleKept DEF Lose, Holds, SameConvener
<1>12. ASSUME NEW a \in Agents, Crash(a)
      PROVE  RoleInv'
  BY <1>0, <1>12, RoleKept DEF Crash, Holds, SameConvener
<1>13. CASE UNCHANGED vars
  BY <1>0, <1>13, RoleKept DEF vars, Holds, SameConvener
<1>14. ASSUME NEW n \in Announcements, Announce(n)
       PROVE  RoleInv'
  BY <1>0, <1>14, RoleKept DEF Announce, Holds, SameConvener
<1> QED
  BY <1>1, <1>2, <1>3, <1>4, <1>5, <1>6, <1>7, <1>8, <1>9, <1>10, <1>11,
     <1>12, <1>13, <1>14 DEF Next

(* A stored list is no longer than the cap.                                *)
LEMMA HolderSize ==
  ASSUME BoundsAssumption, AnnouncementsAssumption, Types, SizeInv,
         NEW a \in Agents, Holds(a)
  PROVE  Size(view[a].members) <= MaxMembers
<1>1. PICK list \in ConvenersLists, gone \in SUBSET left :
        view[a].members = Without(list, gone)
  BY DEF SizeInv, ListsFromConvener
<1>2. list \in Lists /\ Size(list) <= MaxMembers
  BY ConvenersListsType DEF SizeInv
<1> QED BY <1>1, <1>2, SizeShrinks

(* Taking nobody out leaves a list as it is.                               *)
LEMMA WholeList ==
  ASSUME NEW list \in Lists
  PROVE  Without(list, {}) = list
BY WithoutNone

(* A record is replaced by another list of a convener.                     *)
LEMMA ChangedLists ==
  ASSUME ListsFromConvener, PastGrows,
         NEW a \in Agents, NEW members, NEW done, Changed(a, members, done),
         \E list \in ConvenersLists', gone \in SUBSET left' :
           members = Without(list, gone)
  PROVE  ListsFromConvener'
<1> SUFFICES ASSUME NEW b \in Agents, Holds(b)'
             PROVE  \E list \in ConvenersLists', gone \in SUBSET left' :
                      view'[b].members = Without(list, gone)
  BY DEF ListsFromConvener
<1>1. CASE b = a
  BY <1>1 DEF Changed
<1>2. CASE b # a
  <2>1. view'[b] = view[b] /\ Holds(b)
    BY <1>2 DEF Changed, Holds
  <2>2. PICK list \in ConvenersLists, gone \in SUBSET left :
          view[b].members = Without(list, gone)
    BY <2>1 DEF ListsFromConvener
  <2> QED BY <2>1, <2>2, ConvenersGrow DEF PastGrows
<1> QED BY <1>1, <1>2

(* What a handler records is a list of a convener, but for leavers.        *)
LEMMA HandleLists ==
  ASSUME ConvenerAssumption, AnnouncementsAssumption, Types, SentInv, RoleInv,
         SizeInv, NEW a \in Agents, Handle(a), PastGrows
  PROVE  ListsFromConvener'
<1>0. ListsFromConvener /\ ConvenersLists \subseteq ConvenersLists'
  BY ConvenersGrow DEF SizeInv
<1> DEFINE e == Head(inbox[a])
<1>1. /\ inbox[a] # <<>>
      /\ \/ Ignored(a, e) \/ Joined(a, e) \/ Updated(a, e) \/ Struck(a, e)
         \/ Closed(a, e)
  BY HandleEffect
<1>2. e.list \in Lists /\ Honest(e)
  BY <1>1, HeadType
<1> HIDE DEF e
<1>3. CASE Ignored(a, e)
  BY <1>0, <1>3 DEF Ignored, ListsFromConvener, Holds, PastGrows
<1>4. CASE Joined(a, e) \/ Updated(a, e)
  <2>1. e.list \in lists => e.list \in ConvenersLists
    BY DEF ConvenersLists
  <2>2. ASSUME e.list \notin lists
        PROVE  e.list \in ConvenersLists
    <3>1. PICK n \in announced : e = UpdateOf(n)
      BY <1>2, <1>4, <2>2 DEF Honest, Joined, Updated, ListKinds
    <3>2. n.from = e.from /\ n.names = e.names /\ n.list = e.list
      BY <3>1 DEF UpdateOf
    <3>3. e.from \in {view[a].convener, e.names}
            /\ view[a].convener \in Conveners
      BY <1>4, <3>1 DEF Joined, Updated, UpdateOf, MayUpdate, RoleInv
    <3>4. n.names \in Agents
      BY AnnouncementsAssumption DEF Types, Announcement
    <3>5. n.from \in Conveners
      BY <3>2, <3>3, <3>4, ConvenersType
    <3> QED BY <3>2, <3>5 DEF ConvenersLists
  <2>3. e.list \in ConvenersLists' /\ e.list = Without(e.list, {})
    BY <1>0, <1>2, <2>1, <2>2, WholeList
  <2>4. \E list \in ConvenersLists', gone \in SUBSET left' : e.list
          = Without(list, gone)
    BY <2>3
  <2> QED BY <1>0, <1>4, <2>4, ChangedLists DEF Joined, Updated
<1>5. ASSUME Holds(a)
      PROVE  \E list \in ConvenersLists', gone \in SUBSET left' :
               view[a].members = Without(list, gone)
  BY <1>0, <1>5 DEF ListsFromConvener, PastGrows
<1>7. \A list \in ConvenersLists' : list \in Lists
  <2>1. lists' = lists /\ announced' = announced
    BY HandleEffect DEF Take, pastVars
  <2> QED BY <2>1, AnnouncementsAssumption
          DEF ConvenersLists, Types, Announcement
<1>6. CASE Struck(a, e)
  <2>1. PICK list \in ConvenersLists', gone \in SUBSET left' :
          view[a].members = Without(list, gone)
    BY <1>5, <1>6 DEF Struck
  <2>2. list \in Lists /\ e.from \in left'
    <3>1. e.from \in left'
      BY <1>2, <1>6 DEF Honest, Struck, PastGrows
    <3>2. list \in Lists
      BY <1>7, <2>1
    <3> QED BY <3>1, <3>2
  <2>3. Without(view[a].members, {e.from}) = Without(list, gone \cup {e.from})
    BY <2>1, <2>2, WithoutTwice
  <2>4. gone \cup {e.from} \in SUBSET left'
    BY <2>2
  <2> QED BY <1>0, <1>6, <2>1, <2>3, <2>4, ChangedLists DEF Struck
<1>8. CASE Closed(a, e)
  BY <1>0, <1>5, <1>8, ChangedLists DEF Closed
<1> QED BY <1>1, <1>3, <1>4, <1>6, <1>8

(* Where no list changes, every record is still one of a convener.         *)
LEMMA SizeKept ==
  ASSUME PastGrows, SizeInv, lists' = lists,
         \A a \in Agents :
           Holds(a)' => Holds(a) /\ view'[a].members = view[a].members
  PROVE  SizeInv'
<1>1. ConvenersLists \subseteq ConvenersLists' /\ left \subseteq left'
  BY ConvenersGrow DEF PastGrows
<1>2. ListsFromConvener'
  BY <1>1 DEF SizeInv, ListsFromConvener
<1> QED BY <1>2 DEF SizeInv

(* Every record is a list of a convener, without some leavers.             *)
LEMMA SizeStep ==
  Types /\ SentInv /\ RoleInv /\ SizeInv /\ [Next]_vars => SizeInv'
<1> SUFFICES ASSUME Types, SentInv, RoleInv, SizeInv, [Next]_vars
             PROVE  SizeInv'
  OBVIOUS
<1> USE ConvenerAssumption, BoundsAssumption, InviteesAssumption,
        AnnouncementsAssumption
<1>1. ASSUME NEW others \in Invitees, Start(others)
      PROVE  SizeInv'
  <2>0. PastGrows
    BY PastKept
  <2>1. PICK list \in Lists : /\ Changed(Convener, list, FALSE)
                             /\ NewList(list) /\ Size(list) <= MaxMembers
    BY <1>1, StartEffect
  <2>2. lists' = lists \cup {list} /\ list = Without(list, {})
    BY <2>1, NewListEffect, WholeList
  <2>3. ListsFromConvener'
    BY <2>0, <2>1, <2>2, ChangedLists DEF SizeInv, ConvenersLists
  <2> QED BY <2>1, <2>2, <2>3 DEF SizeInv
<1>2. ASSUME NEW a \in Agents, NEW n \in Agents, AddMember(a, n)
      PROVE  SizeInv'
  <2>0. PastGrows
    BY PastKept
  <2>1. PICK list \in Lists :
          /\ Changed(a, list, view[a].done)
          /\ NewList(list) /\ Holds(a)
          /\ Size(view[a].members) <= MaxMembers
               => Size(list) <= MaxMembers
    BY <1>2, UpdateEffect
  <2>2. lists' = lists \cup {list} /\ list = Without(list, {})
    BY <2>1, NewListEffect, WholeList
  <2>3. Size(list) <= MaxMembers
    BY <2>1, HolderSize
  <2>4. ListsFromConvener'
    BY <2>0, <2>1, <2>2, ChangedLists DEF SizeInv, ConvenersLists
  <2> QED BY <2>2, <2>3, <2>4 DEF SizeInv
<1>3. ASSUME NEW a \in Agents, NEW n \in Agents, RemoveMember(a, n)
      PROVE  SizeInv'
  <2>0. PastGrows
    BY PastKept
  <2>1. PICK list \in Lists :
          /\ Changed(a, list, view[a].done)
          /\ NewList(list) /\ Holds(a)
          /\ Size(view[a].members) <= MaxMembers
               => Size(list) <= MaxMembers
    BY <1>3, UpdateEffect
  <2>2. lists' = lists \cup {list} /\ list = Without(list, {})
    BY <2>1, NewListEffect, WholeList
  <2>3. Size(list) <= MaxMembers
    BY <2>1, HolderSize
  <2>4. ListsFromConvener'
    BY <2>0, <2>1, <2>2, ChangedLists DEF SizeInv, ConvenersLists
  <2> QED BY <2>2, <2>3, <2>4 DEF SizeInv
<1>4. ASSUME NEW a \in Agents, Leave(a)
      PROVE  SizeInv'
  <2>1. lists' = lists /\ \A b \in Agents :
          Holds(b)' => Holds(b) /\ view'[b].members = view[b].members
    BY <1>4 DEF Leave, Holds
  <2> QED BY <2>1, PastKept, SizeKept
<1>5. ASSUME NEW a \in Agents, Broadcast(a)
      PROVE  SizeInv'
  <2>1. lists' = lists /\ \A b \in Agents :
          Holds(b)' => Holds(b) /\ view'[b].members = view[b].members
    BY <1>5, TellEffect
  <2> QED BY <2>1, PastKept, SizeKept
<1>6. ASSUME NEW a \in Agents, Complete(a)
      PROVE  SizeInv'
  <2>1. lists' = lists /\ \A b \in Agents :
          Holds(b)' => Holds(b) /\ view'[b].members = view[b].members
    BY <1>6, TellEffect
  <2> QED BY <2>1, PastKept, SizeKept
<1>7. ASSUME NEW f \in fanouts, SendNext(f)
      PROVE  SizeInv'
  <2>1. lists' = lists /\ \A b \in Agents :
          Holds(b)' => Holds(b) /\ view'[b].members = view[b].members
    BY <1>7 DEF SendNext, pastVars, Holds
  <2> QED BY <2>1, PastKept, SizeKept
<1>8. ASSUME NEW f \in fanouts, SendFails(f)
      PROVE  SizeInv'
  <2>1. lists' = lists /\ \A b \in Agents :
          Holds(b)' => Holds(b) /\ view'[b].members = view[b].members
    BY <1>8 DEF SendFails, Holds
  <2> QED BY <2>1, PastKept, SizeKept
<1>9. ASSUME NEW f \in fanouts, LeaveEnds(f)
      PROVE  SizeInv'
  <2>1. lists' = lists /\ \A b \in Agents :
          Holds(b)' => Holds(b) /\ view'[b].members = view[b].members
    BY <1>9 DEF LeaveEnds, pastVars, Types, Holds
  <2> QED BY <2>1, PastKept, SizeKept
<1>10. ASSUME NEW a \in Agents, Handle(a)
      PROVE  SizeInv'
  <2>1. lists' = lists
    BY <1>10, HandleEffect DEF Take, pastVars
  <2>2. ListsFromConvener'
    BY <1>10, PastKept, HandleLists
  <2> QED BY <2>1, <2>2 DEF SizeInv
<1>11. ASSUME NEW a \in Agents, Lose(a)
      PROVE  SizeInv'
  <2>1. lists' = lists /\ \A b \in Agents :
          Holds(b)' => Holds(b) /\ view'[b].members = view[b].members
    BY <1>11 DEF Lose, Holds
  <2> QED BY <2>1, PastKept, SizeKept
<1>12. ASSUME NEW a \in Agents, Crash(a)
      PROVE  SizeInv'
  <2>1. lists' = lists /\ \A b \in Agents :
          Holds(b)' => Holds(b) /\ view'[b].members = view[b].members
    BY <1>12 DEF Crash, Holds
  <2> QED BY <2>1, PastKept, SizeKept
<1>13. CASE UNCHANGED vars
  <2>1. lists' = lists /\ \A b \in Agents :
          Holds(b)' => Holds(b) /\ view'[b].members = view[b].members
    BY <1>13 DEF vars, pastVars, Holds
  <2> QED BY <2>1, PastKept, SizeKept
<1>14. ASSUME NEW n \in Announcements, Announce(n)
       PROVE  SizeInv'
  <2>1. lists' = lists /\ \A b \in Agents :
          Holds(b)' => Holds(b) /\ view'[b].members = view[b].members
    BY <1>14 DEF Announce, Holds
  <2> QED BY <2>1, PastKept, SizeKept
<1> QED
  BY <1>1, <1>2, <1>3, <1>4, <1>5, <1>6, <1>7, <1>8, <1>9, <1>10, <1>11,
     <1>12, <1>13, <1>14 DEF Next

(* What a queue holds after one envelope is taken or put.                  *)
LEMMA ListsInTail ==
  ASSUME NEW queue \in Seq(Envelope), queue # <<>>
  PROVE  ListsIn(Tail(queue)) = {} <=> ListsIn(queue) \subseteq {1}
<1>1. ASSUME ListsIn(Tail(queue)) = {}, NEW i \in DOMAIN queue, i # 1
      PROVE  i \notin ListsIn(queue)
  BY <1>1, TailAt DEF ListsIn
<1>2. ASSUME ListsIn(queue) \subseteq {1}, NEW i \in DOMAIN Tail(queue)
      PROVE  i \notin ListsIn(Tail(queue))
  <2>1. i >= 1 /\ i \in Nat /\ i + 1 \in DOMAIN queue
          /\ Tail(queue)[i] = queue[i + 1]
    BY <1>2, TailAt
  <2>2. i + 1 # 1
    BY <2>1
  <2> QED BY <1>2, <2>1, <2>2 DEF ListsIn
<1> QED BY <1>1, <1>2 DEF ListsIn

(* Where the lists are in a queue with one envelope more.                  *)
LEMMA ListsInAppend ==
  ASSUME NEW queue \in Seq(Envelope), NEW e \in Envelope
  PROVE  ListsIn(Append(queue, e)) =
           ListsIn(queue) \cup {k \in {Len(queue) + 1} : e.kind \in ListKinds}
<1>1. \A i : i \in 1..(Len(queue) + 1)
        <=> i \in 1..Len(queue) \/ i = Len(queue) + 1
  BY AppendAt
<1>2. Len(queue) + 1 \notin 1..Len(queue)
  BY AppendAt
<1> QED BY <1>1, <1>2, AppendAt DEF ListsIn

(* The convener keeps its record, and is sent no list.                     *)
LEMMA ConvenerStep ==
  Types /\ StartInv /\ SentInv /\ RoleInv /\ ConvenerInv /\ [Next]_vars
    => ConvenerInv'
<1> SUFFICES ASSUME Types, StartInv, SentInv, RoleInv, ConvenerInv,
                    [Next]_vars
             PROVE  ConvenerInv'
  OBVIOUS
<1> USE ConvenerAssumption, BoundsAssumption, InviteesAssumption,
        AnnouncementsAssumption
<1>0. announced' = {} =>
        /\ announced = {} /\ Conveners = {Convener}
        /\ ~Coming(Convener, ListKinds) /\ ListsIn(inbox[Convener]) = {}
  BY PastKept, ConvenersType DEF PastGrows, ConvenerInv
<1>1. ASSUME NEW others \in Invitees, Start(others)
      PROVE  ConvenerInv'
  <2>1. PICK list \in Lists : /\ Changed(Convener, list, FALSE)
                             /\ others \in Lists
                             /\ Begin(Convener, "invite", list, others)
                             /\ Convener \notin Named(others)
    BY <1>1, StartEffect
  <2>2. inbox' = inbox
          /\ (announced' = {} => ~Coming(Convener, ListKinds)')
    BY <1>0, <2>1, BeginEffect DEF Kinds, ListKinds
  <2>3. Holds(Convener)'
    BY <2>1, ChangedHolds
  <2> QED BY <1>0, <2>2, <2>3 DEF ConvenerInv
<1>2. ASSUME NEW a \in Agents, NEW n \in Agents,
             AddMember(a, n) \/ RemoveMember(a, n)
      PROVE  ConvenerInv'
  <2>1. PICK list, targets \in Lists :
          /\ Convenes(a) /\ Holds(a) /\ Changed(a, list, view[a].done)
          /\ Begin(a, "update", list, targets)
          /\ NewList(list) /\ a \notin Named(targets)
    BY <1>2, UpdateEffect
  <2>2. announced' = {} => a = Convener
    BY <1>0, <2>1 DEF Convenes, RoleInv
  <2>3. inbox' = inbox
          /\ (announced' = {} => ~Coming(Convener, ListKinds)')
    BY <1>0, <2>1, <2>2, BeginEffect DEF Kinds, ListKinds
  <2>4. Holds(Convener) => Holds(Convener)'
    BY <2>1, ChangedHolds
  <2>5. ops # 0 /\ ops \in Nat /\ left' = left
    BY <2>1 DEF Holds, StartInv, Types, NewList
  <2> QED BY <1>0, <2>3, <2>4, <2>5 DEF ConvenerInv
<1>4. ASSUME NEW a \in Agents, Leave(a)
      PROVE  ConvenerInv'
  <2>1. ops # 0 /\ ops \in Nat
    BY <1>4, NoRecordAssumption DEF Leave, Holds, StartInv, Types
  <2>2. inbox' = inbox
          /\ (announced' = {} => ~Coming(Convener, ListKinds)')
    <3>1. PICK targets \in Lists : Begin(a, "leave", NoList, targets)
      BY <1>4, LeaveEffect
    <3>2. "leave" \in Kinds /\ "leave" \notin ListKinds /\ NoList \in Lists
      BY NoListType DEF Kinds, ListKinds
    <3>3. /\ inbox' = inbox
          /\ \A b, kinds : Coming(b, kinds)' <=> Coming(b, kinds)
               \/ ("leave" \in kinds /\ b \in Named(targets))
      BY <3>1, <3>2, BeginEffect
    <3> QED BY <1>0, <3>2, <3>3
  <2>3. view' = view /\ left \subseteq left'
    BY <1>4 DEF Leave
  <2> QED BY <1>0, <2>1, <2>2, <2>3 DEF ConvenerInv, Holds
<1>5. ASSUME NEW a \in Agents, Complete(a) \/ Broadcast(a)
      PROVE  ConvenerInv'
  <2>1. PICK kind \in {"complete", "chat"}, targets \in Lists :
          Begin(a, kind, NoList, targets)
    BY <1>5, TellEffect
  <2>2. Holds(a) /\ left' = left /\ (Holds(Convener) => Holds(Convener)')
    BY <1>5, TellEffect
  <2>3. ops # 0 /\ ops \in Nat
    BY <2>2 DEF Holds, StartInv, Types
  <2>4. inbox' = inbox
          /\ (announced' = {} => ~Coming(Convener, ListKinds)')
    BY <1>0, <2>1, NoListType, BeginEffect DEF Kinds, ListKinds
  <2> QED BY <1>0, <2>2, <2>3, <2>4 DEF ConvenerInv
<1>7. ASSUME NEW f \in fanouts, SendNext(f)
      PROVE  ConvenerInv'
  <2>1. /\ inbox' = [inbox EXCEPT ![Recipient(f)] =
                        Append(inbox[Recipient(f)], Letter(f))]
        /\ DOMAIN f.left # {} /\ Advance(f)
        /\ UNCHANGED <<view, ops, left>>
    BY <1>7, SendNextEffect DEF pastVars
  <2>2. /\ Recipient(f) \in Agents /\ Recipient(f) \in Named(f.left)
        /\ Letter(f) \in Envelope
        /\ announced' = {} => ~Coming(Convener, ListKinds)'
    BY <1>0, <2>1, AdvanceEffect
  <2>3. announced' = {} => ListsIn(inbox'[Convener]) = {}
    <3>1. CASE Recipient(f) # Convener
      BY <1>0, <2>1, <2>2, <3>1, PutEffect
    <3>2. CASE Recipient(f) = Convener
      <4>1. announced' = {} => f.kind \notin ListKinds
        BY <1>0, <2>2, <3>2 DEF Coming
      <4>2. announced' = {} => Letter(f).kind \notin ListKinds
        BY <4>1 DEF Letter
      <4>3. /\ inbox[Convener] \in Seq(Envelope)
            /\ inbox'[Convener] = Append(inbox[Convener], Letter(f))
        BY <2>1, <2>2, <3>2, PutEffect
      <4> QED BY <1>0, <2>2, <4>2, <4>3, ListsInAppend
    <3> QED BY <3>1, <3>2
  <2> QED BY <2>1, <2>2, <2>3 DEF ConvenerInv, Holds
<1>8. ASSUME NEW f \in fanouts, SendFails(f)
      PROVE  ConvenerInv'
  <2>1. announced' = {} => ~Coming(Convener, ListKinds)'
    BY <1>0, <1>8, AdvanceEffect DEF SendFails
  <2> QED BY <1>0, <1>8, <2>1 DEF SendFails, ConvenerInv, Holds
<1>9. ASSUME NEW f \in fanouts, LeaveEnds(f)
      PROVE  ConvenerInv'
  <2>1. f.at \in left
    BY <1>9 DEF LeaveEnds, SentInv, Honest, Letter
  <2>2. /\ f.at # Convener => Holds(Convener)' = Holds(Convener)
        /\ fanouts' \subseteq fanouts /\ UNCHANGED <<inbox, ops, left>>
    BY <1>9 DEF LeaveEnds, Holds, Types, pastVars
  <2> QED BY <1>0, <2>1, <2>2 DEF ConvenerInv, Coming
<1>10. ASSUME NEW a \in Agents, Handle(a) \/ Lose(a)
      PROVE  ConvenerInv'
  <2>1. /\ inbox[a] # <<>> /\ inbox' = [inbox EXCEPT ![a] = Tail(inbox[a])]
        /\ UNCHANGED <<ops, left>> /\ fanouts' = fanouts
    BY <1>10, HandleEffect DEF Take, pastVars, Lose
  <2>2. Holds(Convener) => Holds(Convener)'
    BY <1>10, HandleHolds DEF Lose, Holds
  <2>3. announced' = {} => ListsIn(inbox'[Convener]) = {}
    <3>1. CASE a # Convener
      BY <1>0, <2>1, <3>1, TakeEffect
    <3>2. CASE a = Convener
      <4>1. inbox[Convener] \in Seq(Envelope)
              /\ inbox'[Convener] = Tail(inbox[Convener])
        BY <2>1, <3>2, TakeEffect
      <4> QED BY <1>0, <2>1, <3>2, <4>1, ListsInTail
    <3> QED BY <3>1, <3>2
  <2> QED BY <1>0, <2>1, <2>2, <2>3 DEF ConvenerInv, Coming
<1>12. ASSUME NEW a \in Agents, Crash(a)
      PROVE  ConvenerInv'
  <2>1. fanouts' \subseteq fanouts /\ UNCHANGED <<inbox, ops, left, view>>
    BY <1>12 DEF Crash
  <2> QED BY <1>0, <2>1 DEF ConvenerInv, Coming, Holds
<1>13. CASE UNCHANGED vars
  BY <1>13 DEF vars, pastVars, ConvenerInv, Coming, Holds
<1>14. ASSUME NEW n \in Announcements, Announce(n)
       PROVE  ConvenerInv'
  <2>1. announced' # {} /\ ops # 0 /\ UNCHANGED <<view, left>>
    BY <1>14, AnnounceEffect
  <2> QED BY <2>1 DEF ConvenerInv, Holds, Types
<1> QED
  BY <1>1, <1>2, <1>4, <1>5, <1>7, <1>8, <1>9, <1>10, <1>12, <1>13, <1>14
     DEF Next

-----------------------------------------------------------------------------
(* Invitations.                                                            *)

(* Invitations behind the head have been in the queue.                     *)
LEMMA InvitesInTail ==
  ASSUME NEW queue \in Seq(Envelope), queue # <<>>
  PROVE  \A i \in InvitesIn(Tail(queue)) :
           i \in Nat /\ i + 1 # 1 /\ i + 1 \in InvitesIn(queue)
<1> SUFFICES ASSUME NEW i \in InvitesIn(Tail(queue))
             PROVE  i \in Nat /\ i + 1 # 1 /\ i + 1 \in InvitesIn(queue)
  OBVIOUS
<1>1. /\ i \in Nat /\ i >= 1 /\ i + 1 \in DOMAIN queue
      /\ Tail(queue)[i] = queue[i + 1] /\ Tail(queue)[i].kind = "invite"
  BY TailAt DEF InvitesIn
<1> QED BY <1>1 DEF InvitesIn

(* Where the invitations are in a queue with one envelope more.            *)
LEMMA InvitesInAppend ==
  ASSUME NEW queue \in Seq(Envelope), NEW e \in Envelope
  PROVE  InvitesIn(Append(queue, e)) =
           InvitesIn(queue) \cup {k \in {Len(queue) + 1} : e.kind = "invite"}
<1>1. \A i : i \in 1..(Len(queue) + 1)
        <=> i \in 1..Len(queue) \/ i = Len(queue) + 1
  BY AppendAt
<1>2. Len(queue) + 1 \notin 1..Len(queue)
  BY AppendAt
<1> QED BY <1>1, <1>2, AppendAt DEF InvitesIn

(* Who is named once in more lists is named once in fewer.                 *)
LEMMA NamedOnceKept ==
  ASSUME lists \subseteq lists', NEW a, NamedOnce(a)'
  PROVE  NamedOnce(a)
BY DEF NamedOnce

(* The invariant is kept where nobody else is invited.                     *)
LEMMA FewerInvites ==
  ASSUME InviteInv, \A f \in fanouts' : f.kind = "invite" => f \in fanouts,
         inbox' = inbox, lists \subseteq lists',
         \A a \in Agents : Holds(a)' \/ a \in left' => Holds(a) \/ a \in left
  PROVE  InviteInv'
<1>1. \A a : Coming(a, {"invite"})' => Coming(a, {"invite"})
  BY DEF Coming
<1>2. \A f, g \in fanouts' : f.kind = "invite" /\ g.kind = "invite" => f = g
  BY DEF InviteInv
<1>3. ASSUME NEW a \in Agents, NamedOnce(a)'
      PROVE  /\ \A f \in fanouts' : f.kind = "invite" =>
                  \A p, q \in DOMAIN f.left : f.left[p] = a /\ f.left[q] = a
                    => p = q
             /\ \A i, j \in InvitesIn(inbox'[a]) : i = j
             /\ Coming(a, {"invite"})' => InvitesIn(inbox'[a]) = {}
             /\ Holds(a)' \/ a \in left' =>
                  ~Coming(a, {"invite"})' /\ InvitesIn(inbox'[a]) = {}
  <2>1. NamedOnce(a)
    BY <1>3, NamedOnceKept
  <2> QED BY <1>1, <2>1 DEF InviteInv
<1> QED BY <1>2, <1>3 DEF InviteInv, InvitesIn

(* A fan-out that invites nobody begins.                                   *)
LEMMA BeginInvite ==
  ASSUME BoundsAssumption, Types, InviteInv, NEW a \in Agents,
         NEW kind \in Kinds \ {"invite"}, NEW list \in Lists,
         NEW targets \in Lists, Begin(a, kind, list, targets),
         lists \subseteq lists',
         \A b \in Agents : Holds(b)' \/ b \in left' => Holds(b) \/ b \in left
  PROVE  InviteInv'
<1>1. /\ fanouts' \subseteq fanouts \cup {NewFanout(a, kind, list, targets)}
      /\ inbox' = inbox
  BY BeginEffect
<1>2. NewFanout(a, kind, list, targets).kind # "invite"
  BY DEF NewFanout, FanoutOf, OwnLetter
<1> QED BY <1>1, <1>2, FewerInvites

(* A fan-out goes on; if it invites, its recipient has one invitation.     *)
LEMMA AdvanceInvite ==
  ASSUME BoundsAssumption, Types, InviteInv, NEW f \in fanouts,
         DOMAIN f.left # {},
         Advance(f), UNCHANGED <<view, lists, left>>,
         \/ inbox' = inbox
         \/ inbox' = [inbox EXCEPT ![Recipient(f)] = Append(@, Letter(f))]
  PROVE  InviteInv'
<1> DEFINE next == Advanced(f)
           r == Recipient(f)
<1>1. /\ fanouts' \subseteq (fanouts \ {f}) \cup {next}
      /\ r \in Agents /\ r \in Named(f.left) /\ Letter(f) \in Envelope
      /\ \A b, kinds : Coming(b, kinds)' => Coming(b, kinds)
  BY AdvanceEffect
<1>2. f \in Fanout /\ f.left \in Lists
  BY DEF Types, Fanout
<1>3. next.kind = f.kind /\ next.left = Rest(f.left)
  BY <1>2 DEF Advanced, Fanout
<1>4. /\ DOMAIN next.left = DOMAIN f.left \ {First(f.left)}
      /\ \A p \in DOMAIN next.left : next.left[p] = f.left[p]
      /\ First(f.left) \in DOMAIN f.left /\ f.left[First(f.left)] = r
  <2> HIDE DEF next
  <2>1. DOMAIN f.left # {}
    OBVIOUS
  <2>2. First(f.left) \in DOMAIN f.left
    BY <1>2, <2>1, FirstType
  <2>3. /\ DOMAIN Rest(f.left) = DOMAIN f.left \ {First(f.left)}
        /\ \A p \in DOMAIN Rest(f.left) : Rest(f.left)[p] = f.left[p]
    BY <1>2, RestType
  <2> QED BY <1>3, <2>2, <2>3 DEF Recipient
<1>5. Letter(f).kind = f.kind
  BY DEF Letter
<1> HIDE DEF next, r
<1>6. \A g, h \in fanouts' : g.kind = "invite" /\ h.kind = "invite" => g = h
  BY <1>1, <1>3 DEF InviteInv
<1>7. \A b \in Agents : /\ Holds(b)' <=> Holds(b)
                        /\ NamedOnce(b)' <=> NamedOnce(b)
  BY DEF Holds, NamedOnce
<1>8. ASSUME NEW b \in Agents, NamedOnce(b)
      PROVE  /\ \A g \in fanouts' : g.kind = "invite" =>
                  \A p, q \in DOMAIN g.left : g.left[p] = b /\ g.left[q] = b
                    => p = q
             /\ \A i, j \in InvitesIn(inbox'[b]) : i = j
             /\ Coming(b, {"invite"})' => InvitesIn(inbox'[b]) = {}
             /\ Holds(b) \/ b \in left =>
                  ~Coming(b, {"invite"})' /\ InvitesIn(inbox'[b]) = {}
  <2>1. \A g \in fanouts' : g.kind = "invite" =>
          \A p, q \in DOMAIN g.left : g.left[p] = b /\ g.left[q] = b => p = q
    <3>1. f.kind = "invite" =>
            \A p, q \in DOMAIN next.left :
              next.left[p] = b /\ next.left[q] = b => p = q
      BY <1>4, <1>8 DEF InviteInv
    <3>2. \A g \in fanouts : g.kind = "invite" =>
            \A p, q \in DOMAIN g.left : g.left[p] = b /\ g.left[q] = b
              => p = q
      BY <1>8 DEF InviteInv
    <3> QED BY <1>1, <1>3, <3>1, <3>2
  <2>2. CASE inbox'[b] = inbox[b]
    BY <1>1, <1>8, <2>1, <2>2 DEF InviteInv
  <2>3. CASE inbox'[b] # inbox[b]
    <3>1. /\ b = r /\ inbox[b] \in Seq(Envelope)
          /\ inbox'[b] = Append(inbox[b], Letter(f))
      BY <1>1, <2>3, PutEffect DEF r
    <3>2. InvitesIn(inbox'[b]) = InvitesIn(inbox[b])
            \cup {k \in {Len(inbox[b]) + 1} : f.kind = "invite"}
      BY <1>1, <1>5, <3>1, InvitesInAppend
    <3>3. CASE f.kind # "invite"
      BY <1>1, <1>8, <2>1, <3>2, <3>3 DEF InviteInv
    <3>4. CASE f.kind = "invite"
      <4>1. Coming(b, {"invite"})
        BY <1>1, <3>1, <3>4 DEF Coming
      <4>2. ~Coming(b, {"invite"})'
        <5>1. \A p \in DOMAIN next.left : next.left[p] # b
          BY <1>4, <1>8, <3>1, <3>4 DEF InviteInv
        <5>2. b \notin Named(next.left)
          BY <5>1 DEF Named, Range
        <5>3. \A g \in fanouts' : g.kind = "invite" => g = next
          BY <1>1, <3>4 DEF InviteInv
        <5> QED BY <5>2, <5>3 DEF Coming
      <4>3. InvitesIn(inbox[b]) = {} /\ ~Holds(b) /\ b \notin left
        BY <1>8, <4>1 DEF InviteInv
      <4> QED BY <2>1, <3>2, <4>2, <4>3
    <3> QED BY <3>3, <3>4
  <2> QED BY <2>2, <2>3
<1> QED BY <1>6, <1>7, <1>8 DEF InviteInv, InvitesIn

(* An inbox loses its head, and the invitation makes a record or not.      *)
LEMMA TakeInvite ==
  ASSUME Types, InviteInv, NEW a \in Agents, inbox[a] # <<>>,
         inbox' = [inbox EXCEPT ![a] = Tail(@)],
         UNCHANGED <<fanouts, lists, left>>,
         \A b \in Agents : Holds(b)' =>
           Holds(b) \/ (b = a /\ Head(inbox[a]).kind = "invite")
  PROVE  InviteInv'
<1>1. \A b \in Agents : NamedOnce(b)' <=> NamedOnce(b)
  BY DEF NamedOnce
<1>2. \A b, kinds : Coming(b, kinds)' <=> Coming(b, kinds)
  BY DEF Coming
<1>3. ASSUME NEW b \in Agents, NamedOnce(b)
      PROVE  /\ \A i, j \in InvitesIn(inbox'[b]) : i = j
             /\ Coming(b, {"invite"}) => InvitesIn(inbox'[b]) = {}
             /\ Holds(b)' \/ b \in left =>
                  ~Coming(b, {"invite"}) /\ InvitesIn(inbox'[b]) = {}
  <2>1. /\ \A i, j \in InvitesIn(inbox[b]) : i = j
        /\ Coming(b, {"invite"}) => InvitesIn(inbox[b]) = {}
        /\ Holds(b) \/ b \in left =>
             ~Coming(b, {"invite"}) /\ InvitesIn(inbox[b]) = {}
    BY <1>3 DEF InviteInv
  <2>2. CASE b # a
    <3>1. inbox'[b] = inbox[b]
      BY <2>2, TakeEffect
    <3> QED BY <2>1, <2>2, <3>1
  <2>3. CASE b = a
    <3>1. inbox[b] \in Seq(Envelope) /\ inbox'[b] = Tail(inbox[b])
      BY <2>3, TakeEffect
    <3>2. \A i \in InvitesIn(inbox'[b]) :
            i \in Nat /\ i + 1 # 1 /\ i + 1 \in InvitesIn(inbox[b])
      BY <2>3, <3>1, InvitesInTail
    <3>3. \A i, j \in InvitesIn(inbox'[b]) : i = j
      BY <2>1, <3>2
    <3>4. InvitesIn(inbox[b]) = {} => InvitesIn(inbox'[b]) = {}
      BY <3>2
    <3>5. CASE Head(inbox[b]).kind = "invite"
      <4>1. 1 \in InvitesIn(inbox[b])
        BY <2>3, <3>1, <3>5, TailAt DEF InvitesIn
      <4>2. InvitesIn(inbox'[b]) = {}
        BY <2>1, <3>2, <4>1
      <4> QED BY <2>1, <3>3, <4>1, <4>2
    <3>6. CASE Head(inbox[b]).kind # "invite"
      BY <2>1, <2>3, <3>3, <3>4, <3>6
    <3> QED BY <3>5, <3>6
  <2> QED BY <2>2, <2>3
<1> QED BY <1>1, <1>2, <1>3 DEF InviteInv, InvitesIn

(* Who is named once is invited once.                                      *)
LEMMA InviteStep ==
  Types /\ StartInv /\ SentInv /\ InviteInv /\ [Next]_vars => InviteInv'
<1> SUFFICES ASSUME Types, StartInv, SentInv, InviteInv, [Next]_vars
             PROVE  InviteInv'
  OBVIOUS
<1> USE ConvenerAssumption, BoundsAssumption, InviteesAssumption,
        AnnouncementsAssumption
<1>1. ASSUME NEW others \in Invitees, Start(others)
      PROVE  InviteInv'
  <2> DEFINE list == <<Convener>> \o others
             new  == NewFanout(Convener, "invite", list, others)
  <2>1. /\ list \in Lists /\ others \in Lists /\ ops = 0
        /\ Begin(Convener, "invite", list, others) /\ NewList(list)
        /\ Changed(Convener, list, FALSE) /\ Convener \notin Named(others)
        /\ \A p \in DOMAIN others :
             p + 1 \in DOMAIN list /\ list[p + 1] = others[p]
    BY <1>1, StartEffect
  <2> HIDE DEF list
  <2>2. /\ fanouts' \subseteq {new} /\ inbox' = inbox
        /\ ~Coming(Convener, {"invite"})'
    <3>1. fanouts = {} /\ "invite" \in Kinds
      BY <2>1 DEF StartInv, Kinds, ListKinds
    <3>2. ~Coming(Convener, {"invite"})
      BY <3>1 DEF Coming
    <3> QED BY <2>1, <3>1, <3>2, BeginEffect
  <2>3. new.left = others
    BY DEF NewFanout, FanoutOf, OwnLetter
  <2> HIDE DEF new
  <2>4. list \in lists' /\ left' = {}
    BY <2>1, NewListEffect DEF StartInv
  <2>5. \A a \in Agents : InvitesIn(inbox'[a]) = {}
    BY <2>1, <2>2 DEF StartInv, InvitesIn
  <2>6. \A a \in Agents : Holds(a)' => a = Convener
    BY <2>1, ChangedHolds DEF StartInv, Holds
  <2>7. DOMAIN others \subseteq Nat
    BY <2>1, ListType, PlacesFinite
  <2>8. ASSUME NEW a \in Agents, NamedOnce(a)',
               NEW p \in DOMAIN others, NEW q \in DOMAIN others,
               others[p] = a, others[q] = a
        PROVE  p = q
    <3>1. p + 1 = q + 1
      BY <2>1, <2>4, <2>8 DEF NamedOnce
    <3> QED BY <2>7, <3>1
  <2> QED BY <2>2, <2>3, <2>4, <2>5, <2>6, <2>8 DEF InviteInv, InvitesIn
<1>2. ASSUME NEW a \in Agents, NEW n \in Agents,
             AddMember(a, n) \/ RemoveMember(a, n)
      PROVE  InviteInv'
  <2>0. lists \subseteq lists'
    BY PastKept DEF PastGrows
  <2>1. PICK list, targets \in Lists :
          /\ Begin(a, "update", list, targets) /\ NewList(list)
          /\ Changed(a, list, view[a].done) /\ Holds(a)
    BY <1>2, UpdateEffect
  <2>2. "update" \in Kinds \ {"invite"} /\ left' = left
    BY <2>1, NewListEffect DEF Kinds, ListKinds
  <2>3. \A b \in Agents : Holds(b)' => Holds(b)
    BY <2>1, ChangedHolds
  <2> QED BY <2>0, <2>1, <2>2, <2>3, BeginInvite
<1>4. ASSUME NEW a \in Agents, Leave(a)
      PROVE  InviteInv'
  <2>1. PICK targets \in Lists : Begin(a, "leave", NoList, targets)
    BY <1>4, LeaveEffect
  <2>2. Holds(a) /\ left' = left \cup {a} /\ UNCHANGED <<view, lists>>
    BY <1>4, LeaveEffect
  <2>3. "leave" \in Kinds \ {"invite"} /\ NoList \in Lists
    BY NoListType DEF Kinds, ListKinds
  <2>4. \A b \in Agents : Holds(b)' \/ b \in left' => Holds(b) \/ b \in left
    BY <2>2 DEF Holds
  <2> QED BY <2>1, <2>2, <2>3, <2>4, BeginInvite
<1>5. ASSUME NEW a \in Agents, Complete(a) \/ Broadcast(a)
      PROVE  InviteInv'
  <2>1. PICK kind \in {"complete", "chat"}, targets \in Lists :
          Begin(a, kind, NoList, targets)
    BY <1>5, TellEffect
  <2>2. UNCHANGED <<left, lists>> /\ \A b \in Agents : Holds(b)' => Holds(b)
    BY <1>5, TellEffect
  <2>3. kind \in Kinds \ {"invite"} /\ NoList \in Lists
    BY NoListType DEF Kinds, ListKinds
  <2> QED BY <2>1, <2>2, <2>3, BeginInvite
<1>7. ASSUME NEW f \in fanouts, SendNext(f)
      PROVE  InviteInv'
  BY <1>7, SendNextEffect, AdvanceInvite DEF pastVars
<1>8. ASSUME NEW f \in fanouts, SendFails(f)
      PROVE  InviteInv'
  BY <1>8, AdvanceInvite DEF SendFails
<1>9. ASSUME NEW f \in fanouts, LeaveEnds(f)
      PROVE  InviteInv'
  <2>1. /\ fanouts' \subseteq fanouts /\ UNCHANGED <<inbox, lists, left>>
        /\ \A b \in Agents : Holds(b)' => Holds(b)
    BY <1>9 DEF LeaveEnds, pastVars, Types, Holds
  <2> QED BY <2>1, FewerInvites
<1>10. ASSUME NEW a \in Agents, Handle(a)
      PROVE  InviteInv'
  <2>1. /\ inbox[a] # <<>> /\ inbox' = [inbox EXCEPT ![a] = Tail(inbox[a])]
        /\ UNCHANGED <<fanouts, lists, left>>
    BY <1>10, HandleEffect DEF Take, pastVars
  <2>2. \A b \in Agents : Holds(b)' =>
          Holds(b) \/ (b = a /\ Head(inbox[a]).kind = "invite")
    BY <1>10, HandleHolds DEF Joined
  <2> QED BY <2>1, <2>2, TakeInvite
<1>11. ASSUME NEW a \in Agents, Lose(a)
      PROVE  InviteInv'
  <2>1. \A b \in Agents : Holds(b)' => Holds(b)
    BY <1>11 DEF Lose, Holds
  <2> QED BY <1>11, <2>1, TakeInvite DEF Lose
<1>12. ASSUME NEW a \in Agents, Crash(a)
      PROVE  InviteInv'
  <2>1. \A b \in Agents : Holds(b)' => Holds(b)
    BY <1>12 DEF Crash, Holds
  <2> QED BY <1>12, <2>1, FewerInvites DEF Crash
<1>13. CASE UNCHANGED vars
  <2>1. \A b \in Agents : Holds(b)' => Holds(b)
    BY <1>13 DEF vars, Holds
  <2> QED BY <1>13, <2>1, FewerInvites DEF vars, pastVars
<1>14. ASSUME NEW n \in Announcements, Announce(n)
       PROVE  InviteInv'
  <2>1. PICK new \in Fanout :
          new.kind = "update" /\ fanouts' \subseteq fanouts \cup {new}
    BY <1>14, AnnounceEffect
  <2>2. UNCHANGED <<view, inbox, left, lists>>
    BY <1>14, AnnounceEffect
  <2>3. \A f \in fanouts' : f.kind = "invite" => f \in fanouts
    BY <2>1
  <2> QED BY <2>2, <2>3, FewerInvites DEF Holds
<1> QED
  BY <1>1, <1>2, <1>4, <1>5, <1>7, <1>8, <1>9, <1>10, <1>11, <1>12, <1>13,
     <1>14
     DEF Next

-----------------------------------------------------------------------------
(* The copies agree.                                                       *)

(* An envelope at the end of a queue is behind every other place.          *)
LEMMA BehindAppend ==
  ASSUME NEW queue \in Seq(Envelope), NEW e \in Envelope
  PROVE  /\ \A k \in 0..Len(queue) : LeaversBehind(Append(queue, e), k) =
              LeaversBehind(queue, k) \cup {c \in {e.from} : e.kind = "leave"}
         /\ LeaversBehind(Append(queue, e), Len(queue) + 1) = {}
<1> DEFINE longer == Append(queue, e)
           l == Len(queue)
<1>1. /\ l \in Nat /\ DOMAIN queue = 1..l /\ DOMAIN longer = 1..(l + 1)
      /\ \A i \in DOMAIN queue : longer[i] = queue[i]
      /\ longer[l + 1] = e
  BY AppendAt
<1> HIDE DEF longer, l
<1>2. \A i : i \in 1..(l + 1) <=> i \in 1..l \/ i = l + 1
  BY <1>1
<1>3. ASSUME NEW k \in 0..l
      PROVE  LeaversBehind(longer, k) =
               LeaversBehind(queue, k) \cup {c \in {e.from} : e.kind = "leave"}
  <2>1. l + 1 > k
    BY <1>1, <1>3
  <2> QED BY <1>1, <1>2, <2>1 DEF LeaversBehind
<1>4. \A i \in 1..(l + 1) : ~(i > l + 1)
  BY <1>1
<1>5. LeaversBehind(longer, l + 1) = {}
  BY <1>1, <1>4 DEF LeaversBehind
<1> QED BY <1>3, <1>5 DEF longer, l

(* Who leaves behind a place of a queue without its head.                  *)
LEMMA BehindTail ==
  ASSUME NEW queue \in Seq(Envelope), queue # <<>>
  PROVE  /\ \A k \in Nat : LeaversBehind(Tail(queue), k)
              = LeaversBehind(queue, k + 1)
         /\ LeaversBehind(queue, 0) = LeaversBehind(Tail(queue), 0) \cup
              {c \in {Head(queue).from} : Head(queue).kind = "leave"}
<1> DEFINE tail == Tail(queue)
<1>1. /\ 1 \in DOMAIN queue /\ Head(queue) = queue[1]
      /\ \A i \in DOMAIN tail :
           i \in Nat /\ i >= 1 /\ i + 1 \in DOMAIN queue
             /\ tail[i] = queue[i + 1]
      /\ \A i \in DOMAIN queue : i # 1 =>
           i \in Nat /\ i - 1 \in DOMAIN tail /\ tail[i - 1] = queue[i]
  BY TailAt
<1> HIDE DEF tail
<1>2. \A i \in DOMAIN queue : i \in Nat /\ i >= 1
  OBVIOUS
<1>3. ASSUME NEW k \in Nat
      PROVE  LeaversBehind(tail, k) = LeaversBehind(queue, k + 1)
  <2>1. ASSUME NEW i \in DOMAIN tail, i > k, tail[i].kind = "leave"
        PROVE  tail[i].from \in LeaversBehind(queue, k + 1)
    <3>1. i + 1 > k + 1 /\ i + 1 \in DOMAIN queue /\ tail[i] = queue[i + 1]
      BY <1>1, <2>1
    <3> QED BY <2>1, <3>1 DEF LeaversBehind
  <2>2. ASSUME NEW i \in DOMAIN queue, i > k + 1, queue[i].kind = "leave"
        PROVE  queue[i].from \in LeaversBehind(tail, k)
    <3>1. i # 1
      BY <1>2, <2>2
    <3>2. i - 1 > k /\ i - 1 \in DOMAIN tail /\ tail[i - 1] = queue[i]
      BY <1>1, <2>2, <3>1
    <3> QED BY <2>2, <3>2 DEF LeaversBehind
  <2> QED BY <2>1, <2>2 DEF LeaversBehind
<1>4. LeaversBehind(queue, 0) = LeaversBehind(queue, 1)
        \cup {c \in {queue[1].from} : queue[1].kind = "leave"}
  <2>1. \A i \in DOMAIN queue : i > 0 /\ (i > 1 \/ i = 1)
    BY <1>2
  <2> QED BY <1>1, <2>1 DEF LeaversBehind
<1>5. LeaversBehind(tail, 0) = LeaversBehind(queue, 1)
  BY <1>3
<1> QED BY <1>1, <1>3, <1>4, <1>5 DEF tail

(* The same things on their way, as Groups and as the invariant say it.    *)
LEMMA LeaversOnTheWay ==
  ASSUME NEW a \in Agents, NEW x \in LeaversFor(a, 0)
  PROVE  \E e \in OnTheWay(a) : e.kind = "leave" /\ e.from = x
<1>1. CASE x \in LeaversComing(a)
  <2>1. PICK f \in fanouts : f.kind = "leave" /\ a \in Named(f.left)
               /\ f.at = x
    BY <1>1 DEF LeaversComing
  <2>2. Letter(f) \in OnTheWay(a)
    BY <2>1 DEF OnTheWay
  <2> QED BY <2>1, <2>2 DEF Letter
<1>2. CASE x \in LeaversBehind(inbox[a], 0)
  <2>1. PICK i \in DOMAIN inbox[a] :
          inbox[a][i].kind = "leave" /\ inbox[a][i].from = x
    BY <1>2 DEF LeaversBehind
  <2>2. inbox[a][i] \in OnTheWay(a)
    BY DEF OnTheWay, Range
  <2> QED BY <2>1, <2>2
<1> QED BY <1>1, <1>2 DEF LeaversFor

(* Who leaves in what is on its way to an agent is a leaver under way.     *)
LEMMA InUnderWay ==
  ASSUME NEW a \in Agents, NEW x \in LeaversFor(a, 0)
  PROVE  x \in LeaversUnderWay
BY LeaversOnTheWay DEF LeaversUnderWay

(* An agent a list is on its way to awaits one.                            *)
LEMMA ListsAwaited ==
  ASSUME NEW a \in Agents, Coming(a, ListKinds) \/ ListsIn(inbox[a]) # {}
  PROVE  ListAwaits(a)
<1>1. CASE Coming(a, ListKinds)
  <2>1. PICK f \in fanouts : f.kind \in ListKinds /\ a \in Named(f.left)
    BY <1>1 DEF Coming
  <2>2. Letter(f) \in OnTheWay(a)
    BY <2>1 DEF OnTheWay
  <2> QED BY <2>1, <2>2 DEF ListAwaits, Letter
<1>2. CASE ListsIn(inbox[a]) # {}
  <2>1. PICK i \in DOMAIN inbox[a] : inbox[a][i].kind \in ListKinds
    BY <1>2 DEF ListsIn
  <2>2. inbox[a][i] \in OnTheWay(a)
    BY DEF OnTheWay, Range
  <2> QED BY <2>1, <2>2 DEF ListAwaits
<1> QED BY <1>1, <1>2

(* The convener has a record, and the group is a list.                     *)
LEMMA GroupType ==
  ASSUME Types, ConvenerInv, Undisturbed, ops > 0
  PROVE  /\ Holds(Convener) /\ view[Convener].members \in Lists
         /\ Group \in Lists /\ Named(Group) \subseteq Agents
<1>1. Holds(Convener)
  BY DEF ConvenerInv, Undisturbed
<1>2. view[Convener].members \in Lists
  BY <1>1, MembersType, ConvenerAssumption
<1> QED BY <1>1, <1>2, WithoutType, ListType DEF Group

(* Nothing that matters changes.                                           *)
LEMMA AgreeKept ==
  ASSUME Types, ConvenerInv, AgreeInv,
         Undisturbed' => Undisturbed /\ ops > 0,
         \A f \in fanouts' : f.kind \in ListKinds => f \in fanouts,
         \A a : Coming(a, ListKinds)' <=> Coming(a, ListKinds),
         \A a : LeaversComing(a)' = LeaversComing(a),
         inbox' = inbox,
         view'[Convener].members = view[Convener].members,
         \A a \in Agents \ {Convener} : Holds(a)' =>
           Holds(a) /\ view'[a].members = view[a].members
  PROVE  AgreeInv'
<1> SUFFICES ASSUME Undisturbed'
             PROVE  /\ SendingInv'
                    /\ \A a \in Named(Group') \ {Convener} :
                         ~Coming(a, ListKinds)' => CatchesUp(a)'
  BY DEF AgreeInv
<1>1. /\ SendingInv /\ Named(Group) \subseteq Agents
      /\ \A a \in Named(Group) \ {Convener} :
           ~Coming(a, ListKinds) => CatchesUp(a)
  BY GroupType DEF AgreeInv
<1>2. \A a, k : LeaversFor(a, k)' = LeaversFor(a, k)
  BY DEF LeaversFor
<1>3. Group' = Group
  BY <1>2 DEF Group
<1>4. SendingInv'
  BY <1>1, <1>2 DEF SendingInv
<1>5. ASSUME NEW a \in Named(Group) \ {Convener}, ~Coming(a, ListKinds)
      PROVE  CatchesUp(a)'
  <2>1. CatchesUp(a) /\ a \in Agents
    BY <1>1, <1>5
  <2> QED BY <1>2, <1>3, <2>1 DEF CatchesUp
<1> QED BY <1>3, <1>4, <1>5

(* A new list is on its way to everyone on it.                             *)
LEMMA NewListAgree ==
  ASSUME Types, NEW kind \in ListKinds, NEW list \in Lists,
         NEW targets \in Lists,
         NEW done, Begin(Convener, kind, list, targets), NewList(list),
         Changed(Convener, list, done),
         Named(list) \ {Convener} \subseteq Named(targets)
  PROVE  AgreeInv'
<1> SUFFICES ASSUME Undisturbed'
             PROVE  /\ SendingInv'
                    /\ \A a \in Named(Group') \ {Convener} :
                         Coming(a, ListKinds)'
  BY DEF AgreeInv
<1> DEFINE new == NewFanout(Convener, kind, list, targets)
<1>1. kind \in Kinds /\ kind # "leave"
  BY DEF Kinds, ListKinds
<1>2. /\ fanouts' \subseteq fanouts \cup {new} /\ inbox' = inbox
      /\ \A b : b \in Named(targets) => Coming(b, ListKinds)'
      /\ \A b : LeaversComing(b)' = LeaversComing(b)
  <2>1. /\ fanouts' \subseteq fanouts \cup {new} /\ inbox' = inbox
        /\ \A b, kinds : Coming(b, kinds)' <=>
             Coming(b, kinds) \/ (kind \in kinds /\ b \in Named(targets))
        /\ \A b : LeaversComing(b)' = LeaversComing(b) \cup
             {c \in {Convener} : kind = "leave" /\ b \in Named(targets)}
    BY <1>1, BeginEffect, BoundsAssumption, ConvenerAssumption
  <2> QED BY <1>1, <2>1
<1>3. new.list = list
  BY DEF NewFanout, FanoutOf, OwnLetter
<1> HIDE DEF new
<1>4. ~ListsBeingSent /\ LeaversUnderWay \cap Named(list) = {}
  BY NewListEffect DEF Undisturbed
<1>5. \A a \in Agents : LeaversFor(a, 0)' \cap Named(list) = {}
  <2>1. \A a : LeaversFor(a, 0)' = LeaversFor(a, 0)
    BY <1>2 DEF LeaversFor
  <2> QED BY <1>4, <2>1, InUnderWay
<1>6. view'[Convener].members = list
  BY DEF Changed
<1>7. SendingInv'
  BY <1>2, <1>3, <1>4, <1>5, <1>6 DEF SendingInv, ListsBeingSent
<1>8. Group' = list
  BY <1>5, <1>6, WithoutNone, ConvenerAssumption DEF Group
<1> QED BY <1>2, <1>7, <1>8

(* One more leaver, of whom the convener is told and everyone it matters.  *)
LEMMA OneLeaverMore ==
  ASSUME Types, NEW b \in Agents, NEW x, CatchesUp(b), Group \in Lists,
         inbox' = inbox, view' = view, Group' = Without(Group, {x}),
         \/ \A k : LeaversFor(b, k)' = LeaversFor(b, k) \cup {x}
         \/ x \notin Named(Group)
              /\ \A k : LeaversFor(b, k)' = LeaversFor(b, k)
  PROVE  CatchesUp(b)'
<1>1. ASSUME NEW list \in Lists, NEW k,
             Without(list, LeaversFor(b, k)) = Group
      PROVE  Without(list, LeaversFor(b, k)') = Group'
  <2>1. CASE LeaversFor(b, k)' = LeaversFor(b, k) \cup {x}
    <3>1. Without(Without(list, LeaversFor(b, k)), {x})
            = Without(list, LeaversFor(b, k) \cup {x})
      BY WithoutTwice
    <3> QED BY <1>1, <2>1, <3>1
  <2>2. CASE x \notin Named(Group) /\ LeaversFor(b, k)' = LeaversFor(b, k)
    <3>1. Group' = Group
      BY <2>2, WithoutNone
    <3> QED BY <1>1, <2>2, <3>1
  <2> QED BY <2>1, <2>2
<1>2. ASSUME NEW k \in ListsIn(inbox[b])
      PROVE  inbox[b][k].list \in Lists
  <2>1. inbox[b] \in Seq(Envelope) /\ k \in DOMAIN inbox[b]
    BY DEF Types, ListsIn
  <2>2. inbox[b][k] \in Envelope
    BY <2>1
  <2> QED BY <2>2 DEF Envelope
<1>3. Holds(b) => view[b].members \in Lists
  BY MembersType
<1>4. ASSUME NEW k \in ListsIn(inbox[b]), \A i \in ListsIn(inbox[b]) : i <= k
      PROVE  Without(inbox[b][k].list, LeaversFor(b, k)') = Group'
  BY <1>1, <1>2, <1>4 DEF CatchesUp
<1>5. ASSUME Holds(b), ListsIn(inbox[b]) = {}
      PROVE  Without(view[b].members, LeaversFor(b, 0)') = Group'
  BY <1>1, <1>3, <1>5 DEF CatchesUp
<1> QED BY <1>4, <1>5 DEF CatchesUp, Holds

(* Who leaves tells everyone in the group.                                 *)
LEMMA LeaveAgree ==
  ASSUME Types, StartInv, ConvenerInv, AgreeInv, NEW x \in Agents, Leave(x)
  PROVE  AgreeInv'
<1> SUFFICES ASSUME Undisturbed'
             PROVE  /\ SendingInv'
                    /\ \A b \in Named(Group') \ {Convener} : CatchesUp(b)'
  BY DEF AgreeInv
<1> USE ConvenerAssumption, BoundsAssumption
<1> DEFINE targets == Without(view[x].members, {x})
<1>1. /\ Holds(x) /\ view[x].members \in Lists /\ targets \in Lists
      /\ Begin(x, "leave", NoList, targets)
      /\ left' = left \cup {x} /\ UNCHANGED <<view, lists>>
  BY LeaveEffect
<1>2. /\ Named(targets) = Named(view[x].members) \ {x}
  BY <1>1, WithoutType
<1> HIDE DEF targets
<1>3. /\ ~conflict /\ ~ListsBeingSent /\ ~ListAwaits(x) /\ Listed(x, Convener)
      /\ x # Convener /\ Convener \notin left
  <2>1. ~conflict' /\ Convener \notin left'
    BY DEF Undisturbed
  <2>2. conflict' = (conflict \/ ListsBeingSent \/ ListAwaits(x)
                             \/ ~Listed(x, Convener))
    BY DEF Leave
  <2> QED BY <1>1, <2>1, <2>2
<1>4. /\ fanouts'
           \subseteq fanouts \cup {NewFanout(x, "leave", NoList, targets)}
      /\ inbox' = inbox /\ mishaps' = mishaps /\ announced' = announced
      /\ \A b : LeaversComing(b)' =
           LeaversComing(b) \cup {c \in {x} : b \in Named(targets)}
  <2>1. "leave" \in Kinds /\ NoList \in Lists
    BY NoListType DEF Kinds
  <2>2. /\ fanouts'
             \subseteq fanouts \cup {NewFanout(x, "leave", NoList, targets)}
        /\ UNCHANGED <<related, inbox, announced, mishaps>>
        /\ \A b : LeaversComing(b)' = LeaversComing(b) \cup
             {c \in {x} : "leave" = "leave" /\ b \in Named(targets)}
    BY <1>1, <2>1, BeginEffect
  <2> QED BY <2>2
<1>5. Undisturbed /\ ops > 0
  <2>1. ops # 0 /\ ops \in Nat
    BY <1>1 DEF Holds, StartInv, Types
  <2> QED BY <1>3, <1>4, <2>1 DEF Undisturbed
<1>6. \A b, k : LeaversFor(b, k)' =
        LeaversFor(b, k) \cup {c \in {x} : b \in Named(targets)}
  BY <1>4 DEF LeaversFor
<1>7. SendingInv'
  <2>1. \A f \in fanouts' : f.kind \notin ListKinds
    BY <1>3, <1>4 DEF ListsBeingSent, NewFanout, FanoutOf, OwnLetter, ListKinds
  <2> QED BY <2>1 DEF SendingInv
<1>8. Group \in Lists /\ Named(Group) \subseteq Agents
        /\ view[Convener].members \in Lists
  BY <1>5, GroupType
<1>9. Group' = Without(Group, {x})
  <2>1. Convener \in Named(targets)
    BY <1>2, <1>3 DEF Listed
  <2>2. LeaversFor(Convener, 0)' = LeaversFor(Convener, 0) \cup {x}
    BY <1>6, <2>1
  <2>3. Group'
          = Without(view[Convener].members, LeaversFor(Convener, 0) \cup {x})
    BY <1>1, <2>2 DEF Group
  <2> QED BY <1>8, <2>3, WithoutTwice DEF Group
<1>10. ASSUME NEW b \in Named(Group') \ {Convener}
       PROVE  CatchesUp(b)'
  <2>1. b \in Named(Group) /\ b # x /\ b \in Agents
    <3>1. Named(Without(Group, {x})) = Named(Group) \ {x}
      BY <1>8, WithoutType
    <3> QED BY <1>8, <1>9, <3>1
  <2>2. \A c \in Named(Group) \ {Convener} : CatchesUp(c)
    BY <1>3, <1>5 DEF AgreeInv, Coming, ListsBeingSent
  <2>3. x \in Named(Group) => b \in Named(targets)
    <3>1. SUFFICES ASSUME x \in Named(Group) PROVE b \in Named(targets)
      OBVIOUS
    <3>2. ListsIn(inbox[x]) = {}
      BY <1>3, ListsAwaited
    <3>3. Without(view[x].members, LeaversFor(x, 0)) = Group
      BY <1>1, <1>3, <2>2, <3>1, <3>2 DEF CatchesUp
    <3>4. b \in Named(view[x].members)
      <4>1. Named(Without(view[x].members, LeaversFor(x, 0)))
              = Named(view[x].members) \ LeaversFor(x, 0)
        BY <1>1, WithoutType
      <4> QED BY <2>1, <3>3, <4>1
    <3> QED BY <1>2, <2>1, <3>4
  <2>4. \/ \A k : LeaversFor(b, k)' = LeaversFor(b, k) \cup {x}
        \/ x \notin Named(Group)
             /\ \A k : LeaversFor(b, k)' = LeaversFor(b, k)
    <3>1. CASE b \in Named(targets)
      BY <1>6, <3>1
    <3>2. CASE b \notin Named(targets)
      BY <1>6, <2>3, <3>2
    <3> QED BY <3>1, <3>2
  <2> QED BY <1>1, <1>4, <1>8, <1>9, <2>1, <2>2, <2>4, OneLeaverMore
<1> QED BY <1>7, <1>10

(* What was on its way to an agent is in its inbox now.                    *)
LEMMA SendNextLeavers ==
  ASSUME BoundsAssumption, Types, NEW f \in fanouts, SendNext(f),
         NEW b \in Agents, NEW k \in 0..Len(inbox[b])
  PROVE  LeaversFor(b, k)' = LeaversFor(b, k)
<1> DEFINE a == Recipient(f)
<1>1. /\ DOMAIN f.left # {} /\ Advance(f)
      /\ inbox' = [inbox EXCEPT ![Recipient(f)] = Append(@, Letter(f))]
  BY SendNextEffect
<1>2. /\ a \in Agents /\ a \in Named(f.left) /\ Letter(f) \in Envelope
      /\ LeaversComing(b)' \subseteq LeaversComing(b)
      /\ LeaversComing(b) \subseteq LeaversComing(b)' \cup
           {c \in {f.at} : b = a /\ f.kind = "leave"}
  BY <1>1, AdvanceEffect
<1>3. /\ inbox[a] \in Seq(Envelope)
      /\ inbox'[a] = Append(inbox[a], Letter(f))
      /\ b # a => inbox'[b] = inbox[b]
  BY <1>1, <1>2, PutEffect
<1> HIDE DEF a
<1>4. CASE b # a
  <2>1. LeaversComing(b)' = LeaversComing(b)
    BY <1>2, <1>4
  <2> QED BY <1>3, <1>4, <2>1 DEF LeaversFor
<1>5. CASE b = a
  <2>1. LeaversBehind(inbox'[b], k) = LeaversBehind(inbox[b], k) \cup
          {c \in {Letter(f).from} : Letter(f).kind = "leave"}
    <3>1. inbox[b] \in Seq(Envelope)
            /\ inbox'[b] = Append(inbox[b], Letter(f))
      BY <1>3, <1>5
    <3> QED BY <1>2, <3>1, BehindAppend
  <2>2. Letter(f).from = f.at /\ Letter(f).kind = f.kind
    BY DEF Letter
  <2>3. f.kind = "leave" => f.at \in LeaversComing(b)
    BY <1>2, <1>5 DEF LeaversComing
  <2> QED BY <1>2, <1>5, <2>1, <2>2, <2>3 DEF LeaversFor
<1> QED BY <1>4, <1>5

(* A list that has been sent is the group.                                 *)
LEMMA SendNextAgree ==
  ASSUME BoundsAssumption, Types, StartInv, ConvenerInv, AgreeInv,
         NEW f \in fanouts, SendNext(f)
  PROVE  AgreeInv'
<1> SUFFICES ASSUME Undisturbed'
             PROVE  /\ SendingInv'
                    /\ \A b \in Named(Group') \ {Convener} :
                         ~Coming(b, ListKinds)' => CatchesUp(b)'
  BY DEF AgreeInv
<1> USE ConvenerAssumption
<1>1. /\ DOMAIN f.left # {} /\ Advance(f)
      /\ inbox' = [inbox EXCEPT ![Recipient(f)] = Append(@, Letter(f))]
      /\ UNCHANGED <<related, view, ops, pastVars>>
  BY SendNextEffect
<1>0. PICK a \in Agents : a = Recipient(f)
  BY <1>1, AdvanceEffect
<1>2. /\ Letter(f) \in Envelope
      /\ fanouts' \subseteq (fanouts \ {f}) \cup {Advanced(f)}
      /\ \A b \in Agents : Coming(b, ListKinds) /\ ~Coming(b, ListKinds)' =>
           b = a /\ f.kind \in ListKinds
      /\ LeaversComing(a)' \subseteq LeaversComing(a)
  BY <1>0, <1>1, AdvanceEffect
<1>3. /\ inbox[a] \in Seq(Envelope)
      /\ inbox'[a] = Append(inbox[a], Letter(f))
      /\ \A b \in Agents \ {a} : inbox'[b] = inbox[b]
  BY <1>0, <1>1, <1>2, PutEffect
<1>4. Undisturbed /\ ops > 0
  <2>1. ops # 0 /\ ops \in Nat
    BY DEF StartInv, Types
  <2> QED BY <1>1, <2>1 DEF Undisturbed, pastVars
<1>5. /\ SendingInv /\ Group \in Lists /\ Named(Group) \subseteq Agents
      /\ view[Convener].members \in Lists
      /\ \A b \in Named(Group) \ {Convener} :
           ~Coming(b, ListKinds) => CatchesUp(b)
  BY <1>4, GroupType DEF AgreeInv
<1>6. \A b \in Agents : inbox[b] \in Seq(Envelope) /\ 0 \in 0..Len(inbox[b])
  BY DEF Types
<1>7. \A b \in Agents : LeaversFor(b, 0)' = LeaversFor(b, 0)
  BY <1>6, SendNextLeavers
<1>8. Group' = Group
  BY <1>1, <1>7 DEF Group
<1>9. SendingInv'
  <2>1. Advanced(f).kind = f.kind /\ Advanced(f).list = f.list
    BY DEF Types, Fanout, Advanced
  <2>2. \A g \in fanouts' : g.kind \in ListKinds =>
          \E h \in fanouts : h.kind \in ListKinds /\ h.list = g.list
    BY <1>2, <2>1
  <2> QED BY <1>1, <1>5, <1>7, <2>2 DEF SendingInv
<1>10. ASSUME NEW b \in Named(Group) \ {Convener}, ~Coming(b, ListKinds)'
       PROVE  CatchesUp(b)'
  <2>1. b \in Agents
    BY <1>5
  <2>2. ASSUME NEW k \in ListsIn(inbox[b])
        PROVE  k \in 0..Len(inbox[b]) /\ k # Len(inbox[b]) + 1
                 /\ k \in DOMAIN inbox[b]
    <3>1. inbox[b] \in Seq(Envelope) /\ k \in DOMAIN inbox[b]
      BY <2>1, <1>6 DEF ListsIn
    <3> QED BY <3>1
  <2>3. \A k \in ListsIn(inbox[b]) : LeaversFor(b, k)' = LeaversFor(b, k)
    BY <2>1, <2>2, SendNextLeavers
  <2>4. CASE b # a
    <3>1. inbox'[b] = inbox[b] /\ CatchesUp(b)
      BY <1>2, <1>3, <1>5, <1>10, <2>1, <2>4
    <3> QED BY <1>1, <1>7, <1>8, <2>1, <2>3, <3>1 DEF CatchesUp, Holds
  <2>5. CASE b = a /\ f.kind \notin ListKinds
    <3>1. CatchesUp(b)
      BY <1>2, <1>5, <1>10, <2>1, <2>5
    <3>2. ListsIn(inbox'[b]) = ListsIn(inbox[b])
      <4>1. Letter(f).kind = f.kind
        BY DEF Letter
      <4>2. inbox[b] \in Seq(Envelope)
              /\ inbox'[b] = Append(inbox[b], Letter(f))
        BY <1>3, <2>5
      <4>3. ListsIn(inbox'[b]) = ListsIn(inbox[b]) \cup
              {k \in {Len(inbox[b]) + 1} : Letter(f).kind \in ListKinds}
        BY <1>2, <4>2, ListsInAppend
      <4> QED BY <2>5, <4>1, <4>3
    <3>3. \A k \in ListsIn(inbox[b]) : inbox'[b][k] = inbox[b][k]
      BY <1>2, <1>3, <2>2, <2>5, AppendAt
    <3> QED
      BY <1>1, <1>7, <1>8, <2>1, <2>3, <3>1, <3>2, <3>3 DEF CatchesUp, Holds
  <2>6. CASE b = a /\ f.kind \in ListKinds
    <3>0. PICK last : last = Len(inbox[b]) + 1
      OBVIOUS
    <3>1. /\ ListsIn(inbox'[b]) = ListsIn(inbox[b]) \cup {last}
          /\ inbox'[b][last].list = f.list
          /\ LeaversBehind(inbox'[b], last) = {}
      <4>1. Letter(f).kind = f.kind /\ Letter(f).list = f.list
        BY DEF Letter
      <4>2. inbox[b] \in Seq(Envelope)
              /\ inbox'[b] = Append(inbox[b], Letter(f))
        BY <1>3, <2>6
      <4>3. ListsIn(inbox'[b]) = ListsIn(inbox[b]) \cup
              {k \in {Len(inbox[b]) + 1} : Letter(f).kind \in ListKinds}
        BY <1>2, <4>2, ListsInAppend
      <4>4. ListsIn(inbox'[b]) = ListsIn(inbox[b]) \cup {last}
        BY <2>6, <3>0, <4>1, <4>3
      <4>5. inbox'[b][last].list = f.list
        BY <1>2, <3>0, <4>1, <4>2, AppendAt
      <4>6. LeaversBehind(inbox'[b], last) = {}
        BY <1>2, <3>0, <4>2, BehindAppend
      <4> QED BY <4>4, <4>5, <4>6
    <3>2. \A k \in ListsIn(inbox'[b]) :
            (\A i \in ListsIn(inbox'[b]) : i <= k) => k = last
      <4>1. inbox[b] \in Seq(Envelope)
        BY <2>1, <1>6
      <4>2. \A k \in 0..Len(inbox[b]) : ~(last <= k)
        BY <3>0, <4>1
      <4> QED BY <2>2, <3>0, <3>1, <4>2
    <3>3. LeaversFor(b, last)' \subseteq LeaversFor(b, 0)
      BY <1>2, <2>6, <3>1 DEF LeaversFor
    <3>4. /\ f.list = view[Convener].members
          /\ LeaversFor(b, 0) \cap Named(f.list) = {}
          /\ LeaversFor(Convener, 0) \cap Named(f.list) = {}
      BY <1>5, <2>1, <2>6 DEF SendingInv
    <3>5. Group = f.list
      BY <1>5, <3>4, WithoutNone DEF Group
    <3>6. Without(f.list, LeaversFor(b, last)') = f.list
      <4>1. LeaversFor(b, last)' \cap Named(f.list) = {}
        BY <3>3, <3>4
      <4> QED BY <1>5, <3>4, <4>1, WithoutNone
    <3>7. Without(inbox'[b][last].list, LeaversFor(b, last)') = Group'
      BY <1>8, <3>1, <3>5, <3>6
    <3> QED BY <3>1, <3>2, <3>7 DEF CatchesUp
  <2> QED BY <2>4, <2>5, <2>6
<1> QED BY <1>8, <1>9, <1>10

(* Taking the head of an inbox moves the lists in it up by one.            *)
LEMMA LastInTail ==
  ASSUME NEW queue \in Seq(Envelope), queue # <<>>,
         NEW k \in ListsIn(Tail(queue)),
         \A i \in ListsIn(Tail(queue)) : i <= k
  PROVE  /\ k \in Nat /\ k + 1 \in ListsIn(queue)
              /\ Tail(queue)[k] = queue[k + 1]
         /\ \A i \in ListsIn(queue) : i <= k + 1
<1>1. /\ k \in Nat /\ k >= 1 /\ k + 1 \in DOMAIN queue
      /\ Tail(queue)[k] = queue[k + 1]
  BY TailAt DEF ListsIn
<1>2. k + 1 \in ListsIn(queue)
  BY <1>1 DEF ListsIn
<1>3. ASSUME NEW i \in ListsIn(queue)
      PROVE  i <= k + 1
  <2>1. CASE i = 1
    BY <1>1, <2>1
  <2>2. CASE i # 1
    <3>1. /\ i \in Nat /\ i - 1 \in DOMAIN Tail(queue)
          /\ Tail(queue)[i - 1] = queue[i]
      BY <2>2, TailAt DEF ListsIn
    <3>2. i - 1 \in ListsIn(Tail(queue))
      BY <3>1 DEF ListsIn
    <3>3. i - 1 <= k
      BY <3>2
    <3> QED BY <1>1, <3>1, <3>3
  <2> QED BY <2>1, <2>2
<1> QED BY <1>1, <1>2, <1>3

(* Taking the head of an inbox forgets its leave, and no other.            *)
LEMMA HandleLeavers ==
  ASSUME Types, NEW a \in Agents, inbox[a] # <<>>, Take(a)
  PROVE  /\ \A b \in Agents \ {a} : inbox'[b] = inbox[b]
                /\ \A k : LeaversFor(b, k)' = LeaversFor(b, k)
         /\ inbox[a] \in Seq(Envelope) /\ inbox'[a] = Tail(inbox[a])
         /\ \A k \in Nat : LeaversFor(a, k)' = LeaversFor(a, k + 1)
         /\ LeaversFor(a, 0) = LeaversFor(a, 0)' \cup
              {c \in {Head(inbox[a]).from} : Head(inbox[a]).kind = "leave"}
<1>1. /\ inbox' = [inbox EXCEPT ![a] = Tail(@)] /\ fanouts' = fanouts
  BY DEF Take
<1>2. /\ \A b \in Agents \ {a} : inbox'[b] = inbox[b]
      /\ inbox[a] \in Seq(Envelope) /\ inbox'[a] = Tail(inbox[a])
  BY <1>1, TakeEffect
<1>3. \A b : LeaversComing(b)' = LeaversComing(b)
  BY <1>1 DEF LeaversComing
<1>4. /\ \A k \in Nat : LeaversBehind(inbox'[a], k)
           = LeaversBehind(inbox[a], k + 1)
      /\ LeaversBehind(inbox[a], 0) = LeaversBehind(inbox'[a], 0) \cup
           {c \in {Head(inbox[a]).from} : Head(inbox[a]).kind = "leave"}
  BY <1>2, BehindTail
<1>5. \A b \in Agents \ {a} : \A k : LeaversFor(b, k)' = LeaversFor(b, k)
  BY <1>2, <1>3 DEF LeaversFor
<1>6. \A k \in Nat : LeaversFor(a, k)' = LeaversFor(a, k + 1)
  BY <1>3, <1>4 DEF LeaversFor
<1>7. LeaversFor(a, 0) = LeaversFor(a, 0)' \cup
        {c \in {Head(inbox[a]).from} : Head(inbox[a]).kind = "leave"}
  BY <1>3, <1>4 DEF LeaversFor
<1> QED BY <1>2, <1>5, <1>6, <1>7

(* A handler does to the record what was to be done for a leaver, and      *)
(* nothing else, unless it is handed a list.                               *)
LEMMA HandleMembers ==
  ASSUME Types, SentInv, NEW a \in Agents, Handle(a), Holds(a),
         Head(inbox[a]).kind \notin ListKinds
  PROVE  /\ view'[a].members \in Lists
         /\ Without(view'[a].members, LeaversFor(a, 0)')
              = Without(view[a].members, LeaversFor(a, 0))
         /\ LeaversFor(a, 0) \cap Named(view[a].members) = {} =>
              view'[a].members = view[a].members
<1> DEFINE e == Head(inbox[a])
           behind == LeaversFor(a, 0)'
           members == view[a].members
<1>1. /\ inbox[a] # <<>> /\ Take(a)
      /\ \/ Ignored(a, e) \/ Joined(a, e) \/ Updated(a, e) \/ Struck(a, e)
         \/ Closed(a, e)
  BY HandleEffect
<1>2. LeaversFor(a, 0) = behind \cup {c \in {e.from} : e.kind = "leave"}
  BY <1>1, HandleLeavers
<1>3. members \in Lists
  BY MembersType
<1>4. ~Joined(a, e) /\ ~Updated(a, e)
  BY DEF Joined, Updated, ListKinds
<1>5. Ignored(a, e)
        => view' = view /\ (e.kind = "leave" => e.from \notin Named(members))
  BY DEF Ignored, Listed
<1>6. Struck(a, e)
        => view'[a].members = Without(members, {e.from}) /\ e.kind = "leave"
  BY DEF Struck, Changed
<1>7. Closed(a, e) => view'[a].members = members /\ e.kind # "leave"
  BY DEF Closed, Changed
<1> HIDE DEF e, behind, members
<1>8. /\ Without(members, {e.from}) \in Lists
      /\ Without(Without(members, {e.from}), behind)
           = Without(members, {e.from} \cup behind)
      /\ e.from \notin Named(members) => Without(members, {e.from}) = members
  <2>1. {e.from} \cap Named(members) = {}
          => Without(members, {e.from}) = members
    BY <1>3, WithoutNone
  <2>2. Without(members, {e.from}) \in Lists
    BY <1>3, WithoutType
  <2>3. Without(Without(members, {e.from}), behind)
          = Without(members, {e.from} \cup behind)
    BY <1>3, WithoutTwice
  <2> QED BY <2>1, <2>2, <2>3
<1>9. CASE e.kind # "leave"
  <2>1. view'[a].members = members /\ LeaversFor(a, 0) = behind
    BY <1>1, <1>2, <1>4, <1>5, <1>6, <1>7, <1>9 DEF members
  <2> QED BY <1>3, <2>1 DEF members, behind
<1>10. CASE e.kind = "leave"
  <2>1. LeaversFor(a, 0) = {e.from} \cup behind
    BY <1>2, <1>10
  <2>2. view'[a].members = Without(members, {e.from})
    BY <1>1, <1>4, <1>5, <1>6, <1>7, <1>8, <1>10 DEF members
  <2> QED BY <1>8, <2>1, <2>2 DEF members, behind
<1> QED BY <1>9, <1>10

(* The dispatch loops do what was to be done.                              *)
LEMMA HandleAgree ==
  ASSUME Types, StartInv, SentInv, RelatedInv, ConvenerInv, AgreeInv,
         NEW a \in Agents, Handle(a)
  PROVE  AgreeInv'
<1> SUFFICES ASSUME Undisturbed'
             PROVE  /\ SendingInv'
                    /\ \A b \in Named(Group') \ {Convener} :
                         ~Coming(b, ListKinds)' => CatchesUp(b)'
  BY DEF AgreeInv
<1> USE ConvenerAssumption
<1> DEFINE e == Head(inbox[a])
<1>1. /\ inbox[a] # <<>> /\ Take(a)
      /\ \/ Ignored(a, e) \/ Joined(a, e) \/ Updated(a, e) \/ Struck(a, e)
         \/ Closed(a, e)
  BY HandleEffect
<1>2. /\ \A b \in Agents \ {a} : inbox'[b] = inbox[b]
              /\ \A k : LeaversFor(b, k)' = LeaversFor(b, k)
      /\ inbox[a] \in Seq(Envelope) /\ inbox'[a] = Tail(inbox[a])
      /\ \A k \in Nat : LeaversFor(a, k)' = LeaversFor(a, k + 1)
      /\ LeaversFor(a, 0)' \subseteq LeaversFor(a, 0)
  BY <1>1, HandleLeavers
<1>3. fanouts' = fanouts /\ ops' = ops /\ UNCHANGED pastVars
        /\ related' = related
  BY <1>1 DEF Take
<1>4. \A b \in Agents \ {a} : view'[b] = view[b]
  BY <1>1 DEF Ignored, Joined, Updated, Struck, Closed, Changed
<1>5. Undisturbed /\ ops > 0
  <2>1. ops # 0 /\ ops \in Nat
    BY <1>1 DEF StartInv, Types
  <2> QED BY <1>3, <2>1 DEF Undisturbed, pastVars
<1>6. /\ SendingInv /\ Group \in Lists /\ Named(Group) \subseteq Agents
      /\ Holds(Convener)
      /\ \A b \in Named(Group) \ {Convener} :
           ~Coming(b, ListKinds) => CatchesUp(b)
  BY <1>5, GroupType DEF AgreeInv
<1>7. 1 \in DOMAIN inbox[a] /\ e = inbox[a][1] /\ Honest(e)
  BY <1>1, <1>2, TailAt, HeadType
<1> HIDE DEF e
<1>8. a = Convener => e.kind \notin ListKinds
  BY <1>5, <1>7 DEF ConvenerInv, ListsIn, Undisturbed
<1>9. Group' = Group
  <2>1. CASE a = Convener
    BY <1>6, <1>8, <2>1, HandleMembers DEF Group, e
  <2>2. CASE a # Convener
    BY <1>2, <1>4, <2>2 DEF Group
  <2> QED BY <2>1, <2>2
<1>10. SendingInv'
  <2>1. ASSUME NEW f \in fanouts, f.kind \in ListKinds
        PROVE  f.list = view'[Convener].members
    <3>1. f.list = view[Convener].members
            /\ LeaversFor(Convener, 0) \cap Named(f.list) = {}
      BY <1>6, <2>1 DEF SendingInv
    <3>2. CASE a = Convener
      BY <1>6, <1>8, <3>1, <3>2, HandleMembers DEF e
    <3>3. CASE a # Convener
      BY <1>4, <3>1, <3>3
    <3> QED BY <3>2, <3>3
  <2>2. \A b \in Agents : LeaversFor(b, 0)' \subseteq LeaversFor(b, 0)
    BY <1>2
  <2> QED BY <1>3, <1>6, <2>1, <2>2 DEF SendingInv
<1>11. ASSUME NEW b \in Named(Group) \ {Convener}, ~Coming(b, ListKinds)'
       PROVE  CatchesUp(b)'
  <2>1. b \in Agents /\ CatchesUp(b)
    BY <1>3, <1>6, <1>11 DEF Coming
  <2>2. CASE b # a
    BY <1>2, <1>4, <1>9, <2>1, <2>2 DEF CatchesUp, Holds
  <2>3. CASE b = a
    <3> DEFINE tail == Tail(inbox[a])
    <3>1. ASSUME NEW k \in ListsIn(tail), \A i \in ListsIn(tail) : i <= k
          PROVE  Without(tail[k].list, LeaversFor(a, k)') = Group
      <4>1. /\ k \in Nat /\ k + 1 \in ListsIn(inbox[a])
            /\ tail[k] = inbox[a][k + 1]
            /\ \A i \in ListsIn(inbox[a]) : i <= k + 1
        BY <1>1, <1>2, <3>1, LastInTail
      <4> HIDE DEF tail
      <4>2. Without(inbox[a][k + 1].list, LeaversFor(a, k + 1)) = Group
        BY <2>1, <2>3, <4>1 DEF CatchesUp
      <4> QED BY <1>2, <4>1, <4>2
    <3>2. ASSUME Holds(a)', ListsIn(tail) = {}
          PROVE  Without(view'[a].members, LeaversFor(a, 0)') = Group
      <4>1. ListsIn(inbox[a]) \subseteq {1}
        BY <1>1, <1>2, <3>2, ListsInTail
      <4>2. CASE e.kind \notin ListKinds
        <5>1. ListsIn(inbox[a]) = {}
          BY <1>7, <4>1, <4>2 DEF ListsIn
        <5>2. Holds(a)
          BY <3>2, <4>2, HandleHolds DEF Joined, ListKinds, e
        <5>3. Without(view[a].members, LeaversFor(a, 0)) = Group
          BY <2>1, <2>3, <5>1, <5>2 DEF CatchesUp
        <5> QED BY <4>2, <5>2, <5>3, HandleMembers DEF e
      <4>3. CASE e.kind \in ListKinds
        <5>1. 1 \in ListsIn(inbox[a]) /\ \A i \in ListsIn(inbox[a]) : i <= 1
          BY <1>7, <4>1, <4>3 DEF ListsIn
        <5>2. Without(e.list, LeaversFor(a, 1)) = Group
          BY <1>7, <2>1, <2>3, <5>1 DEF CatchesUp
        <5>3. ~Ignored(a, e)
          <6>1. e.names = e.from
            BY <1>5, <1>7, <4>3 DEF Honest, Undisturbed
          <6>2. Ignored(a, e) => Holds(a) /\ a \in related
            BY <1>11, <2>1, <2>3, <3>2 DEF Ignored, RelatedInv, Holds
          <6> QED BY <4>3, <6>1, <6>2 DEF Ignored, MayUpdate, ListKinds
        <5>4. view'[a].members = e.list
          BY <1>1, <4>3, <5>3
             DEF Joined, Updated, Struck, Closed, Changed, ListKinds, e
        <5>5. LeaversFor(a, 0)' = LeaversFor(a, 1)
          BY <1>2
        <5> QED BY <5>2, <5>4, <5>5
      <4> QED BY <4>2, <4>3
    <3> QED BY <1>2, <1>9, <2>3, <3>1, <3>2 DEF CatchesUp
  <2> QED BY <2>2, <2>3
<1> QED BY <1>9, <1>10, <1>11

(* What is said to the group changes nothing.                              *)
LEMMA TellAgree ==
  ASSUME BoundsAssumption, ConvenerAssumption, Types, StartInv, ConvenerInv,
         AgreeInv, NEW a \in Agents, Complete(a) \/ Broadcast(a)
  PROVE  AgreeInv'
<1>1. PICK kind \in {"complete", "chat"}, targets \in Lists :
        Begin(a, kind, NoList, targets)
  BY TellEffect
<1>2. /\ Holds(a) /\ UNCHANGED <<left, lists, conflict>>
      /\ \A b \in Agents :
           /\ Holds(b)' <=> Holds(b)
           /\ Holds(b) => view'[b].members = view[b].members
  BY TellEffect
<1>3. kind \in Kinds /\ NoList \in Lists /\ kind \notin ListKinds
        /\ kind # "leave"
  BY NoListType DEF Kinds, ListKinds
<1>4. /\ UNCHANGED <<inbox, announced, mishaps>>
      /\ fanouts' \subseteq fanouts \cup {NewFanout(a, kind, NoList, targets)}
      /\ \A b, kinds : Coming(b, kinds)' <=>
           Coming(b, kinds) \/ (kind \in kinds /\ b \in Named(targets))
      /\ \A b : LeaversComing(b)' = LeaversComing(b) \cup
           {c \in {a} : kind = "leave" /\ b \in Named(targets)}
  BY <1>1, <1>3, BeginEffect
<1>5. ops > 0
  BY <1>2 DEF StartInv, Holds, Types
<1>6. Undisturbed' => Undisturbed /\ ops > 0
  BY <1>2, <1>4, <1>5 DEF Undisturbed
<1> SUFFICES ASSUME Undisturbed'
             PROVE  AgreeInv'
  BY DEF AgreeInv
<1>7. \A f \in fanouts' : f.kind \in ListKinds => f \in fanouts
  BY <1>3, <1>4 DEF NewFanout, FanoutOf, OwnLetter
<1>8. \A b : /\ Coming(b, ListKinds)' <=> Coming(b, ListKinds)
             /\ LeaversComing(b)' = LeaversComing(b)
  BY <1>3, <1>4
<1>9. view'[Convener].members = view[Convener].members
  BY <1>2, <1>6, GroupType
<1> QED BY <1>2, <1>4, <1>6, <1>7, <1>8, <1>9, AgreeKept

(* Who has left is not the convener, and has told everyone.                *)
LEMMA LeaveEndsAgree ==
  ASSUME Types, StartInv, SentInv, ConvenerInv, AgreeInv,
         NEW f \in fanouts, LeaveEnds(f)
  PROVE  AgreeInv'
<1>1. /\ DOMAIN f.left = {} /\ f.kind = "leave" /\ fanouts' = fanouts \ {f}
      /\ view' = [view EXCEPT ![f.at] = NoRecord]
      /\ UNCHANGED <<inbox, ops, left, lists, announced, mishaps, conflict>>
  BY DEF LeaveEnds, pastVars
<1> SUFFICES ASSUME Undisturbed'
             PROVE  AgreeInv'
  BY DEF AgreeInv
<1>2. Undisturbed /\ f.at # Convener
  BY <1>1 DEF Undisturbed, SentInv, Honest, Letter
<1>3. ops > 0
  BY DEF StartInv, Types
<1>4. Named(f.left) = {} /\ f.kind \notin ListKinds
  BY <1>1 DEF Named, Range, ListKinds
<1>5. \A b : /\ Coming(b, ListKinds)' <=> Coming(b, ListKinds)
             /\ LeaversComing(b)' = LeaversComing(b)
  BY <1>1, <1>4 DEF Coming, LeaversComing
<1>6. /\ view'[Convener].members = view[Convener].members
      /\ \A b \in Agents \ {Convener} : Holds(b)' =>
           Holds(b) /\ view'[b].members = view[b].members
  BY <1>1, <1>2, ConvenerAssumption DEF Types, Holds
<1> QED BY <1>1, <1>2, <1>3, <1>5, <1>6, AgreeKept

(* Where nothing changes, the copies still agree.                          *)
LEMMA AgreeStutter ==
  ASSUME Types, ConvenerInv, AgreeInv, UNCHANGED vars,
         \A b : /\ Coming(b, ListKinds)' <=> Coming(b, ListKinds)
                /\ LeaversComing(b)' = LeaversComing(b)
  PROVE  AgreeInv'
<1> SUFFICES ASSUME Undisturbed', ops' > 0
             PROVE  AgreeInv'
  BY DEF AgreeInv
<1>1. Undisturbed /\ ops > 0
  BY DEF vars, pastVars, Undisturbed
<1> QED BY <1>1, AgreeKept DEF vars, Holds

(* Every step keeps the copies in agreement.                               *)
LEMMA AgreeStep ==
  Types /\ StartInv /\ SentInv /\ RoleInv /\ RelatedInv /\ ConvenerInv
    /\ AgreeInv /\ [Next]_vars
    => AgreeInv'
<1> SUFFICES ASSUME Types, StartInv, SentInv, RoleInv, RelatedInv,
                    ConvenerInv, AgreeInv, [Next]_vars
             PROVE  AgreeInv'
  OBVIOUS
<1> USE ConvenerAssumption, BoundsAssumption, InviteesAssumption,
        AnnouncementsAssumption
<1>1. ASSUME NEW others \in Invitees, Start(others)
      PROVE  AgreeInv'
  <2> DEFINE list == <<Convener>> \o others
  <2>1. /\ list \in Lists /\ others \in Lists
        /\ Begin(Convener, "invite", list, others) /\ NewList(list)
        /\ Changed(Convener, list, FALSE)
        /\ Named(list) = Named(others) \cup {Convener}
    BY <1>1, StartEffect
  <2> HIDE DEF list
  <2>2. Named(list) \ {Convener} \subseteq Named(others)
          /\ "invite" \in ListKinds
    BY <2>1 DEF ListKinds
  <2> QED BY <2>1, <2>2, NewListAgree
<1>2. ASSUME NEW a \in Agents, NEW n \in Agents,
             AddMember(a, n) \/ RemoveMember(a, n)
      PROVE  AgreeInv'
  <2>1. PICK list, targets \in Lists :
          /\ Convenes(a) /\ Begin(a, "update", list, targets) /\ NewList(list)
          /\ Changed(a, list, view[a].done)
          /\ Named(list) \ {a} \subseteq Named(targets)
    BY <1>2, UpdateEffect
  <2> SUFFICES ASSUME Undisturbed'
               PROVE  AgreeInv'
    BY DEF AgreeInv
  <2>2. a = Convener
    <3>1. announced = {}
      BY <2>1, BeginEffect DEF Undisturbed, Kinds, ListKinds
    <3> QED BY <2>1, <3>1, ConvenersType DEF Convenes, RoleInv
  <2>3. "update" \in ListKinds
    BY DEF ListKinds
  <2> QED BY <2>1, <2>2, <2>3, NewListAgree
<1>4. ASSUME NEW a \in Agents, Leave(a)
      PROVE  AgreeInv'
  BY <1>4, LeaveAgree
<1>5. ASSUME NEW a \in Agents, Complete(a) \/ Broadcast(a)
      PROVE  AgreeInv'
  BY <1>5, TellAgree
<1>7. ASSUME NEW f \in fanouts, SendNext(f)
      PROVE  AgreeInv'
  BY <1>7, SendNextAgree
<1>8. ASSUME NEW f \in fanouts, SendFails(f)
      PROVE  AgreeInv'
  BY <1>8 DEF SendFails, Mishap, AgreeInv, Undisturbed, Types
<1>9. ASSUME NEW f \in fanouts, LeaveEnds(f)
      PROVE  AgreeInv'
  BY <1>9, LeaveEndsAgree
<1>10. ASSUME NEW a \in Agents, Handle(a)
      PROVE  AgreeInv'
  BY <1>10, HandleAgree
<1>11. ASSUME NEW a \in Agents, Lose(a)
      PROVE  AgreeInv'
  BY <1>11 DEF Lose, Mishap, AgreeInv, Undisturbed, Types
<1>12. ASSUME NEW a \in Agents, Crash(a)
      PROVE  AgreeInv'
  BY <1>12 DEF Crash, Mishap, AgreeInv, Undisturbed, Types
<1>13. CASE UNCHANGED vars
  <2>1. \A b : /\ Coming(b, ListKinds)' <=> Coming(b, ListKinds)
               /\ LeaversComing(b)' = LeaversComing(b)
    BY <1>13 DEF vars, Coming, LeaversComing
  <2> QED BY <1>13, <2>1, AgreeStutter
<1>14. ASSUME NEW n \in Announcements, Announce(n)
       PROVE  AgreeInv'
  BY <1>14, AnnounceEffect DEF AgreeInv, Undisturbed
<1> QED
  BY <1>1, <1>2, <1>4, <1>5, <1>7, <1>8, <1>9, <1>10, <1>11, <1>12, <1>13,
     <1>14
     DEF Next

-----------------------------------------------------------------------------
(* The invariant.                                                          *)

(* The invariant holds initially.                                          *)
LEMMA IInit == Init => IInv
<1> SUFFICES ASSUME Init PROVE IInv
  OBVIOUS
<1>1. /\ related \in Acquaintances /\ view = [a \in Agents |-> NoRecord]
      /\ inbox = [a \in Agents |-> <<>>] /\ fanouts = {} /\ ops = 0
      /\ left = {} /\ lists = {} /\ announced = {}
      /\ mishaps = 0 /\ conflict = FALSE
  BY DEF Init
<1>2. Types
  <2>1. related \in SUBSET Agents
    BY <1>1, AcquaintancesAssumption
  <2>2. ops \in 0..MaxOps /\ mishaps \in 0..MaxMishaps
    BY <1>1, BoundsAssumption
  <2>3. conflict \in BOOLEAN
    BY <1>1
  <2> QED BY <1>1, <2>1, <2>2, <2>3 DEF Types
<1>3. \A a \in Agents : ~Holds(a) /\ inbox[a] = <<>> /\ ~Coming(a, {"invite"})
                        /\ ~Coming(a, ListKinds)
  BY <1>1 DEF Holds, Coming
<1>4. NumberInv /\ StartInv
  BY <1>1, <1>3 DEF NumberInv, StartInv
<1>5. \A a \in Agents : ListsIn(inbox[a]) = {} /\ InvitesIn(inbox[a]) = {}
  BY <1>3 DEF ListsIn, InvitesIn
<1>6. SentInv
  BY <1>1, <1>3 DEF SentInv
<1>7. SizeInv /\ RoleInv
  BY <1>1, <1>3 DEF SizeInv, ListsFromConvener, RoleInv
<1>8. InviteInv /\ RelatedInv
  BY <1>1, <1>3, <1>5 DEF InviteInv, RelatedInv
<1>9. ConvenerInv /\ AgreeInv
  BY <1>1, <1>3, <1>5, ConvenerAssumption DEF ConvenerInv, AgreeInv
<1> QED BY <1>2, <1>4, <1>6, <1>7, <1>8, <1>9 DEF IInv

(* Every step preserves the invariant.                                     *)
LEMMA IStep == IInv /\ [Next]_vars => IInv'
BY TypesStep, NumberStep, StartStep, SentStep, RoleStep, SizeStep,
   InviteStep, RelatedStep, ConvenerStep, AgreeStep DEF IInv

(* The invariant holds always.                                             *)
LEMMA Invariance == Spec => []IInv
BY IInit, IStep, PTL DEF Spec

-----------------------------------------------------------------------------
(* The theorems.                                                           *)

(* Records, lists, fan-outs and envelopes are of their types; no group     *)
(* grows beyond its cap, and fan-outs are told apart by their number.      *)
THEOREM TypeCorrect == Spec => []TypeOK
<1>1. IInv => TypeOK
  <2> SUFFICES ASSUME IInv PROVE TypeOK
    OBVIOUS
  <2>1. \A a \in Agents : Holds(a) => Size(view[a].members) <= MaxMembers
    BY HolderSize, BoundsAssumption, AnnouncementsAssumption DEF IInv
  <2> QED BY <2>1 DEF IInv, Types, NumberInv, Holds, TypeOK
<1> QED BY <1>1, Invariance, PTL

(* What an agent stores of a conversation is a list put in force or sent   *)
(* by an agent that started it, declared itself its convener or was handed *)
(* the role, but for agents that have left: nobody else's updates replace  *)
(* it (_handle_group_membership_update).                                   *)
THEOREM ListsAreConveners == Spec => []ListsFromConvener
<1>1. IInv => ListsFromConvener
  BY DEF IInv, SizeInv
<1> QED BY <1>1, Invariance, PTL

(* In a group that is changed step by step the copies agree once the       *)
(* envelopes have arrived, however the steps of the agents interleave.     *)
THEOREM CopiesAgree == Spec => []SettledViewsAgree
<1>1. IInv => SettledViewsAgree
  <2> SUFFICES ASSUME IInv, NEW a \in Agents, SettledMember(a), Holds(a)
               PROVE  view[a].members = view[Convener].members
    BY DEF SettledViewsAgree
  <2> USE ConvenerAssumption
  <2>1. /\ Types /\ StartInv /\ ConvenerInv /\ AgreeInv
        /\ Undisturbed /\ Settled(a) /\ Settled(Convener)
             /\ Listed(Convener, a)
    BY DEF IInv, SettledMember
  <2>2. ops > 0
    BY <2>1 DEF StartInv, Holds, Types
  <2>3. /\ view[Convener].members \in Lists /\ view[a].members \in Lists
        /\ a \in Named(view[Convener].members)
    BY <2>1, MembersType DEF Listed
  <2>4. ASSUME NEW b \in Agents, Settled(b)
        PROVE  LeaversFor(b, 0) = {}
    <3>1. \A e \in OnTheWay(b) : e.kind # "leave"
      BY <2>4 DEF Settled
    <3> QED BY <3>1, LeaversOnTheWay
  <2>5. Group = view[Convener].members
    BY <2>1, <2>3, <2>4, WholeList DEF Group
  <2>6. CASE a # Convener
    <3>1. ~ListAwaits(a)
      BY <2>1 DEF Settled, ListAwaits, ListKinds
    <3>2. ~Coming(a, ListKinds) /\ ListsIn(inbox[a]) = {}
      BY <3>1, ListsAwaited
    <3>3. Without(view[a].members, LeaversFor(a, 0)) = Group
      BY <2>1, <2>2, <2>3, <2>5, <2>6, <3>2 DEF AgreeInv, CatchesUp
    <3>4. Without(view[a].members, {}) = Group
      BY <2>1, <2>4, <3>3
    <3> QED BY <2>3, <2>5, <3>4, WholeList
  <2> QED BY <2>6
<1> QED BY <1>1, Invariance, PTL

(* One that was named once does not come back, and stays completed.        *)
Keeps(b) ==
  NamedOnce(b) =>
    /\ b \in left /\ ~Holds(b) => ~Holds(b)'
    /\ Holds(b) /\ view[b].done /\ Holds(b)' => view'[b].done

(* Every step keeps what has been left left, and what is complete so.      *)
LEMMA KeepsStep ==
  Types /\ StartInv /\ SentInv /\ InviteInv /\ [Next]_vars
    => \A b \in Agents : Keeps(b)
<1> SUFFICES ASSUME Types, StartInv, SentInv, InviteInv, [Next]_vars
             PROVE  \A b \in Agents : Keeps(b)
  OBVIOUS
<1> USE ConvenerAssumption, BoundsAssumption, InviteesAssumption,
        AnnouncementsAssumption
<1>1. ASSUME NEW others \in Invitees, Start(others)
      PROVE  \A b \in Agents : Keeps(b)
  <2>1. \A b \in Agents : ~Holds(b) /\ b \notin left
    BY <1>1 DEF Start, StartInv, Holds
  <2> QED BY <2>1 DEF Keeps
<1>2. ASSUME NEW a \in Agents, NEW n \in Agents,
             AddMember(a, n) \/ RemoveMember(a, n)
      PROVE  \A b \in Agents : Keeps(b)
  <2>1. PICK list \in Lists : Holds(a) /\ Changed(a, list, view[a].done)
    BY <1>2, UpdateEffect
  <2> QED BY <2>1 DEF Changed, Holds, Keeps
<1>4. ASSUME NEW a \in Agents, Leave(a)
      PROVE  \A b \in Agents : Keeps(b)
  BY <1>4 DEF Leave, Holds, Keeps
<1>5. ASSUME NEW a \in Agents, Complete(a) \/ Broadcast(a)
      PROVE  \A b \in Agents : Keeps(b)
  <2>1. Holds(a) /\ (view' = view \/ Changed(a, view[a].members, TRUE))
    BY <1>5, TellEffect
  <2> QED BY <2>1 DEF Changed, Holds, Keeps
<1>7. ASSUME NEW f \in fanouts, SendNext(f)
      PROVE  \A b \in Agents : Keeps(b)
  BY <1>7 DEF SendNext, Holds, Keeps
<1>8. ASSUME NEW f \in fanouts, SendFails(f)
      PROVE  \A b \in Agents : Keeps(b)
  BY <1>8 DEF SendFails, Holds, Keeps
<1>9. ASSUME NEW f \in fanouts, LeaveEnds(f)
      PROVE  \A b \in Agents : Keeps(b)
  BY <1>9 DEF LeaveEnds, Holds, Keeps, Types
<1>10. ASSUME NEW a \in Agents, Handle(a)
      PROVE  \A b \in Agents : Keeps(b)
  <2> DEFINE e == Head(inbox[a])
  <2>1. /\ inbox[a] # <<>> /\ inbox[a] \in Seq(Envelope)
        /\ \/ Ignored(a, e) \/ Joined(a, e) \/ Updated(a, e) \/ Struck(a, e)
           \/ Closed(a, e)
    BY <1>10, HandleEffect DEF Types
  <2>2. e.kind = "invite" => InvitesIn(inbox[a]) # {}
    BY <2>1, TailAt DEF InvitesIn
  <2> HIDE DEF e
  <2>3. Joined(a, e) => ~NamedOnce(a) \/ (~Holds(a) /\ a \notin left)
    <3>1. NamedOnce(a) => (Holds(a) \/ a \in left => InvitesIn(inbox[a]) = {})
      BY DEF InviteInv
    <3>2. Joined(a, e) => e.kind = "invite"
      BY DEF Joined
    <3> QED BY <2>2, <3>1, <3>2
  <2>4. Keeps(a)
    BY <2>1, <2>3
       DEF Ignored, Joined, Updated, Struck, Closed, Changed, Holds, Keeps
  <2>5. \A b \in Agents \ {a} : view'[b] = view[b]
    BY <2>1 DEF Ignored, Joined, Updated, Struck, Closed, Changed
  <2> QED BY <2>4, <2>5 DEF Holds, Keeps
<1>11. ASSUME NEW a \in Agents, Lose(a)
      PROVE  \A b \in Agents : Keeps(b)
  BY <1>11 DEF Lose, Holds, Keeps
<1>12. ASSUME NEW a \in Agents, Crash(a)
      PROVE  \A b \in Agents : Keeps(b)
  BY <1>12 DEF Crash, Holds, Keeps
<1>13. CASE UNCHANGED vars
  BY <1>13 DEF vars, Holds, Keeps
<1>14. ASSUME NEW n \in Announcements, Announce(n)
       PROVE  \A b \in Agents : Keeps(b)
  BY <1>14 DEF Announce, Holds, Keeps
<1> QED
  BY <1>1, <1>2, <1>4, <1>5, <1>7, <1>8, <1>9, <1>10, <1>11, <1>12, <1>13,
     <1>14
     DEF Next

(* An agent that has left does not come back: a late update finds no       *)
(* record (_handle_group_membership_update), and no second invitation is   *)
(* on its way to it.                                                       *)
THEOREM LeaversAreOut == Spec => LeaversStayOut
<1>1. IInv /\ [Next]_vars =>
        [\A a \in left : NamedOnce(a) /\ ~Holds(a) => ~Holds(a)']_view
  <2>1. IInv => left \subseteq Agents
    BY DEF IInv, Types
  <2> QED BY <2>1, KeepsStep DEF IInv, Keeps
<1> QED BY <1>1, Invariance, PTL DEF Spec, LeaversStayOut

(* No later envelope takes the completion back that a store has recorded   *)
(* (_handle_group_complete).                                               *)
THEOREM CompletionIsFinal == Spec => CompletionSticks
<1>1. IInv /\ [Next]_vars =>
        [\A a \in Agents :
           NamedOnce(a) /\ Holds(a) /\ view[a].done =>
             (Holds(a) => view[a].done)']_view
  BY KeepsStep DEF IInv, Keeps
<1> QED BY <1>1, Invariance, PTL DEF Spec, CompletionSticks

=============================================================================
