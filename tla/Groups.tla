-------------------------------- MODULE Groups --------------------------------
(***************************************************************************)
(* One group conversation, at all of its agents: the records each of them  *)
(* keeps in its conversation store, the fan-outs that invite, update,      *)
(* leave, complete and chat (src/tools.py, src/commands.py), and the       *)
(* handlers of what arrives (src/adapter.py).                              *)
(*                                                                         *)
(* A fan-out sends one envelope per member, in list order, from a list     *)
(* read when it starts, with an await per send; between two sends other    *)
(* commands of the agent and its dispatch loop run.  A send that fails is  *)
(* reported and skipped.  The inbox of an agent is a channel that delivers *)
(* in order and at most once and may lose, which InboxPipeline shows of    *)
(* the pipeline.  A handler changes the store before its first await, so   *)
(* it is one step.                                                         *)
(*                                                                         *)
(* The conversation id is fresh, so there is one Start.  The code has no   *)
(* operation that hands the convener's role over, but the update handler   *)
(* takes an agent for the convener when its update says it is, or when the *)
(* one on record says so; another implementation of the protocol may send  *)
(* such updates, and Announce is all of it that is modelled: its own store,*)
(* its invitations and its completions are not.  Who has a relationship    *)
(* with the convener is chosen once.                                       *)
(***************************************************************************)
EXTENDS Naturals, Sequences, FiniteSets, Functions

CONSTANTS
  Agents,
  Convener,
  Acquaintances, \* which agents may have a relationship with the convener
  Invitees,    \* bound: the lists of others a Start may name, as sequences
  Announcements, \* bound: the updates other implementations may send
  MaxMembers,  \* size cap of a group, 10 in the code
  MaxOps,      \* bound: number of fan-outs
  MaxMishaps,  \* bound: number of failures
  NoRecord

ASSUME ConvenerAssumption == Convener \in Agents
ASSUME AcquaintancesAssumption ==
  Acquaintances \subseteq SUBSET (Agents \ {Convener})
ASSUME InviteesAssumption == Invitees \subseteq Seq(Agents \ {Convener})
ASSUME BoundsAssumption   == {MaxMembers, MaxOps, MaxMishaps} \subseteq Nat

(* Member lists: who stands at which place.  A list is read in the order   *)
(* of its places, may name an agent twice, and keeps a gap for who goes.   *)
Places == 1..(MaxMembers + MaxOps)
Lists  == UNION {[some -> Agents] : some \in SUBSET Places}

Named(list) == Range(list)
Size(list)  == Cardinality(DOMAIN list)
NoList      == [p \in {} |-> Convener]

Without(list, gone) ==
  Restrict(list, {p \in DOMAIN list : list[p] \notin gone})

First(list) == CHOOSE p \in DOMAIN list : \A q \in DOMAIN list : p <= q
Rest(list)  == Restrict(list, DOMAIN list \ {First(list)})

(* What an agent stores of the conversation.                               *)
Record == [members : Lists, done : BOOLEAN, convener : Agents]

ASSUME NoRecordAssumption == NoRecord \notin Record

(* An update of another implementation: who sends it, whom it names as the *)
(* convener, and whether it says that the role has changed hands.          *)
Announcement == [from : Agents, list : Lists, names : Agents, changed : BOOLEAN]

ASSUME AnnouncementsAssumption ==
  Announcements \subseteq {n \in Announcement : Size(n.list) <= MaxMembers}

(* The envelopes: an invitation and an update carry the member list and    *)
(* name the convener, as the sender knows them.                            *)
ListKinds == {"invite", "update"}
Kinds     == ListKinds \cup {"leave", "complete", "chat"}

Envelope == [kind : Kinds, from : Agents, list : Lists,
             names : Agents, changed : BOOLEAN]

(* A fan-out suspended in a send: left are the recipients still to come.   *)
Fanout == [op : 1..MaxOps, at : Agents, kind : Kinds, list : Lists,
           names : Agents, changed : BOOLEAN, left : Lists]

Letter(f) == [kind |-> f.kind, from |-> f.at, list |-> f.list,
              names |-> f.names, changed |-> f.changed]

VARIABLES
  related,   \* agents that have a relationship with the convener
  view,      \* view[a]: the record of the conversation in a's store
  inbox,     \* inbox[a]: envelopes on their way to a's dispatch loop
  fanouts,   \* fan-outs in progress
  ops,       \* number of fan-outs so far
  left,      \* history: agents that have begun to leave
  lists,     \* history: member lists a convener has put in force
  announced, \* history: updates sent by other implementations
  mishaps,   \* history: envelopes lost and fan-outs cut short
  conflict   \* history: two membership changes were under way at once

pastVars == <<left, lists, announced, mishaps, conflict>>
vars == <<related, view, inbox, fanouts, ops, pastVars>>

TypeOK ==
  /\ related \in SUBSET Agents
  /\ view \in [Agents -> Record \cup {NoRecord}]
  /\ \A a \in Agents :
       view[a] # NoRecord => Size(view[a].members) <= MaxMembers
  /\ inbox \in [Agents -> Seq(Envelope)]
  /\ fanouts \in SUBSET Fanout
  /\ \A f, g \in fanouts : f.op = g.op => f = g
  /\ ops \in 0..MaxOps
  /\ left \in SUBSET Agents
  /\ lists \in SUBSET Lists
  /\ announced \in SUBSET Announcements
  /\ mishaps \in 0..MaxMishaps /\ conflict \in BOOLEAN

Init ==
  /\ related \in Acquaintances
  /\ view = [a \in Agents |-> NoRecord]
  /\ inbox = [a \in Agents |-> <<>>]
  /\ fanouts = {} /\ ops = 0
  /\ left = {} /\ lists = {} /\ announced = {}
  /\ mishaps = 0 /\ conflict = FALSE

-----------------------------------------------------------------------------
(* The conversation store of the SDK.                                      *)
Holds(a) == view[a] # NoRecord

Listed(a, b) == Holds(a) /\ b \in Named(view[a].members)

(* What the commands for conveners check.                                  *)
Convenes(a) == Holds(a) /\ view[a].convener = a

ReplaceMembers(a, list) == view' = [view EXCEPT ![a].members = list]

-----------------------------------------------------------------------------
(* Which membership changes are under way.                                 *)

(* The envelopes on their way to a, those not yet sent included.           *)
OnTheWay(a) ==
  Range(inbox[a])
    \cup {Letter(f) : f \in {g \in fanouts : a \in Named(g.left)}}

Settled(a) == \A e \in OnTheWay(a) : e.kind \in {"complete", "chat"}

ListAwaits(a) == \E e \in OnTheWay(a) : e.kind \in ListKinds

(* A list is still being sent out.                                         *)
ListsBeingSent == \E f \in fanouts : f.kind \in ListKinds

(* Agents someone has yet to learn have left.                              *)
LeaversUnderWay ==
  {e.from : e \in {e \in UNION {OnTheWay(a) : a \in Agents} : e.kind = "leave"}}

(* Only a leave has something to do after the last send has returned.      *)
Unfinished(fs) == {f \in fs : DOMAIN f.left # {} \/ f.kind = "leave"}

(* A fan-out of this letter begins.                                        *)
FanoutOf(letter, targets) ==
  [op |-> ops + 1, at |-> letter.from, kind |-> letter.kind,
   list |-> letter.list, names |-> letter.names, changed |-> letter.changed,
   left |-> targets]

BeginLetter(letter, targets) ==
  /\ ops < MaxOps
  /\ ops' = ops + 1
  /\ fanouts' = Unfinished(fanouts \cup {FanoutOf(letter, targets)})
  /\ UNCHANGED <<related, inbox, mishaps>>

(* What a says: where it names a convener, that is a itself.               *)
OwnLetter(a, kind, list) ==
  [kind |-> kind, from |-> a, list |-> list, names |-> a, changed |-> FALSE]

Begin(a, kind, list, targets) ==
  /\ BeginLetter(OwnLetter(a, kind, list), targets)
  /\ UNCHANGED announced

(* A convener puts a new list in force.                                    *)
NewList(list) ==
  /\ lists' = lists \cup {list}
  /\ conflict' = (conflict \/ ListsBeingSent
                           \/ LeaversUnderWay \cap Named(list) # {})
  /\ UNCHANGED left

-----------------------------------------------------------------------------
(* aap_group_start and /aap group start: the record first, then the        *)
(* invitations.  A peer named twice is listed and invited twice.           *)
Start(others) ==
  LET list == <<Convener>> \o others
  IN /\ ops = 0
     /\ others # <<>> /\ Size(list) <= MaxMembers
     /\ view' = [view EXCEPT ![Convener] =
                   [members |-> list, done |-> FALSE, convener |-> Convener]]
     /\ Begin(Convener, "invite", list, others)
     /\ NewList(list)

(* A place after all that have been in use: one more per operation.        *)
NextPlace == MaxMembers + ops + 1

Extended(list, n) ==
  [p \in DOMAIN list \cup {NextPlace} |-> IF p = NextPlace THEN n ELSE list[p]]

(* /aap group add: the newcomer is sent the update like everyone else.     *)
AddMember(a, n) ==
  LET list == Extended(view[a].members, n)
  IN /\ Convenes(a) /\ ~Listed(a, n)
     /\ Size(list) <= MaxMembers
     /\ ReplaceMembers(a, list)
     /\ Begin(a, "update", list, Without(list, {a}))
     /\ NewList(list)

(* Mutant of RemoveMember: the others are sent the list as it was.         *)
RemoveMemberHere(a, n) ==
  LET old == view[a].members
  IN /\ Convenes(a) /\ Listed(a, n)
     /\ ReplaceMembers(a, Without(old, {n}))
     /\ Begin(a, "update", old, Without(old, {a}))
     /\ NewList(Without(old, {n}))

(* /aap group remove: the removed agent is told, too.                      *)
RemoveMember(a, n) ==
  LET old  == view[a].members
      list == Without(old, {n})
  IN /\ Convenes(a) /\ Listed(a, n)
     /\ ReplaceMembers(a, list)
     /\ Begin(a, "update", list, Without(old, {a}))
     /\ NewList(list)

(* /aap group leave: the record stays until everyone has been told.        *)
Leave(a) ==
  /\ Holds(a)
  /\ Begin(a, "leave", NoList, Without(view[a].members, {a}))
  /\ conflict' = (conflict \/ ListsBeingSent \/ ListAwaits(a)
                           \/ ~Listed(a, Convener))
  /\ left' = left \cup {a}
  /\ UNCHANGED <<view, lists>>

(* aap_group_complete.                                                     *)
Complete(a) ==
  /\ Convenes(a)
  /\ view' = [view EXCEPT ![a].done = TRUE]
  /\ Begin(a, "complete", NoList, Without(view[a].members, {a}))
  /\ UNCHANGED <<left, lists, conflict>>

(* aap_group_send and /aap group send.                                     *)
Broadcast(a) ==
  /\ Holds(a)
  /\ Begin(a, "chat", NoList, Without(view[a].members, {a}))
  /\ UNCHANGED <<view, left, lists, conflict>>

(* Another implementation sends an update.                                 *)
UpdateOf(n) == [kind |-> "update", from |-> n.from, list |-> n.list,
                names |-> n.names, changed |-> n.changed]

Announce(n) ==
  /\ ops > 0
  /\ BeginLetter(UpdateOf(n), Without(n.list, {n.from}))
  /\ announced' = announced \cup {n}
  /\ UNCHANGED <<view, left, lists, conflict>>

-----------------------------------------------------------------------------
(* Something goes wrong.                                                   *)
Mishap == mishaps < MaxMishaps /\ mishaps' = mishaps + 1

(* The fan-out goes on to its next recipient.                              *)
Advance(f) ==
  fanouts' = Unfinished((fanouts \ {f}) \cup {[f EXCEPT !.left = Rest(@)]})

(* The relay accepts the envelope for the next recipient.                  *)
SendNext(f) ==
  /\ DOMAIN f.left # {}
  /\ inbox' = [inbox EXCEPT ![f.left[First(f.left)]] =
                 Append(@, Letter(f))]
  /\ Advance(f)
  /\ UNCHANGED <<related, view, ops, pastVars>>

(* The send raises; the loop goes on.                                      *)
SendFails(f) ==
  /\ DOMAIN f.left # {}
  /\ Advance(f)
  /\ Mishap
  /\ UNCHANGED <<related, view, inbox, ops, left, lists, announced, conflict>>

(* Mutant of LeaveEnds: a leave waits for its record, which another leave  *)
(* may have dissolved.                                                     *)
LeaveEndsOnce(f) ==
  /\ DOMAIN f.left = {} /\ f.kind = "leave" /\ Holds(f.at)
  /\ fanouts' = fanouts \ {f}
  /\ view' = [view EXCEPT ![f.at] = NoRecord]
  /\ UNCHANGED <<related, inbox, ops, pastVars>>

(* The last send has returned; the leaver dissolves its record.            *)
LeaveEnds(f) ==
  /\ DOMAIN f.left = {} /\ f.kind = "leave"
  /\ fanouts' = fanouts \ {f}
  /\ view' = [view EXCEPT ![f.at] = NoRecord]
  /\ UNCHANGED <<related, inbox, ops, pastVars>>

-----------------------------------------------------------------------------
Received(a, kind) == inbox[a] # <<>> /\ Head(inbox[a]).kind = kind

(* The dispatch loop takes the first envelope.                             *)
Take(a) ==
  /\ inbox' = [inbox EXCEPT ![a] = Tail(@)]
  /\ UNCHANGED <<related, fanouts, ops, pastVars>>

(* Mutant of InvitationAccepted: the invitation is parked for the user,   *)
(* which is what /aap group accept is for.                                 *)
InvitationParked(a) ==
  /\ Received(a, "invite") /\ a \in related
  /\ Take(a)
  /\ UNCHANGED view

(* _handle_group_invitation accepts what someone related sends.            *)
InvitationAccepted(a) ==
  /\ Received(a, "invite") /\ a \in related
  /\ view' = [view EXCEPT ![a] = [members |-> Head(inbox[a]).list,
                                  done |-> FALSE,
                                  convener |-> Head(inbox[a]).names]]
  /\ Take(a)

InvitationDropped(a) ==
  /\ Received(a, "invite") /\ a \notin related
  /\ Take(a)
  /\ UNCHANGED view

(* Mutant of Update: the conversation is recorded anew.                    *)
RecordAnew(a, e) ==
  view' = [view EXCEPT ![a] = [members |-> e.list, done |-> FALSE,
                               convener |-> e.names]]

(* The list replaces the old one; the convener, if it says there is a new  *)
(* one.                                                                    *)
Update(a, e) ==
  view' = [view EXCEPT ![a].members = e.list,
                       ![a].convener = IF e.changed THEN e.names ELSE @]

(* Mutant of MayUpdate: whom the update names is not asked.                *)
AnyMayUpdate(a, e) == Holds(a)

(* The sender is the convener on record, or the one its update names.      *)
MayUpdate(a, e) == Holds(a) /\ e.from \in {view[a].convener, e.names}

(* Mutant of UpdateApplied: an update for an unknown conversation is taken *)
(* for an invitation.                                                      *)
UpdateAlwaysApplied(a) ==
  LET e == Head(inbox[a])
  IN /\ Received(a, "update") /\ (Holds(a) => MayUpdate(a, e))
     /\ IF Holds(a) THEN Update(a, e) ELSE RecordAnew(a, e)
     /\ Take(a)

(* _handle_group_membership_update.                                        *)
UpdateApplied(a) ==
  /\ Received(a, "update") /\ MayUpdate(a, Head(inbox[a]))
  /\ Update(a, Head(inbox[a]))
  /\ Take(a)

(* No record of the conversation, or not from its convener.                *)
UpdateDropped(a) ==
  /\ Received(a, "update") /\ ~MayUpdate(a, Head(inbox[a]))
  /\ Take(a)
  /\ UNCHANGED view

(* _handle_group_leave.                                                    *)
LeaverRemoved(a) ==
  LET leaver == Head(inbox[a]).from
  IN /\ Received(a, "leave") /\ Listed(a, leaver)
     /\ ReplaceMembers(a, Without(view[a].members, {leaver}))
     /\ Take(a)

LeaveDropped(a) ==
  /\ Received(a, "leave") /\ ~Listed(a, Head(inbox[a]).from)
  /\ Take(a)
  /\ UNCHANGED view

(* _handle_group_complete.                                                 *)
MarkedComplete(a) ==
  /\ Received(a, "complete") /\ Holds(a)
  /\ Head(inbox[a]).from = view[a].convener
  /\ view' = [view EXCEPT ![a].done = TRUE]
  /\ Take(a)

CompleteDropped(a) ==
  /\ Received(a, "complete")
  /\ Holds(a) => Head(inbox[a]).from # view[a].convener
  /\ Take(a)
  /\ UNCHANGED view

(* The group part of the chat gate in _dispatch.                           *)
Accepts(a, sender) == Listed(a, sender)

ChatAccepted(a) ==
  /\ Received(a, "chat") /\ Accepts(a, Head(inbox[a]).from)
  /\ Take(a)
  /\ UNCHANGED view

ChatDropped(a) ==
  /\ Received(a, "chat") /\ ~Accepts(a, Head(inbox[a]).from)
  /\ Take(a)
  /\ UNCHANGED view

Handle(a) ==
  \/ InvitationAccepted(a) \/ InvitationDropped(a)
  \/ UpdateApplied(a)      \/ UpdateDropped(a)
  \/ LeaverRemoved(a)      \/ LeaveDropped(a)
  \/ MarkedComplete(a)     \/ CompleteDropped(a)
  \/ ChatAccepted(a)       \/ ChatDropped(a)

-----------------------------------------------------------------------------
(* The relay or the pipeline loses the first envelope.                     *)
Lose(a) ==
  /\ inbox[a] # <<>>
  /\ inbox' = [inbox EXCEPT ![a] = Tail(@)]
  /\ Mishap
  /\ UNCHANGED <<related, view, fanouts, ops, left, lists, announced, conflict>>

(* The process of a dies in the middle of a fan-out; its store stays.      *)
Crash(a) ==
  /\ \E f \in fanouts : f.at = a
  /\ fanouts' = {f \in fanouts : f.at # a}
  /\ Mishap
  /\ UNCHANGED <<related, view, inbox, ops, left, lists, announced, conflict>>

Next ==
  \/ \E others \in Invitees : Start(others)
  \/ \E a, n \in Agents : AddMember(a, n) \/ RemoveMember(a, n)
  \/ \E a \in Agents : Leave(a) \/ Complete(a) \/ Broadcast(a)
  \/ \E n \in Announcements : Announce(n)
  \/ \E f \in fanouts : SendNext(f) \/ SendFails(f) \/ LeaveEnds(f)
  \/ \E a \in Agents : Handle(a) \/ Lose(a) \/ Crash(a)

Spec == Init /\ [][Next]_vars

(* The event loop runs a fan-out on, and every dispatch loop takes the     *)
(* next envelope (EveryRowBegun of InboxPipeline).                         *)
FairSpec ==
  /\ Spec
  /\ WF_vars(\E f \in fanouts : SendNext(f) \/ SendFails(f) \/ LeaveEnds(f))
  /\ \A a \in Agents : WF_vars(Handle(a))

-----------------------------------------------------------------------------
(* Who may pass for the convener somewhere: who started the group, who has *)
(* said it is the convener itself, and to whom one of them has handed the  *)
(* role over.                                                              *)
HandsOverIn(C) ==
  /\ Convener \in C
  /\ \A n \in announced :
       n.from = n.names \/ (n.changed /\ n.from \in C) => n.names \in C

Conveners == {b \in Agents : \A C \in SUBSET Agents : HandsOverIn(C) => b \in C}

(* The lists such agents have sent or put in force.                        *)
ConvenersLists ==
  lists \cup {n.list : n \in {m \in announced : m.from \in Conveners}}

(* A member list comes from a convener: what an agent stores is a list of  *)
(* someone who started the group, was handed the role, or declared itself  *)
(* the convener, but for agents that have left.  Nobody else replaces the  *)
(* list, even in the name of the convener, although lists replace each     *)
(* other as a whole and a stale one may arrive after a newer one, after a  *)
(* leave, or after the role has changed hands.                             *)
ListsFromConvener ==
  \A a \in Agents : Holds(a) =>
    \E list \in ConvenersLists, gone \in SUBSET left :
      view[a].members = Without(list, gone)

(* When nothing was lost, the convener has not left, the role is not       *)
(* claimed by others and no two membership changes were under way at once, *)
(* a member the convener lists, and whom no change is on its way to,       *)
(* stores the convener's list: in a group that is changed step by step the *)
(* copies agree as soon as the envelopes have arrived.                     *)
Undisturbed ==
  mishaps = 0 /\ ~conflict /\ Convener \notin left /\ announced = {}

SettledMember(a) ==
  /\ Undisturbed
  /\ Settled(a) /\ Settled(Convener)
  /\ Listed(Convener, a)

SettledViewsAgree ==
  \A a \in Agents : SettledMember(a) /\ Holds(a) =>
    view[a].members = view[Convener].members

(* Peers named once in the Start; one named twice is invited twice, and    *)
(* the second invitation records the conversation afresh.                  *)
NamedOnce(a) ==
  \A list \in lists : \A p, q \in DOMAIN list :
    list[p] = a /\ list[q] = a => p = q

(* An agent that has left does not come back, whatever updates are still   *)
(* on their way to it.                                                     *)
LeaversStayOut ==
  [][\A a \in left : NamedOnce(a) /\ ~Holds(a) => ~Holds(a)']_view

(* A completed conversation stays completed in every store it has reached. *)
CompletionSticks ==
  [][\A a \in Agents :
       NamedOnce(a) /\ Holds(a) /\ view[a].done =>
         (Holds(a) => view[a].done)']_view

(* Fan-outs come to their end, and with the last of them every agent that  *)
(* is leaving has dissolved its record, even when sends fail.              *)
FanoutsEnd == []<>(fanouts = {})

(* Everyone with a relationship whom the convener invites gets a record,   *)
(* unless envelopes are lost.                                              *)
InviteesJoin ==
  \A a \in Agents \ {Convener} :
    (a \in related /\ \E e \in OnTheWay(a) : e.kind = "invite")
      ~> (Holds(a) \/ mishaps > 0)

(* What /aap group add promises (src/commands.py, line 207): once the      *)
(* update has arrived, a related agent that was added, and has not left,   *)
(* is a member.  It is not, if it was not invited at the start.            *)
AddedMemberJoins ==
  \A a \in related \ left : SettledMember(a) => Holds(a)

=============================================================================
