# aap-hermes: specifications and proofs

aap-hermes connects a Hermes gateway (an LLM agent host) to the AAP network. It
polls a relay for signed envelopes addressed to this agent, turns some of them
into LLM turns, and offers the LLM tools that send envelopes back. This
directory models its concurrent and distributed parts in TLA+, checks the
models with TLC and proves properties of them with TLAPS. `src/` below means the
repository's root.

## Parts of the system

| part | source | state it keeps | operations |
|---|---|---|---|
| Inbound pipeline | `adapter.py` 557-1005 | relay queue (remote), batch of the last poll, `_inbox_queue` (256), the row in dispatch | `connect`, `_poll_loop`, `_dispatch_loop`, `disconnect` |
| Decoupled ingest, reasoning scheduler | `ingest.py`, `reasoning.py`, `adapter.py` 669-761, 1227-1318 | rows of the session DB, `_sessions` with one `asyncio.Event` and one task each | `persist_user_message`, `signal`, `_run_session_loop`, `close`, `enqueue_group_home_reply` |
| Service requests | `tools.py` 592-767, `service_request_origins.py`, `adapter.py` 1851-2035 | origin index (one JSON file) | send request, `record`, `pop_if`, route the response |
| Relationships | `tools.py` 836-930 and 1166-1262, `commands.py` 1623-1768, `adapter.py` 2037-2271, `_runtime.py` 520-540 | pending proposals (out, in), relationship records | propose, accept, decline, revoke, and the four inbound handlers |
| Chat gate, turn, auto-reply | `adapter.py` 807-868 and 1008-1380, `turn_context.py`, `anti_relay.py`, `peer_threads.py` | context variables of the turn, peer threads, reply windows | gate an inbound chat, run the turn, send by tool, auto-reply |
| Group conversations | `adapter.py` 1177-1185 and 1382-1641, `tools.py` 1339-1670, `commands.py` 697-997 | one conversation store per agent: members, convener, completed | start, add, remove, leave, complete, send, and the inbound handlers |
| Consent hook, home bridge | `_runtime.py` 482-602, `mirror.py` 29-188 and 367-458 | pending introductions and proposals, `aap-group-home-contexts.json` | route a bare `approve`/`deny`/`block`, route a home reply |
| Discovery introductions | `adapter.py` 1643-1763, `commands.py` 1209-1492, `discovery.py` | pending introductions, trust-list overrides | check and store an introduction, approve, deny, block, trust, distrust |
| Key rotation, key cache | `commands.py` 1778-2006, `adapter.py` 607-627 and 1032-1088 | `aap.json`, `aap-rotate-pending.json`, the key in memory, `peer_keys` | start, confirm, register, verify an envelope |
| Setup wizard, address claims | `__init__.py` 145-540 and 651-1222 | `aap.json`, the environment file | claim, recover, own domain, persist |
| Identity verification | `tools.py` 990-1160, `commands.py` 1000-1175 | attestations, pending verifications (SDK) | start, confirm |
| Prompts, addresses, contacts, config, scenario log | `consent.py`, `discovery.py`, `contacts.py`, `address_input.py`, `config.py`, `scenario_log.py` | nothing that matters to another part | formatting, parsing, write-only output |

How they interact. Every inbound envelope goes through the **inbound pipeline**
and is dispatched by `_dispatch`, one at a time, to the handler of its payload
type. Chat goes to a turn of its own or, when ingest is decoupled, to the
**session DB and the reasoning scheduler**; the handlers of service responses
and relationships work on stores on disk. Tools run inside a turn (of this
gateway or of another platform's session, in another thread) and send through
the relay; a send awaits, and while it does the dispatch loop may handle the
answer. The user's answers arrive as slash commands or bare words and are
resolved by tasks of their own. The SDK package `aap` (envelopes, stores, HTTP
client) is not part of the repository: its stores are modelled as the code here
uses them and are marked external.

What is hard here: two loops and a bounded queue between them; events set and
cleared around an await; a task that outlives `close()`; state written after
the await on the send whose answer it is needed for; one file rewritten as a
whole by several callers; two agents that must come to hold the same record
through a relay that loses and reorders; member lists sent one recipient at a
time from a list read at the start; a word of the user that two hooks may claim
and a task acts on later; a key published at the relay before it is on disk;
crashes between any two of these steps.
`PROJECT.json` lists each of these hazards at its line, with the properties that
cover it.

## Modules

| module | what it is |
|---|---|
| `OrderedDelivery` | what the inbound pipeline promises: an ordered channel that delivers at most once and may lose |
| `InboxPipeline` | poll loop, queue, dispatch loop, connect, disconnect, crash; the refinement mapping to `OrderedDelivery` |
| `ReasoningScheduler` | ingest, signals, session loops, close, crash |
| `ServiceRequests`, `MCServiceRequests` | the request tool, the origin index, response routing |
| `Relationships`, `MCRelationships` | both sides of every relationship handshake, and revocation |
| `ChatTurns`, `MCChatTurns` | the chat gate, the turn it opens, sends by tool and `adapter.send`, the auto-reply |
| `Groups`, `MCGroups` | one group conversation at all of its agents |
| `Consent`, `MCConsent` | what becomes of a text of the user: group bridge, consent hook, answers; introductions and the trust list |
| `Identity` | setup, recovery, rotation and registration of the key pair, and a peer's key cache |
| `InboxProofs`, `ReasoningProofs`, `ServiceProofs`, `RelationshipsProofs`, `ChatProofs`, `GroupsProofs`, `ConsentProofs`, `IdentityProofs` | theorems about the module each is named for, and their proofs |

The `MC` modules give the constants values for TLC. The proof modules extend the
specifications themselves, so what TLC checks and what is proved is the same.

An action is the code between two points where another task (or, where it says
so, another thread) can run: asyncio switches tasks at an `await` that suspends
and nowhere else. Where a module has operators named *Mutant of X* in their
comment, these are plausible wrong versions of X that no specification uses;
they document which mistake each property would catch.

### InboxPipeline

Rows are numbered in the order the relay accepted them. `relay`, `batch` and
`queue` are the three buffers, `current` the row in `_dispatch`; `pollPc` and
`dispPc` say where the two tasks are suspended, `phase` where the adapter is
between `connect()` and `disconnect()`. `begun` and `lost` are history.
`PollReturns`, `PollFails`, `BackoffEnds` and `PutRow` are the poll loop (its
exponential delay is only a suspension point); `DispatchBegins`, `DispatchEnds`
and `DispatchCancelledFromWithin` the dispatch loop; `DisconnectPoll` and
`DisconnectDispatch` are the two halves of `disconnect()`, split at the await on
the cancelled poll task. The code never acknowledges a row, so a row that was
handed out is gone from the relay: a failed poll may have consumed rows. What
`_dispatch` does with a row is the subject of the other modules.

### ReasoningScheduler

The rows of a session are counted (`rows`), since a turn reads the whole history
when it starts (`covered`). `hasInput`, `registered`, `waiting` and `turning`
are the session table: the event, the key, and the loops suspended in `wait()`
or in the handler. `lateSignal` counts the signal tasks that
`enqueue_group_home_reply` created and that have not run; they may run after
`close()`. A write that fails (`written = FALSE`) still signals from `_dispatch`
and does not from the home reply, as in the code.

### ServiceRequests

`pc[c]` follows a tool call, which is named by its nonce. `origins` is the index
file. `record` and `pop_if` read, change and rewrite the file: `snapshot` and
`handlerSnapshot` are the file as each has read it. With `ToolThreads = FALSE`
every access runs to its end before another begins (one event loop); with
`TRUE` they interleave, as tool calls made from other platforms' threads can
(`_runtime.py` 79-85). `aged` are the records older than the TTL, which every
access prunes. A file that cannot be read, or does not parse, counts as empty
(`PrunedFile(FALSE)`): the access goes on (`"blind"`), and what it saves replaces
every record in flight, as the warning of `_load` says. `handlerPc` follows
`_handle_service_response`: the look-up, the gap between the deletion of the
record and the turn, and the turn. A call with no session to come back to
reports sent and files nothing (`"unfiled"`). A write may fail, which the code
logs and ignores (`unwritten`). `Crash(polled)` also loses the responses that
were polled and not yet handled, and `Lose` a row that dies with its poll batch;
with a missing handler, a session that cannot be rebuilt and an unreadable file
these cut a response off (`cutOff`). The 24-hour reply window that the tool opens
beside (`outbound_contacts`) is in `ChatTurns`.

### Relationships

All agents are in one module: `outbound` and `inbound` are the pending proposals
of their proposers and addressees, `rel` the relationship records of every
holder, `net` the envelopes on their way, in no order; `Lose` removes one. The
sets `proposing`, `accepting` and `revoking` hold the calls suspended in a send;
what follows the send is another action, so that the answer may come first.
`answering` are the scheduled answers of the user: the consent hook and the
commands each start a task, so several may exist for one proposal. `Crash(a)`
forgets what was suspended or scheduled at `a` and keeps its stores. `RecvAccept`
stores the record unless `establish` raises (`stored = FALSE`), after the row was
taken in either case. `disturbed` are the proposals whose own handshake met
something after which its two sides may differ for good: a failed, lost or cut
off send, accept or storing, an answer before the proposal was recorded or by
another agent, a revocation of that kind between the two agents.

### ChatTurns

One gateway without decoupled ingest, where `_dispatch` waits for the turn.
`inbox` are the chat messages that `_dispatch` has yet to see, of which a crash
loses the first few, which were polled (`Crash(polled)`); a message of the group
may carry a thread, too. `turn` is the one `_dispatch` waits for, with what
authorized it; together with `sentThisTurn` it stands for the context variables
of `turn_context.py`, which `EndTurn` resets. `call[s]` is the send in progress
of the turn (`s = "turn"`) or of the user's own session (`"home"`), which has no
context variables. The send tool reads the relationship (`related`), then awaits
the catalog, then reads the thread and awaits the send, then opens the reply
window if it had found no relationship: `ToolBegins`, `CatalogAllows`,
`CallSent`, and the two ways out, `CatalogRefuses` and `CallFails`. A send that
raises may have reached the relay nevertheless (`"unreported"`). `AdapterBegins`
is `adapter.send` called by the gateway's own send tool, `ReplyBegins` the
auto-reply's call of it. Relationships (`friends`) and windows change at any
time, by a service request, too; how relationships do is the subject of
`Relationships`. Left
out are the mirrors to the home channel and the session-sender predicate of
decoupled turns; an error the message handler raises and every text that is not
worth sending are one action, `EndSilently`. A message of a group other than the
one modelled is like one of a non-member.

### Groups

`view[a]` is the record of the conversation in the store of agent `a`,
`inbox[a]` what is on its way to `a`, in order (what `InboxPipeline` shows of
the pipeline), `fanouts` the loops that are suspended in a send: each has the
member list it read when it began and the recipients it has still to serve.
`Start`, `AddMember`, `RemoveMember`, `Leave`, `Complete` and `Broadcast` are
the tools and commands up to their first send, which change the store first (all
but `Leave`, which dissolves its record in `LeaveEnds`, after the last send);
the two implementations of the same operation, tool and slash command, make the
same steps. `SendNext` and `SendFails` are one turn of the loop. The handlers
are split by what they decide: `InvitationAccepted` and `InvitationDropped`, and
so on; each changes the store before it first awaits. `conflict` remembers that
a membership change began while another was still on its way. A record has its
convener, which an update may replace: the handler takes an update from the
convener on record *or from whoever the update names as the convener*
(`MayUpdate`, `adapter.py` 1479), and stores the new one when it says that the
role has changed hands (`Update`). No operation here sends such an update;
another implementation of the protocol may, which is `Announce`. `Conveners` are
the agents that may then pass for the convener somewhere: who started the group,
who named itself, and whom one of these handed the role to. A member list is a
function from places to agents, read in the order of the places: the code's
lists keep their order when a member goes or comes, and so do these. Who goes
leaves a gap (`Without`), who comes gets a place behind all that were in use
(`Extended`), of which every operation has one. In this form taking two members
out gives the same list in either order, which the agreement of copies rests on.
The anti-relay check of `aap_group_send` (a turn of one group sends to no other)
concerns other groups and is left out.

### Consent

`pending` are the rows of both pending stores, each with the time it was stored
at (a bare word answers the latest introduction, or else the latest proposal);
`contexts` is the file that remembers which group's message was shown on which
home channel, each entry with its time, the oldest going first when the file is
full. `_dispatch` shows a group message on the channels first and records it in
a second pass; `ShowGroupMessage` takes the channels on which each of the two
succeeded (`seen`, `noted`) and what the second read of the file, which is
nothing when it cannot be read. `jobs` are the tasks that carry out an answer.
`Text` is both hooks in one step, since Hermes calls them synchronously: the
bridge (`GroupFor`, `Bridged`), then the consent check (`ConsentFor`), in the
order in which they are registered. Whether Hermes still calls the second hook
after the first has asked to skip the dispatch is not decided in this
repository: `AllHooksRun` is a constant, and the run takes the case with more
behaviour. `AnswerBegins`, `AnswerSent` and `AnswerFails` are the two commands
for introductions and the two for proposals; they differ in when the row goes: a
proposal is taken out before the send, an introduction resolved after it. A
failed send may have reached the relay. `BlockBegins`, `BlockPosted` and
`BlockEnds` are `/aap discover block` and the bare word, which differ in what
they name: the command a searcher, the word a row, whose searcher is read when
the task runs (`ToBlock`). `IntroBegins` reads the trust list, `IntroStored`
stores the row after the awaits on keys. `shown` (the group last shown on each
channel, none where it was only shown or only recorded), `routed`, `verdicts`
and `blocked` are history, and so are `arrived` and `overtaken`. A block is
carried out when every POST has returned or failed: the code then resolves the
rows even if all failed, and reports the failures. The expiry of an introduction
is left to the SDK store and not modelled.

### Identity

`published` is the pair (signing key, encryption key) the relay holds for the
address, `identity` and `pending` the two files, `gateway` the pair in the
memory of the running gateway, `cache` the key a peer has for the address. The
wizard (`wizard.step`) is a process of its own; a hosted run checks the name,
verifies the email, submits, waits for the answer, persists the identity and
then saves the environment: `WizardChecks`, `WizardVerified`, `WizardSubmits`,
`WizardPersists`, `WizardSaves`, with `WizardRefused`, `WizardUnanswered` (the
relay processed the request, the answer was lost) and `WizardDies` as the ways
out. Setup for an own domain, whose key the relay takes at the first
registration, is as many steps as the wizard makes on disk, since the gateway
may start, and generate an identity, between any two: `ByodSaves` saves the
environment, `ByodLooks` finds no identity, one that it cannot read or one that
it warns of, `ByodKeeps` keeps that one, and `ByodPersists` writes the new one
over whatever is there by then. `GatewayLoads` is `adapter_factory`, which makes
an identity when there is none. `rotate-key confirm` awaits the verifier
(`ConfirmBegins`) and nothing after it; from `ConfirmAttested` to
`ConfirmUnlinks` it blocks its own event loop and no other process. `forsaken`
are keys the program has given up knowingly or by overwriting a file, `raced`
says that two requests overlapped at the relay; `PublishedKeyAtHand` says that
nothing else loses a key. The commands run in the gateway or in any chat
session, each a process of its own, so they need no gateway and interleave at
every step. `PeerReceives` is the peer's `_dispatch` once it has a key,
`PeerCannotResolve` its early return when the look-up fails; `refused` are the
envelopes it dropped for their signature. `AAP_PRIVATE_SEED_B64`, which puts
another signing key before that of `aap.json`, is left out: the keys followed
are those the program generates.

## Runs

| run | instance | shows |
|---|---|---|
| `inbox` | 6 rows, queue of 2, 2 boots, `FairSpec` | types and queue bound, `InOrderOnce`, `NothingVanishes`, refinement of `OrderedDelivery`, `RelayDrained`, `EveryRowBegun` |
| `reasoning` | 2 sessions, 2 inputs each, 2 boots, `FairSpec` | `OneLoopPerSession`, `NoLostWakeup`, `TurnsArePaidFor`, `ClosedIsQuiet`, `EveryRowRead`, `CloseReturns` |
| `service` | 2 calls to 2 businesses, 2 responses, one event loop, unreadable files, `FairSpec` | `OneTurnPerRequest`, `OnlyTargetOpensTurn`, `OriginKept`, `AnswerOpensTurn` |
| `service_early_answer` | 1 call, 1 response | finding: `FirstAnswerRouted` fails |
| `relationships_handshake` | 3 agents, crossing proposals of one kind, 1 answer of a third agent, 1 revocation | types, `BilateralConsent`, `OneAnswerPerProposal`, `SidesAgree` |
| `relationships_revoke` | 2 agents, proposals of two kinds, 2 revocations | `NoRevival` with revocations of several kinds at once |
| `chat` | a peer and a business, 1 thread, 2 messages (1:1 or of the group, with or without the thread), 1 send per session, `FairSpec` | `WindowOnlyAfterContact`, `ThreadsStayWithPeer`, `SkipFollowsSends`, `EveryMessageServed` |
| `chat_double_send` | the same without fairness | finding: `NoDoubleSend` fails |
| `groups` | convener and 2 agents, lists of 1 or 2 invitees (one named twice), 3 members at most, 3 fan-outs, of them an update in the convener's name and a handover, 1 mishap, `FairSpec` | `ListsFromConvener`, `SettledViewsAgree`, `LeaversStayOut`, `CompletionSticks`, `FanoutsEnd`, `InviteesJoin` |
| `groups_newcomer` | 1 invitee at the start, 2 fan-outs, no mishap | finding: `AddedMemberJoins` fails |
| `consent` | 2 introductions of 1 searcher by 2 verifiers, 1 proposal, 2 channels, 2 groups, 2 contexts kept, 2 texts, 2 group messages | `VerdictsWereGiven`, `RepliesReachLatestGroup`, `IntroKeptUntilAnswered`, `PromptsFromTrusted` |
| `identity` | 6 keys, 2 mishaps, either kind of address | `PublishedKeyAtHand`, `SavedIsPublished`, `RegisteredCanDecrypt`, `HeardUntilRotation`, `IdentityReplacedKnowingly` |

`TypeOK` is proved for each of the eight specifications, and listed in the runs
`inbox` and `relationships_handshake`, where a mistake of the code would break
it. The other runs are kept for properties that say more. The inductive
invariants of the proofs were checked by TLC on the instances of the runs before
they were proved.

Why the bounds are enough. *Inbox*: with a queue of 2 and 6 rows the queue fills
while a batch is still being put, batches of several sizes meet every phase, and
2 boots put rows of an earlier life next to those of a later one; more of each
repeats these situations. *Reasoning*: an input may come before, during and
after a turn of the same session, by relay or by a late signal; two inputs per
session give each pair of them, two sessions make `close()` wait for one while
the other is done, two boots let a signal task outlive its scheduler.
*Service*: two responses are a duplicate, a wrong issuer before or after the
right one, or answers to two calls whose file accesses interleave.
*Relationships*: crossing proposals of one kind are where one record replaces
another; two kinds are needed for a revocation that sends more than one
envelope and is suspended between them, which is where a revoked record could
come back (`NoRevival`).

*Chat*: two messages are two turns in a row, of one peer or of two, 1:1 or of
the group, so that what one leaves behind meets the other; one send of the turns
and one of the home session are enough for a send, by either way, that fails, is
skipped over or suspended while the other session sends, and for one of an
earlier turn; one thread is enough for an envelope with a wrong thread, with a
thread where none belongs, or without one.

*Groups*: three fan-outs are a start and two further operations, of one agent or
of two, overlapping or not; the peers without a relationship, and the peer named
twice, are the cases in which records differ. A group of three at most meets the
cap. One mishap is enough to leave members with different views; what is claimed
without exemption (`ListsFromConvener`, `LeaversStayOut`, `CompletionSticks`) is
checked with it. The two updates of other implementations (`InItsName`,
`Handover`) are one that must be dropped, and one after which there are two
conveners, each with its own lists on the way (446,000 states, two minutes).

*Consent*: two texts are two answers to one row, an answer and a reply, or a
word and a change of the trust list; two group messages on two channels fill the
file of two contexts and push out the older ones, each of them shown and
recorded on any of the channels (568,000 states, a minute). The two groups, the
two answers and the two introductions with their verifiers are interchangeable,
which `Symmetry` uses; no liveness is checked in this run.

*Identity*: six keys are a setup (two keys) followed by a rotation (one for the
start, one for the confirmation) and a recovery (two), or by two rotations, or
the keys of a wizard and of a gateway that runs at the same time, and a
rotation. Two mishaps are a lost answer followed by a crash, or two files that
cannot be read (764,000 states, ten seconds; seven keys were also tried, 12.6
million states, with the same result). The verifier is external; that it takes a
code once (`CodesOnce`) is assumed.

The safety properties are proved for every value of the constants (see
[Proofs](#proofs)); the bounds limit what is said of the liveness properties
only.

Deadlock is not checked: every bound (rows, boots, inputs, responses,
revocations, messages, sends) lets a behaviour come to its end.

### Fairness

The event loop runs every task that can run: weak fairness of `PutRow`,
`BackoffEnds`, `RunLateSignal`, `TurnStarts`, `HandlerWritesFile` and so on.
Strong fairness of `PollReturns`: the poll loop tries for ever, and a network
that heals lets a try succeed in the end. Nothing is assumed of peers, of the
user, of `connect`, `disconnect` and crashes. That a turn ends (the message
handler returns, raises or is cancelled) is a property of the gateway and not of
this code, so `RelayDrained` is shown without it (it is what the split into two
loops is for), and `EveryRowBegun` states it as its hypothesis
(`DispatchFairness`). The reasoning runs assume it (`TurnEnds`, and `TurnUnwinds`
for a cancelled turn): without it a second turn of a session never starts.
`service` uses strong fairness of "the handler takes some response":
`EveryRowBegun` is what justifies it. `chat` assumes that lookups and sends
return or raise and that a handler without a call in progress returns; calls
themselves are not fair, and are bounded. `groups` assumes that a fan-out goes on
(its sends return or raise; every command runs on the event loop) and that every
dispatch loop takes its next envelope.

### What the findings say

- `service_early_answer`: the request tool records where the answer belongs
  *after* the await on the send. An answer that the dispatch loop handles before
  finds no record and is dropped; the record written afterwards waits for
  nothing.
- `chat_double_send`: only `adapter.send` records that the turn has written to its
  peer. A reply the LLM sent with `aap_send_message` is followed by its final
  text as a second message, which `turn_context.py` says is avoided.
- `groups_newcomer`: `/aap group add` sends the newcomer the membership update and
  no invitation; the newcomer has no record of the conversation and drops it, so
  it is a member for everyone but itself and drops what the group sends.

Further disagreements between the code and its comments or messages were met on
the way. Each follows from one or two lines, so none has a run of its own:

- `aap_propose_relationship` records the proposal after the send, too: an accept
  handled before is dropped, and only the accepter holds a record (`tools.py` 909;
  "You'll see the acceptance on your home channel", 926-928).
- The docstring of `_handle_group_membership_update` says that the sender must be
  the recorded convener (`adapter.py` 1457-1458); the code also takes an update
  from any agent that names itself the convener in it (1479), without a handover.
- A group message that is shown on a home channel and whose context is not
  recorded (`mirror.py` 87-88, 399-412) leaves the user's next reply to the group
  recorded there before; nothing tells the user.
- Setup for an own domain warns before it overwrites an identity, but not when the
  file cannot be read (`__init__.py` 953-954), nor when the gateway has written it
  after setup had looked.
- `pop_if` deletes the record on any answer of the target, so the confirmation
  that follows a `pending` answer opens no turn (`adapter.py` 1908; `tools.py`
  442-444).
- The origin index assumes a single writer, while tool calls may run in other
  platforms' threads (`_runtime.py` 82-83): with `ToolThreads = TRUE` a stale
  write loses a record and `OriginKept` fails.
- A peer let in by its reply window gets a turn whose preamble promises that the
  final text is delivered (`adapter.py` 422-424), but the auto-reply is refused
  by the relationship gate of `adapter.send` (823).
- A send that timed out after the relay accepted the envelope is reported as
  "NOTHING was sent to the peer" (`tools.py` 449 and 715), and a revocation whose
  send failed is reported as sent (`tools.py` 1238 and 1259).
- If Hermes runs all hooks, a bare `approve` on a channel with a recent group
  message is both bridged to the group and taken as an answer; the bridge means
  a reply to be "handled exactly once" (`_runtime.py` 546-548).
- After a rotation the user is told to restart the gateway "so peers re-resolve"
  (`commands.py` 2005), but a peer caches a key for the life of its own process
  (`adapter.py` 1033-1072), so envelopes are dropped until the *peer* restarts.
- The confirmation of one `rotate-key start` removes the pending file that a
  later start has written meanwhile (`commands.py` 2002), although its reply asked
  for a confirmation (1883-1887).
- The BYOD path says that "gateway start can't start either way until both land"
  (`__init__.py` 928-930), but `adapter_factory` generates an identity when only
  the environment was saved.
- A peer named twice in a group start is listed and invited twice; neither the
  tool nor the command looks for duplicates.

## Proofs

Every safety property of the passing runs, invariant or action property, is a
theorem, and so is the refinement of `OrderedDelivery`; `PROJECT.json` lists
which theorem states which property. Assumed are only the named assumptions on
the constants, which TLC evaluates in the runs: bounds are naturals, a queue has
room for a row, a proposal has two different parties, the model values for
*nothing* are not something else, there are finitely many home channels. Two
hypotheses go beyond that and are written out in the theorems that need them,
`~ToolThreads` and `CodesOnce` (below).

Every proof goes by an inductive invariant `IInv` in three steps: the initial
states satisfy it, every action preserves it, it implies the property. An action
property follows from `IInv` in the state before the step. Each section below
says what the property lacked to be inductive.

**`InboxProofs`**, for any queue size, rows and boots. `InOrderOnce` alone is not
inductive: the next row begun comes from the queue, so the queue, the batch and
the relay have to be in order among themselves and after everything begun
(`OrderInv`), and a loop that puts rows has a row to put, no other keeps a batch
(`PutInv`). `NothingVanishes` needs to know in which buffer each row is, and that
a lost row is in none of them (`PlaceInv`). `PipelineIsChannel` is the
refinement: with the three buffers, end to end, as the channel, each step is a
step of the ordered channel or a stutter. A put or a poll moves rows inside the
channel and is a stutter; a crash, a disconnect or a failed poll drops a section
of the channel. Lemmas about prefixes, suffixes and appends of increasing
sequences carry the steps that split a buffer.

**`ReasoningProofs`**, for any sessions, inputs and boots. A session has at most
one loop because `signal` starts one only where none is registered, which needs
that a session that is not registered has none, and that nothing is registered
after `close()` (`LoopInv`; the latter is what lets `connect()` begin afresh).
`NoLostWakeup` and `TurnsArePaidFor` join the invariant with the counts of rows
and signals, each of which an input of its own has caused (`InputInv`).

**`ServiceProofs`**, for any calls, agents and responses. Whose answer opens a
turn (`OnlyTargetOpensTurn`) does not depend on who else writes the index: every
copy of the file holds only calls that have filed a record and reported sent
(`FiledInv`), and a response that got past `pop_if` is of the agent asked
(`HandlerInv`). That a record is used once (`OneTurnPerRequest`) and not lost
(`OriginKept`) is proved where no two accesses to the file overlap,
`~ToolThreads`: at most one access is between its read and its write, and what
it read is the file, unless the file was unreadable (`AloneInv`); a record that
is used up is in no copy of it (`SpentInv`). With tool calls in other threads
TLC finds both violated (`ToolThreads = TRUE`; see [the
findings](#what-the-findings-say)), so the hypothesis is needed.

**`RelationshipsProofs`**, for any agents, kinds, proposals and revocations. A
record is made either from an accept envelope at the proposer or after the send
at the accepter, so the invariant follows a proposal through all of its places: a
pending row belongs to a proposal that was asked (`RowInv`), a row that is still
there was never answered and a suspended accept stands for the only answer
(`AnswerInv`), an accept envelope of the addressee in the network implies that
answer (`NetInv`), each of the two sources can make its record once (`UsedInv`),
and records and ended records come from accepted proposals (`RelInv`).
`NoRevival` follows since a source that made the record is gone when the record
ends. `BothSidesAgree` (`SidesAgree`) needs the converse, that an accepted
proposal does make its two records. It is proved proposal by proposal, whatever
happens to the others: while the handshake of one is undisturbed, its proposer still
has the row that its accept will look for (`PendingInv`), and each side has its
record, or its source of one is still there (`SideInv`). A record that is made of
another proposal of the same kind takes the place of the first, which does no harm;
a revocation removes one, which is why what is being revoked, or was and is on its
way, has to concern disturbed proposals only (`RevokeInv`). When nothing is on its
way or suspended, only the record is left, on either side.

**`ChatProofs`**, for any peers, threads, messages and sends. A window or a turn
let in by a window is of a peer that was reached (`PastInv`). For
`ThreadsStayWithPeer` a thread is followed through every hand it passes: the
message of the turn, the store of threads, the send in progress, each of which
holds only what the peer it is used for has sent in a 1:1 chat (`ThreadInv`). A turn
of a group may have a thread of the group in its message, which no send takes
over. `SkipFollowsSends`
relates `sentThisTurn` to the envelopes that answer this turn's message
(`SentInv`); since it is one envelope of many turns, message ids have to grow
(`IdInv`) and calls of a turn to lie inside it (`CallInv`).

**`GroupsProofs`**, for any agents, sizes, operations and mishaps.
`ListsFromConvener` needs that what is sent is honest (`SentInv`: a list is one
that a convener has put in force, or one announced, and a leave comes from an
agent that leaves), and that whom an agent has on record as the convener may
pass for it (`RoleInv`). Since the role can be handed on from one self-declared
convener to the next, `Conveners` is the least set that is closed under this;
the proof uses that it is closed, grows with the announcements and is the
convener alone before there are any. `LeaversStayOut` and `CompletionSticks`
need that an agent named once is invited once: it has either one invitation on
its way or has been invited, never both (`InviteInv`). `SettledViewsAgree` is
the deepest of them, as it is about a list and several leaves on their way to an
agent at once, in the loops that send them and in its inbox. The invariant says
that what is on its way to an agent *turns what it has into what the convener
has*: take the last list in its inbox or else its record, strike out who leaves
in the envelopes behind that or in a loop still to serve it, and the result is
the convener's own list without those of whom the convener has yet to hear
(`CatchesUp`, `Group`). While a list is being sent it is the convener's, and
nobody on it leaves (`SendingInv`): this is where the hypothesis that no two
membership changes overlap (`conflict`) is used. That the convener itself is
sent no list unless somebody else passes for the convener (`ConvenerInv`), that
loops are told apart (`NumberInv`) and that records are for those with a
relationship (`RelatedInv`) carry it through the steps.

**`ConsentProofs`**, for any introductions, proposals, channels, groups and
texts. An answer in progress goes back to the text that gave it, with the verb
and the addressee that text had, and no two answers to one text (`JobInv`, with
`AddressInv` for its types); this is what `VerdictsWereGiven` says of the
answers that reached the relay. An introduction that is being checked came from
a verifier on the trust list, or that was distrusted since (`HandlingInv`). For
`RepliesReachLatestGroup` the file must not push out the entry it needs: of
every channel that has entries, and whose latest message was both shown and
recorded, the one of that message is among them and is the newest (`LatestInv`).
Entries go in the order of their age, so that one goes after all others of its
channel, whatever the file lost before or records for other channels.

**`IdentityProofs`**, for any keys and mishaps. The proof follows the keys: what
an envelope, a cache or a request carries was published (`OwnedInv`), a request
the relay has processed is what it publishes unless two overlapped (`RaceInv`),
what the processes have seen still holds (`SeenInv`), and a confirmation in its
last part is the only one (`OneLast`). From these follow `SavedIsPublished`,
`HeardUntilRotation` and `IdentityReplacedKnowingly`. `PublishedKeyAtHand` and
`RegisteredCanDecrypt` need besides that a signing key gets one encryption key
that is ever published (`MintInv`, `FreshInv`), and that a key whose confirmation
may still be published is in the pending file or was let go (`CodeInv`,
`KeptInv`). This is so only if the verifier takes a code once, which it decides
and not this code: the hypothesis `CodesOnce`. If it took a code twice, two
confirmations of one start would publish the same signing key with two encryption
keys, and TLC finds both properties violated (`CodesOnce = FALSE`; the first
takes seven keys).

Model-checked only: liveness (`RelayDrained`, `EveryRowBegun`, `EveryRowRead`,
`CloseReturns`, `AnswerOpensTurn`, `EveryMessageServed`, `FanoutsEnd`,
`InviteesJoin`), since TLAPS has no support for proofs from fairness, and the
properties of the runs that show a violation.

## Not modelled, and why

Configuration, prompts, address parsing, contacts and the scenario log change no
state another part reads. The contents of envelopes and signatures belong to the
SDK. Inbound service requests and followups are checks on one envelope without
state of their own here. Identity verification (`aap_verify_start`,
`aap_verify_confirm` and the commands) are HTTP calls to a verifier, each of
which ends in one write of an SDK store. `_discover_initiate` asks the verifiers
and keeps nothing. `/aap group accept` looks for a pending invitation that no
code stores. No code sends the convener handover that
`_handle_group_membership_update` understands: `Groups` has it as an update of
another implementation, and not the invitations, completions and records of an agent
that runs one. `AAP_PRIVATE_SEED_B64` is left out of `Identity`, and the reply
window that a service request opens is in `ChatTurns` only. The wall
clock is left out: a TTL expires at any time.

`Identity` has no liveness: that an address can always be recovered holds while
the email and the verifier work, which is not in this code, and keys are bounded
in the model. One address is modelled: an identity of another address is
overwritten by setup without a warning, and its key with it.

## Plan

1. A composition of `InboxPipeline` and `ReasoningScheduler` for the decoupled
   gateway, with end-to-end delivery.
2. Identity verification, if a property is found that reaches beyond the SDK.
