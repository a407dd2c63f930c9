# A verification of aap-python in TLA+

These modules specify the stateful part of the Python SDK for the Agent
Address Protocol (`src/src/aap`): the gates an inbound envelope passes, the
stores that remember who may talk to whom, the caches of signed documents, and
the protocols between two or more agents that rest on them. TLC checks every
module on small instances; TLAPS proves the main facts about six of them, from
the replay cache to the files everything is saved in, for all values of the
constants.

Paths below are relative to `src/aap/` of the repository unless they start with
another directory.

## 1. The system

The SDK is a library. A host program owns the event loop, calls the SDK, and
keeps one directory of JSON files per agent. Agents talk through a relay that
stores signed and usually encrypted envelopes until they are polled. Nothing
in the SDK runs by itself: concurrency comes from tasks that await the network
(client, caches, broadcast), from deliveries in any order and number, and from
processes that die between two steps. Every store follows one pattern: load a
file, change the object in memory, rewrite the whole file through a temporary
one (`storage.py`). `AtomicFile` has the system calls of that save; everywhere
else a save is what `AtomicFile` is shown to implement, all or nothing. It may
raise, and when it does, memory has changed already.

| part | state | operations | what is hard | what must hold |
|---|---|---|---|---|
| envelope policy, replay cache (`envelope_policy.py`) | dict of `(iss, sig)` to a timestamp, in memory and on file | verify, check_and_store, load | three windows (age, skew, ttl), timestamps cut to seconds, failed saves, crashes | no envelope passes twice; only what passed, or was interrupted, is used up |
| inbound gate (`inbound.py`) | none of its own | validate_inbound_envelope, validate_inbound_chat | remembers the envelope before it asks the relationship store | one verdict per message; only vouched-for chats reach the host |
| relationship store (`relationships.py`) | rows and revocations, in memory and on file | establish, revoke, find | replays, keys that do not match, failed saves | a row for each consent, revokes apply once, answers are durable |
| pending proposals (`stores/pending_proposals.py`) | outbound and inbound nonces, a file of its own | record_*, take_* | popped from one file before the relationship is written to another; crossing and duplicated messages | an accept works once; friendship becomes mutual |
| conversations (`conversations.py`) | conversations and their log of signed events | accept_invitation, apply_membership_update, apply_leave, apply_complete, local edits | every event in any order and number; convener handoffs | log explains and authorizes the state, in which a completion is final |
| group flow (`group_flow.py`) | the conversation at each member | building and applying the events | loss, duplication, reordering between several stores | never two conveners; no silent divergence |
| broadcast (`conversations.py`) | recipients and results of one call | broadcast_to_conversation | membership changes between awaited sends | every recipient is reported once |
| follow-up grants (`service_followups.py`) | rows per peer, service and direction | record_*, find, stamp_used, revoke | replaced grants, failed stamps, cut timestamps | follow-ups keep to the cadence |
| service requests (`stores/service_requests.py`, `pending_responses.py`) | ledger on file, futures in memory | record_request, record_response, register, resolve, clear | answer against timeout, redelivery, restart | no response told twice or swallowed |
| verifiers (`verifiers.py`) | trust list in memory and on file, overrides, keys | get, key lookup | await under a lock, fallbacks, old lists | no stale list passes for fresh; the user has the last word |
| service catalogs (`services.py`) | catalog in memory and on file | get, refresh | awaits outside the lock, disk loads that race with refreshes | staleness bounded; fetch times grow; no deadlock |
| agent cards, key pins (`client.py`, `did_web.py`) | pinned key per address, in memory and on file | register, resolve, forget | failed saves, old cards served late | a changed key fails closed |
| atomic files (`storage.py`) | a temporary file and the path | write_json_private | errors and crashes between system calls, a second writer | the path is an atomic cell; what is saved is private |
| group index (`stores/service_request_groups.py`) | nonce to conversation, on file only | record, pop | loads, changes and saves all of it; save errors are swallowed | the index says what it was told |
| verification (`verifier_client.py`, `stores/verification_flow.py`, `stores/attestations.py`) | pending codes, attestations, a file each | start, confirm, record, remove, prune, load | two files, late or misdirected responses, expiry, codes that are confirmed twice | what is held was earned and is kept; a row names the identity of its code |
| discovery (`discovery.py`, `stores/pending_introductions.py`) | one query at a time; parked introductions on file | query_discovery, add, most_recent_nonce, resolve | old answers to new calls, verifiers that fail, introductions delivered again | an address only with consent to this call; None after all were asked |
| identity (`identity.py`, `encryption.py`) | keys and address, on file | load_or_generate, register, sealing and opening | changing settings, files of an older version, failed saves | mail sealed to a card opens; an agent keeps its address |
| consent, contacts, identity bindings | keyed dictionaries on file | get, set, remove | nothing of their own, see 7 | not modelled |
| envelopes, canonical JSON, payloads, addresses | none | pure functions | none for a model checker | not modelled |

How they interact: `validate_inbound_chat` calls the replay cache and then reads
the relationship store. The host moves an accepted proposal from the pending
store to the relationship store. A group event is applied by the store of each
member. `broadcast_to_conversation` reads the conversation object that event
handlers change. `VerifierPubkeyCache` reads the list that `TrustListCache`
returned. The keys of an identity go on the card that `register` publishes, and
peers seal to the card that `resolve_encryption_key` returns. An inbound service
response goes to the ledger and then to the future
of the tool that waits for it.

## 2. The modules

| module | extends | models |
|---|---|---|
| `EnvelopePolicy` | | freshness window, verification, replay key: the operators everything else uses |
| `OnceOnly` | | the abstract promise: each envelope passes at most once |
| `ReplayCache` | `EnvelopePolicy` | validate_inbound_envelope with its cache: memory, file, failed saves, crashes, restarts |
| `InboundChat` | `ReplayCache` | the chat gate composed with the cache and a changing relationship store |
| `RelationshipStore` | `EnvelopePolicy` | a store value and what establish and revoke do with it |
| `Relationships` | `RelationshipStore` | one agent's store: memory, file, failed saves, restarts, a clock |
| `Handshake` | `RelationshipStore` | two agents, their pending proposals, their users and the messages between them |
| `ConversationStore` | `EnvelopePolicy` | a store value and what each signed event does with it |
| `Conversations` | `ConversationStore` | one agent's store, with local edits, failed saves, restarts |
| `Broadcast` | `Conversations` | a broadcast that runs while the store changes |
| `Group` | `ConversationStore` | a store per agent and a network between them |
| `FollowupGrants` | `EnvelopePolicy` | grants, the follow-ups they allow, failed stamps, restarts |
| `ServiceCalls` | | ledger, futures, tool and handler of responses |
| `TrustList` | `EnvelopePolicy` | the trust-list cache under overlapping calls |
| `VerifierKeys` | `TrustList` | overrides and the key cache on top of it |
| `ServiceCatalog` | `EnvelopePolicy` | the catalog cache under overlapping get and refresh |
| `AgentCards` | `EnvelopePolicy` | a peer's cards and keys, its host, the client's pins |
| `AtomicCell` | | the abstract promise of a save: the whole value in one step, or nothing |
| `AtomicFile` | | write_json_private, one system call at a time, over inodes and two names |
| `GroupIndex` | `AtomicFile` | the index that is loaded and saved whole at every call |
| `Verification` | | the verification calls, the two stores, and the verifier |
| `Discovery` | | the searcher's calls, the verifiers, and the target's introductions |
| `Identity` | | starts of one agent, its cards, and the mail sealed to them |
| `...Proofs` | its modules, `TLAPS` | theorems and proofs: `ReplayCacheProofs` (with `InboundChat`), `RelationshipsProofs` (with `Handshake`), `ConversationsProofs` (with `Broadcast` and `Group`), `ServicesProofs` (`GroupIndex`, `ServiceCalls`, `FollowupGrants`), `CardsProofs` (`Identity`, `AgentCards`), `VerifierFlowsProofs` (`Verification`, `Discovery`), `VerifierKeysProofs` (with `TrustList`), `ServiceCatalogProofs` |
| `MC...` | | the instances that TLC checks |

Four of the instances hold two or three modules that share no state:
`MCRelationships`, `MCServices`, `MCCards` and `MCVerifierFlows`. Their variable
`part` is chosen once, a behaviour is about that part, and the other variables
stay as they began, so the states of the parts add up and do not multiply. The
properties of the other parts hold in their initial states and are not tested
there. Because these modules are extended together, their specifications have
names of their own (`CallsSpec`, `GrantsSpec`, `IndexSpec`, ...).

Conventions. `mem` and `file` are the object and the JSON file. An operation
that ends in a save is one action that changes both; the same operation whose
save raises is a second action, `...SaveFails`, that changes memory only. `Load`
or `Restart` reads the file into memory. A variable marked *history* is not in
the code: it records what a property talks about. An operator marked *Mutant* is
a plausible mistake in the code, used to see that a property can fail.

An envelope is a record. Its signature is the field `authentic`: whether the
signature verifies over this very content. A copy that was damaged in transit
keeps issuer and signature and is not authentic. Timestamps are instants of a
bounded integer clock; where the code compares an exact time with one it has
cut down to a second, there are `Second` ticks to a second, otherwise one tick
stands for the smallest difference that matters. Operations that raise before
they change anything are the states in which no action is enabled for that
input: refusing and doing nothing look alike, except where a refusal changes
state, as the pruning of `RefuseReplay` does.

What an action is made of: a store operation runs without an await, so on one
event loop it is one action, from its first check to its save. Where the code
awaits (a send of the broadcast, a fetch of a list, the key resolver of a
catalog, the wait for a response) the operation is split there, and other
actions come between. In `Handshake` the handler of an accept has a middle,
because a process can die between its two files, and so has the confirmation of
`Verification`, between recording the attestation and removing the pending row.
The end of one send of a broadcast and the start of the next are one step.
`AtomicFile` alone splits what no other task of the loop can see: between the
system calls of a save there are only crashes, and the steps of a second
process.

The host's part (parking a proposal, sending what it signed, dispatching what
arrives, the tool that waits for a response) is not code of this repository. Its
steps follow what the docstrings of the stores ask of it, and the map of
`PROJECT.json` marks them as external. The pair that such a host gives to
`establish()` (`Pair` in `Handshake`) is a proposal and the accept that named its
nonce, both verified by the inbound checks: of the checks of `establish()` only
the look-up of the nonce can fail between the two agents. Stale pairs, and a
nonce under a second type, are in `Relationships`.

## 3. The runs

| run | instance | shows |
|---|---|---|
| `inbound_chat` | 4 envelopes (a chat, a damaged copy, a plaintext one, one that is no chat), friend and team rows, 11 ticks, ttl = age + skew + 1 s | the gate implements `OnceOnly` through restarts, failed saves and prunings, so no envelope passes twice; what passed stays remembered; only interrupted calls use up an envelope that did not pass; one verdict per message |
| `relationships` | one store: 4 handshakes (two share a nonce), 2 revokes, 4 ticks; two agents: 3 proposals that may cross, 1 revoke, ordered and duplicating network | durable answers, revokes that apply once, one row per consent; an accept that works once, mutual friendship, revoker is a stranger, and (liveness) an accepted proposal makes both friends |
| `conversations` | 11 events by 3 signers, 1 local edit, a broadcast, 2 ticks | memory and file follow from the authorized log, in which nothing comes after a completion; the broadcast reports every recipient once and ends |
| `group` | 3 agents, 4 events after the invitation, 3 kinds of network | at most one convener; no silent divergence; agreement on an ordered network; the convener counts members only |
| `services` | 2 requests, 6 responses; 2 nonces, 2 conversations, 1 process, 3 inodes; 3 grants of 2 peers, 2 uses each, 6 ticks | told once and not swallowed; a save is an atomic cell, what was saved is private, the index says what it was told; follow-ups are spaced |
| `verifier_keys` | 2 calls, 2 lists, 3 override files, 4 ticks | no stale list passes for fresh, fetches are spaced, overrides win |
| `service_catalog` | 2 tasks, 2 documents, 5 ticks | staleness bounded, fetch times grow, every call returns |
| `cards` | a peer: 2 keys, 4 ticks; an agent: 2 addresses, with and without a seed and a key in the environment, 5 generated keys | a changed key fails closed while the pins file is in step, retired keys fade; mail opens, the address stays open |
| `verifier_flows` | 2 identities, one of another agent, 3 calls, 3 ticks; 1 or 2 verifiers, 3 queries, 2 introductions, 1 failed save | pending rows and held attestations are true, recorded ones are kept; an address only with consent, None after all were asked, every query returns |
| `replay_default_ttl_twice` | default ttl = age limit | *violation*: an envelope passes twice |
| `followup_grants_replay` | the grants above | *violation*: a replaced or revoked grant is stored again |
| `storage_two_writers` | the index above with 2 processes | *violation*: what is at the path is torn |

Why the bounds are enough. The clock of every run is longer than the age limit,
the skew and the time to live together where pruning or expiry matters, so
everything that can expire does, and something new can follow it. Conflicts
between records need two of them (two rows of one key, two grants with one
nonce, two overlapping fetches, two crossing proposals), and each run has the
two and a third that is unrelated or comes later. Three agents are the fewest
with a convener, a next convener and a bystander; four events are a handoff,
the handoff back, a change and a completion. One repeated message
(`MaxCopies`) is enough for every answer to meet its copy. Three calls to the verifier are a code, another
code or a second confirmation, and the confirmation; two introductions are the
fewest with an order, and three queries are two calls, one of which may go on to
a second verifier. Three inodes are one at each name and one that was renamed
away. The ratio of the
constants is kept: the lifetime of a cached copy longer than a request, and in
`verifier_keys` shorter than the age limit of a list (24 h and 30 days in the
code), the skew not longer than the age limit; the theorems cover every value.
In `verifier_keys` no published list is damaged: one that does not verify is
refused with the error a failing fetch has, and the model has that fetch.

The order of a member list is not in the model, a list is a set; no decision of
the code depends on it. A lost message is one that stays on its way for ever,
which every safety property allows. Runs with `CHECK_DEADLOCK FALSE` end when
their bounds are used up.

Type invariants are part of the inductive invariants that the theorems rest on;
the other modules give the shape of each variable where it is declared.

Symmetry is used where agents (`group`, other than the founder) or tasks
(`verifier_keys`) are interchangeable, and only in runs without liveness.

## 4. Fairness

Four runs have liveness properties.

* `relationships`, the two agents: weak fairness of each agent's receiving, and
  of finishing a handler that has begun. The relay keeps an envelope until it is
  polled and the host polls in a loop. Users owe nothing: proposing, answering
  and revoking are not fair. `AcceptedBecomesMutual` excuses a process that
  dies, a user who answers both ways and a revoke, because the code does not
  recover from the first and is right to end the friendship in the others.
* `conversations`: weak fairness of the answers to the sends of a broadcast: the
  HTTP client has a timeout, and the loop goes on after an error without another
  await. A restart ends the call, and the property allows it.
* `service_catalog`: requests time out, so their ends are weakly fair. Taking
  the lock of the catalog cache is strongly fair: `asyncio.Lock` wakes its
  waiters in the order they came, so nobody who waits is passed over for ever,
  though the lock is taken by others in between.
* `verifier_flows`, the searcher: weak fairness of `NoAnswer` alone. The HTTP
  client that `query_discovery` makes gives up after `timeout_seconds` plus 5
  (`discovery.py:131`), and so must one that the caller brings; verifiers and
  targets owe nothing. A key resolver of the caller that raises anything but the
  three errors caught (`discovery.py:256`) ends the call with it
  (`ResolverRaises`); the properties speak of what is returned.

## 5. Proofs

Every theorem holds for every value of the constants that satisfies the
assumptions named `...Assumption` in the modules, which TLC evaluates in the
runs. What a theorem needs beyond them is a hypothesis of the theorem, and is
named below. Each invariant a theorem is about was made inductive by a
strengthening, which is the part worth reading. Steps named `...Facts` say what
the model's operators do, so that the proofs about actions need not expand them.

### The gate: `ReplayCacheProofs`

* `TypeCorrect`: the type invariant.
* `PassedStaysRemembered`: what passed is in memory and on file until its entry
  is a ttl old. The inductive invariant `CacheInv` adds to the type and to the
  property itself that a recorded pass was of an authentic envelope that was not
  dated later than the skew allows: the file alone does not tell.
* `SpacedPasses`: two passes of one envelope are at least a ttl apart. It holds
  for any ttl, and is the step property from which the next follows.
* `NeverTwice`: with `TtlCoversWindow`, ttl at least age limit plus skew plus
  the second that a timestamp loses, no envelope passes twice.
* `Refinement`: under the same condition, the gate implements `OnceOnly`.
* `NothingElseBurns`: `OnlyInterruptionsBurn`, with a file or without one. With
  the type it is inductive: pruning only shrinks the keys, and an operation that
  adds one counts a pass or an interruption.
* `VerdictsAreFinal`: `OneVerdict` of the chat gate, under both conditions. The
  gate's steps are steps of the cache, so `CacheInv` holds of it; what is missing
  is that an envelope that has not passed has no verdict (`VerdictNeedsPass`).

Hypotheses: the cache has a file (`Backed`), and where said `TtlCoversWindow`,
which the defaults do not satisfy (section 6). Among the assumptions,
`SignatureBinds` is unforgeability: a signature verifies over one content only,
which makes the replay key tell envelopes apart. The clock does not go back.
The key in the code is the signature as a string (`envelope_policy.py:83`), and
the base64url decoder is lenient (`keys.py:68-74`), so one signature can be
written in more than one way; the model, and with it these theorems, has one key
for an envelope, however it is written.

### Relationships: `RelationshipsProofs`

One store, for every set of handshakes, revokes and peers:

* `RevokesApplyOnce`: a revoke is acknowledged at most once. The invariant says
  that an acknowledged revoke is in the revocations of memory and of file.
* `ConsentGivesOneRow`: one active row per proposal nonce, in memory and on file.
* `AnswersHold`: unless the last call about a key raised, memory and file hold
  what it said.

Two agents, for every number of proposals and revokes and every content of the
channels between them. `HandshakeAssumption` says that there are exactly two
agents, that a proposal has one of them as its proposer, and that None is no
nonce. A channel is a sequence from which, on the unordered network, any element
may be taken (`RemoveAtFacts`).

* `AcceptsCountOnce`: `AcceptWorksOnce`, on either kind of network. An entry of
  the pending proposals goes one way: it is made, popped by the first accept or
  decline, and then with a handler or gone. `OneUse` says that while it is
  pending or with a handler its row is not there yet, `UsedUp` that it is past
  both, which no step undoes (`OneUseKept`); a row needs a handler, so one that
  is gone then stays gone. `Placed` says of each message, wherever it is (in a
  channel, in a list of pending ones, with a handler, in a row), that it was made
  and answered so, and on which side it belongs; the other two theorems rest on
  it too.
* `BothOrAcceptUnderway`: `FriendshipIsMutual`. While nothing disturbed the
  agents (`Undisturbed`, the property's own premise), `AcceptsLead` follows each
  proposal: an accepted one has made a friend of the answering side, and its
  accept is on its way, being handled, or has made one of the proposer.
* `RevokesAreFinal`: `RevokerIsStranger`, on ordered networks. `OneToken`: a
  proposal and its accept are each in one place at a time, and where they arrived
  they are not on their way; `RevokesEnd`: what a revoke is meant to end cannot
  come back to a side that knows the revoke, since no accept of it is behind the
  revoke in the channel. Order is used there and only there.

### Conversations: `ConversationsProofs`

* `LogTellsConversation` and `LogHasAuthority`, for every set of signed events:
  `LogExplainsConversation` and `LogIsAuthorized`. The invariant `Explained` is
  both at once, of memory and of file. The step is `ToldByAppend`: what applying
  an event does to the conversation is what the backward reading of the longer
  log says. It needs no induction over the log: an event with a roster becomes
  the last roster and everything before it is forgotten (`AppendRoster`), and any
  other leaves the last roster where it was (`AppendOther`). `Log` says that
  what the reading chooses, the last of the rosters, exists.
* `BroadcastKeepsTheStore`: a broadcast changes nothing in the store, so the two
  theorems above hold of an agent that broadcasts, which is what the run
  `conversations` checks.
* `EndedReportsAll`: the safety half of `EveryoneIsReported`, for any number of
  members: a broadcast that ended has exactly one result for each recipient. The
  invariant `ReportsInv` splits the recipients into those left, the one awaited
  and those with one result. Hypothesis `NoneIsApart`: None is neither an address
  nor a conversation, and what is recorded locally is a conversation.
* `TokenIsNeverDoubled`: `AtMostOneConvener` of a group, for every set of agents
  and each kind of network. The role is a token (`OneToken`): an agent has it, or
  one handover that its addressee has not applied, and never both. An event is
  spent where it was applied, because the log that has it refuses it
  (`LogGrows`): so duplicates do not double the token.

What the members of a group hold when every event has arrived, for every finite
set of agents and any number of events, is three theorems, from the weakest
premise about what happened to the weakest about the network. Each invariant is
about the events still on their way. All rest on `MailInv`: events are numbered
as they are signed, an agent has never applied a number that is still on its way
to it unless the network duplicates, and its store will find nothing wrong with
an event but, at most, its own state. `...Facts` state once what each action
finds and leaves (`Convened`, `MembersChanged`, `HandedOff`, `Left`,
`Completed`, `Delivered`), and the proofs about actions use only that.

* `ConvenerCountsRight`: `ConvenerCountsOnlyMembers`, with leaves that cross the
  founder's events. Agreement itself is false there, so the invariant
  (`AllCounted`) says less and about one member at a time: whoever the founder
  counts and is no longer in the conversation will hear from the founder, or the
  founder from it; and an update that removes a member is not the founder's last
  word to an agent it counts (`LastWord`).
* `OrderedGroupsAgree`: `OrderedMembersAgree`, without leaves. The events on
  their way to an agent are a chain (`Chained`): the first was made for what the
  agent holds (`Due`), each next for what the one before leaves (`Outcome`), and
  the last leaves what the founder wants it to hold. The founder lengthens the
  chains (`ChainGrows`), a delivery takes their first event (`ChainShrinks`), and
  the store accepts what fits (`AcceptedInTurn`).
* `DivergenceIsNoticed`: `NoSilentDivergence`, on a network that reorders and with
  handovers. An agent may take an event from the middle of the chain, where an
  earlier one was undone, so there is no first and last any more. `Balance` keeps
  of the chain only that it is a path from the view the agent has to the one it
  should have, maybe with cycles: each view is left by as many events as enter
  it, but for the two ends. Sending adds an edge at the end, accepting one moves
  the start (`BalanceSend`, `BalanceReceive`), and a path without edges has one
  end (`BalanceEnds`). `Completion` says that nobody completes before the
  convener and everybody after it, and `Somewhere` that the role is not lost
  unless an event was refused. On a network that duplicates the premise never
  holds, because nothing that was sent ever stops being on its way.

`GroupAssumption` says of the agents only that there are finitely many, of whom
one is the founder, and that None is no conversation.

### Services and files: `ServicesProofs`

For every set of nonces, conversations and inodes, and one process (`OneWriter`,
which the docstring of the index assumes):

* `Refinement`: system call by system call, write_json_private implements
  `AtomicCell`, where the cell is what a reader of the path finds and a call is
  pending until its rename. This is what lets the other modules save in one step.
* `AlwaysWhole`: what is at the path is a whole value or nothing.
* `AlwaysPrivate`: `SavedIsPrivate`. What is renamed has its mode already
  (`PrivateInv`), also when the temporary file was left by a crash.
* `AnswersAsTold`: the index says what the last call about a nonce said, unless
  its save failed.

The invariant `OwnTemp` says why: the temporary name has an inode of its own,
torn until it was written and what is to be saved from then on. With two writers
it fails at once, which is the run `storage_two_writers`. `CallInv` adds what a
call in flight is about to save: all of what the file says now, but for its own
nonce.

* `NeverToldTwice` and `NeverSwallowed` of the customer's calls, for every set of
  requests and responses. One invariant does for both: a response was told or
  given to a tool only if the file has it, a tool has an answer only after it
  began to wait and will be the first to tell it (`NotToldYet`), and what memory
  has was told, is with its tool, or was cut off by a restart (`NothingLost`).
* `UsesAreSpaced`: `FollowUpsAreSpaced`, for every set of grants. `StampedUses`
  says that every row in memory and file that stands for a grant knows its last
  use to the second; failed stamps and restarts are where memory and file differ.

### Identity and cards: `CardsProofs`

About all addresses, environment values and any number of generated keys.
`Backed` is the idea: a start with given settings yields a given seed and key now
and later, because both come from the environment or from a file that will not
lose them. Every card and every letter is backed, so `MailStaysReadable` and
`OwnAddressStaysOpen` follow. Hypothesis `AbsentIsApart`: None is no key and no
record. `OldKeysFade` is `RetiredKeyFades`: a key that was retired is accepted
only while a card of it can still be young; a card of a retired key was issued
no later than the retirement (`CardTypes`), and was young when it was accepted. `PinsFailClosed` is the action
property `ChangedKeyFailsClosed`.

### Verification and discovery: `VerifierFlowsProofs`

About every set of agents and identities and every lifetime. `OnlyEarnedIsHeld`
follows attestations from the verifier's signature to the stores;
`RecordedStays` needs that what is recorded was returned by a call;
`RowsNameTheirIdentity` needs that requests and codes are numbered, so that a
response with the nonce of a start can only be about the code of that start.
For every set of verifiers and list of candidates, `ConsentBeforeAddress`
follows a yes from the target through the verifier to the searcher, under one
query; `EverybodyAsked` carries the prefix of the candidates that have been asked
through the loop.

### Verifier keys: `VerifierKeysProofs`

* `ListsAreFresh`: `FreshOrOffline`, for every number of calls. A copy never says
  a later time than the one at which its list was on the server (`Honest`).
  Hypothesis `Ttl > 0`: with a lifetime of zero the copy a call has just fetched
  is already as old as its lifetime, and the statement is false.
* `FetchesAreSpaced`: successful fetches start a lifetime apart. A copy as old as
  the last success is in memory until its time is over (`SpacedWhenCached`), and
  the one fetch that goes on began after that (`OneFetch`, the lock).
  Hypothesis `NoneIsApart`: None is no time and no copy.
* `KeysKeepTheList`: overrides and key cache, composed with the list, take only
  steps that the list alone takes, or leave it alone.
* `OverridesWin`: `UserHasTheLastWord`.

### Service catalogs: `ServiceCatalogProofs`

* `CatalogIsYoung`: `StalenessBounded`. Memory, file and each task under way hold
  copies with honest times; a verification in progress is not older than its
  bound.
* `CacheNeverTurnsBack`: the action property `FetchTimesGrow`: of overlapping
  tasks only one loads the file, while memory is empty (`OneLoads`), and nothing
  that waits to be stored is older than what is there (`StoresNewer`).
  Hypothesis `NoneIsNoCopy`.

### Only model-checked

* Liveness under fairness, which is out of the prover's reach: `AcceptedBecomesMutual`,
  `EveryoneIsReported` (its safety half is proved), and the liveness properties of
  the catalog and the searcher in section 4.
* The three properties of the runs that expect a violation.

## 6. Where code and documents disagree

Three are runs. The others came up while the modules were written; the model
contains the behaviour, and no property is stated that the code would break.

* `envelope_policy.py:90`, run `replay_default_ttl_twice`: the default
  `ttl_seconds` equals the default age limit, but an envelope is acceptable for
  the skew longer. One dated ahead passes again when its entry is pruned.
* `service_followups.py:210`, run `followup_grants_replay`: only the nonces of
  the rows stored now are compared, so a replaced or revoked grant counts as new
  ("has not been stored before", `README.md:217-220`).
* `storage.py:26`, run `storage_two_writers`: the temporary file has one name per
  path, so of two processes that save, one renames what the other has opened and
  not yet written ("atomically", `storage.py:18`).
* `relationships.py:282`: as for grants, only rows stored now count as seen;
  while fresh, the handshake of a revoked relationship establishes it again. For
  a proposer that keeps `PendingProposalStore`, the one-shot `take_outbound`
  prevents it: that is `AcceptWorksOnce`.
* `relationships.py:338`: a revoke that overtakes the accept of what it ends is
  acknowledged and ends nothing (`payloads.py:663-665`). `RevokerIsStranger` is
  therefore stated for ordered networks.
* `relationships.py:343`: a friend row with a resource is not removed by a revoke
  without one, though `find` ignores the resource of friends.
* `relationships.py:338`: when the save of a revoke fails, the row has left
  memory and there is no proof on file (`README.md:105-106`).
* `conversations.py:458`: a member removed while a broadcast runs is still sent
  the message, with a list that does not name them.
* `conversations.py:454`: a broadcast goes out in a completed conversation
  (`payloads.py:233-234`).
* `stores/service_requests.py:160`: a response with status "pending" uses up the
  request, and the real answer is refused (`payloads.py:517`).
* `service_followups.py:200`: `record_issued` shares a check that refuses every
  grant this agent issued (`:163`, "a grant we created").
* `verifiers.py:358`: a verifier that a later list drops keeps its key in the key
  cache (`:352-355`).
* `did_web.py:53`: a pin whose save failed is used and never saved; after a
  restart another key is accepted as a first use (`README.md:166-168`).
  `ChangedKeyFailsClosed` is therefore stated for a pins file in step.
* `stores/pending_introductions.py:70`: an introduction that is delivered again
  keeps its place in the dictionary, so the most recently added one (`:77`) is
  not the one that a bare "approve" answers.
* `storage.py:28-29`: the temporary file has its content before its mode is 0600.
  `SavedIsPrivate` is therefore stated for the path.

## 7. What is left

Not modelled, with reasons, is listed in the components of `PROJECT.json`:

* Consent, outbound contacts and identity bindings are keyed dictionaries with a
  save, and nothing inside the SDK interacts with them: a property would restate
  get, set or delete. The hazards of their one shape are covered by `AtomicFile`
  (the save) and `Discovery` (order and redelivery of parked rows).
* Pure functions over bytes or documents (signatures, HPKE, canonical JSON,
  address and payload parsing, `resolve_did_web_key`, the filter
  `extract_searcher_identities`) are left to unit tests for good.
* Of the client, the preflight of raw envelopes, polling and acknowledging: they
  are stateless requests, and what a host does with their answers is not code of
  this repository.
* A host that awaits between the window check and the stamp of a follow-up: the
  library leaves the two calls to the host, and `FollowUp` makes them one.
* Two processes in one directory, but for the shared temporary file: the SDK
  keeps its files for one process.
