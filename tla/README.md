# ChatNow in TLA+

A verification project for the ChatNow back end: TLA+ models of its message
path and of the services beside it, TLC runs on small instances, and proofs
checked by TLAPS. Paths are relative to the repository root (`src/` here is the
tree with `transmite/`, `message/`, `push/`, ...). `PROJECT.json` lists the
components, the runs, the source lines of every definition, the findings, the
hazards and the theorems.

## The system

ChatNow is a set of brpc services around MySQL, Redis, RabbitMQ,
Elasticsearch, MinIO and etcd.

| Part | What it does | State it owns | Modelled by |
|---|---|---|---|
| Gateway | HTTP to RPC, token check, routing | none | - |
| Transmite, send path | idempotency gate, rate limit, member list, sequence numbers, publish with confirm | idempotency keys, counters (Redis) | `MessagePipeline`, promise in `SendOnce` |
| Transmite, message ids | Snowflake generator under a leased worker id | lease keys in Redis or etcd, process memory | `WorkerIds` |
| Transmite, member resolution | L1 / L2 / RPC read-through of the member list | L1 per process; versioned set, sentinel and mutex in Redis | `MembersCache` |
| Transmite, sender profile | L1 / L2 / RPC read-through of a profile that Identity changes | L1 per process; entry and generation in Redis, MySQL row | `UserInfo` |
| Message, consumer | stores a message and the timelines, hands it to Push and to the index | MySQL rows, PushOutbox, ESOutbox | `MessagePipeline` |
| Message, other operations | history, recall, reactions, pins, read cursor | MySQL rows | `GroupRows` (pins, read cursor) |
| Conversation | create, add, remove, quit, dismiss, roles, settings | conversation and member rows | `MembersCache` (the list and its caches), `GroupRows` (the rows) |
| Push | web sockets, routes, unacked ledger, cross-instance calls | connections, L1 routes; route hash and ledger in Redis | `PushDelivery`, promise in `DeviceInbox` |
| Service discovery | etcd registration, channel per service | leases, `ServiceManager` | `PushDelivery` (as Push uses it) |
| Leader election, worker ids | a key with a lease and its watchdog | etcd or Redis keys | `WorkerIds` |
| Media | upload, deduplication, quota, clean up | MySQL rows, objects | `Media` |
| Identity | accounts, login, token rotation | MySQL rows, token keys in Redis | `Tokens` (refresh tokens), `UserInfo` (profile) |
| Relationship | friend requests, relations, blocks | MySQL rows | - |
| Presence | who is online, subscriptions, typing | Redis hashes | - |
| Circuit breaker, rate limiters | decide whether a call is made | process memory, Redis | - |
| Search, mail, logging, formats | queries, I/O, byte and string checks | none of interest | - |

A message travels: client -> Gateway -> Transmite `SendMessage` -> RabbitMQ ->
Message `onDBMessage` -> push queue -> Push `onPushMessage` -> device, which
acknowledges to Push. Three modules follow that path: `MessagePipeline` from
the request to the push queue, `PushDelivery` from the push queue to the
acknowledgement, `MembersCache` the member list that decides who receives it.
`WorkerIds` is where the id of a message comes from, `UserInfo` the profile of
its sender. `Media`, `Tokens` and
`GroupRows` stand beside the path and share no state with it.

## Modules

Most modules have an `MC...` module that instantiates them for TLC, `.cfg`
files for the runs and a `...Proofs` module with the theorems. `WorkerIds`,
`Tokens`, `GroupRows` and `UserInfo` are extended by one module, `MCServices`, and
so have no name in common; `Tokens` and `UserInfo`, both about Identity, share
`IdentityProofs`. `MCSendPath` has the liveness of `MessagePipeline` and, as an
instance, that of `WorkerIds`. Operators whose comment begins with "Mutant" are deliberate errors; no specification uses
them. They show that a property fails when the code it is about is wrong.

### MessagePipeline

State: one record per `SendMessage` request (`pc`, `keyOf`, `holds`, `rid`),
the idempotency keys in Redis (`idem`), the message at the broker (`broker`,
`redel`), the consumer (`step`), the table (`db`), and the hand-over to the push
and index queues (`waiting`, `sent`, `outbox`). A request is identified with
the Snowflake id it draws.

Actions, in the order of the code: `Send`, `Claim` (SET NX of the key),
`Probe` and `Reclaim` (key present or corrupt), `Lookup` (ask Message),
`Admit`, `Publish`, `ConfirmAcked` / `ConfirmFailed` / `ConfirmLost`;
then `Deliver`, `Store` (the transaction with its unique keys),
`MarkPersisted`, `HandOver` and `HandOverConfirm` per topic, `AckDelivery`,
and the reapers `Reap`. Faults are actions or disjuncts of their own: failed
Redis, RPC and database operations, lost confirms, crashes of either service,
expiry and corruption of a key.

`bypassed` records the keys whose gate a fault opened (Redis failing open, an
expired key): for those the code makes no promise. `cutOff` records stored
messages whose hand-over a fault cut off.

### MembersCache

State: the conversation and member rows (`exists`, `db`), handlers that change
them (`job`, `todo`), the Redis copy (`l2`, `sentinel`, `ver`, `mutex`), the L1
entry of each process (`l1`, `l1ver`, `inflight`), and for each call of
`resolve_members` its locals and those of the `GetMemberIds` handler it calls.
Every Redis command, transaction and RPC is a step. The history variable
`held` is the set of lists the rows have had since the version last moved, and
`window[p]` those that were held during call `p`.

### PushDelivery

One user with several devices and several Push instances; members of a message
are handled one after the other and share no state. State: the route hash
(`route`), each instance's L1 copy and a read under way (`l1`, `fill`), the
connections, the handler on each instance's web-socket thread (`ws`), the
unacked ledger, the push queue, `onPushMessage` (`cons`) and `PushBatch`
(`batch`) per message, and the etcd registrations (`listed`).

`Choose` follows `ServiceManager`: the channels of the whole service are stored
under every instance path, so a call for one instance goes to any. There is no
stale-route reaper in the model because the program never starts it:
`make_stale_reaper_election` has no caller. The score of a ledger entry is
abstracted to fresh or due, and the two keys of a ledger, which every script
writes together, to one.

History variables: `got`, `settled` (acknowledged or lost by expiry), `quiet`
(deliveries that saw one unchanging route), `promise` (devices such a delivery
owes the message), `spread` (the devices were on several instances).

Bounds besides the constants: one `PushBatch` handler per message at a time,
so a redelivered message calls only after a handler that outlived its caller
has ended. All instances share one view of the registrations.

### DeviceInbox and PushPromise

`DeviceInbox` says what Push promises to a device, without routes, connections,
instances or faults. Each device has an inbox. A message with a `user_seq` is
received only after it was entered there, and it leaves the inbox only when the
device has received and acknowledged it or when the inbox expires. It is entered
only while its delivery is `open`, and a delivery that is over is not opened again.
A device may receive a message several times; that is what at-least-once means
here.

`PushPromise` maps Push to it: the inbox of a device is what its ledger holds, and
a delivery is open until the queue has its acknowledgement and no `PushBatch`
handler left behind by a timeout is at work on it. `KeepsInbox` is the whole of
`DeviceInbox` as a property of Push. That every connected device is given the
message in the first place is not part of it: `AcknowledgedIsHeld` says when that
holds, `AtLeastOnce` when it does not.

### SendOnce and PipelinePromise

`SendOnce` says what `SendMessage` promises, without keys, queues, processes or
faults. A request is asked, may be taken by the system, and may be answered
with a message that was taken for the same client_msg_id. An answer is final. A
taken message is stored at most once, under a client_msg_id with no row yet,
and only what is stored is handed on. For a client_msg_id that is not `open`
(Redis neither failed nor forgot its key) only one message is taken, which every
answer then names.

`PipelinePromise` maps the pipeline's state to it: `taken` is what the broker
has accepted, `answer` the id in a success response, `stored` the table, `handed`
what was sent to the queues, and `open` is `bypassed`. `KeepsPromise`
is the whole of `SendOnce` as a property of the pipeline.

### WorkerIds

State: the lease keys (`owner`, for a single Redis also the rotating `turn`),
each process run (`pc`, its candidate slot, its worker id), the watchdog's view
(`lost`, `fails`), which runs are cut off from the store, and the generator
(`clock`, `lastTs`, `sequence`). Every store call is a step, `NextId` is one
step because `SnowflakeId::Next` holds a mutex. Faults: a failed call, a cut
connection, a crash, a clock set back. `doubt` records the runs whose lease or
clock cannot be relied on: one that fell back to the configured worker id, was
cut off long enough for its key to expire, or whose clock is behind ids its slot
has already drawn. `IdsUnique` is about the others.

### Tokens

Refresh tokens of one device: `Login` (and `Register`, which ends in the same
way), `RefreshToken`, `Logout`, as sequences of `JwtStore` calls, by handlers
that overlap. `loose` records tokens whose rotation met a failing Redis call,
since the store then answers "not there" and the test is passed. `session` is
the token that should work, or that nothing is known because requests
overlapped.

### UserInfo

The profile of one user: the row (`db`), the entry in Redis and its generation
(`entry`, `gen`), and L1 of each Transmite process. `resolve_user_info` is
`Resolve`, `Lock` (the in-flight mutex), `Get`, `Generation`, `Fetch`
(`GetProfile`), `Fill` (`set_if_generation`) and `Publish` (L1); `UpdateProfile`
is `BeginUpdate`, `PreInvalidate`, `Commit`, `PostInvalidate`. Faults: a Redis call
that fails, done or not; a database call that fails, with or without its commit;
a failed RPC; a crash on either side. `settled` is the row when an update last
ended with its second invalidation answered, `floor` what `settled` was when a
lookup began.

### GroupRows

The rows of one group: member rows (role, quit mark, acknowledged position), the
conversation row (owner, `member_count`, status) and the pins. A handler selects
the caller's row, the target's row, and calls one method of a table class. A
method that reads a row without a lock and writes the whole row back is two
steps. The ghost `stale` turns true when a row is written back after it has
changed. Its properties say what holds until then.

### Media

State: `media_file` rows (`status`, `file`, `place`), the object store
(`object`, `uploads`, URLs handed out), the shared blobs (`blob`, `ref`,
`total`, `aged`), the quota (`used`), the handlers, and the one clean-up worker
with its list of rows. Every MySQL transaction and every object store call is a
step. `torn` records hashes whose reference a fault lost, `loose` users for whom
requests overlapped or a check was made without their numbers: there the code's
check-then-act promises nothing.

## Runs

| Run | Instance | Shows |
|---|---|---|
| `pipeline_retries` | 3 requests, 1 key, any one fault; 161k states | `NoGhostSuccess`, `OneMessagePerKey`, `SameAnswer`, `StoredOnce`, `GivenUpOnlyIfUnstorable`, `KeyNeverForgets`; the refinement `KeepsPromise` |
| `pipeline_handover` | 2 requests, push and index, one fault, fair; leases: 2 processes, 2 slots, up to 2 faults, fair; 118k states | `HandOverNotForgotten`, `HandOverOnlyStored`, `QueuedIsStored`, `StoredIsHandedOver`; `DeposedStops` |
| `pipeline_crash_loses_push` | 1 request, one crash | violation of `StoredIsPushedAlways` |
| `members_private` | private conversation, 2 calls of one process, 2 changes, one fault; 1.0M states | `NoStaleWriteBack`, `AnswerFresh` |
| `members_group` | group, 2 overlapping handlers, 3 changes, 1 call, one fault; 1.1M states | `SettledIsExact`, `AnswerFresh` |
| `members_sentinel_race` | private, 2 calls, 1 change | violation of `ConfirmedEmptyIsTrue` |
| `members_dismissed` | group, 2 changes | violation of `DismissedRejects` |
| `push_delivery` | 2 devices, 2 instances, 2 connections, one Redis error on the delivery path; 0.9M states | `PersistedBeforeSent`, `AcknowledgedIsHeld`, `AckIsFinal` |
| `push_resend` | 1 device, 2 instances, one fault of any kind, fair; 27k states | `AcknowledgedIsHeld`, `ResentUntilReceived`, `EventuallyConsumed`; the refinement `KeepsInbox` |
| `push_split_devices` | 2 devices, no fault | violation of `AtLeastOnce` |
| `media` | 2 files, 1 content, 1 handler, the worker, one fault, fair; 0.5M states | `QuotaKept`, `ReferencesCoverFiles`, `UploadsEnd` |
| `services` | ids: 2 processes, 2 slots, one fault; tokens: 3 tokens, 2 handlers, one fault; group: 3 users, 2 handlers, 3 requests; profile: 2 threads, 2 overlapping updates, up to 2 faults; 0.6M states | `IdsUnique`, `IdsIncrease`; `ExchangedOnce`, `SessionAgrees`; `OwnerAgrees`, `CountCovers`, `AckKept`, `PinsBounded`; `ProfileNotBehind` |

The runs also check the type invariants of `MessagePipeline`, `MembersCache`,
`PushDelivery`, `Media` and `WorkerIds`; those of `Tokens`, `GroupRows` and
`UserInfo` are proved (see below).

### What the violations say

- **A crash loses the push.** A Message process that dies after its commit and
  before the publish leaves a row that makes the redelivered message look done.
- **The sentinel race.** `resolve_members` reads the version that tags its L1
  sentinel after the sentinel, so a creation in between is hidden from that
  process for a minute.
- **Dismissed conversations.** `DismissConversation` keeps the member rows, and
  a later send still finds them.
- **Devices on two instances.** When the instance that consumes a message
  reaches one of the user's devices, the devices elsewhere get neither a ledger
  entry nor a call.

### What the conditions of the properties say

Some properties hold under a ghost condition. What the code does outside of it:

- **Whole rows written back.** The comment at
  `common/dao/mysql_conversation_member.hpp:308` says that the acknowledged
  position is not overwritten by whole-row updates of other services; `update()`
  of the same class (261-266) writes the whole row and can move it back. The
  comment at 525 says `FOR UPDATE` keeps the count from drifting; two concurrent
  calls of `set_quit` or `rejoin` on a row read earlier still drift. Both need
  `stale`, under which `AckKept` and `CountCovers` promise nothing.
- **Roles.** `ChangeMemberRole` tests and then writes; with a transfer in
  between a group may be left without a member of role OWNER. `OwnerAgrees` says
  there is never a second one.
- **Pins.** Overlapping requests can exceed the limit, by less than one message
  per thread (`PinsBounded`).
- **Objects deleted while referenced.** The tasks for timed out and quarantined
  rows delete by the key they have read, without looking at the references, so
  other files with the same content may lose their object.
  `ReferencesCoverFiles` is about the count, which is right; nothing ever calls
  `dec_ref`.
- **A late commit is not sniffed.** The cursor of `magic_sniff` moves past
  files that are still pending.
- **Calls to an instance path.** `choose(instance_path)` in
  `common/mq/channel.hpp:133` and 151 is round robin over the service, not a
  direct connection, so a `PushBatch` may reach an instance that does not have
  the device. The ledger and the resend make up for it.

- **Profiles.** `ProfileNotBehind` is about Redis and about lookups that get past
  L1; L1 may return an older profile for its 45 seconds. An update whose second
  invalidation fails, or that dies before it, may leave the old profile in Redis
  until its time to live ends or the next update. `select_by_id` answers a
  database error like a missing row, so one such error caches "no such user" for
  five seconds and sends of that user fail meanwhile.

### Bounds

Two overlapping requests show a race on a key, and the third lets a late
callback meet a request that came after. One fault shows each error path in each
interleaving; the proofs cover any number. Two calls of one process meet on the
in-flight mutex and on L1; two handlers overlap their commits and
invalidations. Two instances are a local and a remote one; two connections let
one device move, or two devices be apart. `push_delivery` leaves out the faults
that `push_resend` has, and there one connection per behaviour keeps the
liveness check small. `KeepsInbox` was also checked once on the instance of
`push_delivery` (0.9M states, passes). The branch of `onPushMessage` for messages without a
`user_seq` is in the model, but no run has such a message.

`media` has two files of one content, so that they share a blob, a quota that
fits one of them, two purposes so that their keys may differ, and lengths that
agree or not with what was announced. Its one handler overlaps with the worker;
handlers that overlap with each other are left to the proof. In `services` the
two slots and two processes make a worker id change hands, one sequence number
per millisecond forces the wait for the next, and three tokens allow a rotation
of a rotated token. Three requests about a group are enough for two to overlap
and a third to see the result. Of the profile, the two threads meet on the
in-flight mutex, the two updates overlap, and two faults let a lookup lose both the
generation and the row. The four parts of `services` share nothing, so one
behaviour moves one of them; the same is true of the two parts of
`pipeline_handover`. The leases there have one millisecond (`MaxTime`), which leaves
out the clock: whether a deposed process stops does not depend on it. In
`services` there are two, so that a clock can be set back. An
instance of `UserInfo` with a second process and one fault (887,226 states)
passes as well.

Symmetry is used only in runs without liveness properties.

### Fairness

`MessagePipeline`: weak fairness of the consumer's steps and of the reapers,
which are threads that loop for as long as the process lives; none of clients
or faults. `PushDelivery`: weak fairness of thread steps, of time running out
(ages, L1 entries, leases); strong fairness of what waits for the single
web-socket thread or for an L1 entry that may expire again: the thread serves
its sockets in turn, and `resolve_route` returns the route it loaded. Clients
with an open connection send heartbeats and acknowledgements. Dead instances
need not come back. `Media`: weak fairness of the worker's steps, which loop
until the process stops, of the handlers, which are running threads, and of time
passing; none of clients. `WorkerIds`: weak fairness of lease expiry, of the
threads that renew and check the lease, of the watchdog's abort and of a
connection coming back (`DeposedStops`: a process that lost its lease stops).
`Tokens`, `GroupRows` and `UserInfo` have none.

## Proofs

Every safety invariant and every action property of a passing run has a theorem,
for all values of the constants: any number of requests, users, devices, handlers
and processes, and any number of faults (at most one in `SecondChance`, see below).
`PROJECT.json` lists the theorems; each
`...Proofs` module states its inductive invariant, proves that every action keeps
it, and derives the properties.

`MessagePipelineProofs`: `TypeOK`, `NoGhostSuccess`, `OneMessagePerKey`,
`SameAnswer`, `KeyNeverForgets` from the invariant `IInv`. The properties are not
inductive alone: that two requests never publish for one key depends on where
each is and on what the key holds. `IInv` adds `Shape` (how the phases of
request, broker and consumer fit), `Gate` (a key no fault opened has one engaged
request and is present as long as there is one) and `Named` (what a key names or
a request has read is a message the broker took). Three further parts rest on it:

- `StoredOnce`, `HandOverNotForgotten` and `HandOverOnlyStored` are inductive
  together with `Shape` (`StoreInv`).
- `SecondChance` is about `GivenUpOnlyIfUnstorable`. A message is given up when
  its second delivery fails, so the property ends with the second fault; the
  theorem states it for every state reached with at most one, whatever
  `MaxFaults` is. `Chances` counts: a message that comes again has cost a fault or finds
  its client_msg_id stored, and one that is given up cannot be stored, or has cost
  two faults.
- `PromiseKept` is the refinement `Spec => KeepsPromise`: under the invariant each
  action is an action of `SendOnce` or changes nothing the mapping sees. Most are
  stutters; the ones that count are the publish (taken: `Gate` shows that no other
  message of the key was), the answers (`Named` shows that they name a message of
  the key), the transaction (stored) and the hand-over.
- `TakenForGood` is an action property: an accepted message stays accepted under
  its key, a stored one stays stored. `QueuedIsStored` and `StoredIsHandedOver` are
  written as recurrences (`[]<>(P => Q)`), which TLC checks at a fraction of the cost
  of `P ~> Q`; because such a `P` never becomes false again, the two say the same.

`MembersCacheProofs`: `TypeOK`, `NoStaleWriteBack`, `SettledIsExact`,
`AnswerFresh`. The invariant `CacheInv` is about versions: no stored version is
ahead of the counter, and whatever is held under the current version is in
`held`. So a conditional write whose version still matches writes a list of
`held`, and a call returns a list of its `window`.

`IdentityProofs`, profiles: `InfoTypeOK` and `ProfileNotBehind`. The second invalidation of an
update moves the generation in the step that settles the row. `Fenced` says what
that is good for: a reader whose observed generation is still the current one
holds a row that is not behind `settled`, so that the fill puts none back.
`Settles` is the same for the entry, `Answers` for what a call returns.

`PushDeliveryProofs`: `TypeOK`, `AcknowledgedIsHeld`, `PersistedBeforeSent`,
`AckIsFinal`. `AcknowledgedIsHeld` speaks of the moment after the
acknowledgement, so the invariant follows the delivery up to it: `Placed` says
where a message may be (queue, handler, done), `Sending` that a handler about to
send has written the ledger, `Covered` that as long as the route has not changed
since the delivery began, the devices the loop has passed hold the entry or
settled it, and `QuietInv` what the history variables know about such a
delivery. At the acknowledgement the loop has passed all devices, which is what
the property needs. Devices spread over several instances are excluded there
(`spread`): that case is the violation above.

`PushPromiseProofs`: the refinement `Spec => KeepsInbox`, from the same invariant and
`OweInv` (what a client may still acknowledge, its device has received). Routes,
connections and the web-socket thread are stutters. `persist_unacked_` enters the
message, and may do so in the step in which a failing call ends the delivery. A send
is received or lost on the way; `Sending` shows that the entry is there, or was
settled since. An acknowledgement needs `OweInv`. The death of an instance ends
handlers and opens nothing, because by `Placed` a message that is done has no
consumer (`Dies`); and `kBumpScoreLua` changes no inbox, because it updates only
entries that are there.

`IdentityProofs`, tokens: `TokensTypeOK`, `ExchangedOnce`, `SessionAgrees`. For the second:
numbers not given out occur nowhere (`Fresh`), a signed token is its handler's
secret until it is stored (`Unused`), and of the handlers about to replace a token
only one got past the chain key (`Rotating`, `Exchanged`). For the third: a token
not yet active is on no list (`Clean`), and while something is known of the
session one handler at most is under way, and its step tells whether the token
is usable already, still, or not any more (`Serial`).

`WorkerIdsProofs`: `TypeOK`, `IdsUnique` and `IdsIncrease`. `Owning` (a process
not in doubt owns the key of its worker id) gives exclusion at one time; `Ahead`
(what others drew under that id is older than its clock) gives it over time, when
a slot changes hands.

`GroupRowsProofs`: `GroupTypeOK`, `OwnerAgrees`, `CountCovers`, `PinsBounded` and
`AckKept`. As long as nothing is `stale`, a row written back is the row that was read, so only
the method's own field changes (`Handlers` says which method takes which step),
and `member_count` moves with the quit mark. `PinRoom` counts a handler that has
passed the limit as if its message were pinned already.

`MediaProofs`: `TypeOK`, `ReferencesCoverFiles` and `QuotaKept`.

- References. Committed files alone are not inductive: a handler that has added
  its reference commits whatever happened to the row since, and the worker
  quarantines a file it found committed even if the row was marked meanwhile.
  `Pinned` adds those files, and `Covered` says that the references cover them.
  `Ensured` says that a blob without a reference has a handler about to add one, so
  that only a torn content gets old without one and is collected.
- Quota. Used and pending bytes are not inductive either: the clean-up may mark a
  row that a handler goes on to charge for. `Owed` adds the files of the handlers
  between the test of the quota and the charge, and `Within` bounds what is used
  and owed. `Alone` (requests overlap for loose users only), `Seen` (what the test
  compares is not below what is used) and `Settled` (a row being charged for is
  not pending any more) carry it through a request. `PendingBytes`, a `SUM` in the
  code, is written as the number of bytes of the pending files, the elements of
  `Bytes`, which makes it additive by the theorems about cardinality.

The assumptions are the named `...Assumption`s of the modules: the types of the
parameters, that distinguished values lie outside the sets they are added to, and
that a process of `UserInfo` shares no thread with another. TLC evaluates all of
them.

Only model-checked are the liveness properties, since fairness is outside what
the prover handles: `QueuedIsStored`, `StoredIsHandedOver`,
`ResentUntilReceived`, `EventuallyConsumed`, `UploadsEnd` and `DeposedStops`.

## Not modelled

- Sequence numbers and their backfill after a loss of Redis: what they promise
  depends on how many messages are still queued, which no code bounds.
- Rate limits and the circuit breaker: they decide whether a call is made, and
  the models let any such call fail.
- `PushToUser`; the cross-instance outbox (nothing enters it); the reaper of
  stale routes (nothing starts it).
- Relationship: short sequences of statements on rows no other service changes.
  One order is worth knowing: a request is marked accepted before the relation is
  inserted (`relationship/source/relationship_server.h:332`), so that a failed
  insertion cannot be retried.
- Presence: keys that are written on connect and heartbeat and expire.
- In `UserInfo`, unreadable entries, the end of the generation key's week and a
  Redis that comes back empty; `batch_get` and `batch_set`, which have no caller.
- In `Media`, the lease that keeps a second clean-up worker from running
  (`cleanup_worker.hpp:104-140`): one worker is assumed. Row updates are atomic,
  and a failed transaction is rolled back.
- In `GroupRows`, a `count_by_conversation` that fails and returns 0, and a
  caller who names themselves in `member_ids` and is counted twice.
- Devices and verification codes of Identity; recall and reactions:
  single statements. History, download and search are read-only.
- Formatting, logging, metrics, query construction, signing and hashing have no
  state to check. Lost etcd watch events and bthread scheduling are below the
  level of the models. Third-party code under `src/third` is not part of the
  system.
