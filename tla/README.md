# Havemind: a TLA+ model of shared-vault synchronisation

Havemind keeps one Obsidian vault identical on the devices of several people. A
small self-hosted server (Fastify and SQLite, `apps/server`) stores immutable,
content-addressed revisions that it cannot interpret; a plugin
(`apps/obsidian-plugin`) turns local edits into revisions, pushes them, pulls
those of others and merges. A headless build of the plugin lets an agent work in
the vault. This directory models the parts whose correctness depends on
interleaving, crashes, lost messages and retries, checks them with TLC on small
instances, and proves what matters most with TLAPS for every value of the
constants.

Paths below are shortened: `server/` is `apps/server/src`, `plugin/` is
`apps/obsidian-plugin/src`, `core/` is `packages/sync-core/src`.

## 1. Inventory

| Component | Code | State it keeps | What makes it hard | What makes it correct | Modules |
|---|---|---|---|---|---|
| Revision repository, push handler, quota | `server/revision-repository.ts`, `sync/sync-routes.ts`, `quota.ts` | `revisions`, `files`, `file_heads`, `vault_events`, next sequence, replay records | handlers interleave at every await; judged before the put, committed after it; retries | one causal log, heads = leaves, true receipts, quota | `RevisionRepository`, `VaultLog`, `OrderBatch` |
| Blob store, sweep, expiry of records | `blob-store.ts`, `blob-gc.ts`, `prune-expired.ts` | one directory entry per hash | a crash between rename and fsync; the sweep against puts and backups | a committed row's bytes are durable | `RevisionRepository`, `Backup` |
| Long poll, wake subscription | `vault-wake-registry.ts`, `device-throttles.ts`, GET `/wait`; `plugin/runtime/wake-subscription.ts` | held requests, slots; announced cursor, settling checks, backoff | subscription against commit; polls left behind; a wake whose sync has not landed | no leaked slot, no lost wake, no spinning | `LongPoll`, `WakeSubscription`, `WakeChannel` |
| Refresh families, refresh route, access-token provider | `auth/session-repository.ts`, `onboarding-routes.ts`; `plugin/runtime/access-token.ts` | token rows, access tokens; stored token and pending rotation | answers lost after the token is consumed; two providers; a crash before the write | never burns its own family, gets access again, dead means dead | `RefreshRotation` |
| Sync runner, controller, durable sync state, transport, wiring | `plugin/sync/sync-runner.ts`, `runtime/controller.ts`, `sync-state.ts`, `sync-transport.ts`, `main.ts` | cursor, outbox, authored ids, dead letters, parked events; a cache per connection | partial refusals, holes, poison events, requests refused whole, restarts | nothing lost, nothing skipped, everything drains | `SyncRunner` |
| Invitations, approval, pairing, rejoin, agent enrollment, revocation, client onboarding | `auth/*.ts`, `plugin/onboarding/`, `headless/join.ts` | codes, devices, memberships, grants, enrollments; each client's saved half | lost answers, two owners, rows loaded earlier, expiry, a close between two writes | sessions belong to members, an owner stays, nobody is stranded | `Membership` |
| Producer, outbox repository, scan at start, config poller | `plugin/runtime/adapters/push-producer.ts`, `sync/outbox-repository.ts`, `sync/reconciliation.ts` | mapping, heads, queue, journal, payload files | late and duplicate events, damaged or rewound `data.json`, a crash between writes | every change queued once, one identity per file | `Producer` |
| Vault apply, revision history, head reconciliation, conflicts | `plugin/runtime/vault-apply.ts`, `head-reconciliation.ts`, `conflict-resolution.ts` | files, journal, backups, conflict copies | the user types meanwhile; two devices merge at once; a stop inside an apply | no edit lost, nothing hidden, merges end | `VaultApply`, `LogReader` |
| Three-way merge | `core/diff3.ts` | none | overlapping hunks, both sides of one merge | neither side's change dropped, same on both devices | `Diff3` |
| Locks, `data.json` queue | `plugin/runtime/keyed-mutex.ts`, `plugin-data-mutex.ts` | promise chains; cache of the file | opposite renames, a forgotten key, a failing write in the queue | exclusion, no key of the file lost, calls end | `KeyedMutex`, `PluginData` |
| Backup, restore, change feed's epoch | `server/backup-restore.ts`, `backup-scheduler.ts`, `backup-cli.ts` | artifacts, epoch, timer | pushes and sweeps during a backup, two processes pruning, bad files, a crash in a restore | the last good artifact survives; a log is the server's | `Backup`, `LogReader` |
| Headless agent | `plugin/headless/` | lock file, `runner.json` | failed models, a crash before the save, a dead container's lock, edits during a run | no change passed over, news reaches the agent | `AgentRunner` |
| Tokens and PINs, member roster, migrations, user interface, operations scripts | see `PROJECT.json` | | | cryptography, queries, display, sequential I/O | not modelled |

How they interact. A local commit puts an envelope into the outbox and triggers
a cycle of the runner. The cycle pushes batches to the push handler, which
commits them to a vault's log and notifies the long-poll registry. A held `/wait`
of another device returns, its wake subscription triggers that device's runner,
and that one pulls pages of the log and hands events to vault apply, which reads
ancestors in the revision history and may queue a merge. Everything a device
remembers goes through the queue over `data.json`; everything that touches a file
takes the per-file lock. Every request carries an access token of the provider,
whose family the session repository rotates. Revocation cuts through all of it:
it ends the family and makes the next commit of a push in flight fail. A restore
takes the log back under a new epoch.

`PROJECT.json` lists the components with their sources and what each leaves out,
and the hazards, each at its line with the properties that would catch it.

## 2. Modules

| Module | Models | Composed with |
|---|---|---|
| `RevisionRepository` | push handlers, tables, blobs, crash, restart, sweep | refines `VaultLog` |
| `VaultLog` | what the server promises: one append-only causal log per vault | |
| `LongPoll`, `WakeSubscription` | the server's and the client's half of a poll | `WakeChannel` joins them at the connection |
| `RefreshRotation` | one refresh family with its server and its holders | |
| `SyncRunner` | cycle, durable state, controller, one or two connections | the server is a log that answers |
| `Membership` | the tables of `auth/` and three joining clients | |
| `Producer` | one device: from what the user does to a queued revision | |
| `VaultApply` | several devices, one file, the server's log | |
| `Backup` | data directory, artifacts, scheduler, command line, restore | `LogReader` adds a device that reads the log |
| `AgentRunner` | service, commands, lock file, `runner.json` | |
| `OrderBatch`, `Diff3`, `PluginData`, `KeyedMutex` | four small parts | `MCParts` checks them |
| `*Proofs` | theorems about the module they extend | |
| `MC*` | instances for TLC | |

### Correspondence with the code

**RevisionRepository.** A table is a set of rows, a blob stands for its hash, a
header for its canonical bytes, and a (device, vault) pair for the membership,
user and device that `#assertAuthorizedActor` joins. A handler's `pc` is the await
it stands at: `check` (`assertCommittable`), `put` and `sync` (`BlobStore.put`
up to the rename and up to the directory fsync), `commit` (`commitRevision`, one
`BEGIN IMMEDIATE` transaction, hence one action), `reply`. `CommitVerdict` and
`WouldCommit` keep the order of the code's checks. A quota refusal or a fault
ends the request (413, 500) without its results; any other refusal is recorded
and the loop goes on. `Crash` keeps committed rows (WAL with
`synchronous = FULL`) and lets an entry that was not fsynced survive or not.
`SweepOne` and `Listen` follow `index.ts`: the sweep ends before the server
listens. The code looks at a revision's parents one by one and reports the first
bad one; the model reports a missing parent before a misplaced one, which
changes only the code of a refusal.

**LongPoll, WakeSubscription, WakeChannel.** The server is one event loop, so
what runs between two awaits is one step: `WaitHold` reads the cursor, takes the
slot and registers the listener at once. A push is abstracted to what waiters see
of it: it commits (moving the cursor), finishes with a notification (200, and 413
after a prefix) or ends without one (500). `Teardown` releases a wait once,
whichever of timer, wake and closed connection comes first. The client has two
activities, the loop and the poll it awaits: the loop may leave a poll behind.
`WakeChannel` takes the client's cursor of the server to be `cursor[Home]`, and
`conn` is the server's connection that holds the client's poll; a client that
loses the network leaves it to the server's timer.

**RefreshRotation.** Tokens are numbers in the order they were minted; a row
holds its generation and the successor it was rotated to. The client's two
durable cells are `stored` and `pending` (`onboarding-secrets.ts`). `Foreign` is
any other holder that presents tokens of the family. A request is assumed to reach
the server before its client gives up on it and starts the next: if the network
delivered one after its timeout, the exact-retry rule would still grant the last
one but an older one would burn the family.

**SyncRunner.** `disk` is the sync key of `data.json`, `cache[c]` a connection's
copy, `run[c]` the local state of its runner and controller; each action is the
code between two awaits. The server is an ordered `log` that takes or refuses
what is sent (`Decide`): `Poison` revisions are refused for good, `Oversized`
ones make a request too large, a merge whose heads are taken is refused with
`HEAD_SET_CHANGED`. `vault` is the set of revisions that have reached the files.

**Membership.** An invitation stands for its token, the user and the device it
will become; a pairing code for the device it makes; a refresh token for the
family it begins. Every server operation is one transaction, hence one action
that keeps the order of the code's checks. `rows` holds what a route loaded
before its transaction, which is how two owners decide from old rows. The three
clients (`guest`, `laptop`, `service`) run from one durable write or network wait
to the next and may be closed there.

**Producer.** `data` is `data.json`, `bak` its previous save, `payloads` the
payload store. A path stands for its collision key, a content for its hash.
Creates, renames and deletes enter the serial observer's `tasks`, a modify waits
in `pending`, configuration files are polled, and the scan of a start compares
disk, mapping and server. `commitLocalChange` is the one write that moves
mapping, head and queue; `Build` and the payload store come before it.

**VaultApply.** A text is the set of edits it holds; `clash` says how edits lie
to each other, and decides whether `mergeText` combines two texts. A device's
`task` is the apply it is in the middle of, one step per durable write. The
per-file lock keeps the observer out of an apply, not the editor, whose `Save`
falls anywhere. A queue is a set: revisions are numbered in the order they are made
and are queued as they are made, so the order of the queue is that of the numbers.

**Backup, LogReader.** A revision is a number and `BlobOf` its blob. A cycle
copies the database, lists and copies the blobs, publishes, verifies, prunes;
`put` is the push in flight. A restore copies and passes its two gates before it
serves under a new epoch. The device reads the log twice: the runner pulls past
its cursor, and `RevisionHistory` holds the whole log, seeded from its store; a refresh
saves only what the store is not known to hold (`PersistedCursor`).

**AgentRunner.** The vault is one note and the task note. Two processes, the
service and a command, go from `acquiring` the lock through a run to the save of
`runner.json`. The model of a run is external: it writes or not, fails or not. `Views`
is what a process may decide on: the log its sync has just brought or, since `trigger`
answers a failed cycle without throwing, the part of it that an earlier one had.
`Clashing` names revisions whose texts do not merge, which leaves their heads open. A
person edits over a head, over all of them, or, having been offline, over any revision.
A write is queued over the one head on the agent's disk. What a lost answer to a push
does to the queue is `SyncRunner`'s subject.

**OrderBatch** is Kahn's queue of `orderBatch`, a step per turn of its loop; the call
is synchronous, so its steps meet no other. **Diff3** translates `mergeText`;
**PluginData** is the queue of `updatePluginData` calls over one file, **KeyedMutex**
the promise chains of `runExclusive` with their registry.

## 3. Runs

Every passing run ends without error on its whole state space.
`CHECK_DEADLOCK FALSE` is set because behaviours end when a named bound is used
up, or because the system may stop (a stopped connection, a removed member, an
empty queue).

| Run | Instance | Shows |
|---|---|---|
| `push` | 2 handlers (symmetric). Graph: one file, two concurrent edits, their reconciliation, an edit on a merged head, 5 pushes. Reuse: 3 pushes over 2 vaults that share blobs, reused ids and keys, a quota of two blobs, a revocation, a fault, a crash, the sweep | `QuotaRespected`, `ReceiptsTrue`, `BlobsDurable`, `ImplementsVaultLog` |
| `parts` | every batch of up to 3 revisions with an outside parent; every three texts of up to 3 lines over 3; a direct and a split store with 2 saves and 2 outside changes; two opposite renames and two tasks | `OrdersExactlyOrderable`, `MergeLosesNothing`, `KeysKept`, `FilesExclusive`, `CallsEnd` |
| `wake` | one slot, two connections, a cursor up to 2, one push at a time, one fault, two transport errors, one restore | `SlotsAccounted`, `WakeOwed`, `OneWakePerAdvance`, `CommitAnnounced` |
| `rotation` | 2 providers and a foreign holder, 4 tokens, 2 crashes, 2 losses, a server fault | `NeverBurned`, `DeadGrantsNothing`, `GetsAccess` |
| `runner` | four stories: a queue with a refused edit, its child, larger than a request's budget, and an edit that makes its request too large; a queued merge a peer's makes redundant; a change that never applies, with a restart; two connections over one file | `QueueAccounted`, `NothingSkipped`, `Drains`, `CatchesUp` |
| `guests` | one owner, two invitations, the guest, a lost answer or a close, rejoins, removal, clean-up | `SessionsBelong`, `VaultKeepsOwner`, `WaitingEnds` |
| `house` | two owners, their pairing codes, two agents, one fault | `NoAgentStranded`, `PairingRecoverable` |
| `producer` | two notes and a configuration file, 2 actions of the user, 4 revisions, 2 faults | `HeadsPublished`, `ScanHeals`, `BytesKept`, `OneIdentity`, `ParentsAlive` |
| `devices` | two devices, 3 events among edits, deletes, choices, stops and lost answers; a note or an attachment; edits apart, near or on the same lines | `NoEditLost`, `NothingHidden`, `QueueDeliverable`, `RestsSettled` |
| `settings_swap` | two devices that change one setting | violation of `LastWriterWon` |
| `backup` | four casts over 3 revisions and 2 blobs: two processes that back up while pushes commit; the two on a failing disk; the scheduler with restores; a device across a restore | `ArtifactsComplete`, `LiveWhole`, `HistoryIsServers`, `RetentionKeepsGood` |
| `agent` | 4 revisions, two of which have no clean merge, a day of one run, one command beside the service, 2 faults (offline edits and quietly failing syncs among them) | `NothingPassedOver`, `NewsReachesAgent` |

Why the bounds are enough. The races of the push path need two handlers and a
third revision that changes the head set under a reconciliation; quota and reuse
need two vaults and a shared blob. A lineage needs a refused parent and a child to
tell a cascade from a single drop. The device's abandoned poll is in its own way
as soon as there is one slot. A rotation is decided by the last two generations,
and four tokens let it happen twice after a loss. An expiry, a rejection and a
removal of a guest all fit into the four decisions of an owner; a rejection of a device
approved meanwhile and two owners who remove each other need more of them than the run
allows, and are covered by `SessionsCorrect` and `VaultCorrect` alone. The producer's
hazards are pairs: an event and a crash, a refused create and a delete. Two
devices meet every order of two merges; edits of a third that overlap are the
subject of `clash`. Retention with `Keep = 1` removes at every cycle. What the
bounds cannot show is proved for most safety properties (section 5).

How a bound is cut. A run with several stories or casts chooses one at the start
and keeps to it (`Told`, `Casts`): their product adds no interleaving that a
property speaks of. `Named` calls the invitation that is minted first `first` (a
symmetry by hand, since TLC's is unsound for liveness), `Undisturbed` leaves the
owner's machine to the run `house`. In `backup` the third revision is left to
the device's cast, which tells logs apart by it, and the casts part two processes with a
failing disk from the scheduler with pushes: `RetentionIsSafe` and `DataIsWhole` hold of
all of it together. Symmetry is used in `push`, `house`,
`producer` and `devices`, which check no liveness property; their action
properties and the refinement do not name a process, agent, path or device.

Each property has a mutant in `PROJECT.json`: a definition before the one it
replaces, commented "Faulty variant", that breaks the property under the run's
own configuration.

### Where the code disagrees with its comments

`settings_swap` is a finding: settings changed on two devices at once end
swapped, although `vault-apply.ts:121` says that the last writer wins on every
device.

### Known divergences

Each of these properties is stated in its module, says what a comment or a test
says, and does not hold. TLC shows it when the property is added to the run's
configuration with the changes given.

| Property | Says | How to see it |
|---|---|---|
| `LongPoll.NoLostWake` | a commit wakes the held requests of its vault (`vault-wake-registry.ts:3`); a 500 after an accepted prefix notifies nobody | `MCWakeChannel.cfg` as it is |
| `RefreshRotation.DenialMeansDead` | a 401 means a dead family (`access-token.ts:18`); `onboarding-routes.ts:306` answers a database error so | `MaxProviders = 1`, `MaxMints = 2`, `MaxCrashes = 1`, `MaxLost = 1`, `MaxForeign = 0` |
| `SyncRunner.QueueAccounted` with two connections | the old connection's save drops what the new one has queued (`main.ts:510`, `sync-loop.ts:216`) | a story of `MCSyncRunner` with an edit and two connections |
| `Membership.ReplacementKeepsSession` | a failed replacement keeps the live connection (`main.ts:506`); the stored credentials are replaced first (`onboarding/controller.ts:311`) | `MCMembership_guests.cfg` with `MaxTokens = 4`, `MaxFaults = 0` |
| `Membership.WaitingEnds` without its `"gone"` case | a guest is always told (`invitations.ts:703`); `cleanup-stale` deletes the row it polls with | `MCMembership_guests.cfg` |
| `Producer.NoDeadParent` | the head of a refused revision is walked back (`outbox-repository.ts`, `quarantinedParents`); a row whose payload is missing has no parents to walk to | `Notes = {a}`, `Configs = {}`, `MaxEdits = 3`, `MaxRevisions = 3`, `MaxFaults = 1`, no symmetry |
| `LogReader.NoReissuedSkipped` | a client without the epoch never skips a sequence issued again (`sync-routes.ts:758`); it does once the log has grown past its cursor | `Casts <- MCDeviceOnly`, `MaxDecays = 0` |
| `AgentRunner.OneHolder` | one process per agent (`lock.ts:2`); creating and writing the lock file are two steps (`lock.ts:31`) | `Racing = TRUE` |

### What else came up

Facts about the code that the models show and that have no property of their own;
where one limits a property, the exemption is named.

*Push.* A put whose commit is refused leaves bytes that no quota counts until
the sweep of the next start.

*Wake.* An abandoned poll keeps its slot until its timer, so the device's next
poll may get 429. A push ended by an unexpected error (`sync-routes.ts:596`) is
announced by the heartbeat only.

*Rotation, reconnect.* Two reconnects during one rotation can burn the family,
which is why the safety of rotation is stated for the sole holder. A cycle or a
poll under way when `stop()` comes still makes its requests.

*Membership.* A redemption whose answer is lost and whose record is reset strands
its guest until the owner rejects or the row expires. A rejoin candidate is
reused by every later grant. A rejection never looks at the device's status
(`invitations.ts:448`): one from a row loaded before the approval deletes the member
whom the approval let in, unless another row refers to it. The owner's pane hides a waiting row after 15 minutes
(`plugin/invitations.ts:196`) although the server still accepts it for an hour
(`invitations.ts:27`). A removed owner with a leftover pairing code pairs a device
but gets no active membership. A crash between `clearPendingCredential` and
`clearState` leaves a waiting state without credential (exempt in `WaitingEnds`).

*Producer.* A rename followed at once by a delete or a rename, and a rename of a
held-back file, are dropped until the next start's scan. Retry of a refused create
whose file was deleted brings back a second identity, and so does a create whose
answer is lost, whose queue entry goes with a fall back to the backup of `data.json`
and whose file is gone by then and made again later (both exempt: `estranged`). Rows of
missing or corrupt payloads have no parents, so their file's edits stay on a dead
head. A file re-created at the path of a peer's file that was not pulled yet,
together with a rewound `data.json`, can leave two identities. What the user
discards is described differently in `sync-state.ts:928` and
`outbox-repository.ts:73`.

*Vault apply.* A merge refused with `HEAD_SET_CHANGED` whose text arrives from
another device stays queued (`docs/reviews/2026-09-20-sync-causality.md:141`). Keep
mine never reaches the server by itself, and a queued merge behind an overlapping
head stays queued. A note deleted while its device catches up after a stop comes
back (exempt in `RestsSettled`). A file edited between the write and the record of
an apply on a new device is held back, and Keep mine does not release it. With
three devices a delete concurrent with an edit can move the file to the trash on
the third.

*Merge.* Merging a result again with one of its sides can duplicate a line that
the ancestor repeats (exempt in `KeepsBothSides`). The branch of
`mergeDisjointRegion` with an undefined `own` is unreachable.

*Backup.* A backup skips a live blob whose bytes went bad (`backup-restore.ts:245`;
exempt: `wounded`). A connection that outlives a restore mixes two epochs (exempt:
`spanning`). A restore killed before the rotation of the epoch leaves a target
with the old one. The plugin has no recovery from 409 `CURSOR_INVALID`. A server
start that sweeps during a command-line backup fails that cycle. Staging
directories and temporary files of crashes are never removed.

*Agent.* A crash between the model's call and the save of `runner.json` leaves a
run uncounted (`lost` in `DayCapHolds`). A run is given at most 50 changes or 60k
characters and remembers the newest sequence all the same. A missing `runner.json`
starts from the newest. A person's device that merges two agents' heads by itself
triggers agents, although `agent.ts:240` says it never does. A vault without a
login only syncs.

*Plugin data.* The client instance id is read and written in two critical
sections (`client-store.ts:69`). Two plugin objects across a disable and enable
have two queues. A load in flight across `invalidate` may leave a stale cache. One
port must not be used by overlapping load and save pairs.

## 4. Fairness

Weak fairness is assumed of what the runtime does by itself, and never of people,
peers, networks or faults. The faults of a behaviour are bounded, so a liveness
property says that the system recovers once faults stop.

* `WakeChannel`: the loop's own steps, its timers, the request it has issued, and
  the server's timers (25 s of `/wait`). Not `stop()`, not commits, not syncs.
* `RefreshRotation`: a caller that wants a token asks again, a request that is
  not lost is answered, the provider continues after an answer.
* `SyncRunner`: the scheduler's interval triggers an idle runner, a cycle under
  way goes on (requests end by answer or by `request-timeout.ts`), and an editor
  saves in the end (Obsidian autosaves).
* `Membership`: the hourly pruning and the passing of its hour, and the guest's
  next step, which its poll interval and its start take.
* `AgentRunner`: the service's minute, the interval, midnight, and the steps of
  a process that runs. Not a command, not the end of an interactive client.
* `PluginData`, `KeyedMutex`: a promise whose predecessor has settled runs, and
  the body of a task ends.

## 5. Proofs

TLAPS checks the theorems below for every value of the constants that the named
assumptions allow. An assumption says only what the parameters are (a bound is a
natural number, `BlobOf` gives every revision a blob, `"havemind.db"` is the name of
no blob); TLC evaluates each on the run of its module. Each inductive invariant was
first checked by TLC on that run's instance. The proofs end in the same three
steps: it holds at the start, every action keeps it, it implies the property.

**RevisionRepositoryProofs.** `TypeCorrect` is the ground of the others; its part
`HandlersReady` says that a handler has work left exactly from its first check to
its reply. `GraphCorrect`: `HeadsAreLeaves` is not inductive, since only with
contiguous sequences, unique ids and parents that come first is a new row's set
of parents what `file_heads` loses; `GraphInv` joins the five. `DiskCorrect`: a
committed revision has durable bytes because a handler that stands at its commit has
synced its blob, and the sweep of a start finds no handler. `RecordsCorrect`: a
receipt is the committed row, replay records stand on rows, a key stands for one
request. `RevocationCorrect` and `ReconciliationCorrect` are action properties: the
commit reads the membership, and replaces the heads, in its own transaction.
`QuotaCorrect` needs that a vault's bytes grow by a blob's size and no more: `SumsExist`,
`SumsSplit` and `SumsAgree` prove it of the fold that sums them, by the least
set without the property.
`Refinement`: under the mapping of `ImplementsVaultLog` every step is one legal
append to the abstract `VaultLog` or a stutter; `HeadsAreLogLeaves` carries the
heads over.
`OrderCorrect` is about `orderBatch` itself, for a batch of any size: it returns an order
in which every revision comes once and after its parents, and turns a batch away only if
an id repeats or no such order exists. The loop keeps (`Sorted`) that a counter is the
number of parents not emitted yet and is zero exactly for the ids emitted or queued. What
is left when the queue is empty therefore has a parent among what is left, each of them,
and in no order can the first of those come after its parents (`CyclicBatch`).

**WaitingProofs**, the wake channel. `SlotsCorrect`, `WakeCorrect`: the set of listeners is the
set of held requests, so a notification leaves none behind. `ChannelServerCorrect`
carries that through the composition: a step of the channel is a step of the
server, a stutter or a restore, and a restore forgets every request together with
its slot. `WakesCorrect` follows one cursor from where the server reads it to where
the device announces it; it never falls below the one asked from.

**SyncRunnerProofs.** `PullCorrect`: the cursor is saved several awaits after the
event it passes was chosen, so the invariant follows the event from the page to
the file; accepted ids are on the server's log. It holds for any number of
connections. `QueueCorrect` is stated for `MaxConnections = 1`, because a second
connection writes back the queue it read (section 3); its invariant is that the
connection's copy is what is on disk. Recursive functions over lists are unrolled by
a lemma (`Recursion`).

**MembershipProofs.** The invariants relate tables to each other and to the half
of a handshake a client holds. `SessionsCorrect`: an invitation that is not redeemed
has neither device nor member, so a live session has a member. `VaultCorrect`: the
guard that keeps an owner is in the route (`revoke-routes.ts:144`: nobody removes
themselves), not in the transaction, but the handler does not await between its checks and
the transaction, so nothing comes in; the rows another owner is shown may be old. `AgentsCorrect`, `PairingCorrect`: at each point of an exchange
the client still holds what it needs to repeat it.

**BackupProofs.** `DataIsWhole`: what a snapshot references is on disk when the
blobs are listed and stays there while the log references it, and no restore runs
beside a backup (`Alone`), so no cycle sees the log taken back. A `Whole` that spoke
of published artifacts alone would not be inductive. `RetentionIsSafe`: the newest
artifact of any moment is in nobody's removal list (`NewestStays`), so of two
processes that prune at once, the one that listed later has verified an artifact
the other spares (`Retained`). `HistoryIsTrue`: a log stored under the server's
epoch is a prefix of the server's, since only a restore takes the log back and it
starts a new epoch. `DataIsWholeBesideReader`: the same of the composition with a
device.

**AgentRunnerProofs.** `NewsCorrect` holds for two processes that race: the
sequence a process began from passes over nothing, the one it will save over nothing
but what its run was given, and news never comes back. `HolderCorrect` and
`DayCapCorrect` assume `~Racing`, that no two processes create the lock in one
instant (section 3): then a live token in the lock file is its process's.

**WaitingProofs**, the queue and the locks. `DataCorrect`: the copy in memory and the
blob about to be written hold, under each key but the one being saved, a version that
may stand. `LockCorrect`: the links of a key that have not settled stand in one queue
with the registry at its end, also after the registry has forgotten a key.

**DeviceProofs**, the vault. A stop may come after any durable write of an apply and
undoes it, so `DeliverInv` asks the same (`Sound`) of a device's state and of what
`Undone` makes of it, and says for each step of an apply what the journal, the head
and the task have in common. `QueueCorrect` follows: a merge that a device takes off
its queue is never its head and no queued revision is built on it (`AdvancedFits`),
and what a swap takes away the new queue does not name.
`KeptCorrect`, that no edit of a note is lost, adds `KeptInv`: what is `Safe`
(on the server, in a queue or its backup, in the trash, given up) only grows, and the
text an apply is about to write over is safe already, also the text that a stop goes
back to; a merge drops no edit but those of the common ancestor, which are safe.
`ShownCorrect`, that a device at rest shows every accepted edit, adds `ShownInv`: a
revision holds what the revision it was built on holds (`PastShown`); what the mapping and
the queue say of a file stands for its text, also of the state a stop goes back to
(`Standing`); what an apply is about to write holds what it writes over (`ApplyShown`); and
an accepted edit is shown by the device or waits in a revision it has not read
(`FeedShown`). At a start the device folds the whole log into one head per file
(`FoldHead`); that this head holds every edit of the file is an induction over the length of
the log (`FoldHeadShows`). The property leaves two things out, and has to. An edit that is in
the trash of any device does not count: of three devices, one that catches up after a
delete skips what was edited before it, and the text is then in the trash of another. And it
speaks of notes, since an attachment is written without comparing it with what its user
has just chosen. All three hold for any number of devices.

**DeviceProofs**, the credential. `ChainCorrect` and `DeadCorrect` hold against any
holder of tokens, since rows form one chain of generations and a dead family's grants
are dead. `NeverBurned` and `NeverStranded` are stated under `SoleHolder`, which the
code does not enforce (section 3), and `RotationSafe` proves them so: its invariant says
of each point of the exchange that the stored token is current, or was consumed by
exactly the pending record; the exact-retry rule of the server does the rest.

**ProducerProofs.** `HeadsPublished` and `ParentsAlive` must survive a fall back to the
backup of `data.json`, which is one save behind, so the invariant `Books` speaks of a
copy of the store: what it maps and tracks, and what it would name as parents,
agrees with the revisions there are. `ProducerInv` has it of the copy in use and of
the readable backup, and so keeps it through every load (`ReconciledBooks`). `BytesKept`
needs that queue, failed rows and stash stay apart (`KeptApart`), since an eviction
or a discard deletes payloads. `ParentsCorrect` follows `liveParents` through a
chain of refused heads of any length: the first step of the walk that left the
tracked revisions would have come from a tracked one (`WalkEnds`).
`ScanCorrect` needs an invariant of the way from the start to rest: every path where
disk and mapping differ has a task of the scan, or a change under way, that brings
them together (`Arrives`, `Goes`), and no other task undoes it; in particular what a
rename of the scan maps nothing else does (`RenameAlone`), so the scan meets no
collision, and a confirmation of held deletes finds deletes alone (`HealsConfirm`).
`IdentityCorrect` rests on one mapping per path (`MapsFit`): a live revision must be the
head of a mapped file (`HeadsNewest`), so two at one path are of the same file. That is
not inductive by itself. A backup may be loaded, so it says the same of the readable
backup, less the accepted revisions it has forgotten (`LostWithData`); and a commit must
name the live head it replaces, which `liveParents` does only while the server has no
failed revision whose row knows its parents (`RowsSettled`), so what a refusal takes
along must not be on the server either (`LineageUnheld`). The file of a peer counts
while the user has changed nothing: then each revision has a path of its own with a file
at it, and the scan and the poller find only files at other paths (`Untouched`).

### Only model-checked

* Liveness: `CommitAnnounced`, `GetsAccess`, `Drains`, `CatchesUp`, `WaitingEnds`,
  `NewsReachesAgent`, `CallsEnd`; and `RestsSettled`, which asks what is ENABLED.
  Neither is in the prover's reach.
* `MergeLosesNothing`: what `Diff3` computes on every triple of texts. The library's
  induction theorems take an operator as a parameter, which the installed provers cannot
  instantiate. One fold over numbers can still be handled through a smallest
  counterexample, as in `FoldHeadShows`; the nested recursions of the longest common
  subsequence and of the merge over it are left to TLC.

## 6. Not modelled

The user interface, the activity log, the roster's display, the merge view, the
pairing page and the wording of anything shown; migrations, environment variables,
containers and the setup wizard; `design/`, `marketing/` and the scripts. Of the
protocol: base64, canonical JSON, hashes and tokens are values that are equal or
not, so a codec's rejection of malformed input is out. Rates per address, the
byte-rate limit of downloads and PIN guesses have no model of time. Cryptography,
TLS, SQLite and the file system's own failures below `fsync` are taken as given. The
state of each component is in `PROJECT.json`.

Steps of the code that a module takes together, and what that leaves out:

* `Producer.LoadSalvage`. A start that can read neither `data.json` nor its backup
  writes twice when the outbox was unreadable: an empty copy (`sync-state.ts:1106`), then
  one with the producer's mapping from the damaged file (`:457`). A stop between the two
  leaves a copy that has forgotten every identity; a note deleted while the plugin is off and made
  again later then gets a second one, so `OneIdentity` and `IdentityCorrect` are claims
  about starts that are not cut there.
* `Producer.quarantineOutboxItem` moves a refused lineage at once; the code saves once
  per item, and an edit may be committed in between. `SyncRunner.Cascade` has the steps,
  with edits between them.
* `Backup.Publish` stamps the manifest and renames the directory at once, so of two
  processes the one that stamps first is also published first. The other order is not
  checked; retention looks at stamps alone, and the newest stamp of any moment is in no
  removal list then either.
* `Backup.Torn`: a recursive removal that is cut off leaves no file but the manifest. A
  part of the files would fail the same verification.
* `LogReader.Refresh` reads all pages at once; a first refresh that fails between two
  keeps a prefix in memory.
* `Membership.RotatePairing` renews the founder's code; the code renews that of the
  oldest owner left, who may be an invited one. No property speaks of that owner's code.
* `Membership.Claim` drops an agent when its owner is one no longer; the code also when
  the owner's device is not approved. The two end together.

## 7. Plan

Done: the models and runs above, and proofs about every module but the
merge algorithm (`Diff3`). Next, in this order:

1. A theorem for the refinement of `RefreshRotation` by the provider of a device with
   one connection, which would turn `SoleHolder` from an assumption into a fact about
   the plugin without reconnects.
