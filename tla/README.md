# Thock vault sync: TLA+ models, checks and proofs

Thock is a note-taking desk app (a fork of the Zed editor), an iOS companion and a small backend,
Thock Plus. What the three build together is *vault sync*: the desk keeps an encrypted copy of the
vault at the server, the phone reads that copy and queues its own changes as *writes*, the desk
applies them to the files and uploads the result. Only the desk changes files; only the phone
queues writes. The contract is `thock/specs/v34-vault-sync-api.md`.

This directory models that protocol from its three implementations (Go, Rust, Swift), with the rules
by which a write changes a note, the ways the phone hears of a change, the phone's gateway key and
the watch's link to the phone. TLC checks the models; TLAPS proves, for all instances, the safety of
the server, the phone, the desk, the feed, the accounts and the watch link.

## 1. Inventory

| Component | State | Operations | Talks to |
|---|---|---|---|
| Vault store, `plus/vault_store.go` | vaults, files, pending_uploads, writes, devices, pairings (Postgres) | ensure, delete, reset, lapse; pair; begin, commit, tombstone; enqueue, list, ack; sweep | one transaction per call, under the vault's row lock |
| Vault routes and blobs, `plus/vault.go`, `blobs.go` | blob objects, signed urls | one handler per route, the sweeper's loop | store, then blobs, with no common transaction |
| Phone, `SyncEngine.swift`, `VaultStore.swift` | SQLite: files with their snapshot, pending_writes, cursor, refetch | record, rename; a round: flush, pull, prune | list, write and vault routes |
| Desk, `crates/thock/src/vault_sync.rs` | pending job, LocalState and its file, keychain | watcher events; a job: scan, drain, upload, tombstone, ack, save; pairing, turn off | file, write and vault routes, the vault folder |
| Write rules, `crates/thock-sync-core/apply.rs`, `markdown.rs`; `Apply.swift` | none | apply a write to a note, tell whether its effect is there | desk (and the phone, through its Swift port) |
| Feed and pushes, `plus/feed.go`, `apns.go`, `SyncEngine.start` | streams, held push and time of the last one, push token | publish, nudge, flush, clear, serve; the phone's loop of rounds and streams | desk requests, phone, APNs |
| Accounts and gateway, `plus/main.go`, `store.go` | users row (cycle, balance, baselines, caps, phone key) | allowance loop, grant, drop, admin change, revoke | an external LLM gateway |
| Watch link, `WatchOutbox.swift`, `WatchModel.swift`, `PhoneWatchLink.swift`, `WatchSnapshot.swift` | `outbox.json`, the system's queue, `watch_requests` | ask, retry, delete, activate, deliver, answer, snapshot | watch and phone over two transports |
| `thock-bridge`, calendar, mail, Readwise, reminders, panels, budget guard, releases | their own | see `components` in `PROJECT.json` | |
| Inherited editor crates | | third-party, left aside | |

What is hard here:

* **No common transaction.** Tables and blob store, server and state file, disk and server, the two
  keys of the phone's `meta` table: each pair is changed one after the other, with other actors in
  between and a crash possible.
* **Cursors.** Phone and desk remember positions (`cursor`, `refetch`, `acked_through_seq`, the
  version of each record) in counters that others move, reset and prune.
* **Copies.** A job runs on copies of the pending work and the state; a list request uses a vault
  row read earlier; an upload sends a text read earlier.
* **Lost answers.** Every request may succeed at the server and fail at the client.
* **Twice or never.** A batch is run again after a lost ack, a watch request goes out on two
  transports, a push is held, claimed, given back: each must take effect once, and not zero times.

What makes each component correct: *server* – a listed file can be downloaded, the counters are
true cursors, the queue hands out every write once; *phone* – the cursor never passes a change that
was not taken, the user's own change stays on the screen until the desk has answered it, every
round ends and the outbox empties; *desk* – when nothing is left to do the server has what is on
disk, a write is acked after the snapshot with its effect is up; *write rules* – running a batch
again changes nothing, the desk's own lines survive, a move is never a copy; *feed* – a change the
phone does not know of is in the server's hand, one push per spacing; *accounts* – the phone's key ends with
the phone, no two phones share a secret, the allowance is one pool; *watch* – what was said is
written once, and not lost. Every hazard is listed at its line
in `PROJECT.json`.

## 2. Modules

```
VaultStore ── PlusServer ── MCPlusServer        server, blobs, sweeper
    │             └──────── PlusServerProofs    (extends VaultStoreProofs and SumProofs too)
    ├──────── PhoneSync ─── MCPhoneSync         phone rounds against a desk and a sweeper
    │             ├ ─ ─ ─ ─ WriteChannel        what PhoneSync implements (INSTANCE ... WITH)
    │             └──────── PhoneSyncProofs     (extends VaultStoreProofs too)
    ├──────── DeskSync ──── MCDeskSync          desk worker against disk, watcher and server
    │             └──────── DeskSyncProofs      (extends VaultStoreProofs too)
    └──────── VaultStoreProofs                  lemmas about the store's tables
SumProofs                                       lemmas about sums over a finite set
ApplyRules ── NoteBatch ─── MCNoteBatch         what a write does to a note; batches run again
PushFeed ──── MCPushFeed                        desk requests, coalescer, streams, phone's loop
    └──────── PushFeedProofs
PlusAccount ─ MCPlusAccount                     the phone's gateway key and the allowance
    └──────── PlusAccountProofs
WatchLink ─── MCWatchLink                       the watch's outbox and the phone's answers
    └──────── WatchLinkProofs
```

**VaultStore** has the tables of one user's vault as variables and one action per store method.
A method is one transaction under the row lock, so one step. Refusals are disabled actions. Ages
(an hour, a week, thirty days) are a choice of the rows that have reached them.

**PlusServer** adds the blob store and splits the handlers where tables and blobs are touched one
after the other: begin, PUT on the signed url, row read and stat (`CheckBlob`), transaction
(`Publish`), deletion of the replaced blob. Any number of commits may be between stat and
transaction; `AbandonBlob` is a deletion that failed or a process that stopped.

**PhoneSync** is a round of `SyncEngine` step by step: `flush` (with lost answers and permanent
refusals), `pull` page by page (410 and restart, unchanged hash, snapshot, failed download,
tombstone, `removeFiles`, cursor, refetch list), `prune`. The list handler is two steps because it
compares the cursor with a vault row read before the rows. The desk is reduced to what its worker
guarantees the phone: take writes in order, upload what they touched, then ack. A text is the set
of phone writes whose effect it shows. The outbox is the table `pending_writes`: a set of client ids,
`localId` and `lastId` its AUTOINCREMENT key, `seqOf` its column `seq`; `First` is ORDER BY local_id.
Three history variables serve the properties: `changed`, the version of a path's last change;
`missed`, the paths a gap reported below left behind; `parted`, the writes whose note the desk
removed or moved after it had applied them.

**DeskSync** is `VaultSyncService`: watcher events merged into the pending job, the worker's job
step by step, `finish_job` with each kind of error, sessions, crashes, pairing under the same or
another key, turning sync off, lapse and renewal. `Commit` is begin, PUT and commit in one step:
one desk writes a vault, and the server's side of it is PlusServer's subject. The history variable
`epoch` counts wiped server copies; `forgotten` holds the paths that a gap reported below left
behind, until a catch-up or an upload reaches them; `revived` the writes whose effect was gone from
a note and came back with an undo. The phone is paired at the start, goes with a wiped copy, and pairs
again with the next one (`PhonePairs`).

**WriteChannel** is the abstract specification of the way of a change from phone to desk: changes
are made, answered in their order and each once, and the phone lets go of one after its answer or a
refusal. Posts, seqs, acks, retries and prunes are hidden. `Chan` in PhoneSync is the refinement
mapping: made is the last `local_id` and order the `local_id` of each change; kept is the outbox,
pending what of it the desk has not taken; the number of answers is the seq the desk has taken, since
the service leaves none out.

**ApplyRules** is `apply` and `effect_present` as operators on a note, a sequence of lines. A line
keeps the identity its hash is taken of, what the hash leaves out (the tick, the time), its indent
and its conflict markers; a heading its level. Sections, groups, blocks, blank lines and closing
rules are as in the code; a line or an anchor is named by its hash and its ordinal. **NoteBatch** runs
a batch over a note as `run_job` does, with jobs that fail before the ack at any write.

**PushFeed** has one step for each lock region and each database call of a desk request: commit,
nudge, claim, token, push, hold again, fan-out, flush. The phone's requests clear the held push in
`withVault`, before their handler reads, so each is two steps as well. The phone's app opens, closes
and is killed, which leaves a stream behind until the server cuts it. `excuse` records why the newest
change is no longer in the server's hand, where the code itself lets it go: a phone's request cleared
it, its push was refused or had no token, or the instance went. A failed round or a killed app is no
such reason.

**PlusAccount** treats whatever holds `syncMu` as one action, with a failure or a crash between two
gateway calls as an outcome of it. What the lock does not cover is split: the commit of a revoked
device or a lapsed vault and the drop of the key after it, a grant let in by `withVault` and the
grant itself. `peak` is the largest allowance of the cycle, which an admin may change within it.

**WatchLink** has the watch's app (down, starting, up), messages in the air, the system's queue, the
phone's handler and table, replies, acks and snapshots. The handler runs on the main actor and is
one step, with a store error or the phone's death before it, between write and record or after both
as other outcomes. The watch may be killed between the hand-over to the queue and the persisted mark
(`KillInTransfer`) and with an answer in hand (`KillInSettle`). There is no clock: a dated event falls
in any second that no date held is after. Dates are in half seconds: the files and the wire keep whole
ones (`.iso8601`), so a snapshot's date is a whole second from the start, and that of a saved request
becomes one when the app is launched again.

Definitions whose comment begins with *Mutant* are plausible bugs of the definition after them.
They take no part in any specification; replacing the definition by one makes the property named in
`PROJECT.json` fail, which shows that the property depends on the code.

## 3. Runs

| Run | Instance | Shows |
|---|---|---|
| `server` | 2 notes, 2 uploads of 2 sizes, quota 3, 2 writes, 2 keys, 2 vaults | no listed file without its blob, quota exact, versions unique, queue in order, nothing forgotten above the horizon |
| `phone` | 2 notes, pages of 1 row, 2 writes or renames, 1 desk edit, 2 failures | cursor and mirror agree; own change stays shown; phone, server and desk implement `WriteChannel` |
| `phone_live` | 2 notes, pages of 1 row, 2 writes or renames, 1 failure | a pull ends, the outbox empties, phone and desk converge, unless a page of a full pull ends below the horizon |
| `desk` | 2 notes, 1 edit and an undo, 1 write, 2 failures | a settled desk is synced, with no exception where nothing failed; records never ahead of the server; acks carry effects; every note gets up and every write gets acked |
| `desk_account` | 1 note, 1 edit and an undo, 1 write, 2 keys, 1 lapse, 2 pairings, 1 failure | through lapses, resets and turning off, the gaps hide only notes not touched since they were recorded |
| `push` | 2 desk requests at once, 2 changes, 2 tokens, 1 slot, 1 fault | a change the phone does not know of is in the server's hand or was dropped for a named reason, one push per spacing, only the dead token is forgotten, the change arrives |
| `account` | allowance 1, 3 keys, 2 phones, 1 admin change, 1 fault | the phone's key ends with its phone, no shared secret, row and gateway agree, the pool keeps count, twice the allowance at worst |
| `watch` | 2 request ids for one thing said, 1 snapshot, dates in 2 seconds, 1 fault | written once, never lost, handed to the queue once but for a kill before the mark, forgotten only when shown or in the very second, answered or deleted in the end |
| `apply` | every note of up to 3 lines and notes of two groups up to 6, every kind of write, the pairs that are safe, 2 failed jobs | a batch run again changes nothing, ticks of twins included; the desk's lines survive, a move copies and loses nothing, the effect shows |

Deadlock is not checked: everyone may stop when nothing is left to do.

**Bounds.** A cursor problem needs two paths, one to page past and one to change; pages of one row
make two notes a vault longer than a page. A blob race needs an upload, a second commit of it, and
one more upload that frees or takes its place, and a quota of three makes two of size two collide;
the files alone were also run with three uploads (942,836 states), and hold. One failure reaches
every place where a round or a job can break, two let the retry fail too. `desk` was also run with
two edits: its safety with one failure (3,086,559 states), its liveness with none (769,608). Two
writes show order. Two keys and two vaults show what outlives a reset and a deletion. `MaxVersion`, `MaxSeq`, `MaxVaults`
and `MaxBlobs` cut off the counters; PhoneSync's assumption leaves room for every edit, so they never
block a step there.

The coalescer's races are between two requests and one phone; a second change shows what a flush in
flight does to a newer one, a second token what a late refusal does to it, one slot a full stream. A
key race needs a phone that goes and one that comes, hence two phones and a key for each beside the
desk's; with an allowance of two and no faults the same holds. On the watch two ids are a request
and its retry, the snapshot is late or shows the write, and two seconds (`MaxSeconds`) put a date
before, within or after a second; the safety properties were also run with two snapshots. Two
versions and two copies are enough for `desk_account`: one upload in each, or two in one. Three lines
hold a heading, a subsection or a twin, and a rule or blank line at the edge; two groups of up to two
lines each give a block with its child a place to go.

**Fairness.** PhoneSync: `WF(Round)`, the app starts a round on every feed event, on every push and
when it comes to the front, and an `await` comes back; `WF(DeskJob)`, the desk's loop. DeskSync:
`WF(Worker)` and `WF(Watcher)`; `schedule_work` loops while work is pending, the poll comes every
minute, the file system reports changes. `Start` is part of `Worker`: the user opens the app again.
PushFeed: the desk is open, polls every
minute and its requests end; a phone that runs goes on with its round and its loop; streams are cut
at their age and the spacing passes. WatchLink: the apps are launched again and activate, the system
delivers what is queued or sent (`WF` of the phone's handling, `SF` of the answers and timers, which
a watch that is down interrupts), the phone's store opens at a later launch. Nothing is assumed of
users, failures, lapses or the sweeper.

**PromptWatcher** says that the watcher reports a change before the retry delay (five seconds at
least) ends. It matters only after a failed job; all passing desk runs assume it.

### Disagreements with what docs and comments say

Three runs have a property that TLC refutes; `PROJECT.json` quotes the statements it is taken from.

| Run | What happens |
|---|---|
| `pull_loop` | A full pull whose first page ends below the horizon gets 410 for its second page and starts again, for ever. |
| `desk_reset` | Pairing under a new key resets the server copy, but the desk's records still match (`vault_sync.rs:1234`): nothing is uploaded, though "The desk then re-uploads everything" (`v34-vault-sync-api.md:306`). |
| `rerun` | A task added on the phone and ticked there before the desk saw it: run again, the batch does not find the untouched line and adds it a second time. |

TLC refutes the following statements too, on the instances named; the modules define them, and no run
repeats them here.

| Statement | Instance | What happens |
|---|---|---|
| `RenewalResumes` | `MCDeskReset.cfg` with 1 key, 1 lapse, no failure or pairing | Work pending when a job meets a lapse is dropped (`vault_sync.rs:1138`) and not looked for after the renewal, though "Renewing inside the window resumes" (`v34-vault-sync.md:375`). |
| `NewCopyIsFull` | the same with 2 vaults and 1 pairing | As `desk_reset`, after the copy was swept at the end of a lapse, where "pairing starts over with a fresh upload" (`v34-vault-sync.md:376`). |
| `ServedIsAcked` | `FairSpec`, 2 writes, no edit, 2 vaults, 1 lapse, 1 pairing | The acked seq of a swept copy hides the first writes of the next one, whose seqs start again: they are never fetched (`vault_sync.rs:1460`). |
| `NeverHandedTwice` | `MCWatch.cfg` | Killed between `transferUserInfo` and the mark, the watch hands a request over again, which "never goes twice" (`WatchModel.swift:133`). The phone answers the repeat without writing it. |
| `SnapshotShowsForgotten` | `MCWatch.cfg` | A restart cuts the date of a saved request to its second, and a snapshot made earlier in that second, without the write, makes the watch forget it ("Saved requests a snapshot made after them already shows", `WatchOutbox.swift:158`). |
| `RerunIsNoop` | `MCRerun.cfg` with `Rewords`, `Moved` or `CutOut` for the batches | A write that rewords (`apply.rs:280`), moves (`:177`) or cuts (`:220`) one of several equal lines takes the next one when it is run again. The spec accepts this of `remove_line` alone (`v34-vault-sync-api.md:726`). |
| `RerunIsNoopButTwins` | `MCRerun.cfg` with `TickThenMove` | A task ticked and then moved to another group: run again, the tick finds a task of the same text in a subsection and ticks that. |

The passing runs name the cases of these tables and further ones as exceptions; TLC finds each when its
exception is taken out. Desk (`forgotten`, `Tracked`, the first copy alone): `desk_reset` and the first
three of the second table, and

* *put back*: work put back after a failure (`vault_sync.rs:1131`) can have a path as both changed
  and removed; the retry uploads and then tombstones a note that is on disk.
* *lost record*: a job that dies between a commit and the state file (`vault_sync.rs:1648`) leaves a
  listed file that catch-up does not know and will not tombstone (`v34-vault-sync-api.md:847`).
* *undo* (`revived`): a job applies a write and fails; the retry uploads the note but is blocked at
  the write and does not ack it. If the user then removes the note, makes it anew and takes both
  back, the effect is on disk again, and the ack can go out before the watcher reports it.
* *ack*: a job that holds a deletion of a note, and then applies a phone write that makes the note
  again, uploads it, tombstones it and acks the write; the watcher's event heals it later
  (`files[p].deleted` in `AckCarriesEffects`).

Phone (`missed`; `PageBelowHorizon`, the case of `pull_loop`, in the liveness properties):

* *sweep*: a sweep between the list route's two reads (`vault.go:744`, the vault row read by
  `withVault`; `listFiles` after it) removes a tombstone the phone had not seen, and the cursor jumps
  over it (`SweepTombstone`).
* *kill*: killed between `store.cursor =` and `store.refetchPaths =` (`SyncEngine.swift:416`), the
  phone forgets a failed download, and prune then takes the user's change off the screen (`Abort`).
* *rename*: `renameFile` leaves neither path a snapshot, so a full pull takes the renamed note off
  the screen while its move is queued, and a move that the desk answers with nothing (destination
  taken) leaves the phone without the source (`RecordMove`).

Each of these ends when the path is next listed, taken or uploaded. Elsewhere:

* *cleared* (`excuse`): any phone request drops the held push, since "the phone is syncing anyway"
  (`feed.go:268`), also one that reads no files, or read them before the change; if the app then goes
  away, no push tells of the change until the next one.
* *failed* (`excuse`): a push APNs refused, or that found no token, is not tried again, and a cold
  instance has no held push.
* *torn*: a pass that configured the desk's key and failed at the phone's relies on "the next pass
  still sees the flip and configures both" (`main.go:514`); an admin reset that restores the balance
  first takes the flip away, and the key stays as configured until the caps next differ.
* *unrecorded*: an answer "refused" that the phone could not record ("refused, unrecorded, so the
  watch's retry is answered", `WatchSnapshot.swift:106`) lets the person try again under a new id,
  while the queued copy of the old one is still to be written.
* *same second*: what a saved request and a snapshot of one whole second say of each other
  (`ForgetsOnlyShown`).
* *twins* (`ChangesTwin`, in `RerunIsNoopButTwins` and `EffectShows`): the reworded, moved and cut
  lines of the second table. Only equal lines of the scope the write looks in count, and a tick is
  not excused: each of several twins can be ticked by its ordinal, and ticked again.

Pairs of writes are checked where running them again is safe: additions, seeds, removals and cuts with
each other and with moves within the group; ticks with ticks and with moves within the group. A pair
is not safe where the later write takes away what the earlier one is recognised by. `rerun` and
`TickThenMove` are two such pairs; the others found are an addition, an untick or a rewording followed
by a tick, a rewording, a move to another group or a replacement of the section; a removal, a cut or a
move followed by what brings the line back; a replaced section or a created note followed by most
edits of it; replacing a section and then renaming its heading (the inbox edit of `PhoneWrites.swift`),
which makes the old section again. An append that lands inside a subsection is not found there. Two
transports keep no order on the watch: a tick that fell back on the queue can arrive after the untick
sent later as a message.

Seen while modelling, without a run of their own: `deleteBlobs` is best effort, so a blob may stay
behind; a PUT on a url signed before a reset stores a blob no table names; after `resetVault` a
cursor equal to the latest version is not below the horizon, which does no harm since the phone was
revoked with it; a job still running at `turn_off` stores its state again, which a later pairing
then takes for true, as in `desk_reset`.

## 4. Proofs

Every theorem is about the specification the runs check, for every value of the constants: any
number of requests, edits, faults, keys and phones, not the instances above. It rests on the `ASSUME`
of its model alone (`SizesAssumption`, `BoundsAssumption`, `MaxBlobsAssumption`, `PhoneAssumption`,
`DeskAssumption`, `PushAssumption`, `AccountAssumption`, `WatchAssumption`, and `PathsAssumption` of
the server), which say that bounds are numbers, that a page has a row, that the counters leave room
for every edit, and that the paths of server and phone and the phone's writes are finite. Nothing is
assumed of fairness, and the desk's theorems hold whether or not the watcher is prompt, but for
`AckedIsCarried`, whose property speaks of a prompt one. Each invariant was checked by TLC on a run's
instance before it was proved.

| Theorem | Statement | Inductive invariant |
|---|---|---|
| **PlusServerProofs** | | |
| `TypeCorrect` | `Spec => []TypeOK` | `TypeOK` |
| `LiveBlobsAreStored` | `Spec => [](BlobOwnership /\ LiveBlobStored)` | `BlobInv` |
| `VersionsAreDistinct` | `Spec => []VersionsDistinct` | `VersionInv` |
| `NothingForgottenAboveHorizon` | `Spec => ForgottenBelowHorizon` | `VersionInv` |
| `QueueIsOrdered` | `Spec => []QueueOrdered` | `QueueInv` |
| `BytesAreCounted` | `Spec => []BytesAccounted` | `BytesInv` |
| **PhoneSyncProofs** | | |
| `PhoneTyped` | `Spec => []TypeOK` | `TypeInv` |
| `ImplementsChannel` | `Spec => DeliversInOrder` | `TypeInv /\ Order` |
| `NoChangeSkipped` | `Spec => []MirrorUpToCursor` | `TypeInv /\ MirrorInv` |
| `OwnChangesStay` | `Spec => OwnChangeStaysShown` | with `OwnInv` |
| **DeskSyncProofs** | | |
| `DeskTypes` | `Spec => []TypeOK` | `TypeInv` |
| `RecordsAreBehind` | `Spec => []RecordsBehindServer` | `TypeInv /\ Records` |
| `NothingLeftToSync` | `Spec => []SettledIsSynced` | with `Coverage` |
| `QuietDeskIsSynced` | `Spec => []QuietlySynced` | with `Calm => Quiet` |
| `HiddenIsUntouched` | `Spec => []OnlyUntouchedHidden` | with `Coverage` |
| `AckedIsCarried` | `Spec => AckCarriesEffects` | `TypeInv /\ Records /\ AckInv` |
| **PushFeedProofs** | | |
| `ChangeKept` | `Spec => []NoChangeLost` | `Types /\ Claims /\ NoChangeLost` |
| `OnePushPerSpacing` | `Spec => []PushesSpaced` | the same |
| `RegisteredTokenKept` | `Spec => OnlyGoneForgotten` | the same |
| **PlusAccountProofs** | | |
| `CapsAreNumbers` | `Spec => []TypeOK` | `IInv` |
| `NoOrphanKey` | `Spec => []KeyDiesWithPhone` | `IInv` |
| `OneHolderPerSecret` | `Spec => []NoSharedSecret` | `IInv` |
| `RowKnowsGateway` | `Spec => []RowMatchesGateway` | `IInv` |
| `PoolKeepsCount` | `Spec => []PoolConserved` | `IInv` |
| `TwiceAtWorst` | `Spec => []SpendBounded` | `IInv` |
| **WatchLinkProofs** | | |
| `WrittenExactlyOnce` | `Spec => []WrittenOnce` | `IInv` |
| `WordsKept` | `Spec => []NothingLost` | `IInv` |
| `QueuedOnce` | `Spec => []HandedOverOnce` | `IInv` |
| `SavedUntilShown` | `Spec => ForgetsOnlyShown` | `IInv` |

`VaultStoreProofs` has the lemmas about the store's tables that server, phone and desk share.

**Server.** `LiveBlobStored` is not inductive: a deletion under way could name a live blob, a commit
past its stat could publish a blob that is gone. `BlobOwnership` rules both out: an id belongs to at
most one live row or pending upload, no id in `cleanups` belongs to either, and a commit whose upload
is still pending has its blob in the store. Every handler takes an id out of the tables before it
goes to `cleanups`, ids are never drawn twice, and `commitUpload` reads the pending row again under
the lock. `ForgottenBelowHorizon` is an action property that follows from `VersionInv` step by step.
`BytesAccounted` is a sum over the files. `BytesInv` adds that a row that is not live weighs nothing,
so that what a step takes off the counter is what the sum loses. `SumProofs` has what a sum over a
finite set does when one weight changes, is zero everywhere or stays the same. The library's
induction takes an operator, so its lemmas argue by a smallest set among the counterexamples, with
`WFMin` and the cardinality theorems.

**Phone, the channel.** The refinement needs that the desk takes the oldest change it has not
answered, and the desk only sees seqs. `InOrder` ties the two: the queue is in the order of
`local_id`, and what is not posted was made later than all that is. A batch is read once and sent
write by write while the user goes on, so `Batch` says that what is left of it is older than what came
meanwhile; `Queue` that no seq is left out, which makes the seq taken the count of answers; `Receipts`
that a row's seq is the queue's, which is what prune relies on; `Answers` that a change is waiting
exactly until its seq is taken. A lost answer posts a write again; the service's `ON CONFLICT` makes
this a stutter of the channel. `taken` is never ahead of what is in the queue, so a prune lets go of
answered changes only.

**Phone, the mirror.** `MirrorUpToCursor` says nothing of a pull under way, where it is decided.
`MirrorInv` does, for each path: a change the pull has passed is on the phone, failed, or still on the
page in hand (`Fetched`); a row of that page is the path's row, or the path changed since and comes
again (`OnPage`); a full pull passed a live note only by listing it (`Listed`), so `removeFiles` takes
nothing that lives; what changed since the cursor of a request let in has a row (`Seen`, which the
sweep between the two reads breaks for the paths in `missed`); the last change of a path is its row's
or behind the horizon (`LastChange`). That a page is the lowest rows above the cursor, so that nothing
below its end is left out, is where the paths must be finite.

**Phone, its own changes.** `OwnChangeStaysShown` is about what may vanish from the screen in one
step, when a snapshot comes in or a prune lets go of a write. `OwnInv` follows a change that was
neither refused, answered with nothing nor parted from its note: applied by the desk, it is in the
desk's note, and uploaded or about to be (`Applied`); uploaded, it is in the row's blob (`InTable`);
acked, it was uploaded at the version the ack names (`Acked`), which is what prune compares with the
cursor. For the pull: a row on the page has the change if the phone ever knew it (`PageCarries`), a
full pull lists its path (`ListsOwn`), a pull that has passed the upload has fetched it, or failed and
noted it (`FetchesOwn`), and so has the phone once its cursor is past it (`KeepsSnapshot`). `Places`
says that a text of a path, on the desk, in a blob, on the phone or on a page, shows only changes the
desk applied to that path or has parted from it since. The proof attempt refuted an earlier form of
the property, beyond the two writes of its run: a change to a note that is then moved away and back
again by two more writes is taken off the screen in between; hence `parted`.

**Desk.** `RecordsBehindServer` is about the desk's state alone, but a failed job falls back on the
state file and a finished one installs the job's copy: `Records` says the same of all three, and that
a version's text is that of the record. `SettledIsSynced` needs to know where a change is while there
is work left: `Coverage` says of every path not in `forgotten` that it is *coming* (unseen by the
watcher, pending, or a catch-up is), is put back when the job fails, or matches the record; of a
running job, that it has the path in hand or has recorded it; of a text read, that it is the disk's or
the watcher will say so. `QuietlySynced` drops `forgotten`: in a run without failure, lapse or pairing
the session lives, the records are the server's rows (`UpToDate`), and a removal in hand of a note on
disk is about to be followed by its upload (`Reported`), which is what the `put back` gap breaks.
`OnlyUntouchedHidden` follows from `Coverage` with nothing pending: the record matches the disk, and a
record that is up to date is the server's text by `Records`.

**Desk, the ack.** `AckCarriesEffects` is decided in jobs before the one that acks: a job applies a
write, fails, and the retry finds the effect on disk and changes nothing, so the path is not in its
own work. `AckInv` says of every effect a note shows that it is `OnItsWay`: while a job runs, the job
takes it along (`Takes`: a catch-up is about to scan, the path is to be uploaded, its text is in hand
and has the effect, or the record has it) and, should the job fail, the next one looks at the path
(`Returns`); with no job, it is recorded, pending, or unseen with a retry delay ahead (`Waits`), which
is where a prompt watcher is needed. `JobFollows` ties the job's records to the desk's, for the work a
lapse drops; `Rowed` says that a path without a row has no record, so a removal leaves a tombstone.
The property is about the first copy: later ones start from records that are not theirs. At the ack
nothing is left to upload, so the record has the effect, and by `Records` the blob has the record's
text. The attempt refuted an earlier form
of the property, beyond the bounds of its run: the `undo` gap above, and a record behind the server
after a lost commit; `revived` and `TrackedBy` name them, and the new form was checked by TLC with
three edits and two faults as well.

**Feed.** A request between its claim and its push is the one `lastSent` names, and nothing was sent
since (`Claims`): so a claim given back releases only its own. `NoChangeLost` is then inductive as it
stands. The proof attempt showed that a round that fails and an app that is killed need no excuse,
and the property was strengthened accordingly.

**Accounts.** `Credentials` and `Secrets`: a phone asks with its credential, and the holder of the
recorded key is that phone, so a grant that mints after a re-pair finds the credential gone. `Ledger`:
what was spent and the room both keys still have (`Rooms`) is twice the largest allowance at most. A
cap is the spend that would end the allowance on that key alone, so both together may spend it twice
between two passes; a departed key's spend is taken off the desk's baseline, so that pairing again
gives no new room. `peak` is the largest allowance of the cycle: the attempt to prove the bound
against a smaller one failed, and TLC then found three admin changes in one cycle that exceed it.

**Watch.** `WrittenOnce` needs that a request written was recorded in the same turn (`Once`) and that
the person is offered to try again only after a refusal (`Superseded`), which needs what answers in
the air say (`Answered`) and what the outbox took from them (`Held`). `HandedOverOnce` says nothing of
marks; `Queues` does: a request that may still be handed over is in the queue at most as often as the
watch was killed over it. `Held` also says that a saved request is in every snapshot dated after it,
and, since snapshots carry whole seconds (`Dated`), cutting the request's own date changes this for a
snapshot of the same second only: `ForgetsOnlyShown`.

Only model-checked:

* NoteBatch's properties (`RerunIsNoopButTwins`, `KeepsOtherLines`, `MoveNeverCopies`, `EffectShows`): what
  `apply` and `effect_present` compute is recursion over a note, with RECURSIVE operators, which the
  prover does not reach; nor is there an induction over sequences it could use;
* the liveness properties (`PagedPullCompletes`, `OutboxDrains`, `Converges`, `EventuallySynced`,
  `EventuallyAcked`, `ChangeArrives`, `EventuallyAnswered`): the provers do no fairness and no ENABLED.

Every other property of a passing run is stated by a theorem.

## 5. Not modelled

Encryption, pictures, files that cannot be sent, the quota's held-back files, device names, the HTTP
clients, and everything outside vault sync, accounts and watch: the bridge, services that write
notes, panels, and the editor crates the desk app inherits, which are most of the repository's lines
and not this program's own. `PROJECT.json` gives the reason for each.

Steps that are one here and several in the code, where nothing in between matters to a property:
`begin_pairing` in DeskSync (the key from session or keychain, ensure, reset, mint the code), the read
and the atomic write of a note a phone write changes (`TakeWrite`; an edit between the two is not
modelled), the row read and the stat of a commit (`CheckBlob`; the transaction checks again),
`removeFiles` and the cursor in `SaveCursor`, the reads before a push (`SendPush`). Left out for the
same reason: that a lapsed user is refused a new vault (`VaultCreate`), a second PUT on one upload url
(`PutBlob`), another instance that stored a phone key first (`setPhoneKey`, `GrantTo`), an adjustment
and a reset in one admin request (`ChangeAllowance`), the old key that a job outliving `turn_off` seals
with.

A catch-up scan is one step although it reads file by file: a change under it is also reported by
the watcher. Phone pairing, lapse on the phone, and the week after which acked rows are swept are
left out of PhoneSync. Of the write rules: the spelling of headings, line endings, front matter, the
kinds that rename or make a file; the Swift port, read beside the Rust, differs in an empty `create`
over a note (a blank line more) and a marker it does not trim. Of the feed: the provider token, the
credential check at a ping, vault and device events. Of the accounts: invites, plans and settings,
the ledger. Of the watch: drafts, days asked for, refreshes, another version of the link, the month
after which a handled id is forgotten.

## 6. Plan

1. Done: VaultStore, PlusServer, PhoneSync, DeskSync; the server's theorems.
2. Done: WriteChannel and its refinement, ApplyRules and NoteBatch, PushFeed, PlusAccount, WatchLink.
3. Done: proofs about PhoneSync with the refinement of WriteChannel, DeskSync, PushFeed, PlusAccount
   and WatchLink.
4. Done: the properties about what texts carry (`OwnChangeStaysShown`, `AckCarriesEffects`) and the
   sum `BytesAccounted`; the desk through new copies (`OnlyUntouchedHidden`) and the watch through
   kills between two statements and whole-second dates. Left: an abstract specification of the desk's
   side (notes on disk, notes at the server) for DeskSync and its refinement.
5. Pairing and lapse on the phone; the phone's rebase through `Apply.swift`.
6. Candidates after that: the bridge's mirror, the budget guard.
