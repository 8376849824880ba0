# Verification of munni

munni is a local-first finance app. Every device keeps all its data in its own
database and works without a server; the server keeps, for each *space* (a
household, a personal ledger, a bank feed), an append-only log of *ops* and the
rows those ops add up to. Devices push their ops and pull the others'. What the
user can lose, and how two devices can come to disagree, is decided by a few
hundred lines: the merge, the clock that stamps ops, the push and pull of the
server, the app's sync round and the service worker that syncs beside it. These
are modelled first. Around that log three more protocols decide what a user
sees: the endpoints that say who may see which space and which bank account
(friends, invitations, members, feeds, deletions); the connector platform's job
queue, which runs logins and fetches at banks and shops on remote agents, where
a login tried once too often can cost the user the account; and the ingest that
turns what a fetch found into ops of an account's feed.

* [How to run](#how-to-run)
* [Inventory](#inventory)
* [Modules](#modules)
* [The sync model, and how it corresponds to the code](#the-sync-model)
* [The sharing model](#the-sharing-model)
* [The job queue model](#the-job-queue-model)
* [The ingest model](#the-ingest-model)
* [Runs](#runs), with their [bounds](#bounds) and [fairness](#fairness)
* [What the violation runs show](#what-the-violation-runs-show), and [other deviations](#other-deviations)
* [Proofs](#proofs)
* [What is not modelled](#what-is-not-modelled)
* [Plan](#plan)

## How to run

    tlc -workers 2 -config SyncEngine.cfg MCSpaceSync     # any cfg of the table of runs
    tlapm MergeProofs.tla
    tlapm SpaceSyncProofs.tla
    tlapm LogProofs.tla
    tlapm DeviceProofs.tla
    tlapm SharingProofs.tla
    tlapm ClockProofs.tla
    tlapm JobQueueProofs.tla
    tlapm IngestProofs.tla

`PROJECT.json` maps every definition to its source lines, names a plausible bug
("mutant") that breaks each property, lists the findings and lists the hazards
of the code, each with the properties that would catch it.

## Inventory

Paths are relative to `src/`. *Hard* names what a unit test does not reach;
*correct* what the component owes.

### Synchronisation (modelled)

**Merge core** - `apps/web/src/sync/merge.ts`, `server/.../Sync/LwwMerge.cs`.
State: per row, the stamp of the last write to each field (`fieldVersions`) and
to the pseudo-field `$deleted`. Operations: apply an op, derive "deleted".
Called by the device's repository and the server's writer on their own copies.
*Hard*: order, repetition and grouping of ops differ on every replica.
*Correct*: the rows are a function of the set of ops merged.

**Hybrid logical clock** - `apps/web/src/sync/hlc.ts`, `db/device.ts`. State: last
wall and counter in memory, the same in `localStorage`, the device id.
Operations: `now`, `observe`, restart. *Hard*: wall clocks set back, restarts,
counter overflow, several tabs. *Correct*: stamps are unique, grow per device,
and pass every stamp the device has seen from a faster clock.

**Op-log server** - `server/src/Munni.Api/Sync/`. State: `SyncOps`, `Spaces.LastSeq`,
`EntityRows`, `SpaceMembers`. Operations: push (validate, authorise, deduplicate,
merge, number, save; retried on a unique violation), pull (a page after a
cursor), bootstrap, event stream. The requests of all devices run
concurrently, each with its own database context and no explicit transaction
over reads and writes. *Hard*: a row is read, merged and written back whole;
numbers are taken from a counter read earlier; only unique indexes stop a race;
clients repeat pushes they got no answer to. *Correct*: each op enters the log
once, behind all others; the rows equal the log.

**Device repository** - `apps/web/src/db/repo.ts`. State: rows and outbox in
IndexedDB. Operations: `write` (merge and queue in one transaction),
`applyRemoteOps`. *Hard*: local writes race pulls of the same row.
*Correct*: what the device shows is queued, parked or in the log.

**Sync engine** - `apps/web/src/sync/engine.ts`. State: per space a cursor, a list of
parked (quarantined) ops, a tombstone for spaces the user lost, all in the
`meta` table; in memory, which parked ops this session offered again.
Operations: a round (gate, retry parked, push in chunks with bisection of
refused ones, pull page by page, park a reader's ops, evict and purge).
*Hard*: each await is a point where the server, the other device, the service
worker, the user or a crash gets in; a space is lost and regained. *Correct*:
nothing lost, no op skipped, the outbox drains, no push for a lost space.

**Background sync** - `apps/web/src/sync/swSync.ts`. The service worker pulls on a web
push and flushes the outbox on a Background Sync event, over the same
IndexedDB, with no lock against the app. *Hard*: two writers of one cursor and
one outbox, and the browser may kill it anywhere.

### Sharing (modelled)

**Space membership** - `server/.../Social/SocialEndpoints.cs`, `SpaceRoles.cs`,
`features/spaces/SpaceSharing.tsx`. State: `SpaceMembers.Role`. Operations: invite
and accept, change a role, remove, leave. *Hard*: every rule about "the last
owner" is decided on rows read earlier; a departure promotes somebody, archives
links and tells the space's log in one save. *Correct*: a space with members
has an owner.

**Invitations, friends, account deletion** - `Social/SocialEndpoints.cs`,
`AccountDeletion.cs`. State: `Friendships` (with the space a request may carry),
`SpaceInvites`, `Users`. Operations: request, reciprocate, accept, unfriend,
invite, respond, revoke, delete my account. *Hard*: a request that meets its own
mirror image is accepted in two saves; what a deleted person has open is used
by others afterwards. *Correct*: a deleted account leaves no membership, friendship
or open invitation behind, and nothing brings one back.

**Feeds and account attachment** - `server/.../Accounts/`. A bank feed is a space of
its own under an id derived from the account. State: `FeedSpaces` (the owner),
co-owners, `SpaceAccountLinks` (which space shows which feed, archived up to a
cap once the attacher left), and the mirror of each link in the space's log.
Operations: register, ensure, attach, detach, archive on leave, revive on join,
sweep dead links, delete my view or the whole feed. *Hard*: the deletion reads,
saves and judges in separate steps; links and mirrors are written by different
actors at different times; a feed is erased and reborn under the same id.
*Correct*: a person who left shows nothing new, a deletion takes the caller's
view and nobody else's, and every device hears of it.

### Connector platform (queue, challenges, sweep, agents and staged results modelled)

**Job queue** - `server/src/connectors/Connector.Kit.Hosting/Jobs/EfLeasedJobQueue.cs`,
`Connector.Kit/Jobs/JobModel.cs`. State: a row per job (state, lease owner and
expiry, attempts, the latch "credentials were submitted", encrypted secrets).
Operations: enqueue, lease, renew, progress, complete, fail, requeue expired,
expire abandoned. *Hard*: agents die or answer late, read-decide-write without
a version check, one job per session. *Correct*: a job that ended stays ended
and keeps no secrets; no login is tried twice after credentials were sent; at
most `MaxAttempts` tries; one job per session at a time; every job ends. Three of
these the code does not keep when the reads and the writes of two handlers
interleave: see [other deviations](#other-deviations).

**Challenges and expiry** - `Challenges/ChallengeService.cs`, `ExpiryService.cs`.
State: a challenge per pending question (a one-time code), its deadline.
Operations: raise, answer, expire; the sweep. *Hard*: an answer races the
deadline, the agent's own failure report and the sweep.

**Sessions and staged results** - `Sessions/`, `Staging/ResultService.cs`. State: a
session per login; a row per reference the party reported, with the pass that
last reported it. Operations: stage, page, acknowledge, purge. *Hard*: an
acknowledgement names a cursor, and rows move to a later pass between the
reading of a page and its acknowledgement. *Correct*: nothing is acknowledged
away that was not filed. Session states themselves are not modelled.

**Agent** - `Connector.Kit.Agent/`. State: per slot the job it runs, and whether the
credentials went upstream. Operations: lease, renew, report progress, ask,
report the outcome. *Hard*: it dies, its lease is lost while it works, a post is
given up after three attempts. *Correct*: what it did reaches the platform or counts as not done.

**Platform API** - `Connector.Api/`, `Endpoints/`, `Live/`: views over the same
tables, plus an idempotency store and a ticket store.

**Provider adapters** - scraping and parsing, no shared state.

### Ingest (modelled) and the rest

**Connector ingest and scheduling** - `server/.../Connectors/ConnectorSyncService.cs`,
`ConnectorIngest.cs`, `ConnectorScheduleService.cs`. State: the feed's rows and op
log, the pending rows it mirrors (`ConnectorPendingTx`), predictions about a
transaction (`txMeta`). Operations: sync, collect a job that outran the wait,
file a page, predict, acknowledge, settle the pending rows. *Hard*: several
devices and the scheduler do this at once, each in four saves; op ids are
hashes of contents; rows the bank has not booked must go when it drops them.
*Correct*: all that the bank keeps reporting lands once, nothing goes back to
older words, nothing a person said is overruled, what is gone goes.

**Split ledgers, web push, the change stream, rates and quotes and OCR, auth and
admin, the web user interface and its domain functions, notifications of the
service worker, operator consoles, deployment**: see
[what is not modelled](#what-is-not-modelled).

### Interactions

    user --write--> repo ---rows, outbox---> engine (rounds) --push/pull--> server
                     ^                          |  ^                           |
                     +---- applyRemoteOps ------+  +-- nudge, poll, SSE -------+
                     +---- applyRemoteOps ---- service worker --push/pull--> server
    owner --invite, role, remove--> SpaceMembers --403--> engine: evict, purge
    person --attach, detach, delete--> links, feeds --mirror ops--> the spaces' logs
    agent --stages--> results --page--> ingest --ops--> a feed's log, as one more writer
          <--job queue-- sync, scheduler <----ack----+

## Modules

| module | what it is |
|---|---|
| `Merge` | the last-writer-wins merge, as operators on rows and ops |
| `SpaceSync` | server, apps and service workers of one space: the core state machine |
| `SharedLedger` | the abstract specification `SpaceSync` implements: one append-only log, one position per device |
| `MCSpaceSync` | instances of `SpaceSync`: a phone, a tablet, the ops they author |
| `Clock`, `MCClock` | the hybrid logical clock over tabs, restarts and wall clocks set back |
| `Sharing` | the tables of friends, invitations, members, feeds and links, and the requests that interleave over them |
| `SharingProofs` | all properties of the sharing runs, proved |
| `MergeProofs` | what the merge computes, proved |
| `SpaceSyncProofs` | type correctness of `SpaceSync`, proved |
| `LogProofs` | the server's log and rows, proved |
| `DeviceProofs` | what a device can rely on, and the refinement of `SharedLedger`, proved |
| `ClockProofs` | uniqueness and order of stamps, proved |
| `JobQueue`, `MCJobQueue` | the connector platform's jobs, questions, agents' slots and sweeper |
| `JobQueueProofs` | the queue's safety, proved |
| `Ingest`, `MCIngest` | from a fetch job's staged rows to the rows of the account's feed |
| `IngestProofs` | the ingest's safety, proved |

`SpaceSync` extends `Merge`; `SharedLedger` extends `Merge` and is instantiated in
`SpaceSync` with a refinement mapping. `Clock` justifies the one thing `Merge`
assumes of stamps: two different ops never carry the same one. The other models
meet at their edges: `Sharing` decides when the memberships move that `SpaceSync`
takes from its environment; `JobQueue` says when every job ends, which is what `Ingest`
assumes of its jobs (not that one of a session runs at a time: two syncs may
queue one each, and both may run); `Ingest` and `Sharing` write to a feed's log, whose numbering and merging `SpaceSync` checks.

## The sync model

### Merge

An op writes all its fields under one stamp, so the model identifies the value
of a field with the stamp of the op that wrote it: a row is a function from
cells (fields and `$deleted`) to stamps, 0 where nothing was written. `ApplyOp`,
`Changes`, `IsDeleted` are `applyOp`, its `changed` result and `deriveDeleted`.
`MergeOps` is a page merged in one transaction, stated as the newest stamp per
cell; `MergeProofs` shows that the op-by-op loop of the code computes it in
every order.

### State

| variable | code |
|---|---|
| `seq`, `lastSeq`, `srow`, `role` | `SyncOps.Seq`, `Spaces.LastSeq`, `EntityRows`, `SpaceMembers` |
| `refused` | the ops `OpValidator` answers 400 to, until it is corrected |
| `req` | the push request in each *lane*: the app's, the worker's, and one stray whose caller is gone |
| `rows`, `outbox`, `parked`, `cursor`, `evicted` | the device's IndexedDB: entity tables, `outbox`, and the meta keys of the space |
| `offered` | `parkedRetried`, in the app's memory |
| `app`, `sw` | the locals of the app's round and of the worker's event, with the await they stand at |
| `seen`, `made`, `granted`, `moves`, `faults` | history and bounds; no action of the program reads `seen` or `granted` |

### Actions

A step is what happens between two awaits: one IndexedDB transaction, one
statement of a request handler whose timing matters, one answer arriving.

| actions | code |
|---|---|
| `Edit` | `Repo.write`: merge and queue in one transaction; an op that wins no cell is dropped |
| `Receive`, `Collide`, `Commit` | push: validation, authorisation and the reads; a unique violation, retried `PushTries` times; the save |
| `StartRound` | `syncAll`'s choice of spaces and the tombstone gate `skipKnownEvicted` |
| `ReadParked`, `OfferParked`, `ParkedAnswered`, `EndRetry` | `retryParked`, which offers one op per request and rewrites the list once, then the read and the chunking of the outbox |
| `PushNext`, `PushAnswered`, `Unqueue` | `pushChunk`: 200 deletes, 400 bisects or parks, 403 stops pushing, anything else ends the round; parking and deleting are two transactions |
| `StartPull`, `PullHead`, `PullOps`, `PullApply`, `PullStamp`, `Drained` | `drainPull` and the server's pull, whose membership and head are read before its page; a page and its cursor are two transactions |
| `ParkReadOnly` | `parkReadOnlyOps` after a 403 on push |
| `EvictPurge` | `evictSpace` after a 403 on pull: tombstone (in `PullHead`), then purge |
| `WakePull` ... `WorkerStamp` | `backgroundPull` |
| `WakeFlush`, `FlushCheck`, `FlushSend`, `FlushAnswered` | `flushOutbox`, which awaits the tombstone and then awaits the push |
| `Grant`, `Rerole`, `Revoke`, `Leave` | membership |
| `FixServer` | the validator starts to accept what it refused |
| `LosePush`, `LosePull`, `CloseApp`, `KillWorker` | a network error, the app closed, the worker killed; a push that was under way may still be served |

### Abstractions a reader should know

* **Receive reads everything at once.** In the code the space, the membership, the known
  op ids and the rows are separate statements. A push that commits between
  them makes later reads newer, and then the numbers this push would take are
  gone: the unique index on `(SpaceId, Seq)` refuses its save and it starts over
  (`Collide`). Reading a newer row, or missing a newer op id, therefore never
  commits, unless the push accepts nothing and so writes nothing.
* **Roles at reads, not at saves.** A role revoked between the authorisation and the
  save does not stop the save, in the model as in the code.
* `Leave` is the server's answer and the device's purge in one step; what lies
  between them only delays the purge.
* The order in which ops were parked is left open (`OfferParked` takes any).
* One space. Rounds of other spaces share only the `running` flag, which `app[d]`
  has for its own; space ids are random. Feed-shaped ids (which the push
  forbids) and the caps on what a feed member may read are left out.
* The parked list is not cut at 500 ops. `txSeen`, which the purge omits, holds rows
  only in the user's own state space.
* Entities this build does not know, and the row invariants that refuse a local
  write, are left out.
* A user edits a space that is shown. `Edit` is also allowed while the space is
  tombstoned, for the writer that raced the purge (the comment of
  `skipKnownEvicted` names it); it makes the model's user more careless than
  the screen, never less.
* A grant or a removal between the listing of spaces and the start of the round
  has the effect of one just before or just after it, so the listing and the
  gate are one step.

## The sharing model

### State

| variable | code |
|---|---|
| `rows` | the database, as one function from keys to values: `Users`, `Friendships`, `SpaceInvites`, `Spaces` (with `LastSeq`), `SpaceMembers`, `FeedSpaces`, co-owners, `SpaceAccountLinks`; and of a space's log the two things these handlers read or write: the `accountLink` row of a feed and whether the deletion op of that feed is in it |
| `inflight` | requests that have read and not saved yet: who, which handler, the rows it will write, the logs it appends to, what comes after the save |
| `due` | the `accountLink` op a device still has to push after its own attach or detach |

### Actions

Each handler is one action that reads the tables, decides, and leaves a request
in flight with the set of rows it is going to write (`Ask`); `Save` is its
`SaveChanges`, all or nothing: an inserted key that exists, an updated or deleted row
that is gone, or a sequence number another save took, rolls it back (`Refuse`).

| actions | code |
|---|---|
| `SendFriendRequest`, `AddSpaceInviteIfMissing`, `AcceptFriendRequest`, `RemoveFriend` | the friend endpoints; a request that meets one the other way accepts it, saves, and then invites |
| `SendSpaceInvite`, `RevokeInvite`, `RespondToInvite` | invitations |
| `ChangeMemberRole`, `RemoveMember` | members; a departure archives what the leaver attached and may promote a successor |
| `DeleteMe` | `AccountDeletion`: spaces with one member and prunable feeds are erased, others left, social rows deleted, in one save |
| `FirstPush`, `PushToFeed` | what a push does to these tables: it creates a space with its owner, it moves a feed's head |
| `RegisterFeed`, `EnsureIbanFeed`, `Attach`, `Detach` | feeds and their links |
| `DeleteFeedAccount`, `JudgeFeed` | `FeedDeletion`: read, the janitor's save, then mine only or the whole feed |
| `PushMirror`, `Reconcile` | the devices' part: the op after an attach or a detach, and `reconcileSpaceLinks` |

### Abstractions a reader should know

* `Overlap` names the handlers that interleave with one another, and `MaxInFlight` how many of them are
  in flight; a request of any other handler starts when nothing is in flight and is saved before anything starts. A run
  names the handlers whose races it is about.
* The members' and invitations' endpoints take any space id (SocialEndpoints.cs:267, 374, 397), so they range over `Room`, the spaces
  and the feeds' own spaces. `FirstPush` ranges over `Space`: a push does not create an id shaped like a feed's
  (SyncEndpoints.cs:71-74). `Attach`, `Detach`, `PushMirror` and `Reconcile` do so too: their endpoint also takes any space id, but the
  app sends the id of a space it shows, and attaching a feed to a feed's own space is not modelled.
* `since` remembers whether another save got between a request's reading and its saving. The
  properties that such a race really breaks speak of undisturbed requests, and say so in their comment.
* The log of a space is reduced to its head and to the two facts above: a mirror op of a newer
  stamp replaces an older one. Devices push ops in the order of their stamps.
* An invitation that is settled and that no request in flight has read is dropped from `rows`: no handler reads
  it again. Ids of invitations are then used anew, which keeps the instance finite.
* A device that stops between its attach or detach and the write of its own op loses that op (`Queued`);
  `Reconcile` is the repair other devices make.
* Of what the deletion of a feed does, two effects outside these tables are left out: `DisconnectFeedAsync`
  ends the bank connection behind the feed, and `EraseFeed`'s tombstones of the `txMeta` overlays
  (FeedDeletion.cs:95-135) share the batch and the fate of the mirror's own, which is modelled.
* Pairs in `Befriended` are friends for good; `Assignable` are the roles people hand out; only people in
  `MayVanish` delete their account.

## The job queue model

### State

| variable | code |
|---|---|
| `job` | the `Jobs` table: `State`, `LeaseOwner`, `LeaseExpiresAt` (none, in the future, passed), `Attempts`, `CredentialSubmitted`, and whether `InputsJson` holds credentials |
| `asked`, `open` | the challenges raised; those neither answered nor expired |
| `held` | the handler in flight in each *lane*: what it read when it started |
| `works`, `sent` | per slot of an agent: the job it believes it runs; whether it sent credentials upstream and what became of the note of it |
| `faults` | bound |

### Actions

| actions | code |
|---|---|
| `Enqueue`, `Cancel`, `Answer` | `EnqueueAsync`, `LoginEndpoints.CancelAsync`, `ChallengeService.AnswerAsync` |
| `TryLease` | `TryLeaseAsync`: the candidates (`Eligible`), then the conditional claim (`Claimed`) |
| `RenewLease`, `Progress`, `Raise`, `Report` | the agent's calls: `RenewLeaseAsync`, `ProgressAsync`, `RaiseAsync`, and `CompleteAsync` or `FailAsync` with a code that may or may not be retried |
| `Submit`, `DropProgress`, `LeaseLost`, `Crash` | `CredentialSubmitted`, which queues the note; `PostProgressAsync` giving up; the run told its lease is gone; a death, or an outcome that never lands |
| `LeaseRunsOut`, `QuestionExpires` | the clock |
| `FailUnanswered`, `RequeueExpired`, `ExpireAbandoned` | the statements of `ExpiryService.SweepAsync` that concern jobs |
| `Save` | the write of a handler that others got in the middle of |

Every handler reads the row and decides on it. A claim and a progress report
then write with a conditional UPDATE, whose WHERE clause asks again (`Claimed`,
`Progressed`); an answer, a question and an outcome save the tracked entity,
and EF Core writes the columns that differ from what was read, with no version
check (`Saved`). `Overlap` names the handlers that others may interleave with
between the read and the write: those are a `Handle` and a `Save`, the others one
step. It is a constant so that a run can say which interleavings it is about:
`job_queue` holds back claims (the candidates are one SELECT, the claim another
statement) and progress reports ("a report is routinely still in flight when the
run that produced it finishes"); the theorems are about every choice. A handler in flight keeps what its write will use of
the row it read: all of it, or for a conditional UPDATE the state only (`Carried`).

### Abstractions a reader should know

* Between requests everything interleaves, whatever `Overlap` is: late and stale
  agents, users, sweeps, expiries and deaths.
* The page of candidates of `TryLeaseAsync` is one candidate: a claim that fails
  changes nothing, so the next candidate of the page is the one of a claim that
  read at the same moment.
* `ProgressAsync` is three UPDATEs (running, latch, step); the first two are made in
  one `Save`. The latch alone lands whatever the state is, as in the code.
* `RequeueExpired` is the requeue and both burns: their WHERE clauses are disjoint and
  cover every lost lease.
* Claims do not look at siblings again: the check that no other job of the session is active is part of the candidates'
  query alone (`Eligible`), as in the code.
* A session is the set of its jobs. Its own state, profiles, staged results, and all the
  routing of `TryLeaseAsync` (capabilities, egress, owners, the head start) are left
  out: any agent may take any queued job, in any order.
* A job may be asked about on behalf of any slot of the agent that leases it: the code
  checks the agent, not the slot (`Owns`).
* A slot's calls reach the platform one after the other, and a landed outcome whose
  answer was lost is not posted again.

## The ingest model

### State

| variable | code |
|---|---|
| `party` | what the bank reports of each reference: nothing yet, a content, or gone. A pending reference (`Held`) has one content; a booked one may be worded anew |
| `jobs`, `staged` | the session's fetch jobs; `ResultRow`: one row per reference, with the pass that last reported it |
| `calls` | the relay's requests: the job, whether the request waits for it (a sync) or comes later (a collect), the page it read, how far it got |
| `filed`, `feed` | the content-hashed op ids in the feed's log; the feed's transaction rows with their tombstones |
| `tracked` | `ConnectorPendingTx`: the pending rows that are mirrored |
| `opinion` | `txMeta`: who last said what a booked row is |
| `faults` | bound |

### Actions

| actions | code |
|---|---|
| `Appears`, `Reworded`, `Disappears` | the bank |
| `Runs`, `Fails`, `Sweeps` | `StageAsync` of a whole or a capped pass, a job that ends without a page, the retention of unacknowledged rows |
| `Asks`, `Enqueues` | `SyncAsync` up to its job: the look for a fetch in flight, then, a statement later, a job of its own; two syncs may both find none |
| `Outruns`, `Reads`, `Collects` | its 202 when the job outruns the wait, the page, `CollectAsync` |
| `Files`, `Predicts`, `Acknowledges` | the saves of a page: ops whose id the log does not hold, the overlay, the acknowledgement |
| `Finishes`, `Remembers` | the settlement of pending rows: the tombstones are one save, the rows remembered the next; that one fails if another request changed them since |
| `Crashes` | a cancelled request, a broken connection, a save that throws, a restart |
| `Decides`, `Deletes` | a person, through the sync of a device |

### Abstractions a reader should know

* `CollectAsync` settles a page before it acknowledges it, `SyncAsync` after; the model always settles last. No collected page
  with rows is settled (run `pending_outlives`), so the order changes nothing.
* A request *crosses* another when that one files a page, or its job stages rows, in between. Two properties
  exempt crossed requests, because there the code does what they forbid (see the hazards).
* An op of the ingest takes the stamp of the moment it is filed, so it wins against all the row has; a
  prediction takes the lowest stamp, so it only fills what nobody said.
* The scheduler is one more caller. A second sync of a session while a job runs is handed that job to collect.
* One session, one account, one space that shows it. Wordings grow: a value that returns to an earlier one is left out.

## Runs

| run | expects | what it checks |
|---|---|---|
| `sync_engine` | pass | Two users, no failures, three membership moves, an op refused at first, four ops of which three meet in one row. `TypeOK`; `ServerIsJoin`; `NothingLost`; `CursorSound`; `Converged`; `LogAppendOnly`; `QuietWhenEvicted`; `ImplementsLedger`. About 420 000 states. |
| `sync_worker` | pass | One user, app and worker of the phone over one database, an op refused, a crash or lost request anywhere. `NothingLost`, `CursorSound`, `Converged`, `LogAppendOnly`. About 540 000 states. |
| `sync_live` | pass | Two users, three membership moves, one crash or lost request, a refused op, fair rounds and server. `OutboxDrains`, `EventuallyConsistent`. About 160 000 states. |
| `clocks` | pass | Two devices, wall clocks that move either way, restarts, a counter of two values. `TypeOK`, `StampsUnique`, `DeviceStampsIncrease`, `FuturePassed`. |
| `membership` | pass | Three users, a space, one account deletion; role changes and removals interleave with one another. `NeverOwnerless`, `GoneIsGone`. About 810 000 states. |
| `feeds` | pass | Two users, a space, a feed of at most one op and its own space; attaches and a deletion of the financial account interleaved, devices that lose their mirror op. `TypeOK`, `FrozenAfterLeave`, `NothingNewWhenArchived`, `StaysCoherent`, `RevokesMineOnly`, `DeletionTold`. About 880 000 states. |
| `job_queue` | pass | A login and a fetch of one session, two agents of one slot, one question, one crash or lost post, a fair sweep; claims and progress reports held back, so that two jobs of the session may run at once. `TypeOK`, `ActiveIsLeased`, `NoSecretsAtRest`, `EndedStaysEnded`, `NeverAfterCredential`, `EveryJobEnds`. About 260 000 states. |
| `ingest` | pass | A pending and a booked row, two jobs, two callers that interleave, one fault of any kind. `TypeOK`, `AckedIsFiled`, `NeverBackwards`, `OnlyGoneDies`, `PersonStands`. About 1 600 000 states. |
| `ingest_live` | pass | The same rows, three jobs, one caller at a time, two faults, fair syncs. `EveryRowLands`, `GoneGoes`. About 520 000 states. |
| `worker_skips_ops` | violation of `CursorSound` | pages smaller than the log, and a worker that pulls |
| `deletion_erases_history` | violation of `KeepsReadHistory` | a feed shown in a shared space, and the deletion of its owner's account |
| `pending_outlives` | violation of `MirrorRemembered` | a job that is collected while a sync waits for it, or after it outran its wait |

What the properties say, and what breaks them:

* `ServerIsJoin` relates the log to the rows. Two pushes that read the same row and
  both save would lose one's cells; drop the unique indexes and TLC shows it.
* `LogAppendOnly`: cursors are only meaningful if nothing is ever inserted behind
  them; a repeated push must be recognised by its op ids.
* `NothingLost`: every op a device shows is in the log, in its outbox or parked,
  across crashes between the two transactions of every hand-over. Deleting
  before parking, or emptying the outbox whatever the answer, breaks it.
* `CursorSound`: no accepted op at or before a cursor could still change the rows.
* `Converged`: nothing left to push or pull implies the server's rows, although own
  ops were merged before they were numbered.
* `QuietWhenEvicted`: while a tombstone stands the app's rounds push nothing for the space, which takes the gate at the start of a
  round and a tombstone that goes when the space is granted again. The worker's flush does push ([other deviations](#other-deviations)).
* `ImplementsLedger`: every step of the protocol is a step of `SharedLedger`, under
  the mapping pos = `seq`, holds = `seen`, upto = `cursor`, view = `rows`. It says in
  particular that a device's position never claims an op it does not hold, and
  that a purge forgets rows and position together.
* `OutboxDrains`, `EventuallyConsistent`: no refusal, role or race makes a device retry
  for ever, and in the end members show everything and others nothing.
* `ActiveIsLeased` is what the sweep relies on: its statements match on a lease, so an
  active job without one is beyond help. An answer that ignores the state, or a
  progress report that writes what it decided on a row it read, breaks it.
* `EndedStaysEnded`, `NoSecretsAtRest`: an end is final and forgets the credentials, on all six
  ways to it (two reports, cancel, unanswered question, lost lease, nobody came).
* `NeverAfterCredential`: an active job with the latch set is never requeued, by the agent's
  failure or by the sweep. It is about what the platform knows.
* `EveryJobEnds`: agents that die or hang, questions nobody answers and jobs nobody takes all
  end within the sweep. Leave the lease on a requeued job and no sweep matches it.
* `NeverOwnerless`: no departure, demotion, removal or account deletion takes the last owner from a space that
  keeps members. Drop the promotion and it fails.
* `GoneIsGone`: no membership, friendship or open invitation names a person without an account, whatever was open when it was deleted (the
  `FeedOwner` rows do remain); a deletion that forgets the
  requests the person *sent* is caught when somebody accepts one.
* `FrozenAfterLeave`, `NothingNewWhenArchived`: what a person attached freezes when the person leaves, and what an archived
  link shows never grows, though the feed goes on or is erased and registered again. Reviving links of anyone, or a
  cap one op too high, breaks them.
* `StaysCoherent`: after any handler that nobody crossed, a feed with co-owners is registered and whoever attached it is an owner or
  co-owner of it. It does not say that an owner is a member of the feed's own space: who leaves that space stays owner.
* `RevokesMineOnly`: whoever deletes a financial account, in a coherent state and crossed by no other save, keeps neither ownership nor
  links, and everyone else who covers the feed keeps both. `DeletionTold`: the first deletion of a feed in a space reaches the space's log.
* `AckedIsFiled`: a staged row disappears by acknowledgement only when that very content is in the feed, although
  rows move between passes while a page is being filed. Acknowledging all of a resource breaks it.
* `NeverBackwards`: a late page never restores older words. It rests on one staged row per reference; let each pass stage
  its own and it fails.
* `OnlyGoneDies`: the settlement's "not on the page" means gone only if the page is the whole of what the bank holds and
  every mirrored pending row still reported is on it. Settling by a partial page breaks it.
* `PersonStands`: no prediction overrules a person, and a deleted row comes back only with words never seen.
* `EveryRowLands`, `GoneGoes`: whatever fails, all that stays reported lands, and a remembered pending row that is gone goes. Op ids of the
  row alone would drop every rewording.

### Bounds

In `SpaceSync`, `Op` is a fixed set of two to four ops and each is authored at most once; `MaxMoves`
and `MaxFaults` bound membership changes and failures. These are the only bounds
on the behaviours: rounds, wake-ups and requests repeat without limit.

* Two devices are the least that can race; all races between requests are pairwise
  (one row, one counter), and the proofs cover any number of devices.
* Four ops give a chunk that must be bisected (`PushChunk` = 2; 300 in the code), two
  chunks, two pages (`PageSize` = 1; 1000 in the code), a deletion meeting an edit, and an
  edit on a row another device wrote. `sync_live` needs fewer: its fairness
  questions are about roles, refusals and purges rather than about merging.
* Three moves are grant, revoke and grant again, the shortest way to an evicted and
  regained space. One fault is enough for each hazard of a single crash.
* `PushTries` is 2 (3 in the code): one collision that is retried and one that is not.
* In `sync_worker` a page holds the whole log, because the worker is wrong otherwise
  (run `worker_skips_ops`); in all runs users leave between rounds (`LeaveMidRound`), because a
  departure during one is wrong too (see [other deviations](#other-deviations)). Both restrictions are constants.

In `JobQueue`, `MaxAsked` and `MaxFaults` are the only bounds; `MaxAttempts` is the code's (2), and leases,
renewals, reports and sweeps repeat without limit.

* `job_queue` holds back two handlers, not all: `ActiveIsLeased`, `EndedStaysEnded`, `NeverAfterCredential` and `EveryJobEnds` are false with
  answers, questions or outcomes held back ([other deviations](#other-deviations)), and the proofs say under which premise the safety ones hold.
* Two jobs of one session and two agents are the least for a race of claims and for a stale
  agent beside a live one. Only one of the jobs carries credentials, so the other shows
  that a latch is a job's own.
* One question is one park and one answer or expiry; a second one finds the job as the
  first did. One fault is one death, lost outcome or lost note; the two attempts of a
  job then differ.
* The proofs cover every number of jobs, agents, slots, questions and faults.

In `Sharing`, `membership` has three users so that a successor can be chosen among two and a third party can act on a
departure; `feeds` has two, an owner and one other, which is what coverage, succession and revival are about. Two requests
in flight are the least for a race, and all races here are of one save against one reading. In `feeds` the janitor's save of a deletion
follows its reading at once, so two deletions do not cross there. One op of a feed
(`MaxSeq`) tells a cap from no cap and an erased feed from a reborn one. Everybody given a role in `feeds` is an owner, since roles are the
other run's subject.

In `Ingest` two requests and two jobs are the least that cross; `MaxContent` = 2 is one rewording. A job slot is used again once
nothing of its job is left, so syncs repeat without limit; `ingest_live` has one more slot than faults, so
that jobs nobody collects never use them up. There one caller acts at a time: two that alternate for ever can move
each other's staged rows to a new pass before either reads them, a schedule that needs a new job to finish inside every
wait, and no fairness of the code excludes it. The proofs of safety cover any number of references, jobs, callers, wordings and faults.

### Fairness

`FairSpec` assumes weak fairness of `AppStep(d)`, for each device: an app that is open polls every
10 s, is nudged 2 s after a write, wakes on focus, `online` and server events, and each of its
awaits settles, by an answer or an error. And of `Serve(c)`, for each lane: a
request that reached the server is handled. A round's step is enabled until it is
taken or the round is cut short, so weak fairness is enough. Nothing is
assumed of users, failures, the validator or the service worker: an outbox
must drain without `FixServer` and without Background Sync, which not every browser has.

`JobQueue`'s `FairSpec` assumes weak fairness of each statement of the sweep (a background loop every
few seconds), of a question's expiry, of a held handler's write, and of the post of a
pending note; of a lease's end only while no slot works for the job's owner (`Forsaken`), because a
live run renews; and strong fairness of the end of a run (`Report` or `LeaseLost`), which has a budget
after which it reports whatever it has, but may be disabled again and again by its own
progress reports. Nothing makes a user, an agent or a claim act. Taking the sweep's statements as separate
fair actions allows more orders than the loop has.

`Ingest`'s `FairSpec` assumes weak fairness of `Runs(j)` (a job that was taken ends, `EveryJobEnds` of the queue), of `Asks(c)` (the
scheduler syncs every connection periodically, ConnectorScheduleService.cs) and of the steps of a request, from `Enqueues` to `Remembers` (awaits settle). Nothing makes
a job's page be collected, and the bank and the people do as they please. `Clock` and `Sharing` state no liveness.

## What the violation runs show

Each is a disagreement between the code and a sentence of its own, quoted in
`PROJECT.json`.

1. **`worker_skips_ops`** - `backgroundPull` (swSync.ts:99) applies one page and stores the
   server's head as its cursor. With more ops waiting than a page holds, those
   in between are skipped for good, by the app as well, since it shares the cursor. It
   is the bug the app's own pull was cured of (engine.ts:292-294).
2. **`deletion_erases_history`** - `LeaveOrDeleteSpacesAsync` (AccountDeletion.cs:68) erases every space the person is the sole
   member of, and the owner of a feed is a member of the feed's own space. So the feed is erased before the step that
   is to "keep the ones surviving shared spaces still read", and the archived link shows the others nothing. The
   test seeds the feed without that membership row.
3. **`pending_outlives`** - a collected page settles the pending rows only when it has no cursor
   (ConnectorSyncService.cs:271), but every page with rows has one (ResultService.cs:142): the pending rows of a job that somebody else collects while
   the sync waits, or that outran its wait, are filed and never remembered, so nothing removes them when the bank drops them.

### Other deviations

Met while modelling; each that names a constant is reproduced by changing it, and the passing runs keep it set.

* "Per-session concurrency is 1, always" (EfLeasedJobQueue.cs:325) is asked of the candidates (:300-332) and not of the claim (:448-469): two slots
  that read before either claims run two jobs of one session. `job_queue` passes through such states, and everything it checks holds there.
* `CompleteAsync` and `FailAsync` save what they decided on a row read earlier, with no version check (:512): of two outcomes read before either is
  saved, the later overwrites how the job ended. TLC breaks `EndedStaysEnded` with "succeed" and "final" in `Overlap`.
* `AnswerAsync` saves `running` over a job that was ended or taken back since it was read (ChallengeService.cs:186). Owner and lease stay null, no sweep
  matches it, and it never ends: with "answer" in `Overlap` TLC breaks `ActiveIsLeased` and `EveryJobEnds`. `RaiseAsync` has the same shape.
* `flushOutbox` awaits the tombstone (swSync.ts:137), then the push (:142): an eviction in between leaves a request for a space of which the engine says "no
  sync request leaves for it" (engine.ts:400-401). The server answers 403, so no row is at stake (`Flushers` in an instance with grants).
* Deleting a financial account that others use takes the caller's ownership and links (FeedDeletion.cs:68) and leaves the membership of the feed's
  own space, which is all a push asks for (SyncEndpoints.cs:83-85); "Writes to a feed stay owner-only" (FeedAccess.cs:9).
* `leaveSpace` (SpaceSharing.tsx:119) purges while a round may be between its pull and its cursor write, which then
  lands in the purged space; granted again before the next round, the device starts from the stale cursor (`LeaveMidRound`).
* The clock is read from `localStorage` once per tab and counts on in memory (device.ts:33): two tabs of one profile issue
  the same stamp in the same millisecond (`DeviceOf` with two tabs of a device; the premise `OneTab` of the theorems).
* An op refused by the validator is "preserved, not destroyed" (engine.ts:240); if it is the op that creates the space, the pull of
  the same round is answered 403 and the eviction purges the parked list with it (`Refusable` with the creating op).
* A worker that flushes while its space is tombstoned (swSync.ts:137-140) deletes the queued ops though their rows are
  shown until the purge; for good if the space is granted again in between (`Flushers` in an instance with grants).
* The note that credentials went upstream travels only in a progress report, which the agent gives up after three
  attempts (AgentJobContext.cs:742), and a stale agent whose lease expired may still submit: a job the platform may retry can
  submit them again. `HasSubmittedCredential` is read nowhere.
* `observe` ignores a stamp above the local state but not above the wall clock (hlc.ts:85-90), so a clock set back afterwards issues a
  smaller stamp than one already seen; `FuturePassed` states what does hold.
* An owner of a feed who leaves the feed's own space stays owner without being a member of it (SocialEndpoints.cs:397), with nothing interleaved.
* A request for the deletion of a financial account that another save crosses may leave a link to a feed that is gone.
* Two owners whose departures overlap each see the other as the remaining owner and leave none (SocialEndpoints.cs:421).
* The deletion op of a feed has one id for good (FeedDeletion.cs:142): deleted, attached again and deleted again, the second
  deletion is dropped as a repeat and the space keeps its row.
* A friend request that carried a space admits its addressee again when it is accepted a second time, after the
  member was removed (SocialEndpoints.cs:228-237).

## Proofs

`MergeProofs` (any entities, fields and ops):

* `JoinUnique`: rows that are the join of a set of ops are determined by the set. This is
  what makes "same ops, same rows" true of replicas.
* `PagesCommute`: merging two pages in either order gives the same rows, and merging one again
  changes nothing. Lemmas on the way: what `MergeOps` returns and its type, that merging an op
  by `Put` is merging its singleton page, and that a join grows by the page merged.

`SpaceSyncProofs` (any devices, users, finite set of ops, sizes, moves and faults):

* `TypeCorrect`, `Spec => []TypeOK`. `TypeOK` bounds stored cursors by `lastSeq`, which is not inductive
  alone: a cursor is written from a value read several awaits earlier. `TypeInv`
  adds `RoundOK` (a page under way is a set of ops in the log after the cursor it was asked for;
  the head a round remembers was one) and the bound on the worker's head. Preservation has one step per action.

`LogProofs`:

* `ServerCorrect`, `Spec => []ServerIsJoin`, and `LogOnlyGrows`, `Spec => LogAppendOnly`. The inductive invariant `LogInv`
  adds to the join what every request past its reads may rely on (`ReadOK`): it read at a
  head no greater than now, and if the head has not moved, the rows and the known ids it read are
  those of now. Without it a commit could write from anything. The step that matters is
  `Commit`: the head has not moved or nothing is accepted, so the rows written are the join of the log and
  the page, and the numbers taken are exactly the next ones.

`DeviceProofs` (any devices, users, ops, sizes, moves and faults; extends `LogProofs`):

* `QuietOnceEvicted`, `Spec => QuietWhenEvicted`, from `TombInv`: a round under way runs for a space that has no tombstone. It speaks of
  rounds; the worker checks a tombstone that may be written before it pushes ([other deviations](#other-deviations)).
* `NothingIsLost`, `CursorIsSound`, `DevicesConverge`, `LedgerImplemented`. Two races of this code really break them, so the theorems carry
  a premise about steps that names the race, and no more than the race:
  `QuietFlush`, that the worker does not flush a space already tombstoned (swSync.ts:137-140 drops the queued ops of such
  a space while their rows are still there); and `UnbrokenPulls`, that no purge empties the rows a pull is filling (`leaveSpace` and an
  eviction take no lock) and that the worker's one page holds all that follows its cursor (swSync.ts:70; run `worker_skips_ops`).
* `NothingIsLostByRounds` (`Flushers` empty), `RoundsAreSound` (`Pullers` empty, departures between rounds) and `RoundsConverge` (both) discharge
  the premises from the constants, for browsers without Background Sync; `sync_engine` has these constants.
* `PersonalIsKept` and `PersonalConverges` discharge them with workers awake: in a space all of whose devices are one user's and where nothing is
  refused (`Personal`), nothing is lost, and if the log fits a page, the cursor is sound, devices converge and the ledger is implemented, however
  rounds, pulls, flushes, crashes and strays interleave. `sync_worker` has these constants. The invariant `Home` says why no such device is ever
  evicted: once the space exists its user owns it, and before that a round always has an op to push ahead of its pull. With a refusal of the
  creating op it would be false (the hazard at engine.ts:472).

The invariants, each needing those before it:

| invariant | what it says |
|---|---|
| `Authored` | what is queued, parked, in the hands of a round or worker, requested or in the log was written by somebody |
| `Positions` | no two ops of the log share a number, and the last number is taken |
| `HandInv` | every op a device shows is in the log, queued, parked, or in the hands of the round that is moving it from one to the other; ops answered 200 are in the log. The middle of every hand-over is what `NothingLost` alone does not say |
| `RowsInv` | the rows of a device are the join (`IsJoin`, of `MergeProofs`) of the ops it holds |
| `PullInv` | a device holds every op at or before its cursor (`CursorHeld`); what a pull will store as cursor is covered by what it holds and the page in its hands, for the app's pull and the worker's at once |

`CursorHeld` is stronger than `CursorSound` and inductive with the rest: an op a device holds can change nothing there, as its rows
join it. `Converged` follows, as a device with empty queues and the last cursor holds exactly the log, and joins are unique
(`JoinUnique`). `LedgerImplemented` goes step by step: a commit is the ledger's append, an edit, a page merged and a cursor
set are steps of one device, a purge forgets, and everything else stutters.

`SharingProofs` (any people, spaces, feeds, friends, roles, overlaps and bounds), from `SharingAssumption`:

* `TypeCorrect`, `Spec => []TypeOK`. `Shapes` types the writes of requests in flight too, as they become rows.
* `OwnersRemain`, `GoneStaysGone`, `LeaversFreeze`, `CoherenceHolds`, `OthersKeepTheirs`, `DeletionsTravel`: the properties that speak of requests nobody
  crossed. A property about a `Save` needs to know why the request writes what it writes, and the handler that decided it
  acted earlier. `FreshSound` bridges the two: while no other save came between (`since = "nothing"`), the writes of a request still stand
  to the tables as its handler left them (`Sound`: they keep spaces owned, make no row of a ghost, freeze, keep feeds coherent,
  revoke only the caller's, tell the spaces). Each handler has a lemma that it asks for sound writes; a save makes every other
  request overtaken, which is why the invariant is preserved at all. `StayAlive` adds that where nobody deletes an account everybody has one.
* `CoherenceHolds` assumes that nobody deletes an account (`MayVanish` empty, as in the run `feeds`): after a deletion, pruning leaves
  co-owners of a feed that is gone, and whoever registers a dead owner's feed inherits links nobody of its owners made.
* `ArchivesAreClosed` speaks of every save, crossed or not. `CapInv` says that the cap of an archived link lies within its feed's history, and
  what requests in flight may still do about it: only departures archive, they cap at the end of the history as it is, whoever erases a feed
  erases its archived links with it, and no push that can still land shortens a history. It assumes that nobody deletes an account
  and that departures overlap nothing (`"remove"` not in `Overlap`, as in `feeds`). Without that it is false: a departure that read before an erasure and a new
  registration saves a cap of the old feed.

`JobQueueProofs` (any jobs, sessions, agents, slots, attempts and faults), from `JobQueueAssumption`:

* `QueueTypes`, `LeasedWhileActive`, `EndedForGood`, `NoRetryAfterCredential`: for every `Overlap`, under a premise on the behaviour,
  `FreshSaves`: a question, an answer or an outcome is saved while the row is the one its handler read. They may be in flight as long as they
  like and everything else may interleave with them; excluded is the save over a changed row, and nothing else. Without it the last three are
  false (an answer saved over an end, an outcome over an outcome, a retriable failure over the note of a submission). Claims, progress reports and notes need no premise: the inductive
  invariant `QueueInv` puts the properties together row by row (`RowOK`), with one strengthening, that a queued job has a lease left
  to take, and says of a handler in flight what it decided upon (`HeldOK`), but nothing about the row as it is now. The guard in the
  WHERE clause is enough.
* `SecretsForgotten`: no premise at all. Whatever a save overwrites, a job that ended holds no credentials, because credentials that
  a handler in flight read as gone are gone from the table too, and every end clears those it read (`SealInv`).
* That one job of a session runs at a time is false of the code and no theorem.

`ClockProofs` (any devices, wall clocks, counter width and number of stamps), from `ClockAssumption`:

* `ClockTypes`, in any number of tabs; `StampsNeverRepeat`, `StampsIncrease`, `AheadIsPassed` where a device runs the app in one tab
  (`OneTab`). The invariant `ClockInv` says that a running tab works on the state that is saved, and that this state is past
  (`Passed`) every stamp of the device and every stamp that was ahead of it; a tick is then past the state.

`IngestProofs` (any references, jobs, callers, wordings and faults), from `IngestAssumption`:

* `IngestTypes`, `AckedOnlyIfFiled`, `NoneGoBackwards`, `OnlyGone`, `PersonPrevails`. The inductive invariant `IngestInv` has four parts beyond
  types: one staged row per reference (`Rows`); contents age on their way from the bank over the staged row and
  the page to the feed (`Ages`); a request that holds a page holds all that is left of its job's rows (`Pages`), which is why an
  acknowledgement by cursor is safe; and for a sync nobody crossed, every mirrored pending row still reported is staged for
  its job or on its page (`Wholes`), which is why "not on the page" means gone. Each action has a lemma of its own.

The assumptions of all modules are evaluated by TLC in the runs: ops are well-formed, no two share a stamp (`StampsNeverRepeat`), sizes
are positive, the op set is finite.

Every safety invariant and action property of a passing run is thus the conclusion of a theorem. The constants of each passing run meet the
assumptions of a theorem about each of these properties.
Out of this prover's reach and left to TLC: liveness (`OutboxDrains`, `EventuallyConsistent`, `EveryJobEnds`, `EveryRowLands`, `GoneGoes`), whose
fairness needs ENABLED, and the violation runs, which are refutations.

## What is not modelled

* *Bootstrap snapshots* and *feed read caps* at the pull: no device of this code calls bootstrap; the caps themselves are in `Sharing`.
  *SSE*: an in-memory fan-out that starts a round earlier; rounds start by the poll as well.
* *purgeOrphanFeeds*, the protocol handshake and the status display of the engine.
* In `Sharing`: history gates, account types, the repair endpoint, devices' cursors into an erased log, a feed pruned although a living
  co-owner uses it (AccountDeletion.cs:86-98), the 500 a lost insert answers (SocialEndpoints.cs:343); names, avatars, notifications.
* In `Ingest`: the scheduler's bookkeeping (`since` moves on after a failed run too, ConnectorScheduleService.cs:160-163), consents and bundles,
  a connection that supersedes another or is disconnected and forgets its mirrored rows, contents that return to an earlier
  wording (their op counts as a repeat and is dropped).
* *Session states, profiles, tickets, the idempotency store, routing of jobs*: views and checks without a protocol of their own
  that the runs need; any agent of the model may take any job.
* *Web push*: wake-ups of the model come at any time or never. *Split ledgers*: one row per request.
  *Rates, quotes, logos, catalogue, OCR, import watch*: caches of external data and file import. *Auth, admin, consoles,
  native shell, deployment, user interface*: no protocol of their own. *Domain functions of the web app* (budgets, recurring
  detection, transfer matching, planning): pure functions with unit tests of their own.
* *Device storage* beyond transactions, outbox and meta keys: live queries, the SQL twin, its encryption.

## Plan

Done: `Merge`, `SpaceSync`, `SharedLedger`, `Clock`, `JobQueue`, `Sharing`, `Ingest`, their runs, and the proof modules above.

Left, in order:

1. Proofs: shared spaces with workers awake, once a departure takes the round's lock or the premise can be discharged otherwise; weaker
   hypotheses for `ArchivesAreClosed` and `CoherenceHolds` where account deletions cross nothing.
2. Session states, an abstract `JobLife` (queued, leased, ended) for the queue to implement.
3. `Known` entities per device in `SpaceSync` (skipped ops while the cursor moves on); cursors into a feed's erased log.
4. The deviations of repeated deletions and of requests that cross, once the code settles what it promises there.
