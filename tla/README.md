# A verification project for GratisGIS

GratisGIS is a self-hosted GIS portal: a NestJS API over Postgres/PostGIS, a
Next.js portal, a web field client that works without signal, a native Android
field client, and workers that import, analyse, script, render and back up.
This directory holds TLA+ models of the parts of it whose correctness rests on
the order in which things happen, TLC runs that check them on small instances,
and TLAPS proofs of what matters most for every instance.

Paths below are relative to `src/` (`lib/` is `apps/portal-web/src/lib/`).

## Inventory

| Part | State it keeps | Operations | What is hard |
|---|---|---|---|
| Offline queue decision tables (`packages/shared-types/src/queue-fold.ts`, `queue-replay.ts`, `sync-outcome.ts`) | none (pure) | fold two edits or a chain; claimable? owned? chain heads; classify an HTTP answer | semantics shared by three clients; chains left by older builds |
| Field edit queue, web (`lib/offline-store.ts`, `lib/offline-sync.ts`, `apps/portal-web/public/sw.js`, `lib/offline-remove.ts`, `offline-identity-guard.tsx`) | IndexedDB stores: queue, features, cursors, blobs, meta; cookies | save, drain (page and worker), retry, discard, remove, sign out/in | two drains, lost answers, tabs that die, stale claims, account changes |
| Field runtime (`field-runtime.tsx`) | React state | save online or queue, auto/manual sync | online saves go past the queue |
| Native client (`clients/android/feature/sync`) | SQLite queue and cache | same policy, one process, conflict answers | partial failure, process death |
| Observation log and layer writes (`apps/portal-api/src/engine`, `data-layer/features.service.ts`) | append-only `observation` rows, the layer's `syncVersion` | create, update, delete, calculate, import, history | each write is several statements; writers race; two clocks |
| Offline download and delta refresh (`lib/offline-download.ts`, `data-layer/features.controller.ts`) | device's cached features, cursor per layer | full download, paged delta, seed cursor | truncation, failed steps, writes between two reads |
| Tile cache (`engine/tile-cache.service.ts`) | entries, each with those used less recently, a dependency index both ways, invalidation sequence numbers, computes in flight, a lane with its waiters, one LISTEN connection | get or compute, join, queue, withdraw, put, evict, expire, invalidate, clear, listen, reconnect | a write lands while a compute, or a compute inside it, reads; connections that miss notifications; slots lost or counted twice |
| Cron leader election (`cron/leader-election.service.ts`) | one advisory lock per cluster; per replica a client, `isLeader`, queries under way | connect, acquire, check, drop, reconnect, stop | overlapping polls, late answers, a session ended before its replica knows |
| Backups (`backup/backup.service.ts`, `backup-cron.service.ts`) | `backup_run` rows with a beat and a cancel flag, stage directories, archives, a registered schedule per replica | register, run, beat, publish, record, prune, cancel, delete, sweep | two replicas both find no live run; a sweep against the end of a run; who registers when the lead moves |
| Restore, maintenance (`backup/backup-restore.service.ts`, `maintenance-mode.service.ts`) | one flag row, cached per replica | activate, refresh, restore | a flag read late |
| Import jobs (`import-jobs/`) | job row, a COPY transaction | enqueue, claim, beat, cancel, sweep, finish | cancel or sweep racing the commit and the finish; counts of rows rolled back |
| Analyses (`analysis/`, `tools/pointcloud-worker/runner.py`) | analysis row, artifact, id of its import | queue, claim, beat, hand off, stage, enqueue, link, mirror, cancel, sweep | two queues in two languages; a bridge that dies between two writes |
| Script runs (`scripts/`), offline packages, tile pyramids, ArcGIS Online import | job rows, minted keys, files | the same life cycle in other dialects | the same races; a key leaked by a crash |
| Forms outbox (`lib/form-offline.ts`) | IndexedDB outbox | save, drain | the claim protocol again, no fold |
| Field-queue beacon (`field-queue/`) | one manifest row per device | upsert | advisory |
| Sharing policy, items, users, keys, trash, notifications, printing, realtime, storage, portal UI, MCP server, Python client | rows, sockets, files | CRUD, fan-out, I/O | mostly sequential; see `PROJECT.json` for each |

How the parts interact: the field runtime writes to the queue (IndexedDB
transactions) or straight to the features API; both drains replay queue rows
through the features API, which appends observations and stamps them with the
layer's `syncVersion`; a refresh of a downloaded area reads observations above the
device's cursor and rewrites the read cache the queue's screens show. Every
observation that commits is announced by a database trigger to the tile caches of all
processes that listen. A python worker computes an analysis and hands a vector result
to the bridge of a portal-worker, which enqueues an import whose COPY writes the layer.
What runs on a timer in the API asks the leader election whether it may.

What must hold, part by part, is the list of properties below; what can go
wrong, line by line, is the `hazards` list of `PROJECT.json`.

## The modules

```
QueueFold            the decision tables, as operators
 |-- FoldEffect      one feature's edits against the server's semantics
 |    `-- FoldEffectProofs
 `-- FieldSync       the queue, its drains, the accounts
      `-- FieldSyncProofs
LayerContract        abstract: each write of a layer lands at one moment
 `-- ObservationLog  one layer's append-only log, its writers and its counter; with guarded clients implements LayerContract
      |-- MCObservationLog   the symmetry of its requests, for TLC
      `-- LayerDelta      a device's copy of the layer and its refresh
           `-- ObservationLogProofs   the theorems of both
JobLifecycle         abstract: what a job row promises
 `-- ImportJobs      the import queue; implements JobLifecycle
      |-- ImportJobsProofs
      `-- AnalysisJobs     analyses and bridges composed with the import queue
           `-- AnalysisJobsProofs
LeaderContract       abstract: what the cron services rely on
 |-- CronLeader      the election; implements LeaderContract
 |    `-- CronLeaderProofs
 `-- BackupRuns      backups over any election that keeps the contract; implements JobLifecycle too
      `-- BackupRunsProofs
TileCache            one process's cache, lane and listener
 |-- MCTileCache     its keys, symmetry and view, for TLC
 `-- TileCacheProofs
```

### QueueFold and FoldEffect

`QueueFold` states `foldQueuedEdits`, `foldQueuedChain`, `isQueueRowClaimable`,
`isQueueRowOwnedBy` and the outcome of a replay on the data the rest of the
models need: operations, statuses, two ages. `FoldEffect` puts the fold's whole
data back (properties merged key by key, geometry kept when the newer edit has
none) and compares, after every edit, the one folded row with the server the
same edits would have left had they been made online. Chains nobody could make
(an update of a feature that is not there) are explored too, since a queue
written by an older build may hold any; `sane` says which effects are compared.

### FieldSync

A step is one IndexedDB transaction, one request, or one event of the
environment.

| In the module | In the code |
|---|---|
| `queue` | object store `queue`; a row is named by its first edit, which stands for its `id` and its `queuedAt` (the fold keeps the oldest row's) |
| `drain[d]` | the locals of `syncQueue` / `drainFeatureQueue`: the rows as listed (`todo`), the one in hand, the claim's re-read of it (kept by the worker only), the outcome |
| `server` | which features are live; an insert of a live one lands as a no-op |
| `session`, `identity`, `viewer`, `guardDue` | the cookies; the identity persisted for the worker; the account each page was rendered for; pages whose `OfflineIdentityGuard` effect has not run |
| `capture` | whether a feature captured here is in the read cache, so that a screen can show it |
| `fate`, `misfiled` | history: what became of each edit; edits filed under another account |

| Action | Code |
|---|---|
| `SaveOffline`, `SaveOnline`, `Enqueue` | `field-runtime.tsx` onSubmit, `enqueueEdit` |
| `StartPageDrain`, `StartWorkerDrain` | the listings at the head of the two drains |
| `Claim` | `claimQueueRow` / `claimRow` |
| `RequestLost`, `ServerRefuses`, `ServerHandles` | `replayRecord` and the server's answer |
| `Settle` | the delete or put after a replay |
| `Die` | tab closed, worker killed |
| `ClaimGoesStale`, `BackoffElapses` | the passing of `QUEUE_CLAIM_STALE_MS` and of the backoff ladder |
| `RetryRejected`, `DiscardRejected`, `RemoveDeployment`, `RemoveForeign` | the rejected-edits dialog, "Remove from device", the identity dialog |
| `SignOut`, `SessionExpires`, `SignIn`, `LoadPage`, `RunIdentityGuard` | `federatedSignOut`, cookies, page load, the guard's effect |

What the abstraction leaves out or widens, on purpose:

- rows with no owner (written before rows had one) are not modelled;
- the dry run (`checkOnly`) before a write and the write are one step;
- the write and the feature's uploads are one replay, whose outcome may be an
  upload's failure although the write landed;
- `waiting` is set by every failure and cleared by a step of its own, which
  over-approximates the six-step ladder;
- retry and discard act on the row as it is, in one transaction;
- cookies attach when the request is sent, so the account credited is `session`
  at `ServerHandles`, whatever the drain believed;
- after a failure the page writes back the row it listed and the worker the row
  its claim re-read; after an unreachable server both write back the listed
  one. The model keeps that difference: two findings rest on it;
- the awaits of `federatedSignOut` are one step of `SignOut`;
- the field page queues inserts and updates only. The store, its tests and the
  native client also queue deletes, so the runs with deletes speak of the
  store's interface.

### LayerContract and ObservationLog

`LayerContract` is what a client that sends the observation it has read may rely on: a request is
made against the latest observations it saw, and it either lands whole at one moment, while they are
still the latest, or is refused or given up, wholly or for the features a create finds there. A create lands on what is not there.
`WritesAreAtomic` is the refinement: the contract's `Ask` is the read at the head of the four methods, `Land` the insert
with its commit (`Store`), `Drop` what a check refuses and `GiveUp`; bump, stamp and lock are stutters.

The server of `FieldSync` is one step per request; here a request is the statements it
is made of, and any number of requests interleave on one layer.

| In the module | In the code |
|---|---|
| `log` | the layer's rows in table `observation`; a row keeps its feature, kind, time (`valid_from` and `tx_time`, taken together), version (`source.details.syncVersion`), and the row it was computed from (`base`) in place of its values |
| `counter` | `syncVersion` of the layer, inside the item's data blob |
| `clock` | the API's clock: each `new Date()` of a write is later than the ones before |
| `writer[w]` | a request's locals, and the advisory locks its transaction holds |
| `draft`, `snaps` | the counter in the blob an open structure editor loaded; in the item's data snapshots |

| Action | Code |
|---|---|
| `InsertFeatures`, `UpdateFeature`, `DeleteFeature`, `CalculateField` | the four methods of `features.service.ts`, up to the point where they have read what they write |
| `Bump` | `bumpLayerSyncVersion` |
| `Stamp` | `validFrom: new Date()` and `complete` |
| `Lock`, `Check`, `Store` | `pg_advisory_xact_lock`, the head check or the `NOT EXISTS` probe, the insert with its commit: `writeIfHead`, `writeFeaturesCreateIdempotent`; or the bare `write` / `writeMany` |
| `GiveUp` | the request dies, its transaction is rolled back |
| `Import` | `copyFeaturesCreate`, at the commit of its COPY |
| `OpenStructure`, `SaveStructure`, `Revert` | the structure tab's draft, its PATCH of the whole blob, the snapshot revert |

`guarded` is a request with a `baseObservationId`. The native client sends one, the web
clients do not, so `Guarding = {TRUE, FALSE}` is the deployment and `{TRUE}` the one the
guard's comments describe.

Left out or widened: the compare-and-set loop of the counter is one step that
succeeds (giving up after eight tries is a hazard with no property); a bulk
update's chunks land together; two rows never have the same millisecond; replicas
share a clock; creates without an id of the client's race nobody and are left
out; so is the import that replaces, which deletes the scope's observations in its transaction
(`copy-writer.ts:118`) under no advisory lock, so that in its presence the log is not append-only; the conflict artifacts on the layer, its bbox and derived caches touch
neither the log nor the counter; the cap on snapshots is not applied.

### LayerDelta

`LayerDelta` extends the log with one device: `cache` (of each feature the row it shows),
`cursor` (`syncVersion` in the manifest) and `pull` (the locals of `downloadDeployment` and
`pullLayerDelta`).

| Action | Code |
|---|---|
| `StartRefresh`, `FullRead`, `Seed`, `SeedMissed` | `downloadDeployment` for one layer, `seedSyncVersionCursor` |
| `Query` | `listDelta` up to its answer's rows: `listDeltaSince`, the probe for one row more, its cap |
| `Answer` | `readLayerSyncVersion` after the query; `applyDeltaChanges`, the puts and deletes, the next page or the end |
| `SaveManifest` | `putDeployment` at the end of the download |
| `FailRefresh` | a failed request, a closed tab |

`Limit` and `MaxLimit` are the page the device asks for and the most the query returns; the
code has 10 000 for both. `Overlap` (writes in flight during a refresh) and `Ghosts` (a feature
deleted between a first download that ended with no cursor and the next) switch on the two situations in which
the code is known not to converge, so that the passing run says what holds without them. `DeltaRefresh` leaves room
for the probe row (`Limit < MaxLimit`), as a device that asked for 9 999 would; with the two equal, as they are today, a delta
longer than a page is `DeltaClamp`, and a shorter one behaves as in `DeltaRefresh`. The
puts and deletes of one page are one step, the cap of 100 pages and the share clip are left out.

### JobLifecycle and ImportJobs

`JobLifecycle` says what every job table of the system promises whoever submits a job: it
is taken up at most once, it changes the outside world at most once and only if it was taken
up, it is a success only if it did, and once over it is never taken up again. It does not promise that
the verdict stands, since a late finish or cancel may rewrite it. `ImportJobs` is the one
dialect with a queue modelled so far, statement by statement, with `KeepsLifecycle` as the refinement:
`queued` is waiting, `running` is taken, the three ends are over, a committed COPY is the effect. `Start` is for rows
that are born running, as those of `BackupRuns` are.

| In the module | In the code |
|---|---|
| `job` | table `import_job`: status, mode, `insertedRows`, and whether the last beat is older than five minutes |
| `layer` | of each source of rows (each job, and what was there before) how many batches the layer holds |
| `worker[w]` | the loop of a portal-worker and the locals of `runJob`: batches sent, rows the replace deleted in its transaction, the `cancelled` and `committed` flags, what a sweep has read |
| `cancelling` | cancel requests between reading the row and writing it |
| `ran`, `landed`, `torn` | history: ever claimed; how often committed; an end written with nobody left to correct the row |

| Action | Code |
|---|---|
| `Enqueue`, `ReadForCancel`, `Cancel` | `ImportJobsService.enqueue`, `cancel` |
| `ClaimNext` | `claimNext` (`FOR UPDATE SKIP LOCKED`, oldest first) |
| `Refuse`, `Begin`, `CheckCancelled`, `SendBatch`, `End`, `EndUnanswered` | `runJob` and `copyFeaturesCreate`: staging and layer checks, the transaction's delete, the batch loop, commit or abort |
| `MarkSucceeded`, `Throw`, `ZeroInsertedForCancelled`, `ZeroInsertedForFailed` | the tail and the catch of `runJob`. `Answered`: the last update of a path is applied, and its answer comes back or is lost, in which case the catch runs after it, `markFailed` included |
| `FindStale`, `FailStale` | `recoverStaleRunning`, its read and its update |
| `Crash`, `Boot`, `HeartbeatGoesStale`, `DiesElsewhere` | processes and time |

Left out or widened: the commit of the COPY is one step (Postgres makes it so); the source
stamp, the counts and the extent written after it touch neither row nor layer, except that the
stamp may throw (`Throw`); the staging area and its eviction are the choice of `Refuse`;
the synchronous ingest endpoint has no job. A beat may be late for a live worker (`SlowImports`).

### AnalysisJobs

`AnalysisJobs` extends `ImportJobs`: the same import rows, now enqueued by bridges as well as by people.

| In the module | In the code |
|---|---|
| `analysis` | table `analysis_job`: state, kind (a result that is a vector layer or a raster), `importJobId`, age of the beat |
| `runner[r]` | the main loop of `runner.py` |
| `bridge[b]` | one tick of `analysis-bridge.worker.ts`: the row it listed, the import it made |
| `asked`, `imports` | history: cancels accepted while running; imports enqueued per analysis |

| Action | Code |
|---|---|
| `CreateAnalysis`, `CancelJob` | `AnalysisService` (two conditional updates) |
| `ClaimJob`, `SetProgress`, `HandOff`, `FinishJob`, `MarkCancelled` | `claim_job`, `set_progress`, the tails of `do_contours` and `do_zonal_stats`, `finish_job`, `mark_cancelled` |
| `ReclaimStaleJobs`, `ListIngest`, `ClaimIngest`, `StageAndEnqueue`, `LinkImport`, `BridgeFails`, `SettleImporting` | `reclaimStaleJobs`, `claimIngestJobs`, `settleImportingJobs` |
| `RunnerDies`, `BridgeDies`, `BeatGoesStale` | processes and time; the deaths share `MaxCrashes` with the import workers' |

A mirror reads the import and writes the analysis in one step: an import that is over stays over,
though a late cancel or its own worker's catch may still turn its verdict. Import rows are never removed here, so the mirror's branch
for one that is missing (`analysis-bridge.worker.ts:296`) is left out. What a handler computes, artifacts, scratch directories, the stamps on target items and the kinds that build
tile pyramids are left out.

### LeaderContract and CronLeader

`LeaderContract` is what a cron service may rely on when it asks `shouldRun()`: it is answered only
by replicas that have tried for the lock, and two say yes at once only while one of them has
lost its session and has not been told. `CronLeader` is `leader-election.service.ts`, and
`KeepsContract` the refinement.

| In the module | In the code |
|---|---|
| `phase`, `client`, `leader` | the process and its poll timer; `this.client` with `connecting`; `isLeader` |
| `queries[r]` | queries sent and not answered: the one of the connect, a follower's attempt, a leader's `SELECT 1`; polls do not wait for the last one |
| `lock` | which session holds the advisory lock: a replica's, nobody's, or one its replica has left and the database has not ended (`Ghost`) |

| Action | Code |
|---|---|
| `Boot`, `Connected`, `ConnectFails`, `Exit` | `onModuleInit`, `connectAndAcquire`, its catch, `onModuleDestroy` or a kill |
| `Reconcile`, `Serve`, `Answer` | `reconcile` and `tryAcquire` up to the query, in the database, after it |
| `ClientLost` with `OnClientDropped` | `onClientDropped` on 'error', 'end' or a failed query |
| `Sever`, `GhostEnds` | the database ends a session, known or not yet known to its holder |

By bound a replica has one query of each kind under way. `Exit` is one step where `onModuleDestroy` awaits the
unlock and the end of the client before it clears `isLeader`: the replica says yes a little longer, which is a `Lapse` to the contract. `ENABLE_CRONS=false` and a missing
`DATABASE_URL` are configurations in which nothing is elected, and are left out.

### BackupRuns

`BackupRuns` extends `LeaderContract`, not `CronLeader`: it holds over any election that keeps the contract.
Its `KeepsLifecycle` is the refinement of `JobLifecycle`: making the row takes the job up, publishing the archive is the effect,
a row that failed, succeeded or was deleted is over.

| In the module | In the code |
|---|---|
| `boot`, `cron` | the bootstrap hook and the registered schedule of each replica |
| `asking`, `listed`, `flipped` | a `runBackup` before its row exists; a reclaim's list; its row failed whose bytes are not swept yet |
| `row`, `exec` | table `backup_run`; the `runBackup` working on each row, with its point in the function and the old runs its pruning listed |
| `staged`, `archives`, `published` | stage directory and `.partial` file of a run; published archives; history |

| Action | Code |
|---|---|
| `Bootstrap`, `Apply`, `SaveConfig` | `onApplicationBootstrap`, `apply`, `onConfigChange` |
| `Sweep`, `Reclaim`, `SweepBytes` | the periodic sweep, `reclaimDeadRun`: row, then bytes |
| `RunBackup`, `CheckLive`, `Create` | `runBackup` up to its row: reclaim, live check, insert under the unique index |
| `ListOld`, `Prune`, `Beat`, `Seal`, `Publish`, `RecordSuccess`, `RecordFailure`, `CleanUp` | `enforceRetention` before and after, the poll, dump and archive, rename, the two final updates, the finally |
| `RequestCancel`, `DeleteRun` | the controller's `requestCancel`, `deleteRun` |
| `Election`, `Die`, `BeatGoesStale` | a step of the contract, the end of a replica with all it was doing, time |
| `Blip` | five minutes of failed beats of a run that is alive, or before its poll starts; `blipped` remembers the run |
| `Fault`, `Lost` | an update fails: the row is not there, or its answer does not come, whether or not the update was applied |

A success that is applied without an answer (`backup.service.ts:905`) goes to the catch, which looks at no status and writes
`failed` over it; the row then goes on naming its archive. A row whose insert lost its answer, or whose request failed
in `getConfig` before the try, is there with nobody to run it. Leaderships lost, processes stopped, answers lost and blips are all counted
by `MaxFaults`. `AdminRuns` are the runs admins cancel or delete. `ArchivesDeleted` says whether they also delete rows that name an archive,
succeeded or failed: it is an admin's decision that can take the newest archive on purpose.

Left out or widened: restore and the maintenance flag; a schedule that is off or has another
expression; the disk preflight; a deletion takes file and row in one step, and so do reading
the directory and unlinking what is beyond the cap; a replica has one reclaim under way; a pruning
whose query fails is one that never ran.

### TileCache

One API process. A cached value is the version of each scope (layer) its compute read, so that stale is a
comparison with the database.

| In the module | In the code |
|---|---|
| `version`, `wrote` | the layers' writes; layers this process wrote and has not invalidated yet |
| `store` | the keys of the `Map` (its LRU order as, for each, the ones used less recently), `dependents` and `dependencyPrefixes`, the two sides of the dependency index |
| `seqno` | `invalidationSeq`, `invalidatedAtSeq`, `clearedAtSeq` |
| `flight` | `inFlight`: per key the compute, the sequence number it began at, what it has read, who waits |
| `lane`, `tiles` | the lane's count and waiters; `activeComputes` |
| `conn`, `bus`, `listener`, `starting`, `timers` | connections, notifications on their way to each, the service's fields, retry timers |

| Action | Code |
|---|---|
| `Hit`, `Join`, `Lead`, `Read`, `Complete`, `Fail`, `Abort` | `getOrCompute` for a request or for another key's compute; `acquireLane`, `releaseLane`, `awaitEntry` and `leave` |
| `Write`, `Wrote` | a commit with its trigger's notification; the writer's own `invalidatePrefix` |
| `Notify`, `ListenCommits`, `ListenerUp`, `ListenerLost`, `RetryTimer` | `onObservationWritten` and the life of the LISTEN client |
| `Expire` | a lookup that finds the entry too old |

Left out: a compute that runs on after its 35 s limit has failed it, and one failed by that limit while it waits for
its inner key (`tile-cache.service.ts:420`), a connection that is half open, module
destruction, ETags, a joiner in the microtask after a withdrawal, key sets too large to list
(`tooMany`). Every write of the model is announced. The
trigger fires on inserts only (a delete of a feature inserts a tombstone), so a statement that deletes
observations and inserts none is left out too.

The code shares one set of keys among all tiles, aggregates and uncached reads with the same relate
(`data-layer.ts:640`, `:3496`), so an inner key may serve several outer ones and be asked for directly. The module allows both;
the run and `EntriesAreFresh` exclude them, for `Fresh` fails there (`TileNested`). No key of the run is under the tile cap, so
the tile half of `SlotsBalance` rests on `SlotsAreBalanced` and on a configuration with `Laned = {related}` (below).

A definition marked "slip" is a plausible mistake in the definition that
follows it. The specification never uses one; each property is known to be
violated when the slip takes its original's place.

## The runs

| Run | Asks |
|---|---|
| `FoldEffect` | Does replaying the folded row do what the edits would have done online? Is a feature the server lacks always replayed as an insert? Is the loop over a chain the closed form `FieldSync` uses? |
| `FieldSync` | With a page and a worker draining one capture and two more edits of it: are claims exclusive, is every edit accounted for, are rows replayed in order, do parked rows stay parked? |
| `SyncLive` | Is every edit of a feature (captured, edited, deleted) in the end sent or parked? |
| `SyncQuiet` | Two accounts; sessions expire at any moment, but the device changes hands only by a sign-out with no drain running: is anything misfiled? |
| `LogGuarded` | Clients that send what they have read race over two features with batches of creates, retries, updates, deletes and an import: does a guarded write land on what its author saw and is it read next, is a feature created once, do versions follow time, can requests wait for each other in a ring, is each write as if made at one moment (`LayerContract`)? |
| `LogMixed` | Guarded and unguarded updates, calculate field, structure edits and reverts that put the counter back: is a head still won once? |
| `DeltaRefresh` | Does a device that has refreshed a quiet layer show it, whatever failed before? |
| `AnalysisJobs` | An analysis, its import, a cancel at any moment, processes that die and beats that look old: do files land whole, are counts true, who can take a success back, is a result imported once and never after a cancel, does the import queue implement `JobLifecycle`, does every analysis end? |
| `TileCache` | Writes, notifications, nested computes, evictions, withdrawals and lost listeners: is what is cached current or about to be dropped, does the dependency index match the entries, do the lane's slots balance? |
| `CronLeader` | Lost connections, ended sessions, restarts, overlapping polls: does the election implement `LeaderContract`, and does one replica lead in the end? |
| `BackupRuns` | Backups from both replicas, a lead that moves, a process that dies, cancels and deletions: is one written at a time, is the newest archive never pruned, who can take a success back, do the runs implement `JobLifecycle`, is every run closed? |

One run ends in a violation, a disagreement between the code and what its comments
say of it; `PROJECT.json` quotes the comment:

| Run (violation) | What TLC finds |
|---|---|
| `SyncLost` | The worker (or page) lists a row; the person edits the feature again and the edit folds into that row; the drain claims it, sends the row **as listed**, and deletes it by id. The second edit is gone. |

Further configurations are not among the runs of `PROJECT.json`;
`tlc -config SyncPair.cfg FieldSync` runs the first of the table below, and so on. Those that pass
are larger or complementary instances:

| Configuration | Module | What it adds |
|---|---|---|
| `SyncFeatures` | `FieldSync` | two features, one on the server already, deletes, the page as the only drain |
| `ImportPair` | `ImportJobs` | two imports into one layer, a replace deleting the other's rows (2.7 million states) |
| `TileCache` with `Laned = {related}` | `MCTileCache` | the plain read counts against a tile cap of one (2.1 million states) |
| `TileAnswered` | `MCTileCache` | every request is answered, refused or given up, under fairness; also with `MaxQueued = 0`, where the lane refuses |
| `BackupFull` | `BackupRuns` | two faults (4.3 million states); with one fault, requests on both replicas and admins at both runs (`Manual = {a, b}`, `AdminRuns = {1, 2}`) 2.2 million |

The others end in a violation:

| Configuration | Module, property | What TLC finds |
|---|---|---|
| `SyncMisfiled` | `FieldSync`, `NothingMisfiled` | A drain outlives its account's session; the row goes out under the next account's cookies (`queue-replay.ts:155` checks the owner when the row is claimed). |
| `SyncPair` | `FieldSync`, `OneClaimableRow` | A row queued while its predecessor is in flight; the replay fails; the feature has two claimable rows. Harmless for delivery (`ReplayInOrder` holds), but not the invariant `queue-fold.ts:130` states. |
| `SyncRemoved` | `FieldSync`, `RemovedStaysGone` | A replay fails after its row was removed with the deployment: the drain writes the row back (`offline-sync.ts:313`). |
| `SyncSlow` | `FieldSync`, `ClaimExclusive` | A replay longer than two minutes is taken for dead and replayed by the other drain (`queue-replay.ts:49`). |
| `SyncUnsent` | `FieldSync`, `AnnihilatedUnsent` | An insert lands, its answer is lost; a delete folds with it and both vanish from the queue: the feature stays on the server. |
| `LogMixed` with `GuardedSeesAll` in place of its own | `MCObservationLog`, `GuardedSeesAll` | A guarded write checks the head; an unguarded one inserts, taking no lock; the guarded one inserts over it (`engine.service.ts:105`). |
| `LogMixed` with `UnmentionedKept` added | `MCObservationLog`, `UnmentionedKept` | Two updates merged over the same read: the second takes back the first one's fields (`features.service.ts:1312`; line 1256 admits the log is last-writer-wins). |
| `LogHidden` | `ObservationLog`, `WrittenIsRead` | A re-create is stamped, waits for a delete stamped after it, passes the check and sorts behind the tombstone (`data-layer.ts:1166`). |
| `LogMixed` with `CounterMonotonic` added | `MCObservationLog`, `CounterMonotonic` | A structure loaded before a write is saved after it: the counter goes back (`items.service.ts:1936`). |
| `DeltaOverlap` | `LayerDelta`, `Refreshed` | A write bumps the counter; a refresh reads the rows and the counter; the write inserts below the stored cursor (`features.service.ts:1938`). |
| `DeltaClamp` | `LayerDelta`, `Refreshed` | The cap on the query cuts off the probe row: a delta longer than a page ends after one page, and the cursor passes the rest (`data-layer.ts:1452`). |
| `DeltaGhost` | `LayerDelta`, `Refreshed` | A full download runs again; a feature deleted in between is never taken out (`offline-download.ts:429`). |
| `DeltaImport` | `LayerDelta`, `Refreshed` | Rows of an import have no version; no delta lists them (`features.service.ts:930`). |
| `DeltaRaced` | `LayerDelta`, `Refreshed` | Two updates with versions and times in opposite orders: the device applies one order, the portal reads the other (`offline-download.ts:854`). |
| `ImportCancelled` | `ImportJobs`, `CancelledLandsNothing` | A cancel after the last batch's check: the row says cancelled, the rows are in the layer. |
| `ImportPhantom` | `ImportJobs`, `NoPhantomCount` | A worker dies after a cancel: the row counts rows that were rolled back. |
| `AnalysisOrphan` | `AnalysisJobs`, `FailedHasNoRows` | A bridge dies between enqueueing the import and writing its id: the analysis is swept as failed, and the import lands. |
| `TileNested` | `MCTileCache`, `Fresh` | A keys compute that an invalidation overtook is not stored but is handed to an outer compute begun after it, which stores its own answer (`tile-cache.service.ts:438`). |
| `TileJoined` | `MCTileCache`, `JoinsFresh` | A request made after an invalidation joins a compute begun before it. |
| `TileCache` with `OneListener` added | `MCTileCache`, `OneListener` | A request between the loss of the listener and its timer starts a second connection (`tile-cache.service.ts:685`). |
| `ImportPair` with `SuccessIsFinal` in place of `SuccessStands` | `ImportJobs`, `SuccessIsFinal` | The answer to the success update is lost, the catch writes failed over it (`import-jobs.worker.ts:424`). |
| `BackupFlipped` | `BackupRuns`, `SuccessIsFinal` | The answer to the success update is lost, the catch writes failed over it (`backup.service.ts:905`); or a sweep lists a live run whose beats failed, the run succeeds, the sweep writes failed (`backup.service.ts:615`). |
| `BackupFull` with `NothingStranded` added | `BackupRuns`, `NothingStranded` | A reclaimer dies between the row and the bytes: nothing sweeps them again. |
| `BackupPruned` | `BackupRuns`, `PruningLeavesOne` | An admin deletes the newest archive after a pruning has listed the others. |
| `BackupUnscheduled` | `BackupRuns`, `ScheduleKept` | The replica that booted as leader restarts; no replica registers the schedule (`backup-cron.service.ts:84`). |

`Accounted` is `NothingLost` with its one excuse: an edit is `exposed` when it was folded
into a row some drain holds a listing of, or into an insert that has landed.
`SyncLost` shows the excuse is needed for a listing held by a drain; `Accounted` shows that nothing outside the two is lost.
Sending the row the claim returned would close the first.

Bounds. Two drains are enough for every race between drains, for a third sees of
them only the row's status. One feature suffices except for the choice among
features, which `SyncFeatures` covers by hand; folding needs two edits, a fold behind a row
that is itself behind one in flight needs three. Two accounts suffice: a row has one
owner and everything else is "another". `MaxEdits` is the only bound on behaviour and
sits in the guards of the two saves. Drains, deaths, lost answers, decisions and
hand-overs are unbounded. Deadlock is not checked: a device whose edits are all made
and sent rightly stops.

For the log, two requests make every race between two, and since a request that has
ended starts again, any number may follow each other. Two features are needed for
batches and lock order only. `MaxWrites` bounds the times taken, in the guards of `Stamp`
and `Import`, and `MaxVersion` the counter, in that of `Bump`. Three writes make a feature's delete, re-create and
another update, or two guarded writes around an unguarded one; four let a retry overlap them, and pages of two
rows are cut twice by four writes. Requests are interchangeable, so the runs of `MCObservationLog` explore
them up to symmetry; only safety is checked there. Deadlock is not checked: the bound
ends every behaviour. Whether requests can block each other is `SomeoneProceeds`.

For imports and analyses, one analysis has one import, which is all a bridge, a worker, a cancel and
a sweep can disagree about; two bridges and two workers make every race between peers; two batches
give the cancel a boundary inside the file; one death may strike any process at any step.
`ImportPair` covers two imports in one layer. For the tile cache, two requests, a slot, a place in the queue and two entries make
a join, a wait, a refusal, a withdrawal and an eviction; one write of each layer is enough to make any
compute stale; three connections let a second one be lost while a third is made. Its run has a VIEW
(sequence numbers matter only by which computes they make stale, and stale stays stale) and treats requests as
interchangeable; it checks safety only. For the election, two replicas suffice, since the lock has
one holder and everyone else is a follower; three drops and two restarts let every leader be lost and
found twice. Two runs of backups race each other; a retention of one makes every pruning a threat
to the last archive; one fault is a leadership, a process, an answer or five minutes of beats lost at any point, and admins cancel or delete one run of the two.

Fairness of the other runs. `AnalysisFairness`: workers, bridges and the python worker keep
taking steps and a computation ends (its own time limits), old beats are noticed because
sweeps run on timers. `LeaderFairness`: event loops turn, the database answers and ends dead
sessions, processes are started again; losses are bounded, or no leader need ever stay.
`BackupRuns!FairSpec`: the same, and that some replica that is up comes to lead, which is what `EventuallyLed` of `CronLeader`
establishes. `TileCache!Fairness`: a compute ends, if only by its 35 s limit.

Fairness (`SyncLive`). Any drain goes on or dies, which the browser guarantees:
`await` returns, or the tab is gone. Claims grow old. A page drain that can start,
take a row, be answered and write back does so if it can again and again; this
is strong fairness and an assumption about people and radio, not about code,
for no timer re-runs a drain when a backoff elapses (`field-runtime.tsx` syncs when
`isOnline` turns true and when a person presses the button). The worker is
assumed to do nothing useful at all.

## The proofs

Everything here is proved for any values of the constants that satisfy the module's named assumption, which TLC
evaluates in every run. A premise before `Spec =>` in a theorem is a condition on the environment under which the code
keeps its promise; each is needed: TLC finds the property violated in the configuration named beside it.

| Property | Theorem | Premise | Without it |
|---|---|---|---|
| `ClaimExclusive` | `ClaimsAreExclusive` | `~SlowReplays` | `SyncSlow` |
| `Accounted` | `EditsAreAccountedFor` | none | |
| `ReplayInOrder` | `ReplaysAreInOrder` | `~SlowReplays` | `FieldSync` with `SlowReplays = TRUE` |
| `RejectedStaysParked` | `RejectedIsTerminal` | `~SlowReplays` | the same |
| `NothingMisfiled` | `EditsAreFiledRight` | `Handover # "anytime"` | `SyncMisfiled` |
| `FoldPreservesEffect`, `FoldedOpFits`, `ClosedForm` | `FoldingPreservesEffect`, `FoldedRowsFit`, `ChainsAreDecidedByTheirEnds` | none | |
| `OneWinnerPerHead` | `OneWinner` | none | |
| `SomeoneProceeds` | `LocksNeverDeadlock` | none | |
| `GuardedSeesAll`, `GuardedIsRead` | `GuardedWritesSeeAll`, `GuardedWritesAreRead` | no client is unguarded | `LogMixed` with the property in place of its own |
| `WritesAreAtomic` (refinement) | `WritesLandAtOnce` | no client is unguarded | the same |
| `CreatedOnce` | `CreatesLandOnce` | no client is unguarded | `LogMixed` with it, creates, updates and deletes of three requests, no structure edits, `MaxWrites` and `MaxVersion` 4 |
| `VersionsFollowTime` | `VersionsAreInOrder` | `~SchemaEdits` | `LogMixed` with it |
| `Refreshed` | `RefreshesAreComplete`, `RefreshesShowTheLayer` | `TakesTurns` and more | below |
| `Fresh` | `EntriesAreFresh` | `OwnInner` | `TileNested` |
| `IndexMatches`, `SlotsBalance` | `DependencyIndexMatches`, `SlotsAreBalanced` | none | |
| `LandsWholeOrNot`, `SuccessStands`, `CountsAreHonest` | `ImportsLandWhole`, `SuccessIsKept`, `CountsHonest` | none | |
| `DoneHasRows`, `CancelWins`, `ImportedOnce` | `DoneIsThere`, `CancelIsKept`, `ImportIsOnce` | none | |
| `KeepsLifecycle`, `KeepsContract` (refinements) | `QueueKeepsLifecycle`, `BackupsKeepLifecycle`, `ElectionKeepsContract` | none | |
| `OneStager`, `SuccessIsKept` | `OneBackupAtATime`, `SuccessesAreKept` | none | |
| `NewestKept` | `NewestArchiveIsKept` | `~ArchivesDeleted` | `BackupPruned` with it |

The type invariants are theorems too, none with a premise.

**`FieldSyncProofs`**, from `FieldSyncAssumption`: any features, accounts, pages, drains and `MaxEdits`.

- `TypeCorrect`. The inductive invariant `TypeInv` adds the shape of
  a drain (one that is not idle has an account; one that holds a row holds one of those it listed) and
  that rows are named by edits already made, without which `Enqueue` could
  overwrite a row and a settle could write back `NoRow`.
- `ClaimsAreExclusive`. Exclusion is not
  inductive by itself: `HeldRows` says that the row in a live drain's hands is either gone or
  'syncing' with a claim that is not stale, hence not claimable (`ClaimInv`). `RejectedIsTerminal` rests on it too: a
  parked row is not one a live drain holds, so no settlement overwrites it. With slow replays a second drain may park
  the row the first one settles.
- `EditsAreAccountedFor`. At one moment a row may exist in the store, in the listings of several drains and in the worker's
  re-read of it. `CopyInv` relates all these copies: each is named by one of its edits (`Named`); they are of one
  feature and one account and none lacks an open edit another carries (`Alike`); a feature nobody captured is on the server (`Minted`);
  one row inserts a feature (`OneInsert`); and an insert of what the server has carries no open edit (`Applied`). Then
  what a drain deletes after an answer of "done" holds no open edit that did not land (`DoneKnown`), whichever copy it sent. The excuse
  `exposed` is what `Alike` needs: a fold behind a drain's back is the one step after which copies differ in an edit.
- `ReplaysAreInOrder`. `OrderInv` adds to `ClaimInv` and `CopyInv` that the row a drain holds, once gone from the store, was
  dropped by a person (`GoneDropped`), and that what a drain has listed precedes all that its account has queued since
  (`ListedFirst`). With slow replays one drain deletes the row another still replays.
- `EditsAreFiledRight`. `AccountInv`: a drain's listing is of its own account, that account is one the device
  still knows, and session, identity and pages name one account at most.

**`FoldEffectProofs`**, from `FoldAssumption`: any properties, values and length of chain. `FoldInv` relates the folded row
to the feature it started from (`RowFits`). The step is associativity: coalescing an edit into a folded row and
applying it is applying the row and then the edit (`CoalesceTwice`, `MergeTwice`), by cases on the two operations.
`ChainsAreDecidedByTheirEnds` says that three ways of folding a chain agree: edit by edit as the device does, by
`foldQueuedChain`'s loop over the finished chain, and the closed form that `FieldSync` uses (the first operation, the last
and whether a delete follows the first). The loop is a recursive function over the chain; in place of an induction the proof takes
the shortest prefix on which loop and closed form would differ and shows that its last edit cannot be where they part. That
the recursion defines a function at all is shown by exhibiting one, the closed form of every prefix.

**`ObservationLogProofs`**, from `LogAssumption` and `DeltaAssumption`: any features, requests, operations and bounds.

- `OneWinner`. The inductive invariant `WinInv` adds four facts: a
  request is stamped later than anything it has read (`SeesThePast`); a lock
  has one holder, and a request that passed its check holds the locks of what it
  writes (`LockDiscipline`); a guarded row is later than its base (`GuardedForward`); and no guarded row
  has the base a checked guarded request is about to write against (`HeadUnclaimed`). The check
  establishes the last one, for a head is no earlier than any row and a guarded row is later than
  its base; the locks keep it until the insert. Unguarded
  writes and structure edits are allowed, since the argument uses times and never versions.
- `GuardedWritesSeeAll`, `CreatesLandOnce`, `GuardedWritesAreRead`. `GuardInv` adds that every request takes locks and that what a check
  found still holds (`CheckStands`).
- `WritesLandAtOnce`: `LayerContract` is implemented step by step from `LayerInv`, which is `GuardInv` and `SawLive`: the heads a
  request has seen are no later than those there are now, and one that is still the head is of a live feature. Rows are never removed and times only
  grow, so if the head a request saw is still the head, nothing happened to the feature in between, and the insert is the moment at which the whole request
  may be taken to happen. Without the premise an update that was merged over one head lands on another.
- `LocksNeverDeadlock`. `LockOrder`: a request waits only for features after all those it holds. Of the requests that hold
  a lock, the one that holds the greatest is not waiting for any of the others.
- `VersionsAreInOrder`. `OrderInv`: the counter is past every version taken (`VersionsCounted`), a request's version is past that of
  every row stamped no later than what it has read (`VersionsPast`), no guarded row is later than the head with which a guarded
  request of its feature has passed its check (`GuardedPast`), and nobody holds an older counter (`NobodyEdits`, from the premise).
- `DeltaTypes` needs to know that a page cut short is not empty (`CutHasRows`), or the next cursor would be the maximum of an empty set.
- `RefreshesAreComplete`: `TakesTurns => (DeltaSpec => [](WellVersioned => Refreshed))`, for any number of pages, failures
  and restarts. `TurnInv` says what the device shows at each point of a refresh: whatever has no row above the cursor,
  it shows as the head (`Known`, by way of `Shows`); what is yet to be stored will be above the cursor (`AboveCursor`); a page is the first
  of what is above it (`PullShape`). `TakesTurns` collects what the code is known not to survive: writes during a refresh (`DeltaOverlap`), a delete
  between two first downloads (`DeltaGhost`), imports (`DeltaImport`), a counter put back, a page as large as the query's cap (`DeltaClamp`). `WellVersioned`
  says that a version names one row and a feature's versions go with its times; `DeltaRaced` is what happens otherwise.
- `RefreshesShowTheLayer` discharges `WellVersioned` for two kinds of writers: one request at a time with a
  feature each (`OneWriter`), and any number of guarded updates and deletes (`OnlyGuarded`, the native client without its creates). Beyond
  these it may fail: a batch gives several rows one version, which a page boundary can part, and a re-create can race a delete.

**`ImportJobsProofs`**, from `ImportAssumption`: any number of jobs, workers, batches and crashes.

- `OneHand`: the inductive invariant `Hands /\ Rows` (with `TypeOK`). `Hand(w)` says that a job is in one
  worker's hands and what its point in `runJob` implies of its row and its commit; `Row(j)` ties
  the row to `ran`, `landed` and the layer. Neither is inductive alone: that `End` commits once needs the
  hand, that a claim finds no other hand needs the row.
- From it `ImportsLandWhole`, `CountsHonest`, and `SuccessIsKept`: a success is taken back only by a cancel that had read the
  row before it was over, or by the catch of the very worker that wrote it (`TakenBack`), never by the sweep or another worker, and its count is
  left. The hand says why: a row is succeeded in somebody's hands only when that worker has thrown. Also `QueueKeepsLifecycle`: `Spec => Lifecycle!Spec`,
  the refinement, action by action.

**`AnalysisJobsProofs`** proves `AnalysesKeepTheQueue` (every step of `AnalysisNext` is a step or a stutter of the
import queue, so everything above holds of it), `AnalysisTypeCorrect`, and from the inductive
`AnalysisHands` (a python worker has its analysis alone; a bridge acts on what was handed over and
never on what was cancelled first; an analysis has one import at most) `DoneIsThere`, `CancelIsKept`, `ImportIsOnce`.

**`CronLeaderProofs`** proves for any replicas, from `LeaderAssumption`, that `Sessions` is
inductive, `LeadsOnALiveSession` from it, and `ElectionKeepsContract`: the election implements
`LeaderContract`. Late answers are the difficulty: a query answered yes was answered by a session that
holds the lock or is severed.

**`BackupRunsProofs`**, from `BackupAssumption`, over any election that keeps the contract. The
invariants do not mention who leads.

- `OneBackupAtATime`, `SuccessesAreKept`: `StagingInv` says that nothing starts beside a running row (`RowsInOrder`), that a process at
  work has a row that does not look dead (`WorkIsVisible`), that a sweep has listed runs of dead processes only
  (`SweptAreDead`), both of every run that has not looked dead while alive, that a pruning has listed runs that are over (`PrunedAreOver`), and that
  what succeeded was published and names its archive (`RowsAndArchives`). Lost answers and blips are in: a success is failed by its own process in its catch,
  which also needs a fault, or by a sweep of a run that looked dead, and goes on naming its archive.
- `NewestArchiveIsKept`: `ArchiveInv` adds that whatever a pruning has listed was outdone, a newer archive having been published
  (`PrunedAreOutdone`), and ties rows to what was published. An admin who deletes the newest succeeded run takes its archive, on
  purpose; but the newest that is left may then be one a pruning has listed (`BackupPruned`), so the premise is stated.
- `BackupsKeepLifecycle`. `LifeInv` adds to the types that an archive is published by its own run, between the rename and the
  record of it: not before, and surely then (`PublishedInTime`). No premise is needed: even a run whose row was closed under a live process
  (`BackupFlipped`) publishes once and is recorded a success only if it did.

**`TileCacheProofs`**, from `TileAssumption`: any keys, scopes, dependencies, callers, limits and connections.

- `DependencyIndexMatches`: every operation on the store (a put with its evictions, a drop, an invalidation with its dependents, a
  clear) keeps `Indexed`.
- `SlotsAreBalanced`: `LaneInv`. The lane's waiters are the queued computes, each once (`Queue`); who waits for a compute has joined it
  (`Waiting`); the counts are the numbers of running computes through every hand-over (`LaneSlots`, `TileSlots`).
- `EntriesAreFresh`: `FreshInv`. While the listener is up, a stored entry, or what a compute not marked stale has read, differs from the
  database only in a scope whose notification is on its way (`EntriesKnown`, `ReadsKnown`); an entry has read all its scopes (`Whole`); no compute
  waits for one begun before it (`WaitSeq`), which is what a shared inner key breaks; sequence numbers are of the past (`SeqPast`). `OwnInner` says that no two keys share an
  inner key and that none is asked for directly, so that the compute of an inner key is there for the one that asked (`Alone`).

TLC alone checks the rest, which is liveness (`EventuallyDrained`, `AnalysisSettles`, `EventuallyLed`, `RunsSettle`) and out of the prover's reach. `NothingLost`, the property of
`SyncLost`, is false.

## Plan

1. `FieldSync` (done): the most important promise of the system is that field
   work is not lost.
2. `LayerContract`, `ObservationLog` and `LayerDelta` (done): a layer write as its separate statements,
   and whether a refreshed device holds what the layer holds.
3. `JobLifecycle`, `ImportJobs`, `AnalysisJobs` (done): the abstract job, the import queue that
   implements it, analyses composed with it; `BackupRuns` implements it too.
4. `LeaderContract`, `CronLeader`, `BackupRuns` (done); `TileCache` (done).
5. Next: values per feature in `FieldSync`, for online saves racing queued ones, and its Android instance; script runs,
   offline packages and tile pyramids as further dialects of `JobLifecycle` (pyramids take a job up more than
   once, so the contract needs a weaker sibling); the maintenance flag and restore over `BackupRuns`;
   `LayerDelta` shown to implement "the cache is some past state of the layer" where it does.
6. Proofs (done): every safety property, action property and refinement of the passing runs is a theorem.
   Next: the device's cache as a past state of the layer, a contract for what `TileCache` may answer,
   and the theorems of whatever 5 adds.

## Not modelled

Most of the repository is presentation, message catalogues, form and map widgets, format conversion and row-by-row CRUD,
where nothing depends on an order of events. Of the parts with such behaviour the following are left out: the Android client and the
forms outbox (the queue's policy again, in other stores), script runs, offline packages, tile pyramids and the ArcGIS Online
import (the job life cycle again), restore and its flag, notifications, and the collaboration server,
whose document is a third-party CRDT. Sharing policy is a pure decision and a candidate for an operator
module. Each component's note in `PROJECT.json` says the same of its part.
