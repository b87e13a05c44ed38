# OpenAnalytics: a TLA+ verification project

OpenAnalytics is a privacy-first web analytics service: a TypeScript monorepo of
small processes around three stores, Postgres (control data, ledgers, leases),
ClickHouse (event rows) and Valkey (streams, caches). Its hard parts are not
algorithms but protocols: several processes share a stream, a table of manifests, a
retry queue or a lease, and any of them may die between two calls. The modules here
model those protocols, TLC checks them on small instances, and TLAPS proves the
properties that matter most for every instance.

Paths below are relative to the repository's `src/` directory.

## 1. The system and its parts

| Part | Where | State it keeps | Operations | Modelled in |
|---|---|---|---|---|
| Tracker | `apps/tracker/src` | buffer of a page, retry queue shared by pages | emit, flush, send, beacon, requeue | `EventDelivery` |
| Collector | `apps/collector/src`, `packages/redis/src/enqueue.ts` | cached site configuration, limits, deduplication records, the event stream | gate a request, enqueue its events in one Lua script, answer | `EventDelivery`; its cache in `SiteDeletion` |
| Ingest worker | `apps/worker/src/ingest` | open batch, batch manifests, ingest fence, usage ledger, event rows, dead-letter stream | recover, reclaim, read, plan, insert, settle, bill, acknowledge, give up, trim | `IngestPipeline`, `OpenBatch` |
| Outbox | `packages/postgres/src/repositories/outbox.ts`, `apps/worker/src/outbox-dispatcher.ts`, drains | `outbox` rows | enqueue, claim, deliver, fail, sweep | `Outbox` |
| Job runner | `packages/postgres/src/repositories/jobs.ts`, `apps/worker/src/jobs/runner.ts` | `jobs` rows, leases, attempt counts | enqueue, claim, steal, renew, execute, settle, notify | `JobRunner`, `JobLease` |
| Site deletion | `apps/worker/src/jobs/site-deletion.ts`, `.../repositories/site-deletion.ts` | deletion request, targets, phase | start, revive, drain, fence, purge, verify, finalize | `SiteDeletion` |
| Session finalizer | `apps/worker/src/sessions` | per-site lease, watermark, session facts, rollups | claim, read, plan, write, advance | `SessionFinalizer` |
| Realtime hub | `apps/realtime/src/hub.ts`, `stream.ts` | cached snapshot, timers, connections | join, leave, read, broadcast, degrade, recover | `RealtimeSnapshots` |
| Account deletion, imports, exports | `apps/worker/src/jobs` | requests, runs, staged rows, archives | wait for sites, prepare, publish, clean up | planned |
| Control plane API | `apps/api/src` | idempotency ledger, sites, ownership | single Postgres transactions | ledger planned |
| Query gateway | `apps/query-gateway/src` | nonce memory, query cache | check a signature, answer, cache | planned |
| Revenue, web, CLI | `apps/worker/src/revenue`, `apps/{web,cli}` | cursors, projections; none | provider sync; front ends | no |

How they meet: the tracker's pages send events to the collector, whose script
appends them to the stream the ingest worker consumes; the worker writes rows
(ClickHouse) and usage (Postgres); the finalizer turns the rows into sessions; a
deletion has to stop all three and then erase what they wrote. State changes in the
control plane enqueue outbox rows and jobs in their own transaction; the drains
deliver the former, the runner executes the latter. The collector also updates the
presence store and announces it on a channel; the hub of a site reads the store and
sends what it read to the connected dashboards.

What is hard, and what the modules are aimed at (`hazards` in `PROJECT.json` has each
at its line):

- *Interleavings.* Workers read, reclaim and recover the same entries at the same
  time; leases are advisory and mostly not renewed; a drain, a runner, a pass or a
  worker may act on what it read long ago. Four things start a read of the presence
  store.
- *Crashes.* Between any two of insert, settle, bill, acknowledge; between a side
  effect and its record; between facts, rollups and watermark; in the middle of a phase
  of a deletion.
- *Ambiguity.* An insert that timed out may still be executed, after its retry. An
  answer may be lost after the script ran, and the events are sent again.
- *Limits and clocks.* Attempt counters, block times, batch limits, the retry queue's
  cap, deduplication records that expire, a cached configuration against a margin, a
  read cut at a row limit, an age a snapshot must not reach.
- *Liveness.* Entries of a dead consumer, manifests nobody finishes, rows left in
  `processing`, a deletion that failed for good, a watermark that stands still.

## 2. The modules

Every awaited call of the code is one action; what runs between two awaits is folded
into the action of the call before it. A statement or a script (SQL, Lua) is atomic. A
call that fails, a process that dies and a request that is executed after its client
gave up are actions of their own. Where a property is about time, a module has a clock;
elsewhere leases, backoffs and idle times may run out at any moment, which contains
every real timing. `MC*` modules only give the constants of the instances and the
symmetry sets.

### IngestPipeline

Models `tick()`, `processMessages` and `recoverManifests` (`loop.ts`), `runManifest`
and `handleFailure` (`pipeline.ts`), the manifest and fence repository
(`ingest-batches.ts`), `applyBatchUsage` (`usage.ts`), the stream consumer
(`consumer.ts`, `maintenance.ts`) and `insertInto` (`clickhouse/src/ingest.ts`).

| Variable | Code |
|---|---|
| `undelivered`, `stream`, `pel` | the stream, the group's last-delivered-id and its pending list |
| `dlq` | the dead-letter stream |
| `manifest`, `fence`, `applied` | `ingest_batches`, `ingest_batch_sites`, `usage_batches` |
| `billed` | units in `usage_batch_deltas` |
| `rows`, `tokens`, `requests` | copies in `events_raw`, insert deduplication tokens, requests the server may still execute |
| `pc`, `phase`, `held`, `queue`, `todo`, `run` | the locals of one worker's loop: where it is, its open batch, messages to plan, snapshots to recover, the manifest it runs |
| `trimming` | the bound a retention trim computed and has not applied |

A message is its stream position and a batch the set of its messages, because
`deriveBatchId` hashes the message list and both kinds of read return stream order.
`TextRank` orders stream ids as the database's text order does (`...-10` before
`...-9`), which decides the owning batch of a message. The actions follow the code:
`ListRunnable`, `LoadListed`, `Claim` (recovery), `Reclaim`, `Read`, `Plan` (with the owning-batch
rule), `Snapshot`, then per run `Load`, `MarkInserting`, the request with its outcomes,
`MarkInserted`, `SettleWritten`, `ApplyUsage`, `MarkUsageRecorded`, `Ack`,
`MarkCompleted`; the failure path `MarkAttemptFailed`, or `PublishDeadLetter`,
`MarkDeadLettered`, `AckDead`; and the environment: `CallFails`, `Crash`,
`LeaseExpires`, `BackoffElapses`, `StartDeletion`, `Replay`, `TokenForgotten`,
`TrimPlan`, `TrimApply`. Consumer names are unique per process; the model lets a
crashed worker's name be used again, which behaves the same, since its memory is lost
and its leases may run out at any moment.

### OpenBatch

One worker and a clock: `OpenBatch` of `batcher.ts`, `decideFlush`, the block and count
arguments of a read, the head of `run()`'s loop, the backoff after a failing tick and
`stop()`. It answers what IngestPipeline leaves open: when a held batch is closed. A tick
may take time and may fail before its read, in it, or in the processing of a drained
batch; `backoffSleep` then takes at least one unit of the clock with whatever the batch
holds, unless `stop()` cuts it short. `late` records that the age trigger passed
where no flush decision follows: while the loop worked or slept, or in a read that
failed.

### Outbox

`enqueueOutbox`, `claimDueOutbox`, the handler, `markOutboxDelivered`,
`markOutboxFailed` and `reclaimStalledOutbox`, with several drains of one topic. Only
what the SQL compares is kept of `available_at`: in the future, past, or past by more
than the lease. No settle tests the status it overwrites, and neither do the model's.

### JobRunner and JobLease

`JobRunner` models `enqueueJob`, `claimDueJobs` (steals included), `extendJobLease`,
`completeJob` and `failJobRetryable`, and the loop that uses them: `runJobsOnce` works
off a claimed page one job at a time, `executeOne` renews each lease first,
`handleThrow` and the counting retry apply the attempts guard and are one outcome here
("failed"), `notifyTerminal` runs after the settle (its hook, on tables of its own, is a
step without effect). An executor is a black box that may renew, and returns or throws.
`attempts` stops counting at `MaxAttempts`; the code only asks whether it is at least
that. `spent` is history: the attempts that failed or lapsed since the job last asked
for a wait. `JobLease` is the abstract specification, the promise in the module comment of
`jobs.ts`: at most one holder, hand-over only by giving back or by expiry, the holder
alone settles, and a settled job stays settled. `JobRunner!LeaseSpec` is the refinement
(`holder <- claimed_by`, the verdict from the status, expired leases).

### SiteDeletion

One site, one ingest batch, the job that erases them on several workers, and the three
writers it must stop. It has a concrete executor where `JobRunner` has a black box.

| Variable | Code |
|---|---|
| `status`, `request`, `targets` | `sites.status`, `deletion_requests`, `deletion_targets` |
| `job`, `worker` | the site's latest `jobs` row; what each runner of it remembers (phase, targets to do, what it saw) |
| `data` | what each of seven stores still holds of the site: rows a submitted mutation covers, and fresh ones |
| `lease`, `pass` | `session_finalizer_state`, and the finalizer's pass over the site |
| `cache`, `fill`, `enqueue`, `age` | the collector's cached configuration, its read in flight, its request in flight, the time since the deletion began |
| `batch` | the entry in the stream, the ledger row of `ingest_batch_sites`, its writers |
| `overran` | history: a writer outlived its lease |

`Start` and `Revive` are the route and `startSiteDeletion`; `Claim`, `Enter`,
`FenceDrain`, `FinalizerFence`, the purges, `Submit`/`Poll`/`Count` of a ClickHouse
mutation, `Complete`, `EndPhase`, `VerifyFinalize`, `Settle`, `Notify` are the job;
`Fetch`, `Remember`, `Admit`, `RunScript`, `Touch` the collector; `Register`,
`Insert`, `Ack`, `DeadLetter`, `Replay`, `LateInsert` the ingest worker; `Discover`,
`ClaimSite`, `Recheck`, `WriteFacts`, `EndPass` the finalizer.

### EventDelivery

An event's way from a page to the stream.

| Variable | Code |
|---|---|
| `ahead`, `minted`, `age` | the device's clock, the events minted and how old they are |
| `page`, `buffer`, `retry` | pages, their buffers, the retry queues with the time each event has been queued and where: in localStorage, or in the memory of one page |
| `unstored` | the pages without localStorage: `data-storage="none"`, or a store that failed the probe |
| `req` | requests under way: decided, written, answered; who still reads the answer |
| `dedup`, `stored`, `counted` | `ingest_dedup` records with the life they have left, entries of the stream, units in the plan's window |
| `excused` | history: events given up for a stated reason |

`Open`, `Emit`, `Flush`, `FlushTimer`, `Leave` are the tracker; `Refuse`, `Forbid`,
`Filter`, `Admit` the route's decisions, `RunScript` the enqueue script with its two
passes (`Conflict`, `AddToStream`) and `RunScriptAgain` the client library's resend
after a dropped connection; `Accept`, `Fail` the answers; `Settle`, `NetworkError`,
`Requeue` what the page makes of them. A queue is `QueueOf` the page, `Push` and `Take`
are its two operations. localStorage may throw in any handler, for writes only (`Push`
drops the batch and leaves the queue) or for every call (`Takes`: nothing is found, and
the queue stays); a store in which reading or removing alone throws is left out.

### SessionFinalizer

`finalizeSite` on one site: claim, read, sessionize, plan, facts, rollups, watermark.

| Variable | Code |
|---|---|
| `now`, `events` | the clock, `events_raw` |
| `lease`, `watermark` | `session_finalizer_state` |
| `facts`, `rollups` | the rows of the highest version per session, and of the highest generation per bucket |
| `pass` | what each call holds in memory |
| `overlapped`, `torn` | history: two passes ran at once; buckets whose swap was lost |

Sessionizing is the operator `Sessionize` (gap and cap over a recursive function); the
window, the horizon, the watermark's pull-back and the tombstones are operators of
their own (`ResolveWindow`, `FinalizeHorizon`, `NewWatermark`, `Vanished`), so that a
pass is `ReadEvents`, `Plan`, `WriteFacts`, `ReadRollups`, `WriteRollups`, `Advance`.
Reading ReplacingMergeTree rows of equal version yields either.

### RealtimeSnapshots

One `SiteHub` and a clock whose unit the constants choose.

| Variable | Code |
|---|---|
| `client` | where each connection is: away, waiting for its first frame, open |
| `hub` | the fields of `SiteHub`: both timers, `lastComputeMs` (`since`), the read in flight and whether anybody broadcasts it (`fan`), the cached snapshot's age, `lastBroadcastAtMs` (`sent`), `degraded` |
| `age`, `told` | what each connection shows: the age of its snapshot, whether it was last told of a degradation |
| `bad`, `swallowed`, `joinRead` | history: reads for everybody that failed, a refresh skipped for a read nobody else got, whether the last read was for new connections only |

`JoinServed`, `JoinWaits` are `addClient` with `sendInitial`, `Leave` is
`removeClient`; `UpdateReads`, `UpdateWaits`, `TrailingFires`, `RefreshFires` start
reads or leave them out; `ReadReturns` and `ReadFails` are the rest of
`computeAndBroadcast` and of every `sendInitial` that waited for the same read.

## 3. The runs

| Run | Instance | States | What it shows |
|---|---|---|---|
| `ingest_operator` | 1 worker, 2 entries of 2 sites, 2 attempts, 2 faults, 1 replay, trim | 1.9 M | No row or unit twice, completed manifests reconcile, a batch is given up only when its retries are spent; with a deletion, the retention trim and an operator's replay, also after the token was forgotten |
| `ingest_liveness` | 2 workers, 1 entry, 1 attempt, 1 fault | 228 k | Pending entries are released, manifests decided, what was released is stored and billed or dead-lettered |
| `open_batch_punctual` | 3 rows, 4 bytes, 3 ticks of age, backoffs of up to 2 | 19 k | Limits close the batch, reads end at the age trigger or have a stated reason not to, an empty loop stops |
| `outbox_delivery` | 2 drains, 2 rows, 3 attempts, pages of 2 | 222 k | Bounded side effects, true verdicts, every row settled |
| `job_runner` | 2 runners, 3 jobs, 2 subjects, pages of 2, 2 attempts, 1 fault | 2.6 M | One live job per subject, current counts, given up exactly at the limit, refinement of `JobLease` |
| `site_deletion` | 2 workers, 1 fault, cache 1, margin 2 | about 2 min | What was verified stays gone, the drain closes the ingest path, a completed deletion is final |
| `site_deletion_progress` | 1 worker, 1 fault | about 90 s | A deletion finishes, whatever fails on the way |
| `event_delivery` | 3 events of 2 ids, 2 pages, 2 requests at once, queue of 1, in localStorage or one per page, 1 fault | 2.4 M | Once in the stream, at most once counted, forgotten only for a stated reason |
| `session_finalizer` | 2 visitors, 3 events, 3 passes, 2 at once, 1 fault, reads cut at 3 rows | 3.2 M | Unless a cut read and an overlap meet, sessions behind the watermark are complete and final; incremental passes agree with one from scratch; rollups follow the facts |
| `session_backlog` | 1 visitor, reads cut at 3 rows | violation | see Findings |
| `realtime_snapshots` | 2 connections, window 2, refresh 5, age limit 20, reads up to 2 | 1.4 M | The age is bounded with no failed read and with one, a recovery reaches whoever was told, one read per window |
| `realtime_joiners` | 2 connections, the shipped policy in units of 2 s (1, 5, 20), reads up to 1 | violation | see Findings |

**Why the bounds are enough.** Each hazard needs two actors and one shared object: two
drains on one row, two runners on one job, two workers on one manifest or one deletion,
two pages on one retry queue, two passes on one site, a connection that stays and one
that comes and goes. Overlapping splits of the ingest stream need a second entry
(`{1}`, `{2}` and `{1,2}` are then all batches); there, one worker that loses its lease
and its memory plays two in turn, two workers at once run the instance of
`ingest_liveness`, and both together are covered by the theorems of section 5, which
state every safety property of `IngestPipeline` for any number of workers and entries.
Pages need a second row or job, and a third job, of another subject, lets a page hold
two of three. One attempt makes the first failure fatal, two separate a retry from
giving up (`ingest_liveness` also passes with two, on 744 thousand states in four
minutes; the run keeps one for its time). A fault is a failed call, a crash, a lost
lease or a lost answer; one suffices for every single-failure path. Deletion: a cache
life and a margin of the smallest sizes with which the collector's stale cache, its slow read and its slow
request can each be the one that decides. Delivery: horizon, clock error and
deduplication life are the smallest that keep their order; all pages have localStorage
or none has (`Lacking`), the mixtures are left to the theorems. Finalizer: a session may
close by gap and by cap, a read may be cut, an event may arrive as late as allowed, and
the clock runs long enough (6) for a third pass to overtake a second that was planned
from before the watermark; at 5 no such schedule fits.
Realtime: a window and a read of two units each, so that instants inside a window and
inside a read differ; `StaysFresh` is a formula over the policy, and its theorem holds on
any clock. The shipped policy in seconds (2, 10, 40, reads of up to 1) passes too, with
11.9 M states in three minutes. Every bound is a named constant (`Deletable`,
`MaxFaults`, `MaxReplays`, `Horizon`, `MaxQueued`, `MaxWork`, `MaxBackoff`, `Limit`,
`Slots`, `MaxTime`, `LastEvent`, `MaxEvents`, `MaxRuns`); timeouts and reclaims are not
bounded. Symmetry is used only in runs without liveness. Runs that
switch the deadlock check off are of systems that really stop: a loop that ended, an
outbox or job table settled to the last row, a deleted site, a spent clock.

**Mutants.** Every property of every passing run has a mutant: a definition with a
plausible bug (`..._NoToken`, `..._Unguarded`, `..._FanOnly`) beside the one it
replaces, which makes TLC refute the property.

**Fairness.**

- `IngestPipeline`: each worker's loop takes some enabled step (weak fairness). Only a
  read with an empty batch is guaranteed to return, since a worker that holds messages
  may be stuck in one (section 4). Strong fairness on a worker's reclaim of a given
  entry: `XAUTOCLAIM` walks the pending list from its start on every tick. Leases and
  backoffs run out, and a server answers an awaited request. Nothing is assumed of
  faults, beyond their bound.
- `OpenBatch`: the clock runs, the loop goes on and a backoff ends; strong fairness on
  starting a read and on its return says that the stores do not fail every tick for
  ever.
- `Outbox`: drains and the sweep go on, `available_at` and the lease pass. Nothing is
  assumed of crashes: every delivery may kill its drain, and the row still ends,
  because claims are counted.
- `SiteDeletion`: a worker that has the job takes its next step, leases run out, time
  passes, ClickHouse performs a submitted mutation, the collector, the ingest worker
  and the finalizer finish what they began, and a customer who is told that the deletion
  failed asks again (`Revive`: the code has no retry of its own after the terminal
  verdict).
- `SessionFinalizer`: time goes on, a pass that has begun goes on, and passes keep
  beginning (strong fairness: the lease is free again and again). It is used by
  `session_backlog` only.

## 4. Findings

Checked by a run:

- **A backlog inside one session stops the finalizer** (`session_backlog`,
  `apps/worker/src/sessions/plan.ts:500`). A read cut at `MAX_WINDOW_ROWS` inside a
  session that began at the watermark plans that same watermark again;
  `finalizer.ts:136` says that "successive runs walk forward through the rest".
- **Joiners can starve a realtime dashboard** (`realtime_joiners`,
  `apps/realtime/src/hub.ts:196`). The refresh timer does nothing when a read began
  within the cache window. The read of a new connection is sent to it alone, so a
  connection that joins within 2 seconds before each refresh takes the tick from those
  already open. Their snapshot passes 40 seconds and the client calls the stream dead,
  although no read failed. The comment at `hub.ts:390` guards the resend floor against
  the same joiners, not this.

Met while modelling; no run states them as a violation, the modules contain the
behaviour, except where noted:

- *The trim removes undelivered entries* (`packages/redis/src/maintenance.ts:157`). Its
  bound is the retention cutoff or the oldest pending entry; an entry no consumer was
  given yet is not pending. `queue.ts:186` says the rule is no licence to discard
  unfinished work.
- *`inserted` goes back to `inserting`* (`ingest-batches.ts:380`): `markAttemptFailed`
  accepts a row that another worker took to `inserted`; the table of transitions in
  `packages/domain/src/ingest-batch.ts:207` does not. Rows and units stay single.
- *An open batch on an idle stream* (`batcher.ts:64`): when the age trigger passes
  between two reads, because a tick was slow or because the loop slept after a failure
  (1 s and more against a trigger of 1.5 s), the block budget is 0, and `BLOCK 0` waits
  for ever. `BlockEndsAtTrigger` and `HeldIsClosed` name this as the one way a batch is
  held on.
- *The outbox lease starts too early* (`outbox.ts:149`): the sweep measures it from
  `available_at`, so a row that waited longer than the lease is taken from its drain at
  once and delivered by a second one. What holds is `SentBounded`.
- *Consecutive failures.* Comments in `runner.ts` (44, 411) and `policy.ts:266` call what
  the attempts guard bounds consecutive failures, claims "that ended in a throw";
  `attempts` counts every claim since the last requested wait, those that a crash or a
  lapsed lease cut short included. `GivenUpWhenSpent` states the count as it is.
- *An orphaned deletion.* A job that dies for good after it purged `site_members` leaves
  a request nobody may revive, since the route asks for a membership first
  (`apps/api/src/http/routes.ts`). `DeletionFinishes` excepts it (`Orphaned`).
- *The margin.* `DeletionAssumption` needs the acceptance margin to cover a
  configuration read, a request and the clock skew; the comment in
  `packages/domain/src/policy.ts` derives it from request and skew only, and the cache
  counts its life from the read's arrival. A writer that outlives its lease, which
  nobody renews, is outside what the deletion can exclude (`overran`).
- *A late registration.* A worker with an old snapshot may register ledger rows for a
  batch that is already dead-lettered (`ingest-batches.ts:396`); nothing settles them,
  and a later drain waits. Not in an instance.
- *Tracker.* `transport.ts:10` says an event is delivered or kept for a retry, never silently
  dropped because a request failed. The events of a request that fails when its page is
  gone, or of a beacon the collector answers with a 503, are neither, nor are those whose
  requeue finds a full or forbidden localStorage (`storage.ts:58` drops the write), nor a
  memory queue when its page closes; all are in `excused`. The retry stamp starts over
  with every requeue (`storage.ts:124` against `:132`). The policy schema compares the
  deduplication life with the lateness only; a clock that runs ahead and a slow call must fit too (`WindowAssumption`).
- *An overtaken pass rewrites final sessions* (`apps/worker/src/sessions/job.ts:80`). The
  timer starts a sweep whether or not the last has ended, and the lease, never renewed,
  may always be taken again under its own name. A pass whose read was cut at
  `MAX_WINDOW_ROWS` can plan after a later pass finalized a session that the first had
  read only in part: it takes the next version and replaces the final session by the
  part. The watermark is past it, so no pass reads there again and the cut events stay
  uncounted. Migration `0012_session_finalizer_state.sql:19` says of a session that
  starts before the watermark that it "is FINAL and will never be recomputed again".
  It takes a pass that overlaps another together with a cut read, or a pass that takes
  longer than `SESSION_INACTIVITY_MINUTES`, so that the last event of a session may be
  stored after its read and before another pass finalizes the session. Otherwise the
  claim holds, and `Undisturbed` says so. With `Undisturbed` replaced by `TRUE`, TLC
  refutes `BehindWatermarkIsCounted` and `BehindWatermarkIsFinal` on
  `SessionFinalizer.cfg` within two minutes; with `PassTime = 2` and `RowCap = 4` it
  takes seconds.
- *Finalizer.* A rollup swap that was lost in a crash is not repaired by later passes
  (`finalizer.ts:14` says a re-run recovers a crash at any point), because the facts are
  by then as they should be: `RollupsMatch` excepts such buckets (`torn`). Overlapping
  passes may write one session under the same version (`Tied`). Events stored later than the
  lateness limit, and passes slower than the assumed `PassTime`, are outside its
  properties.
- *The room for one bad tick* (`packages/contracts/src/realtime.ts:79`). The comment puts
  the worst gap after one failed read at 30 of 40 seconds, "10 s inside the threshold",
  and `tests/unit/policy.test.ts` computes it from frames that go out on ticks. Updates
  send and withhold frames between ticks, and the refresh after such a read is skipped:
  just under 20 seconds withheld, almost 2 more until the skipped refresh, 10 until one
  that fails, 10 until the next, and its read: just under 42 seconds plus the read. So the
  40 seconds are not what `StaysFresh` says. It says what does hold, for any policy: after
  one failure, less than `Gap(1)`, which is half the age limit, the window, two refreshes
  and a read; without a failure, less than `Gap(0)`, one refresh less. On a clock of
  seconds with reads of up to one (`CacheTime = 2`, `RefreshTime = 10`, `MaxAge = 40`,
  `ReadTime = 1`) TLC finds connections that show 41 seconds after one failure and 31
  after none. `Gap` assumes a read shorter than a refresh (`ReadsAreShort`), which the
  code does not enforce: the read has no timeout of its own.
- *Hub manager.* `addClient` subscribes between two awaits: a connection that joins and
  leaves meanwhile removes the hub from the map, and the first one then lives on a hub
  that gets no messages and whose refresh timer nobody stops; a failed subscribe leaves
  a hub without channels in the map. Not modelled.

## 5. What is proved

TLAPS checks these for all values of the constants that satisfy the `ASSUME`s of the
modules (distinct null values, positive limits, stream ids that are positive and
ordered without ties, each message of a site, each job of a subject, a refresh no
faster than the cache window, a deduplication life above lateness, clock lead and latency,
an acceptance margin above a configuration read, a request and the clock skew, a cap on
sessions above the inactivity).

| Theorem | Statement |
|---|---|
| `IngestPipelineProofs!TypeCorrect` | `Spec => []TypeOK` |
| `IngestPipelineProofs!NothingForgotten` | `Spec => []AckedIsSettled`: an entry that is no longer pending is stored and billed, or dead-lettered |
| `IngestPipelineProofs!CompletedHasAll` | `Spec => []CompletedReconciles` |
| `IngestPipelineProofs!StoredOnce` | `Spec => []RowAtMostOnce` |
| `IngestPipelineProofs!BilledOnce` | `Spec => []BilledOnceAndStored` |
| `IngestPipelineProofs!GivenUpWhenSpent` | `Spec => DeadLetteredAfterRetries` |
| `OutboxProofs!TypeCorrect` | `Spec => []TypeOK` |
| `OutboxProofs!SideEffectsBounded` | `Spec => []SentBounded` |
| `OutboxProofs!VerdictsTrue` | `Spec => []VerdictIsTrue` |
| `JobRunnerProofs!TypeCorrect` | `Spec => []TypeOK` |
| `JobRunnerProofs!OneLive` | `Spec => []OneLivePerSubject` |
| `JobRunnerProofs!CountCurrent` | `Spec => []CountIsCurrent` |
| `JobRunnerProofs!GivenUpRightly` | `Spec => GivenUpWhenSpent` |
| `JobRunnerProofs!ImplementsLease` | `Spec => LeaseSpec` |
| `OpenBatchProofs!TypeCorrect` | `Spec => []TypeOK` |
| `OpenBatchProofs!BatchesBounded` | `Spec => []LimitsClose` |
| `OpenBatchProofs!BlocksUntilTrigger` | `Spec => []BlockEndsAtTrigger` |
| `SiteDeletionProofs!TypeCorrect` | `Spec => []TypeOK` |
| `SiteDeletionProofs!VerifiedStaysGone` | `Spec => []VerifiedIsGone` |
| `SiteDeletionProofs!DrainIsFinal` | `Spec => DrainClosesIngest` |
| `SiteDeletionProofs!CompletedStays` | `Spec => CompletedIsFinal` |
| `SessionFinalizerProofs!TypeCorrect` | `Spec => []TypeOK` |
| `SessionFinalizerProofs!RollupsFollowFacts` | `Spec => []RollupsMatch` |
| `SessionFinalizerProofs!EventsCountOnce` | `Spec => []NoEventTwice` |
| `SessionFinalizerProofs!WatermarkIsComplete` | `Spec => []BehindWatermarkIsCounted` |
| `SessionFinalizerProofs!FinalIsNotRevised` | `Spec => BehindWatermarkIsFinal` |
| `SessionFinalizerProofs!FactsAreFromScratch` | `Spec => SameAsFromScratch` |
| `EventDeliveryProofs!TypeCorrect` | `Spec => []TypeOK` |
| `EventDeliveryProofs!Once` | `Spec => []StoredOnce` |
| `EventDeliveryProofs!SuccessMeansStored` | `Spec => []AcceptedIsStored` |
| `EventDeliveryProofs!CountedOnce` | `Spec => []CountedWithinStored` |
| `EventDeliveryProofs!RefusalsWriteNothing` | `Spec => RejectedWritesNothing` |
| `EventDeliveryProofs!NothingLost` | `Spec => []KeptWhilePageLives` |
| `RealtimeSnapshotsProofs!TypeCorrect` | `Spec => []TypeOK` |
| `RealtimeSnapshotsProofs!RecoveryReachesAll` | `Spec => []DegradedIsLifted` |
| `RealtimeSnapshotsProofs!OneRead` | `Spec => OneReadPerWindow` |
| `RealtimeSnapshotsProofs!AgeIsBounded` | `Spec => []StaysFresh`, for every policy (`ReadsAreShort` is a hypothesis of the property) |

The type invariants of `IngestPipeline`, `Outbox` and `JobRunner` are proved and no
longer checked by a run.

**The ingest argument, nothing lost.** `AckedIsSettled` is not inductive: a worker
acknowledges on the strength of a state it read, possibly before others moved the row.
What makes that sound is that *knowledge only grows*. A manifest in `inserted` tells
that every admissible entry of the batch has its row; in `usage_recorded` or
`completed`, also its unit; in `dead_lettered`, that the entry has a copy. Rows, units
and copies are never taken back, and the admissible entries of a batch only become
fewer: lemma `StoresStep`. So whatever a snapshot told, it still tells (`Persistence`).
The inductive invariant `SafeInv` is `TypeOK`, `RunsExist` (every snapshot and request
refers to a manifest with a row), `KnowledgeInv` (manifests, snapshots, locals, tokens
and usage rows tell the truth) and `AckedIsSettled`. Each `...Next` lemma has a step per
action.

**The ingest argument, nothing twice.** A manifest is created from messages that have
none, and none is deleted, so every message has one manifest for ever (`Disjoint`); a
request writes rows of its own batch only (`RequestsCover`). Hence one token and one
usage row stand for everything done with a message. `RowsCounted` counts: a batch whose
token is not spent has added no row beyond what replays after a forgotten token
account for; `UnitsCounted` the same for units. For the attempts, a worker's remembered
count is behind the row's, which only grows until an operator replays (`Behind`).

**The open batch argument.** The three invariants are inductive together: a read asks for
what is left of the row limit, which needs the open batch to be below it, and waits for
what is left of the age trigger, which needs the age to start over with the batch. The
byte limit needs one fact about the fold, its value on an empty batch (`EmptyBytes`);
that it is a number for every batch is induction over data and not proved, which is why
`LimitsClose` states the byte limit as the negation of the code's comparison.

**The outbox argument.** Attempts are counted by the claim, before the handler. For each
row, the side effects that happened plus the drains that hold the row and have not
handled it (`Unsent`) are at most the attempts (`ClaimsCounted`); a row is claimed only
while attempts are left (`AttemptsLeft`), since the sweep and `markOutboxFailed` return
it only then.

**The job argument.** `TypeOK` is inductive and carries the main fact: a row has a holder
exactly while it runs. A worker writes a row by claiming it, when nobody can settle it,
or by holding it; then no other worker's count refers to it (`CountStep`). Every write
that changes `status`, `claimed_by` or the lease is one of the six actions of `JobLease`
(`LeaseStep`), everything else a stutter.

**The deletion argument.** The phases order what is erased; the invariant says what each
one leaves behind for good. `Drained`: when the drain lets the request run, every cached
configuration has expired, every request that read the site as open is over (the margin
of `DeletionAssumption` is used here and nowhere else), and no ledger row of the site
can still be inserted. `Fenced`: no pass of the finalizer may still write, unless it
overran its lease. `Reached(k)`: what the phases before `k` erased is gone;
epoch keys are looked up through memberships and therefore go first. These are stable
under every action of the three writers, which is why neither the number of workers nor
who holds the job matters: a superseded worker erases what is erased already and its
mark is refused or repeats a mark that is true.

**The finalizer argument.** The sessionizer is a recursive function of the times of a
visitor's events. What the proof needs of it (`StartsAtFacts`: the start of an event's
session is an event, not later, and its own start) follows from its equation by looking
at the least counterexample, which needs no induction over data. From there a session is
named by its earliest event, sessions are disjoint and cover the window, and no session
straddles the planned watermark (`MarkIs`); a plan turns the stored rows of the window
into those sessions (`IsPlan`). `Inv1` holds of every behaviour: a key has one version,
versions are bounded, passes and the watermark are not ahead of the clock. `Inv2` adds
the rollups: a pass that counts as alone has been so since it began, hence what it
aggregated is still what the stores say (`Fresh`) when it swaps. `Inv3` is about passes
that never overlapped: no event is in two current sessions, and a pass still plans from
the watermark it read.

For passes that overlap, what matters is that *sessions are local*. A time is clean for a
set of events when no session straddles it; between two clean times the sessions are a
function of the events between them (`SessionsSame`), and a clean time stays clean
when events arrive after it (`CleanLater`). `Inv4` says what a pass knows: it has read
all that was stored when it looked, which is all that can no longer arrive, unless cut,
and it is not slower than `PassTime`. `Inv5`
says, while `Undisturbed`, that the watermark and the mark of every pass that has written
are clean and old enough that no event arrives before them, and that before them the
facts are the sessions of all events (`Sound`). A pass that planned long ago, lost its
lease and writes now has read all that lies before any such mark (`SeesMarks`), hence
writes there what is there already. This needs both halves of `Undisturbed`: a cut read
does not see all events before the mark, nor does a pass that began, more than the
inactivity ago, before the last event of a session that is final by now. Section 4 has
the runs' counterexamples without them; the theorems show that excluding these two is enough. `Inv6` compares a pass that
ran alone with what is stored: its plan, applied, leaves exactly its sessions.

**The delivery argument.** An event is stored once because its record outlives every
attempt that can still be accepted. While an event may be accepted (`age` below `Past`),
the record's remaining life and the event's age add up to at least `DedupTTL`
(`YoungIsKnown`): both move by one with every tick. An attempt is decided only when the
event is no older than `Horizon + ahead`, and `WindowAssumption` then leaves the record
more than `Latency` to live; from there the record's life and the time the batch has
waited add up (`DecidedIsKnown`), so the script still finds it. The script overwrites
only records nobody remembers, and a batch that names an id twice never reaches it.
`Uncounted` says that no two requests are about to count the same event, which with
`CountedWithinStored` bounds the count. Most actions are `Quiet` for all of this; the
five that are not (admit, script, script again, accept, tick) have a lemma each. For
`KeptWhilePageLives` the same invariant gives what a reply means (`StageTells`), and one
more fact is needed: a closed page has an empty buffer. `WindowAssumption` is an
assumption about deployments, stronger than what the policy's own check demands
(section 4).

**The realtime argument.** The window is kept by the guards of three of the four starters;
the fourth, the trailing timer, fires without looking at the clock. `TimerWaits` says
why it may: while it is set, what is left of it and the time since the last read's start
add up to the window, or the last read was for new connections, or it is due while a
read of this very instant is in flight, which it joins. `DegradedIsLifted` needs that a
connection that is away was told nothing, and that a first frame which reports the
degradation marks the hub.

`StaysFresh` needs a bound on the time until the next read for everybody, in terms of
what is left of the timers (`Due`): an age plus the rest of the refresh timer is at most
one period above the age at which a frame stops being withheld, and a period more after
a failure. The cases differ in who will read next: the read in flight (which ends before
another refresh, since a read takes less than a period), the trailing timer, or the
refresh timer, unless it will find the last read within the window. Ages are bounded by
the time since the last frame while that is below the floor. TLC finds
ages of `Gap(0) - 2` and `Gap(1) - 2`; the two units are those by which a withheld frame
and a skipped refresh are each strictly inside their limits.

**Only model-checked.** Liveness (out of the prover's reach): `PendingIsReleased`,
`ManifestIsDecided`, `HeldIsClosed`, `EmptyLoopStops`, `RowIsSettled`,
`DeletionFinishes`. Every invariant and action property of a passing run is proved.

## 6. What is not modelled, and why

- *Inside the modelled parts.* Ingest: generations beyond the status change they
  accompany; the retention delete of old manifests; quarantine of invalid payloads;
  bytes and rows attributed to a site; the limit on manifests recovered per tick;
  splitting of an insert into partitions. Jobs: the phase marker's value, backlog gauges
  and the drain in `stop()`. Outbox: what a handler does beyond its one side effect.
  Deletion: a disabled configuration, targets a release has retired, row counts, the
  mails and revocations it enqueues. Delivery: what an event holds, consent, sessions
  and heartbeats of the tracker, two pages inside one localStorage update, how the gate
  and the limiter decide. Finalizer: discovery of sites with new events, the bridge over
  midnight and the identity stitch, the second rollup grain. Realtime: the manager's
  subscriptions, epochs, tokens and revocation, the content of a snapshot.
- *Not yet.* The parts marked planned in section 1, and listed as such among the
  components.
- *Not planned.* The web application and the generated API contracts are close to half
  of the implementation's lines; with the SQL text of the query gateway and the analytics
  service, provider adapters, parsing, archive formats, schemas and logging they have one
  actor and no protocol. The share of lines that the modules map is small for that
  reason.
- *External.* Valkey, Postgres and ClickHouse are modelled from how the code uses them:
  atomic statements and scripts, `SKIP LOCKED`, consumer groups, an insert token
  remembered until the deduplication window rolls over, mutations that run later.

## 7. Plan

1. `Idempotency`: the control plane's ledger (claim, complete, release by key, the sweep
   of two horizons), against requests that outlive their claim.
2. `RealtimeStreams`: the hub manager's subscriptions, revocation epochs against
   connections being opened.
3. `ImportRuns` (publish against cleanup, the single download claim), account deletion on
   top of `SiteDeletion`, `QueryGateway` (nonce window, cache).
4. An abstract `ExactlyOnce` specification (an entry is waiting, stored and billed, or
   dead-lettered) that `IngestPipeline` implements, composed with `EventDelivery`.
