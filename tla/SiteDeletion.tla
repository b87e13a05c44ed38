---------------------------- MODULE SiteDeletion ----------------------------
(***************************************************************************)
(* Erasing one site: the job that walks seven phases over the stores, and  *)
(* the three writers it has to stop first: the collector with its cached   *)
(* configuration, the ingest worker behind the generation fence, and the   *)
(* session finalizer behind its lease.                                     *)
(*                                                                         *)
(* Source: apps/worker/src/jobs/site-deletion.ts,                          *)
(* packages/postgres/src/repositories/site-deletion.ts and                 *)
(* session-finalizer.ts, and the writers' own code (see the map).          *)
(*                                                                         *)
(* One site and one ingest batch.  Every target of the snapshot is one of  *)
(* seven, in the order the phases walk them; what a store holds for the    *)
(* site is a set of marks ("covered": rows a submitted mutation will       *)
(* remove, "fresh": the others).  A clock counts from the start of the     *)
(* deletion, in the units the collector's cache is measured in.            *)
(***************************************************************************)
EXTENDS Naturals, Integers, Sequences, FiniteSets

CONSTANTS
    Workers,     \* processes that run jobs
    NoWorker,    \* jobs.claimed_by is null
    MaxAttempts, \* JOB_MAX_ATTEMPTS
    CacheTTL,    \* INGEST_CONFIG_CACHE_TTL_SECONDS
    Margin,      \* DELETION_ACCEPTANCE_MARGIN_MS
    FillTime,    \* the longest read of the configuration, to its place in the cache
    RequestTime, \* the longest request, from that cache to its last Redis write
    Skew,        \* how far the worker's clock is from the database's
    MaxFaults    \* bound: crashes, throws, lapses and refusals

ASSUME DeletionAssumption ==
    /\ NoWorker \notin Workers
    /\ MaxAttempts \in Nat \ {0}
    /\ CacheTTL \in Nat \ {0} /\ Margin \in Nat
    /\ FillTime \in Nat /\ RequestTime \in Nat /\ Skew \in Nat
    /\ Margin >= FillTime + RequestTime + Skew
    /\ MaxFaults \in Nat

VARIABLES
    status,   \* sites.status
    request,  \* deletion_requests.status
    job,      \* the site's latest jobs row
    targets,  \* deletion_targets
    worker,   \* what each runner of the job knows
    data,     \* what each target still holds of the site
    lease,    \* session_finalizer_state
    pass,     \* where the finalizer's pass is
    cache,    \* the collector's cached configuration, if it says "active"
    fill,     \* its read of the configuration in flight
    enqueue,  \* its request in flight
    age,      \* time since the deletion started, as far as it matters
    batch,    \* the ingest batch: its entries, its ledger row, its writers
    overran,  \* history: a writer outlived its lease
    faults

writers == <<lease, pass, cache, fill, enqueue, batch, overran>>
vars == <<status, request, job, targets, worker, data, lease, pass, cache, fill,
          enqueue, age, batch, overran, faults>>

-----------------------------------------------------------------------------
Phases == <<"fence_drain", "finalizer_fence", "redis_purge", "object_purge",
            "clickhouse_purge", "postgres_purge", "verify_finalize">>

ClickHouse == {"events_raw", "session_facts"}
Redis == {"queue_index", "realtime_presence", "realtime_epochs"}
AllTargets == Redis \union ClickHouse \union {"objects", "site_members"}

\* The phase that owns a target.
PhaseOf(t) ==
    CASE t \in ClickHouse -> 5
      [] t = "site_members" -> 6
      [] t = "objects" -> 4
      [] OTHER -> 3

Idle == [pc |-> "idle", id |-> 0, phase |-> 1, todo |-> <<>>, seen |-> {},
         waits |-> FALSE, reported |-> FALSE]

\* Who holds session_finalizer_state: nobody, the finalizer, or the deletion job
\* with that id, whose workers share its name.
Nobody == -1
Finalizer == 0
NoLease == [row |-> FALSE, by |-> Nobody, live |-> FALSE]

Pending == [phase |-> "pending", verified |-> FALSE, mutation |-> FALSE]

\* A job row as enqueueJob inserts it.
NewJob(id) == [id |-> id, status |-> "queued", phase |-> 1, owner |-> NoWorker,
               live |-> FALSE, attempts |-> 0]

Init ==
    /\ status = "active"
    /\ request = "none"
    /\ job = [NewJob(0) EXCEPT !.status = "absent"]
    /\ targets = [t \in AllTargets |-> Pending]
    /\ worker = [w \in Workers |-> Idle]
    /\ data = [t \in AllTargets |->
                 IF t \in {"objects", "site_members", "realtime_epochs"} THEN {"fresh"} ELSE {}]
    /\ lease = NoLease
    /\ pass = "idle"
    /\ cache = 0
    /\ fill = -1
    /\ enqueue = [left |-> -1, stage |-> "none"]
    /\ age = 0
    /\ batch = [entry |-> "none", ledger |-> "none", pc |-> "idle", late |-> FALSE]
    /\ overran = FALSE
    /\ faults = 0

Fault == faults < MaxFaults /\ faults' = faults + 1

-----------------------------------------------------------------------------
(* The route DELETE /v1/sites/{id} and startSiteDeletion. *)

JobIsLive == job.status \in {"queued", "running"}

\* The site is marked, its generation moves, and request, targets and job appear
\* in the same transaction.  The route asks for a membership first.
Start ==
    /\ data["site_members"] # {}
    /\ status = "active"
    /\ status' = "deleting"
    /\ request' = "pending"
    /\ targets' = [t \in AllTargets |-> Pending]
    /\ job' = NewJob(1)
    /\ age' = 0
    /\ UNCHANGED <<worker, data, writers, faults>>

\* Mutant: only a request that is still live is found.
Revive_OnlyLive ==
    /\ data["site_members"] # {}
    /\ status = "deleting" /\ ~JobIsLive
    /\ request \in {"pending", "running"}
    /\ job' = NewJob(job.id + 1)
    /\ UNCHANGED <<status, request, targets, worker, data, writers, age, faults>>

\* The site is being deleted and nothing performs it: a fresh job on the same
\* request.
Revive ==
    /\ data["site_members"] # {}
    /\ status = "deleting" /\ ~JobIsLive
    /\ request \in {"pending", "running", "failed"}
    /\ request' = IF request = "failed" THEN "pending" ELSE request
    /\ job' = NewJob(job.id + 1)
    /\ UNCHANGED <<status, targets, worker, data, writers, age, faults>>

-----------------------------------------------------------------------------
(* The job runner, for the one job of this site. *)

Held(w) == job.owner = w /\ job.id = worker[w].id

\* Claimed when it waits, or when its lease ran out.  The executor starts at the
\* recorded phase, or is done at once when the request is completed.
Claim(w) ==
    /\ worker[w].pc = "idle"
    /\ job.status = "queued" \/ (job.status = "running" /\ ~job.live)
    /\ job' = [job EXCEPT !.status = "running", !.owner = w, !.live = TRUE,
                          !.attempts = IF @ < MaxAttempts THEN @ + 1 ELSE @]
    /\ worker' = [worker EXCEPT ![w] =
                    [Idle EXCEPT !.pc = IF request = "completed" THEN "settle" ELSE "enter",
                                 !.id = job.id, !.phase = job.phase]]
    /\ UNCHANGED <<status, request, targets, data, writers, age, faults>>

\* updatePhase: guarded by the lease and written before the phase runs.
Enter(w) ==
    /\ worker[w].pc = "enter"
    /\ IF Held(w)
       THEN /\ job' = [job EXCEPT !.phase = worker[w].phase]
            /\ worker' = [worker EXCEPT ![w].pc = "run"]
       ELSE /\ worker' = [worker EXCEPT ![w] = Idle]
            /\ UNCHANGED job
    /\ UNCHANGED <<status, request, targets, data, writers, age, faults>>

\* A returned retry: settled only while the lease is held, and the attempts start
\* over.
Retry(w) ==
    /\ job' = IF Held(w)
              THEN [job EXCEPT !.status = "queued", !.owner = NoWorker, !.live = FALSE,
                               !.attempts = 0]
              ELSE job
    /\ worker' = [worker EXCEPT ![w] = Idle]

\* A phase that is done: extendLease, then the next one.
Advance(w) ==
    IF Held(w)
    THEN /\ job' = [job EXCEPT !.live = TRUE]
         /\ worker' = [worker EXCEPT ![w] =
                         [Idle EXCEPT !.pc = "enter", !.id = worker[w].id,
                                      !.phase = worker[w].phase + 1]]
    ELSE Retry(w)

\* A throw: the attempt counts, and the last one is terminal.
Throw(w) ==
    /\ Fault
    /\ worker[w].pc \notin {"idle", "settle", "notify"}
    /\ LET spent == job.attempts >= MaxAttempts
       IN  IF Held(w)
           THEN /\ job' = [job EXCEPT !.status = IF spent THEN "dead" ELSE "queued",
                                      !.owner = NoWorker, !.live = FALSE]
                /\ worker' = [worker EXCEPT ![w] = IF spent THEN [Idle EXCEPT !.pc = "notify"]
                                                   ELSE Idle]
           ELSE /\ worker' = [worker EXCEPT ![w] = Idle]
                /\ UNCHANGED job
    /\ UNCHANGED <<status, request, targets, data, writers, age>>

Settle(w) ==
    /\ worker[w].pc = "settle"
    /\ job' = IF Held(w)
              THEN [job EXCEPT !.status = "succeeded", !.owner = NoWorker, !.live = FALSE]
              ELSE job
    /\ worker' = [worker EXCEPT ![w] = Idle]
    /\ UNCHANGED <<status, request, targets, data, writers, age, faults>>

\* Mutant: the update is not guarded by the live statuses.
Notify_Unguarded(w) ==
    /\ worker[w].pc = "notify"
    /\ request' = "failed"
    /\ worker' = [worker EXCEPT ![w] = Idle]
    /\ UNCHANGED <<status, job, targets, data, writers, age, faults>>

\* onTerminal: markSiteDeletionFailed, some time after the job is dead.
Notify(w) ==
    /\ worker[w].pc = "notify"
    /\ request' = IF request \in {"pending", "running"} THEN "failed" ELSE request
    /\ worker' = [worker EXCEPT ![w] = Idle]
    /\ UNCHANGED <<status, job, targets, data, writers, age, faults>>

\* The process dies where it is, the terminal hook included.
Crash(w) ==
    /\ Fault
    /\ worker[w].pc # "idle"
    /\ worker' = [worker EXCEPT ![w] = Idle]
    /\ UNCHANGED <<status, request, job, targets, data, writers, age>>

\* jobs.lease_expires_at passes: a fault while its owner still works.
Lapse ==
    /\ job.status = "running" /\ job.live
    /\ job' = [job EXCEPT !.live = FALSE]
    /\ IF worker[job.owner].id = job.id /\ worker[job.owner].pc # "idle"
       THEN Fault
       ELSE UNCHANGED faults
    /\ UNCHANGED <<status, request, targets, worker, data, writers, age>>

-----------------------------------------------------------------------------
(* The phases. *)

At(w, phase) == worker[w].pc = "run" /\ Phases[worker[w].phase] = phase

Closed == CacheTTL + Margin

\* Mutant: the margin is left out.
DrainOver_NoMargin == age + Skew >= CacheTTL /\ batch.ledger # "registered"

\* Mutant: the ledger is not asked.
DrainOver_NoLedger == age + Skew >= Closed

\* Both conditions of the drain, by a clock that may run ahead.
DrainOver == age + Skew >= Closed /\ batch.ledger # "registered"

FenceDrain(w) ==
    /\ At(w, "fence_drain")
    /\ \/ /\ DrainOver
          /\ request' = IF request = "pending" THEN "running" ELSE request
          /\ Advance(w)
       \/ /\ age < Closed + Skew \/ batch.ledger = "registered"
          /\ Retry(w)
          /\ UNCHANGED request
    /\ UNCHANGED <<status, targets, data, writers, age, faults>>

\* claimFinalizerSite: an upsert that takes an absent, a free or an expired lease,
\* or the caller's own.
Takeable(by) == ~lease.row \/ lease.by \in {Nobody, by} \/ ~lease.live
Taken(by) == [row |-> TRUE, by |-> by, live |-> TRUE]

FinalizerFence(w) ==
    /\ At(w, "finalizer_fence")
    /\ IF Takeable(worker[w].id)
       THEN lease' = Taken(worker[w].id) /\ Advance(w)
       ELSE UNCHANGED lease /\ Retry(w)
    /\ UNCHANGED <<status, request, targets, data, pass, cache, fill, enqueue, age,
                   batch, overran, faults>>

Completed(t) == targets[t].phase = "completed"

\* listDeletionTargets: what each phase walks, in its order, without the targets the
\* loop skips.
Outstanding(t) == IF Completed(t) THEN <<>> ELSE <<t>>
Listed(phase) ==
    CASE phase = "redis_purge" ->
           Outstanding("queue_index") \o Outstanding("realtime_presence")
             \o Outstanding("realtime_epochs")
      [] phase = "object_purge" -> Outstanding("objects")
      [] phase = "clickhouse_purge" -> Outstanding("events_raw") \o Outstanding("session_facts")
      [] phase = "postgres_purge" -> Outstanding("site_members")
      [] OTHER -> <<>>

\* The targets of this phase, as they are now, are the ones it will work on.
Lists(w) ==
    worker' = [worker EXCEPT ![w].pc = "target",
                             ![w].todo = Listed(Phases[worker[w].phase]),
                             ![w].seen = {t \in AllTargets : targets[t].mutation}]

\* redisPurge and objectPurge begin with the list.
List(w) ==
    /\ At(w, "redis_purge") \/ At(w, "object_purge")
    /\ Lists(w)
    /\ UNCHANGED <<status, request, job, targets, data, writers, age, faults>>

\* clickhousePurge takes the finalizer's lease again before it.
HoldAndList(w) ==
    /\ At(w, "clickhouse_purge")
    /\ IF Takeable(worker[w].id)
       THEN lease' = Taken(worker[w].id) /\ Lists(w) /\ UNCHANGED job
       ELSE UNCHANGED lease /\ Retry(w)
    /\ UNCHANGED <<status, request, targets, data, pass, cache, fill, enqueue, age,
                   batch, overran, faults>>

\* postgresPurge does so only when it has work left.
HoldIfOutstanding(w) ==
    /\ At(w, "postgres_purge")
    /\ IF Listed("postgres_purge") = <<>>
       THEN UNCHANGED lease /\ Advance(w)
       ELSE IF Takeable(worker[w].id)
            THEN lease' = Taken(worker[w].id) /\ Lists(w) /\ UNCHANGED job
            ELSE UNCHANGED lease /\ Retry(w)
    /\ UNCHANGED <<status, request, targets, data, pass, cache, fill, enqueue, age,
                   batch, overran, faults>>

\* The credentials are missing, or an object answers head after its delete.
Unavailable(w) ==
    /\ Fault
    /\ worker[w].pc \in {"run", "target"}
    /\ Phases[worker[w].phase] \in {"redis_purge", "object_purge", "clickhouse_purge"}
    /\ Retry(w)
    /\ UNCHANGED <<status, request, targets, data, writers, age>>

\* The target the worker has come to.
On(w, t) == worker[w].pc = "target" /\ worker[w].todo # <<>> /\ Head(worker[w].todo) = t

\* A target of Redis, of the object store or of Postgres: set running and purged.
\* The epoch keys are found through the membership rows; the purge of Postgres is
\* one transaction that deletes the finalizer's row too.
Purge(w, t) ==
    /\ On(w, t) /\ t \notin ClickHouse
    /\ targets' = IF t = "site_members" THEN targets ELSE [targets EXCEPT ![t].phase = "running"]
    /\ data' = IF t = "realtime_epochs" /\ data["site_members"] = {} THEN data
               ELSE [data EXCEPT ![t] = {}]
    /\ lease' = IF t = "site_members" THEN NoLease ELSE lease
    /\ worker' = [worker EXCEPT ![w].pc = "purged"]
    /\ UNCHANGED <<status, request, job, pass, cache, fill, enqueue, age, batch, overran,
                   faults>>

\* A ClickHouse target without a mutation: submit one over the rows there are.
\* The id is not found when the mutation is done already.
Submit(w, t) ==
    /\ On(w, t) /\ t \in ClickHouse \ worker[w].seen
    /\ data' = [data EXCEPT ![t] = IF @ = {} THEN {} ELSE {"covered"}]
    /\ \E found \in BOOLEAN :
         targets' = [targets EXCEPT ![t].phase = "running", ![t].mutation = found]
    /\ worker' = [worker EXCEPT ![w].pc = "count", ![w].reported = FALSE]
    /\ UNCHANGED <<status, request, job, writers, age, faults>>

\* The next target; this one is tried again by the next run of the phase.
Skip(w) == worker' = [worker EXCEPT ![w].pc = "target", ![w].todo = Tail(@), ![w].waits = TRUE]

\* One with a mutation: it runs, it is done, or ClickHouse no longer lists it.
Poll(w, t) ==
    /\ On(w, t) /\ t \in ClickHouse \intersect worker[w].seen
    /\ \/ "covered" \in data[t] /\ Skip(w) /\ UNCHANGED faults
       \/ /\ IF "covered" \in data[t] THEN Fault ELSE UNCHANGED faults
          /\ worker' = [worker EXCEPT ![w].pc = "count", ![w].reported = TRUE]
    /\ UNCHANGED <<status, request, job, targets, data, writers, age>>

\* countSiteRows: nothing is left, or the target waits; when the mutation was
\* reported done, its id is cleared for the next run to submit again.
Count(w) ==
    /\ worker[w].pc = "count"
    /\ LET t == Head(worker[w].todo)
       IN  IF data[t] = {}
           THEN worker' = [worker EXCEPT ![w].pc = "purged"] /\ UNCHANGED targets
           ELSE /\ targets' = IF worker[w].reported
                              THEN [targets EXCEPT ![t].mutation = FALSE] ELSE targets
                /\ Skip(w)
    /\ UNCHANGED <<status, request, job, data, writers, age, faults>>

\* completeTarget, which no lease guards, and the extendLease after it.
Complete(w) ==
    /\ worker[w].pc = "purged"
    /\ targets' = [targets EXCEPT ![Head(worker[w].todo)].phase = "completed",
                                  ![Head(worker[w].todo)].verified = TRUE]
    /\ IF Held(w)
       THEN /\ job' = [job EXCEPT !.live = TRUE]
            /\ worker' = [worker EXCEPT ![w].pc = "target", ![w].todo = Tail(@)]
       ELSE Retry(w)
    /\ UNCHANGED <<status, request, data, writers, age, faults>>

EndPhase(w) ==
    /\ worker[w].pc = "target" /\ worker[w].todo = <<>>
    /\ IF worker[w].waits THEN Retry(w) ELSE Advance(w)
    /\ UNCHANGED <<status, request, targets, data, writers, age, faults>>

Unfinished == {t \in AllTargets : ~Completed(t) \/ ~targets[t].verified}

\* verifyFinalize: the tombstone over targets that were read again, or back to the
\* earliest phase with one left.
VerifyFinalize(w) ==
    /\ At(w, "verify_finalize")
    /\ IF Unfinished = {}
       THEN /\ status' = "deleted" /\ request' = "completed" /\ lease' = NoLease
            /\ worker' = [worker EXCEPT ![w].pc = "settle"]
            /\ UNCHANGED job
       ELSE /\ \E t \in Unfinished :
                 /\ \A u \in Unfinished : PhaseOf(t) <= PhaseOf(u)
                 /\ job' = IF Held(w)
                           THEN [job EXCEPT !.status = "queued", !.owner = NoWorker,
                                            !.live = FALSE, !.attempts = 0,
                                            !.phase = PhaseOf(t)]
                           ELSE job
            /\ worker' = [worker EXCEPT ![w] = Idle]
            /\ UNCHANGED <<status, request, lease>>
    /\ UNCHANGED <<targets, data, pass, cache, fill, enqueue, age, batch, overran, faults>>

\* ClickHouse performs the mutations of a table.
MutationRuns(t) ==
    /\ "covered" \in data[t]
    /\ data' = [data EXCEPT ![t] = @ \ {"covered"}]
    /\ UNCHANGED <<status, request, job, targets, worker, writers, age, faults>>

-----------------------------------------------------------------------------
(* The collector. *)

\* resolve: on a miss the configuration is read, and what was read is kept from
\* the moment it arrives.  Only a configuration that says "active" matters.
Fetch ==
    /\ cache = 0 /\ fill = -1 /\ status = "active"
    /\ fill' = FillTime
    /\ UNCHANGED <<status, request, job, targets, worker, data, lease, pass, cache, enqueue,
                   age, batch, overran, faults>>

Remember ==
    /\ fill >= 0
    /\ fill' = -1
    /\ cache' = CacheTTL
    /\ UNCHANGED <<status, request, job, targets, worker, data, lease, pass, enqueue, age,
                   batch, overran, faults>>

\* decideIngestAdmission, on the configuration in the cache.
Admit ==
    /\ cache > 0 /\ enqueue.left = -1
    /\ enqueue' = [left |-> RequestTime, stage |-> "admitted"]
    /\ UNCHANGED <<status, request, job, targets, worker, data, lease, pass, cache, fill, age,
                   batch, overran, faults>>

\* The enqueue script: the stream entry, its record and its place in the index.
RunScript ==
    /\ enqueue.stage = "admitted"
    /\ enqueue' = [enqueue EXCEPT !.stage = "appended"]
    /\ data' = [data EXCEPT !["queue_index"] = {"fresh"}]
    /\ batch' = IF batch.entry = "none"
                THEN [batch EXCEPT !.entry = "pending", !.ledger = "none"] ELSE batch
    /\ UNCHANGED <<status, request, job, targets, worker, lease, pass, cache, fill, age,
                   overran, faults>>

\* The presence of the visitor, after the enqueue.
Touch ==
    /\ enqueue.stage = "appended"
    /\ enqueue' = [left |-> -1, stage |-> "none"]
    /\ data' = [data EXCEPT !["realtime_presence"] = {"fresh"}]
    /\ UNCHANGED <<status, request, job, targets, worker, lease, pass, cache, fill, age, batch,
                   overran, faults>>

\* Mutant: a cache entry that ran out keeps counting.
Less_Wraps(n) == n - 1

Less(n) == IF n > 0 THEN n - 1 ELSE n

\* Time passes, but not for a read or a request that has no time left.
Tick ==
    /\ fill # 0 /\ enqueue.left # 0
    /\ age < Closed + Skew
    /\ status # "active" \/ cache + fill + enqueue.left > -2
    /\ age' = IF status = "active" THEN age ELSE age + 1
    /\ cache' = Less(cache)
    /\ fill' = Less(fill)
    /\ enqueue' = [enqueue EXCEPT !.left = Less(@)]
    /\ UNCHANGED <<status, request, job, targets, worker, data, lease, pass, batch, overran,
                   faults>>

-----------------------------------------------------------------------------
(* The ingest worker, with one batch of the site's events. *)

\* registerBatchSites: decided on the site's row as it is now; a row that is there
\* already stays as it is.
Registers ==
    IF status = "active"
    THEN [batch EXCEPT !.pc = "insert", !.ledger = IF @ = "none" THEN "registered" ELSE @]
    ELSE [batch EXCEPT !.pc = "ack", !.ledger = IF @ = "none" THEN "dropped" ELSE @]

\* The batch's entries are read from the stream and registered before the insert.
Register ==
    /\ batch.entry = "pending" /\ batch.pc = "idle" /\ data["queue_index"] # {}
    /\ batch' = Registers
    /\ UNCHANGED <<status, request, job, targets, worker, data, lease, pass, cache, fill,
                   enqueue, age, overran, faults>>

Insert ==
    /\ batch.pc = "insert"
    /\ batch' = [batch EXCEPT !.pc = "ack"]
    /\ data' = [data EXCEPT !["events_raw"] = @ \union {"fresh"}]
    /\ UNCHANGED <<status, request, job, targets, worker, lease, pass, cache, fill, enqueue,
                   age, overran, faults>>

\* markCompleted settles the registration.
Ack ==
    /\ batch.pc = "ack"
    /\ batch' = [batch EXCEPT !.pc = "idle", !.entry = "none",
                              !.ledger = IF @ = "registered" THEN "written" ELSE @]
    /\ UNCHANGED <<status, request, job, targets, worker, data, lease, pass, cache, fill,
                   enqueue, age, overran, faults>>

\* An attempt fails or its worker dies; the batch is read again later.
AttemptFails ==
    /\ Fault
    /\ batch.pc # "idle"
    /\ batch' = [batch EXCEPT !.pc = "idle"]
    /\ UNCHANGED <<status, request, job, targets, worker, data, lease, pass, cache, fill,
                   enqueue, age, overran>>

\* markDeadLettered settles it too, as abandoned.
DeadLetter ==
    /\ Fault
    /\ batch.entry = "pending"
    /\ batch' = [batch EXCEPT !.pc = "idle", !.entry = "dead",
                              !.ledger = IF @ = "registered" THEN "abandoned" ELSE @]
    /\ UNCHANGED <<status, request, job, targets, worker, data, lease, pass, cache, fill,
                   enqueue, age, overran>>

\* replayDeadLettered discards what the fence decided.
Replay ==
    /\ batch.entry = "dead"
    /\ batch' = [batch EXCEPT !.entry = "pending", !.ledger = "none"]
    /\ UNCHANGED <<status, request, job, targets, worker, data, lease, pass, cache, fill,
                   enqueue, age, overran, faults>>

\* The batch's lease runs out while its worker is about to insert: another worker
\* takes the batch over, and the first one inserts some time later.
Overrun ==
    /\ Fault
    /\ batch.pc = "insert" /\ ~batch.late
    /\ batch' = [batch EXCEPT !.pc = "idle", !.late = TRUE]
    /\ overran' = TRUE
    /\ UNCHANGED <<status, request, job, targets, worker, data, lease, pass, cache, fill,
                   enqueue, age>>

LateInsert ==
    /\ batch.late
    /\ batch' = [batch EXCEPT !.late = FALSE]
    /\ data' = [data EXCEPT !["events_raw"] = @ \union {"fresh"}]
    /\ UNCHANGED <<status, request, job, targets, worker, lease, pass, cache, fill, enqueue,
                   age, overran, faults>>

-----------------------------------------------------------------------------
(* The session finalizer, with one pass over the site. *)

\* runOnce keeps the sites that may be finalized when the pass begins.
Discover ==
    /\ pass = "idle" /\ status = "active"
    /\ pass' = "listed"
    /\ UNCHANGED <<status, request, job, targets, worker, data, lease, cache, fill, enqueue,
                   age, batch, overran, faults>>

\* finalizeSite claims the site, or skips it.
ClaimSite ==
    /\ pass = "listed"
    /\ IF Takeable(Finalizer)
       THEN lease' = Taken(Finalizer) /\ pass' = "claimed"
       ELSE pass' = "idle" /\ UNCHANGED lease
    /\ UNCHANGED <<status, request, job, targets, worker, data, cache, fill, enqueue, age,
                   batch, overran, faults>>

\* advance and release: the row's holder only.
Release == lease' = IF lease.by = Finalizer THEN [lease EXCEPT !.by = Nobody, !.live = FALSE] ELSE lease

\* Mutant: the site's status is not read again after the claim.
Recheck_Skipped ==
    /\ pass = "claimed"
    /\ pass' = "cleared"
    /\ UNCHANGED <<status, request, job, targets, worker, data, lease, cache, fill, enqueue,
                   age, batch, overran, faults>>

\* filterFinalizable once more, now that the lease is held.
Recheck ==
    /\ pass = "claimed"
    /\ IF status = "active"
       THEN pass' = "cleared" /\ UNCHANGED lease
       ELSE pass' = "idle" /\ Release
    /\ UNCHANGED <<status, request, job, targets, worker, data, cache, fill, enqueue, age,
                   batch, overran, faults>>

\* The facts and rollups of the window.
WriteFacts ==
    /\ pass = "cleared"
    /\ pass' = "written"
    /\ data' = [data EXCEPT !["session_facts"] = @ \union {"fresh"}]
    /\ UNCHANGED <<status, request, job, targets, worker, lease, cache, fill, enqueue, age,
                   batch, overran, faults>>

\* The pass is over: nothing had to be written, or it advances, or it failed.
EndPass ==
    /\ pass \in {"cleared", "written"}
    /\ pass' = "idle"
    /\ Release
    /\ UNCHANGED <<status, request, job, targets, worker, data, cache, fill, enqueue, age,
                   batch, overran, faults>>

\* The finalizer's process dies.
PassDies ==
    /\ Fault
    /\ pass # "idle"
    /\ pass' = "idle"
    /\ UNCHANGED <<status, request, job, targets, worker, data, lease, cache, fill, enqueue,
                   age, batch, overran>>

\* The site's lease runs out, for a pass that still runs too: nothing renews it.
LeaseLapses ==
    /\ lease.live
    /\ lease' = [lease EXCEPT !.live = FALSE]
    /\ IF lease.by = Finalizer /\ pass \in {"claimed", "cleared", "written"}
       THEN overran' = TRUE /\ Fault
       ELSE UNCHANGED <<overran, faults>>
    /\ UNCHANGED <<status, request, job, targets, worker, data, pass, cache, fill, enqueue,
                   age, batch>>

-----------------------------------------------------------------------------
Executes(w) ==
    \/ Claim(w) \/ Enter(w) \/ Settle(w) \/ Notify(w)
    \/ FenceDrain(w) \/ FinalizerFence(w) \/ List(w) \/ HoldAndList(w) \/ HoldIfOutstanding(w)
    \/ \E t \in AllTargets : Purge(w, t) \/ Submit(w, t) \/ Poll(w, t)
    \/ Count(w) \/ Complete(w) \/ EndPhase(w) \/ VerifyFinalize(w)

Collects == Remember \/ RunScript \/ Touch
Ingests == Register \/ Insert \/ Ack \/ LateInsert
Finalizes == ClaimSite \/ Recheck \/ WriteFacts \/ EndPass

Next ==
    \/ Start \/ Revive
    \/ \E w \in Workers : Executes(w) \/ Throw(w) \/ Crash(w) \/ Unavailable(w)
    \/ Lapse \/ LeaseLapses
    \/ \E t \in ClickHouse : MutationRuns(t)
    \/ Fetch \/ Admit \/ Collects \/ Tick
    \/ Ingests \/ AttemptFails \/ DeadLetter \/ Replay \/ Overrun
    \/ Discover \/ Finalizes \/ PassDies

Spec == Init /\ [][Next]_vars

\* Processes that run take their next step, leases run out unless renewed, time
\* passes, ClickHouse performs what was submitted, a customer who is told that the
\* deletion failed asks again.
Fairness ==
    /\ \A w \in Workers : WF_vars(Executes(w))
    /\ WF_vars(Revive) /\ WF_vars(Lapse) /\ WF_vars(LeaseLapses)
    /\ \A t \in ClickHouse : WF_vars(MutationRuns(t))
    /\ WF_vars(Collects) /\ WF_vars(Tick) /\ WF_vars(Ingests) /\ WF_vars(Finalizes)

FairSpec == Spec /\ Fairness

-----------------------------------------------------------------------------
(* Properties. *)

\* Every variable holds a value of its kind: a target is pending, running or
\* completed, a job's phase one of the seven, a lease of the finalizer's row nobody's,
\* the finalizer's or a job's.
TypeOK ==
    /\ status \in {"active", "deleting", "deleted"}
    /\ request \in {"none", "pending", "running", "failed", "completed"}
    /\ job \in [id : Nat, status : {"absent", "queued", "running", "succeeded", "dead"},
                phase : 1 .. 7, owner : Workers \union {NoWorker}, live : BOOLEAN,
                attempts : 0 .. MaxAttempts]
    /\ targets \in [AllTargets -> [phase : {"pending", "running", "completed"},
                                   verified : BOOLEAN, mutation : BOOLEAN]]
    /\ worker \in [Workers -> [pc : {"idle", "enter", "run", "target", "count", "purged",
                                     "settle", "notify"},
                               id : Nat, phase : 1 .. 7, todo : Seq(AllTargets),
                               seen : SUBSET AllTargets, waits : BOOLEAN, reported : BOOLEAN]]
    /\ data \in [AllTargets -> SUBSET {"covered", "fresh"}]
    /\ lease \in [row : BOOLEAN, by : Nat \union {Nobody}, live : BOOLEAN]
    /\ pass \in {"idle", "listed", "claimed", "cleared", "written"}
    /\ cache \in 0 .. CacheTTL /\ fill \in -1 .. FillTime
    /\ enqueue \in [left : -1 .. RequestTime, stage : {"none", "admitted", "appended"}]
    /\ age \in 0 .. Closed + Skew
    /\ batch \in [entry : {"none", "pending", "dead"},
                  ledger : {"none", "registered", "dropped", "written", "abandoned"},
                  pc : {"idle", "insert", "ack"}, late : BOOLEAN]
    /\ overran \in BOOLEAN
    /\ faults \in Nat

\* A target that was verified stays empty, whoever verified it and whoever still
\* runs, and the tombstone is written over verified targets only.
VerifiedIsGone ==
    overran \/ \A t \in AllTargets :
        targets[t].verified \/ status = "deleted" => data[t] = {}

\* Once the drain is over no event of the site enters a store, and none leaves
\* Redis for ClickHouse.
DrainClosesIngest ==
    [][~overran /\ request \in {"running", "completed"} =>
         \A t \in {"queue_index", "realtime_presence", "events_raw"} :
            "fresh" \in data'[t] => "fresh" \in data[t]]_vars

\* A completed deletion is final: no late hook and no worker that lost its job
\* takes it back.
CompletedIsFinal ==
    [][/\ request = "completed" => request' = "completed"
       /\ status = "deleted" => status' = "deleted"]_vars

\* The job died after it had deleted the memberships: nobody is left whom the
\* route lets ask again.
Orphaned == status = "deleting" /\ ~JobIsLive /\ data["site_members"] = {}

\* A deletion that was started is finished, whatever fails on the way, unless it
\* is orphaned.
DeletionFinishes == status = "deleting" ~> status = "deleted" \/ Orphaned

=============================================================================
