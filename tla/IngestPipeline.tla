--------------------------- MODULE IngestPipeline ---------------------------
(***************************************************************************)
(* The worker's ingest pipeline: consumer loop, batch manifest, ClickHouse *)
(* insert, usage ledger, acknowledgement and dead letter.                  *)
(*                                                                         *)
(* Source: apps/worker/src/ingest/{loop,pipeline}.ts, the manifest and     *)
(* fence repository packages/postgres/src/repositories/ingest-batches.ts,  *)
(* the usage ledger repositories/usage.ts, the stream consumer             *)
(* packages/redis/src/{consumer,maintenance}.ts and the insert path        *)
(* packages/clickhouse/src/ingest.ts.                                      *)
(*                                                                         *)
(* Several workers share one Valkey stream, one Postgres and one           *)
(* ClickHouse.  Every awaited call of the code is one action; what runs    *)
(* between two awaits is folded into the action before it.  A call that    *)
(* fails, a worker that dies and a request that times out while the server *)
(* still executes it are actions of their own.  Time is not measured: a    *)
(* lease, a backoff and an idle timer may run out at any moment.           *)
(*                                                                         *)
(* A message is its stream position (a natural number); a batch is the set *)
(* of its messages, because deriveBatchId is a function of the message     *)
(* list and both XREADGROUP and XAUTOCLAIM return stream order.            *)
(***************************************************************************)
EXTENDS Naturals

CONSTANTS
    Workers,      \* worker processes (consumer names)
    NoWorker,     \* claimed_by is null
    Msgs,         \* stream ids, positive naturals
    Sites,        \* site ids
    SiteOf,       \* the site each message belongs to
    TextRank,     \* the rank of a stream id in the database's text order
    Deletable,    \* bound: sites whose deletion may start in one behaviour
    MaxAttempts,  \* WORKER_BATCH_MAX_ATTEMPTS
    Horizon,      \* ids up to here are older than ACKED_QUEUE_RETENTION_DAYS
    MaxFaults,    \* bound: failed calls and crashes in one behaviour
    MaxReplays,   \* bound: operator replays of dead-lettered batches
    LateReplay    \* a replay may come after the deduplication window rolled over

ASSUME MsgsAssumption == Msgs \subseteq Nat \ {0}
ASSUME SitesAssumption == SiteOf \in [Msgs -> Sites] /\ Deletable \subseteq Sites
ASSUME TextRankAssumption ==
    /\ TextRank \in [Msgs -> Nat]
    /\ \A m, n \in Msgs : TextRank[m] = TextRank[n] => m = n
ASSUME WorkersAssumption == NoWorker \notin Workers
ASSUME BoundsAssumption ==
    /\ MaxAttempts \in Nat \ {0}
    /\ Horizon \in Nat
    /\ MaxFaults \in Nat
    /\ MaxReplays \in Nat
    /\ LateReplay \in BOOLEAN

VARIABLES
    undelivered, \* entries after the group's last-delivered-id
    stream,      \* entries present in the stream
    pel,         \* entries delivered to some consumer and not acknowledged
    dlq,         \* messages copied to the dead-letter stream
    trimming,    \* ids below the MINID a retention trim computed, not yet trimmed
    manifest,    \* ingest_batches, one row per batch ("absent": no row)
    fence,       \* ingest_batch_sites
    site,        \* sites.status
    applied,     \* usage_batches: batches whose usage transaction committed
    billed,      \* units usage_batch_deltas holds for each message
    rows,        \* copies of each message in events_raw
    tokens,      \* insert_deduplication_tokens ClickHouse remembers
    requests,    \* insert requests the server may still execute
    pc,          \* the call each worker makes next
    phase,       \* the part of tick() it is in
    held,        \* its OpenBatch
    queue,       \* processMessages: messages not yet planned
    todo,        \* recoverManifests: manifests listed, then loaded, not yet claimed
    run,         \* runManifest: the snapshot being run and its locals
    faults, replays

valkey == <<undelivered, stream, pel, dlq, trimming>>
ledger == <<applied, billed>>
clickhouse == <<rows, tokens, requests>>
loop == <<phase, held, queue, todo>>
bounds == <<faults, replays>>
vars == <<valkey, manifest, fence, site, ledger, clickhouse, pc, loop, run, bounds>>

Batches == (SUBSET Msgs) \ {{}}

\* Mutant: listRunnableManifests forgets the batches that only lack the XACK.
Runnable_NotUsageRecorded == {"pending", "inserting", "inserted"}
Runnable == {"pending", "inserting", "inserted", "usage_recorded"}
Terminal == {"completed", "dead_lettered"}
BatchStates == Runnable \union Terminal
FenceStates == {"none", "registered", "dropped", "written", "abandoned"}
Phases == {"recover", "reclaim", "read"}

\* The calls inside runManifest's try block: a failure of one of them goes to
\* handleFailure.
TryCalls == {"load", "mark_inserting", "await_insert", "mark_inserted",
             "settle", "apply_usage", "mark_usage", "ack", "complete"}
\* The calls outside it: a failure of one of them ends the tick.
TickCalls == {"list", "claim", "reclaim", "read", "plan", "snapshot", "ack_again",
              "publish", "dead_letter", "ack_dead", "mark_failed"}
Calls == TryCalls \union TickCalls

NoRow == [state |-> "absent", attempts |-> 0, owner |-> NoWorker,
          lease |-> "none", waiting |-> FALSE]
NoRun == [batch |-> {}, state |-> "pending", attempts |-> 0,
          writable |-> {}, ambiguous |-> TRUE]

Exists(b) == manifest[b].state # "absent"

\* registerBatchSites admits a site unless it is being deleted.  The
\* generation test cannot refuse more: the only write that moves a site's
\* ingest_generation is the one that moves its status to "deleting".
Admitted(m) == site[SiteOf[m]] = "active"

\* What a load of the batch followed by the fence lets through.
Admissible(b) == {m \in b \cap stream : Admitted(m)}

-----------------------------------------------------------------------------
Init ==
    /\ undelivered = Msgs
    /\ stream = Msgs
    /\ pel = {}
    /\ dlq = {}
    /\ trimming = {}
    /\ manifest = [b \in Batches |-> NoRow]
    /\ fence = [b \in Batches |-> [s \in Sites |-> "none"]]
    /\ site = [s \in Sites |-> "active"]
    /\ applied = {}
    /\ billed = [m \in Msgs |-> 0]
    /\ rows = [m \in Msgs |-> 0]
    /\ tokens = {}
    /\ requests = {}
    /\ pc = [w \in Workers |-> "list"]
    /\ phase = [w \in Workers |-> "recover"]
    /\ held = [w \in Workers |-> {}]
    /\ queue = [w \in Workers |-> {}]
    /\ todo = [w \in Workers |-> {}]
    /\ run = [w \in Workers |-> NoRun]
    /\ faults = 0
    /\ replays = 0

-----------------------------------------------------------------------------
(* Control of one worker. *)

Goto(w, call) == pc' = [pc EXCEPT ![w] = call]

\* Where a worker goes when runManifest returned, whatever its outcome.
AfterRun(w) ==
    CASE phase[w] = "recover" -> IF todo[w] = {} THEN "reclaim" ELSE "claim"
      [] phase[w] # "recover" /\ queue[w] # {} -> "plan"
      [] phase[w] = "reclaim" /\ queue[w] = {} -> "read"
      [] phase[w] = "read" /\ queue[w] = {} -> "list"

Finish(w) ==
    /\ Goto(w, AfterRun(w))
    /\ run' = [run EXCEPT ![w] = NoRun]
    /\ phase' = [phase EXCEPT ![w] = IF AfterRun(w) = "list" THEN "recover" ELSE @]
    /\ UNCHANGED <<held, queue, todo>>

\* Mutant: the payloads are not copied before the batch is given up.
FailRun_NoCopy(w, ambiguous) ==
    /\ Goto(w, IF run[w].attempts + 1 >= MaxAttempts THEN "dead_letter" ELSE "mark_failed")
    /\ run' = [run EXCEPT ![w].ambiguous = ambiguous]
    /\ UNCHANGED loop

\* Mutant: one attempt too few.
FailRun_Early(w, ambiguous) ==
    /\ Goto(w, IF run[w].attempts + 2 >= MaxAttempts THEN "publish" ELSE "mark_failed")
    /\ run' = [run EXCEPT ![w].ambiguous = ambiguous]
    /\ UNCHANGED loop

\* handleFailure: the attempt count is the snapshot's, not the row's.
FailRun(w, ambiguous) ==
    /\ Goto(w, IF run[w].attempts + 1 >= MaxAttempts THEN "publish" ELSE "mark_failed")
    /\ run' = [run EXCEPT ![w].ambiguous = ambiguous]
    /\ UNCHANGED loop

\* An error that escapes tick(): the loop backs off and starts a new tick.  The
\* OpenBatch survives; what was drained from it stays pending in the queue.
AbandonTick(w) ==
    /\ Goto(w, "list")
    /\ phase' = [phase EXCEPT ![w] = "recover"]
    /\ queue' = [queue EXCEPT ![w] = {}]
    /\ todo' = [todo EXCEPT ![w] = {}]
    /\ run' = [run EXCEPT ![w] = NoRun]
    /\ UNCHANGED held

\* Requests a worker still waits for, and what becomes of them when it stops
\* waiting: the server may execute them all the same.
RequestsOf(w) == {r \in requests : r.by = w}
Abandon(w) ==
    requests' = {IF r.by = w THEN [r EXCEPT !.by = NoWorker] ELSE r : r \in requests}

\* transition(): the legal source states are part of the UPDATE's predicate.
Transition(b, from, row) ==
    /\ manifest[b].state \in from
    /\ manifest' = [manifest EXCEPT ![b] = row]

Settle(b, to) ==
    fence' = [fence EXCEPT ![b] =
                [s \in Sites |-> IF fence[b][s] = "registered" THEN to ELSE fence[b][s]]]

-----------------------------------------------------------------------------
(* tick(): recover, reclaim, read. *)

\* listRunnableManifests, its query: the ids of the unfinished batches whose
\* backoff has passed and whose lease is free.
ListRunnable(w) ==
    /\ pc[w] = "list"
    /\ LET due == {b \in Batches : /\ manifest[b].state \in Runnable
                                   /\ ~manifest[b].waiting
                                   /\ manifest[b].lease # "live"}
       IN  /\ todo' = [todo EXCEPT ![w] =
                         {[batch |-> b, state |-> "listed", attempts |-> 0] : b \in due}]
           /\ Goto(w, IF due = {} THEN "reclaim" ELSE "claim")
    /\ UNCHANGED <<valkey, manifest, fence, site, ledger, clickhouse, phase, held, queue, run,
                   bounds>>

\* listRunnableManifests, its loop: each of them is loaded on its own, as it reads
\* by then.  The snapshots are run later.
LoadListed(w) ==
    /\ pc[w] = "claim"
    /\ \E t \in todo[w] :
         /\ t.state = "listed"
         /\ todo' = [todo EXCEPT ![w] =
                       (@ \ {t}) \union {[batch |-> t.batch, state |-> manifest[t.batch].state,
                                         attempts |-> manifest[t.batch].attempts]}]
    /\ UNCHANGED <<valkey, manifest, fence, site, ledger, clickhouse, pc, phase, held, queue,
                   run, bounds>>

RecoveryAction(state) ==
    IF state \in {"pending", "inserting"} THEN "insert"
    ELSE IF state = "inserted" THEN "record_usage"
    ELSE IF state = "usage_recorded" THEN "ack"
    ELSE "none"

\* claimManifest does not look at the state, so the row may have moved on.
Claimable(w, b) ==
    manifest[b].owner \in {NoWorker, w} \/ manifest[b].lease # "live"

Claim(w) ==
    /\ pc[w] = "claim"
    /\ \A t \in todo[w] : t.state # "listed"
    /\ \E t \in todo[w] :
         /\ todo' = [todo EXCEPT ![w] = @ \ {t}]
         /\ IF Claimable(w, t.batch)
            THEN /\ manifest' = [manifest EXCEPT ![t.batch].owner = w,
                                                 ![t.batch].lease = "live"]
                 /\ run' = [run EXCEPT ![w] =
                              [NoRun EXCEPT !.batch = t.batch, !.state = t.state,
                                            !.attempts = t.attempts]]
                 /\ Goto(w, IF RecoveryAction(t.state) = "none" THEN "ack_again" ELSE "load")
            ELSE /\ Goto(w, IF todo[w] = {t} THEN "reclaim" ELSE "claim")
                 /\ UNCHANGED <<manifest, run>>
    /\ UNCHANGED <<valkey, fence, site, ledger, clickhouse, phase, held, queue, bounds>>

\* XAUTOCLAIM: the pending entries `idle` have been idle long enough.  Those
\* whose payload is gone leave the pending list with the call.
Reclaim(w, idle) ==
    /\ pc[w] = "reclaim"
    /\ pel' = pel \ (idle \ stream)
    /\ queue' = [queue EXCEPT ![w] = idle \cap stream]
    /\ phase' = [phase EXCEPT ![w] = "reclaim"]
    /\ Goto(w, IF idle \cap stream = {} THEN "read" ELSE "plan")
    /\ UNCHANGED <<undelivered, stream, dlq, trimming, manifest, fence, site, ledger,
                   clickhouse, held, todo, run, bounds>>

\* XREADGROUP > hands over the oldest undelivered entries (none on an idle
\* poll); the flush rule then closes the open batch or keeps it for a later
\* tick.
Read(w, got, flush) ==
    /\ pc[w] = "read"
    /\ \A m \in got, n \in undelivered \ got : m < n
    /\ undelivered' = undelivered \ got
    /\ pel' = pel \union got
    /\ flush => held[w] \union got # {}
    /\ IF flush
       THEN /\ queue' = [queue EXCEPT ![w] = held[w] \union got]
            /\ held' = [held EXCEPT ![w] = {}]
            /\ Goto(w, "plan")
       ELSE /\ held' = [held EXCEPT ![w] = @ \union got]
            /\ Goto(w, "list")
            /\ UNCHANGED queue
    /\ phase' = [phase EXCEPT ![w] = IF flush THEN "read" ELSE "recover"]
    /\ UNCHANGED <<stream, dlq, trimming, manifest, fence, site, ledger, clickhouse,
                   todo, run, bounds>>

-----------------------------------------------------------------------------
(* processMessages. *)

\* Mutant: a finished manifest does not own its messages any more.
Owned_Unfinished(m) == \E b \in Batches : manifest[b].state \in Runnable /\ m \in b

Owned(m) == \E b \in Batches : Exists(b) /\ m \in b

\* createOrContinueManifest: continue the manifest that owns the first of the
\* messages that have one, else create one with exactly these messages.  First
\* is ORDER BY message_id, a text column: "…-10" sorts before "…-9".  The unique
\* constraint on (stream_name, message_id) makes the choice one step.
Plan(w) ==
    /\ pc[w] = "plan"
    /\ \E b \in Batches :
         /\ IF \A m \in queue[w] : ~Owned(m)
            THEN /\ b = queue[w]
                 /\ manifest' = [manifest EXCEPT ![b] =
                                   [NoRow EXCEPT !.state = "pending", !.owner = w,
                                                 !.lease = "live"]]
            ELSE /\ Exists(b)
                 /\ \E m \in queue[w] \cap b :
                      \A n \in queue[w] : Owned(n) => TextRank[m] <= TextRank[n]
                 /\ UNCHANGED manifest
         /\ run' = [run EXCEPT ![w] = [NoRun EXCEPT !.batch = b]]
         /\ queue' = [queue EXCEPT ![w] = @ \ b]
    /\ Goto(w, "snapshot")
    /\ UNCHANGED <<valkey, fence, site, ledger, clickhouse, phase, held, todo, bounds>>

\* Mutant: a recovered "inserted" batch is acknowledged without its usage.
FirstCall_NoUsage == [insert |-> "mark_inserting", record_usage |-> "ack", ack |-> "ack"]

\* The call after loadBatch and applyFence.
FirstCall == [insert |-> "mark_inserting", record_usage |-> "settle", ack |-> "ack"]

\* loadManifest: the row as it reads now.  The lease is not asked for: a
\* continued manifest is run whoever holds it, and whatever its backoff.
Snapshot(w) ==
    /\ pc[w] = "snapshot"
    /\ LET row == manifest[run[w].batch]
       IN  /\ run' = [run EXCEPT ![w].state = row.state, ![w].attempts = row.attempts]
           /\ Goto(w, IF RecoveryAction(row.state) = "none" THEN "ack_again" ELSE "load")
    /\ UNCHANGED <<valkey, manifest, fence, site, ledger, clickhouse, loop, bounds>>

-----------------------------------------------------------------------------
(* runManifest. *)

\* Mutant: nothing to do for a terminal batch.
AckAgain_Nothing(w) ==
    /\ pc[w] = "ack_again"
    /\ Finish(w)
    /\ UNCHANGED <<valkey, manifest, fence, site, ledger, clickhouse, bounds>>

\* The batch is terminal: acknowledging again is all that is left.
AckAgain(w) ==
    /\ pc[w] = "ack_again"
    /\ pel' = pel \ run[w].batch
    /\ Finish(w)
    /\ UNCHANGED <<undelivered, stream, dlq, trimming, manifest, fence, site, ledger,
                   clickhouse, bounds>>

\* loadBatch, then applyFence: fetch the payloads that are still there, decide
\* every site's admission against the row as it is now, and record the decision
\* unless the batch already has one for the site (ON CONFLICT DO NOTHING).
Load(w) ==
    /\ pc[w] = "load"
    /\ LET b == run[w].batch
           seen == {SiteOf[m] : m \in b \cap stream}
       IN  /\ run' = [run EXCEPT ![w].writable = Admissible(b)]
           /\ fence' = [fence EXCEPT ![b] =
                [s \in Sites |->
                   IF s \in seen /\ fence[b][s] = "none"
                   THEN IF site[s] = "active" THEN "registered" ELSE "dropped"
                   ELSE fence[b][s]]]
    /\ Goto(w, FirstCall[RecoveryAction(run[w].state)])
    /\ UNCHANGED <<valkey, manifest, site, ledger, clickhouse, loop, bounds>>

\* Mutant: the insert is not waited for (async_insert without confirmation).
MarkInserting_Async(w) ==
    /\ pc[w] = "mark_inserting"
    /\ Transition(run[w].batch, {"pending", "inserting"},
          [manifest[run[w].batch] EXCEPT !.state = "inserting", !.waiting = FALSE])
    /\ requests' = IF run[w].writable = {} THEN requests
                   ELSE requests \union
                        {[by |-> NoWorker, batch |-> run[w].batch, rows |-> run[w].writable]}
    /\ Goto(w, "mark_inserted")
    /\ UNCHANGED <<valkey, fence, site, ledger, rows, tokens, loop, run, bounds>>

\* markInserting; the insert request leaves as soon as it returns, unless there
\* is no row to write.
MarkInserting(w) ==
    /\ pc[w] = "mark_inserting"
    /\ LET b == run[w].batch
       IN  /\ Transition(b, {"pending", "inserting"},
                [manifest[b] EXCEPT !.state = "inserting", !.waiting = FALSE])
           /\ requests' = IF run[w].writable = {} THEN requests
                          ELSE requests \union
                               {[by |-> w, batch |-> b, rows |-> run[w].writable]}
    /\ Goto(w, IF run[w].writable = {} THEN "mark_inserted" ELSE "await_insert")
    /\ UNCHANGED <<valkey, fence, site, ledger, rows, tokens, loop, run, bounds>>

\* Mutant: no insert_deduplication_token.
ServerExecutes_NoToken(r) ==
    /\ r \in requests
    /\ requests' = requests \ {r}
    /\ rows' = [m \in Msgs |-> IF m \in r.rows THEN rows[m] + 1 ELSE rows[m]]
    /\ tokens' = tokens \union {r.batch}
    /\ UNCHANGED <<valkey, manifest, fence, site, ledger, pc, loop, run, bounds>>

\* ClickHouse executes a request.  A token it remembers makes it a no-op.
ServerExecutes(r) ==
    /\ r \in requests
    /\ requests' = requests \ {r}
    /\ IF r.batch \in tokens
       THEN UNCHANGED <<rows, tokens>>
       ELSE /\ rows' = [m \in Msgs |-> IF m \in r.rows THEN rows[m] + 1 ELSE rows[m]]
            /\ tokens' = tokens \union {r.batch}
    /\ UNCHANGED <<valkey, manifest, fence, site, ledger, pc, loop, run, bounds>>

\* A request nobody waits for any more may never reach execution.
RequestLost(r) ==
    /\ r \in requests
    /\ r.by = NoWorker
    /\ requests' = requests \ {r}
    /\ UNCHANGED <<valkey, manifest, fence, site, ledger, rows, tokens, pc, loop, run, bounds>>

InsertConfirmed(w) ==
    /\ pc[w] = "await_insert"
    /\ RequestsOf(w) = {}
    /\ Goto(w, "mark_inserted")
    /\ UNCHANGED <<valkey, manifest, fence, site, ledger, clickhouse, loop, run, bounds>>

\* A definite failure: the request never reached execution.
InsertRefused(w) ==
    /\ pc[w] = "await_insert"
    /\ RequestsOf(w) # {}
    /\ requests' = requests \ RequestsOf(w)
    /\ faults < MaxFaults
    /\ faults' = faults + 1
    /\ FailRun(w, FALSE)
    /\ UNCHANGED <<valkey, manifest, fence, site, ledger, rows, tokens, replays>>

\* An ambiguous failure: the request may have been, or may yet be, executed.
InsertTimesOut(w) ==
    /\ pc[w] = "await_insert"
    /\ faults < MaxFaults
    /\ faults' = faults + 1
    /\ FailRun(w, TRUE)
    /\ Abandon(w)
    /\ UNCHANGED <<valkey, manifest, fence, site, ledger, rows, tokens, replays>>

MarkInserted(w) ==
    /\ pc[w] = "mark_inserted"
    /\ LET b == run[w].batch
       IN  Transition(b, {"inserting"}, [manifest[b] EXCEPT !.state = "inserted"])
    /\ Goto(w, "settle")
    /\ UNCHANGED <<valkey, fence, site, ledger, clickhouse, loop, run, bounds>>

\* Mutant: the usage transaction is left out.
SettleWritten_NoUsage(w) ==
    /\ pc[w] = "settle"
    /\ Settle(run[w].batch, "written")
    /\ Goto(w, "mark_usage")
    /\ UNCHANGED <<valkey, manifest, site, ledger, clickhouse, loop, run, bounds>>

\* markBatchSitesWritten.
SettleWritten(w) ==
    /\ pc[w] = "settle"
    /\ Settle(run[w].batch, "written")
    /\ Goto(w, "apply_usage")
    /\ UNCHANGED <<valkey, manifest, site, ledger, clickhouse, loop, run, bounds>>

\* Mutant: the deltas do not depend on the usage_batches row being new.
ApplyUsage_Unguarded(w) ==
    /\ pc[w] = "apply_usage"
    /\ applied' = applied \union {run[w].batch}
    /\ billed' = [m \in Msgs |-> IF m \in run[w].writable THEN billed[m] + 1 ELSE billed[m]]
    /\ Goto(w, "mark_usage")
    /\ UNCHANGED <<valkey, manifest, fence, site, clickhouse, loop, run, bounds>>

\* applyBatchUsage: the usage_batches row is inserted at most once, and the
\* deltas only with it.
ApplyUsage(w) ==
    /\ pc[w] = "apply_usage"
    /\ applied' = applied \union {run[w].batch}
    /\ billed' = IF run[w].batch \in applied THEN billed
                 ELSE [m \in Msgs |-> IF m \in run[w].writable THEN billed[m] + 1
                                     ELSE billed[m]]
    /\ Goto(w, "mark_usage")
    /\ UNCHANGED <<valkey, manifest, fence, site, clickhouse, loop, run, bounds>>

MarkUsageRecorded(w) ==
    /\ pc[w] = "mark_usage"
    /\ LET b == run[w].batch
       IN  Transition(b, {"inserted"}, [manifest[b] EXCEPT !.state = "usage_recorded"])
    /\ Goto(w, "ack")
    /\ UNCHANGED <<valkey, fence, site, ledger, clickhouse, loop, run, bounds>>

Ack(w) ==
    /\ pc[w] = "ack"
    /\ pel' = pel \ run[w].batch
    /\ Goto(w, "complete")
    /\ UNCHANGED <<undelivered, stream, dlq, trimming, manifest, fence, site, ledger,
                   clickhouse, loop, run, bounds>>

\* markCompleted: one transaction with the settle of what is still registered.
MarkCompleted(w) ==
    /\ pc[w] = "complete"
    /\ LET b == run[w].batch
       IN  /\ Transition(b, {"usage_recorded"},
                [manifest[b] EXCEPT !.state = "completed", !.owner = NoWorker,
                                    !.lease = "none"])
           /\ Settle(b, "written")
    /\ Finish(w)
    /\ UNCHANGED <<valkey, site, ledger, clickhouse, bounds>>

-----------------------------------------------------------------------------
(* handleFailure. *)

\* fetchByIds, then publishDeadLetter: a copy of the payloads that are left.
PublishDeadLetter(w) ==
    /\ pc[w] = "publish"
    /\ dlq' = dlq \union (run[w].batch \cap stream)
    /\ Goto(w, "dead_letter")
    /\ UNCHANGED <<undelivered, stream, pel, trimming, manifest, fence, site, ledger,
                   clickhouse, loop, run, bounds>>

\* markDeadLettered: one transaction with the settle of the open registrations.
MarkDeadLettered(w) ==
    /\ pc[w] = "dead_letter"
    /\ LET b == run[w].batch
       IN  /\ Transition(b, {"pending", "inserting", "inserted"},
                [manifest[b] EXCEPT !.state = "dead_lettered", !.owner = NoWorker,
                                    !.lease = "none"])
           /\ Settle(b, "abandoned")
    /\ Goto(w, "ack_dead")
    /\ UNCHANGED <<valkey, site, ledger, clickhouse, loop, run, bounds>>

AckDead(w) ==
    /\ pc[w] = "ack_dead"
    /\ pel' = pel \ run[w].batch
    /\ Finish(w)
    /\ UNCHANGED <<undelivered, stream, dlq, trimming, manifest, fence, site, ledger,
                   clickhouse, bounds>>

\* markAttemptFailed.  Counting stops at MaxAttempts: every test of the counter
\* is against that value.
MarkAttemptFailed(w) ==
    /\ pc[w] = "mark_failed"
    /\ LET b == run[w].batch
           row == manifest[b]
       IN  Transition(b, {"pending", "inserting", "inserted"},
             [state |-> IF run[w].ambiguous THEN "inserting" ELSE "pending",
              attempts |-> IF row.attempts < MaxAttempts THEN row.attempts + 1
                           ELSE MaxAttempts,
              owner |-> NoWorker, lease |-> "none", waiting |-> TRUE])
    /\ Finish(w)
    /\ UNCHANGED <<valkey, fence, site, ledger, clickhouse, bounds>>

\* The states each guarded UPDATE accepts.
From == [mark_inserting |-> {"pending", "inserting"},
         mark_inserted  |-> {"inserting"},
         mark_usage     |-> {"inserted"},
         complete       |-> {"usage_recorded"},
         dead_letter    |-> {"pending", "inserting", "inserted"},
         mark_failed    |-> {"pending", "inserting", "inserted"}]

\* ManifestTransitionError: another worker moved the row.
TransitionRefused(w) ==
    /\ pc[w] \in DOMAIN From
    /\ manifest[run[w].batch].state \notin From[pc[w]]
    /\ IF pc[w] \in TryCalls THEN FailRun(w, TRUE) ELSE AbandonTick(w)
    /\ UNCHANGED <<valkey, manifest, fence, site, ledger, clickhouse, bounds>>

\* A store is unreachable.  (A call that took effect but whose answer was lost
\* is the call followed by a failure of the next one.)
CallFails(w) ==
    /\ pc[w] # "await_insert"
    /\ faults < MaxFaults
    /\ faults' = faults + 1
    /\ IF pc[w] \in TryCalls THEN FailRun(w, TRUE) ELSE AbandonTick(w)
    /\ UNCHANGED <<valkey, manifest, fence, site, ledger, clickhouse, replays>>

\* The process dies and is started again: everything in memory is gone.
Crash(w) ==
    /\ faults < MaxFaults
    /\ faults' = faults + 1
    /\ Goto(w, "list")
    /\ phase' = [phase EXCEPT ![w] = "recover"]
    /\ held' = [held EXCEPT ![w] = {}]
    /\ queue' = [queue EXCEPT ![w] = {}]
    /\ todo' = [todo EXCEPT ![w] = {}]
    /\ run' = [run EXCEPT ![w] = NoRun]
    /\ Abandon(w)
    /\ UNCHANGED <<valkey, manifest, fence, site, ledger, rows, tokens, replays>>

-----------------------------------------------------------------------------
(* The world around the workers. *)

\* lease_expires_at passes.
LeaseExpires(b) ==
    /\ manifest[b].lease = "live"
    /\ manifest' = [manifest EXCEPT ![b].lease = "expired"]
    /\ UNCHANGED <<valkey, fence, site, ledger, clickhouse, pc, loop, run, bounds>>

\* next_attempt_at passes.
BackoffElapses(b) ==
    /\ manifest[b].waiting
    /\ manifest' = [manifest EXCEPT ![b].waiting = FALSE]
    /\ UNCHANGED <<valkey, fence, site, ledger, clickhouse, pc, loop, run, bounds>>

\* startSiteDeletion: status and ingest_generation move in one transaction.
StartDeletion(s) ==
    /\ s \in Deletable /\ site[s] = "active"
    /\ site' = [site EXCEPT ![s] = "deleting"]
    /\ UNCHANGED <<valkey, manifest, fence, ledger, clickhouse, pc, loop, run, bounds>>

\* replayDeadLettered, run by an operator.
Replay(b) ==
    /\ replays < MaxReplays
    /\ replays' = replays + 1
    /\ Transition(b, {"dead_lettered"},
         [manifest[b] EXCEPT !.state = "pending", !.attempts = 0, !.waiting = FALSE])
    /\ fence' = [fence EXCEPT ![b] = [s \in Sites |-> "none"]]
    /\ UNCHANGED <<valkey, site, ledger, clickhouse, pc, loop, run, faults>>

\* ClickHouse keeps the last CLICKHOUSE_DEDUP_WINDOW_BLOCKS tokens.  The policy
\* keeps the automatic retries inside that window; nothing bounds how long a
\* dead-lettered batch waits for its replay.  No request lives that long.
TokenForgotten(b) ==
    /\ LateReplay
    /\ b \in tokens
    /\ manifest[b].state = "dead_lettered"
    /\ \A r \in requests : r.batch # b
    /\ tokens' = tokens \ {b}
    /\ UNCHANGED <<valkey, manifest, fence, site, ledger, rows, requests, pc, loop, run, bounds>>

\* trimAcked, first call: XPENDING, and the MINID computed from it.  The bound
\* is the retention cutoff or the oldest pending entry, whichever is earlier.
TrimPlan ==
    /\ trimming = {}
    /\ trimming' = {m \in stream : m <= Horizon /\ \A p \in pel : m < p}
    /\ trimming' # {}
    /\ UNCHANGED <<undelivered, stream, pel, dlq, manifest, fence, site, ledger, clickhouse,
                   pc, loop, run, bounds>>

\* trimAcked, second call: XTRIM MINID.
TrimApply ==
    /\ trimming # {}
    /\ stream' = stream \ trimming
    /\ undelivered' = undelivered \ trimming
    /\ trimming' = {}
    /\ UNCHANGED <<pel, dlq, manifest, fence, site, ledger, clickhouse, pc, loop, run, bounds>>

-----------------------------------------------------------------------------
Recovers(w) == ListRunnable(w) \/ LoadListed(w) \/ Claim(w)

Reads(w) == \E got \in SUBSET undelivered, flush \in BOOLEAN : Read(w, got, flush)

Reclaims(w) == \E idle \in SUBSET pel : Reclaim(w, idle)

RunsManifest(w) ==
    \/ Plan(w) \/ Snapshot(w) \/ AckAgain(w) \/ Load(w)
    \/ MarkInserting(w) \/ InsertConfirmed(w) \/ MarkInserted(w) \/ SettleWritten(w)
    \/ ApplyUsage(w) \/ MarkUsageRecorded(w) \/ Ack(w) \/ MarkCompleted(w)
    \/ PublishDeadLetter(w) \/ MarkDeadLettered(w) \/ AckDead(w)
    \/ MarkAttemptFailed(w) \/ TransitionRefused(w)

Faults(w) == InsertRefused(w) \/ InsertTimesOut(w) \/ CallFails(w) \/ Crash(w)

Server == \E r \in requests : ServerExecutes(r) \/ RequestLost(r)

Clock == \E b \in Batches : LeaseExpires(b) \/ BackoffElapses(b)

Operator ==
    \/ \E s \in Sites : StartDeletion(s)
    \/ \E b \in Batches : Replay(b) \/ TokenForgotten(b)

Trim == TrimPlan \/ TrimApply

Next ==
    \/ \E w \in Workers : Recovers(w) \/ Reclaims(w) \/ Reads(w) \/ RunsManifest(w) \/ Faults(w)
    \/ Server \/ Clock \/ Operator \/ Trim

Spec == Init /\ [][Next]_vars

\* What the processes and the clock guarantee.  A worker that is up runs its
\* loop.  A read is sure to return only while the open batch is empty: with
\* messages in it the remaining block time can reach 0, which XREADGROUP takes
\* as "for ever" (module OpenBatch).  XAUTOCLAIM hands over, sooner or later,
\* an entry that stays pending.  Leases and backoffs run out, and ClickHouse
\* answers a request somebody waits for.
Fairness ==
    /\ \A w \in Workers :
         /\ WF_vars(Recovers(w) \/ Reclaims(w) \/ (held[w] = {} /\ Reads(w)) \/ RunsManifest(w))
         /\ \A m \in Msgs : SF_vars(\E idle \in SUBSET pel : m \in idle /\ Reclaim(w, idle))
    /\ \A b \in Batches : WF_vars(LeaseExpires(b)) /\ WF_vars(BackoffElapses(b))
    /\ WF_vars(\E r \in requests : r.by # NoWorker /\ ServerExecutes(r))

FairSpec == Spec /\ Fairness

-----------------------------------------------------------------------------
(* Properties. *)

RowType == [state : BatchStates \union {"absent"}, attempts : 0 .. MaxAttempts,
            owner : Workers \union {NoWorker}, lease : {"none", "live", "expired"},
            waiting : BOOLEAN]

RunType == [batch : SUBSET Msgs, state : BatchStates \union {"absent"},
            attempts : 0 .. MaxAttempts, writable : SUBSET Msgs, ambiguous : BOOLEAN]

ListedType == [batch : Batches, state : BatchStates \union {"listed"},
               attempts : 0 .. MaxAttempts]

\* The shape of the state.  Two parts of it are more than types: a trim takes an
\* entry out of the undelivered ones too, and an entry is handed to a first
\* consumer only once (read() asks for ">").
TypeOK ==
    /\ undelivered \subseteq stream /\ stream \subseteq Msgs
    /\ pel \subseteq Msgs /\ pel \intersect undelivered = {}
    /\ dlq \subseteq Msgs /\ trimming \subseteq Msgs
    /\ manifest \in [Batches -> RowType]
    /\ fence \in [Batches -> [Sites -> FenceStates]]
    /\ site \in [Sites -> {"active", "deleting"}]
    /\ applied \subseteq Batches
    /\ billed \in [Msgs -> Nat]
    /\ rows \in [Msgs -> Nat]
    /\ tokens \subseteq Batches
    /\ requests \subseteq [by : Workers \union {NoWorker}, batch : Batches, rows : SUBSET Msgs]
    /\ pc \in [Workers -> Calls]
    /\ phase \in [Workers -> Phases]
    /\ held \in [Workers -> SUBSET Msgs]
    /\ queue \in [Workers -> SUBSET Msgs]
    /\ todo \in [Workers -> SUBSET ListedType]
    /\ run \in [Workers -> RunType]
    /\ faults \in Nat /\ replays \in Nat

Settled(m) == m \in dlq \/ (rows[m] >= 1 /\ billed[m] >= 1)

\* The queue forgets nothing: an entry that was delivered and is no longer
\* pending has its row in events_raw and its unit in the usage ledger, or it is
\* in the dead-letter stream; whatever the workers, their crashes, timeouts and
\* lost leases did in between.  Entries of a site under deletion may be dropped.
AckedIsSettled ==
    \A m \in stream \ (undelivered \union pel) : Admitted(m) => Settled(m)

\* ClickHouse holds an event once, however many workers insert it, however often
\* a request that timed out is executed after all, and however the entries are
\* split among reads and reclaims.  Only a replay after the deduplication window
\* rolled over may store it once more.
RowAtMostOnce ==
    \A m \in Msgs : rows[m] <= 1 + (IF LateReplay THEN replays ELSE 0)

\* An event is billed at most once, and only when its row is stored.  (A replay
\* of a batch whose entries were trimmed inserts the ones that are left, while a
\* worker that still holds a copy of the others may bill them: hence "stream".)
BilledOnceAndStored ==
    \A m \in Msgs :
      /\ billed[m] <= 1
      /\ billed[m] = 1 /\ m \in stream /\ Admitted(m) => rows[m] >= 1

\* What the reconciliation job compares: when a manifest is completed, every
\* event it names has its row and its billed unit.
CompletedReconciles ==
    \A b \in Batches : manifest[b].state = "completed" =>
        \A m \in Admissible(b) : rows[m] >= 1 /\ billed[m] >= 1

\* Retries are exhausted before a batch is given up: handleFailure decides on
\* the attempt count of a snapshot, which may be older than the row.  (A replay
\* resets the row's count but not the snapshots workers hold.)
DeadLetteredAfterRetries ==
    [][\A b \in Batches :
         /\ manifest[b].state # "dead_lettered"
         /\ manifest'[b].state = "dead_lettered"
         /\ replays = 0
         => manifest[b].attempts + 1 >= MaxAttempts]_vars

\* No entry stays on the pending list for ever: a worker that died, or is stuck
\* in a read, leaves it to the reclaim of another one.
PendingIsReleased == \A m \in Msgs : m \in pel ~> m \notin pel

\* Every manifest is decided: completed, or given up.
ManifestIsDecided ==
    \A b \in Batches : Exists(b) ~> manifest[b].state \in Terminal

=============================================================================
