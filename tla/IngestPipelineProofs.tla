------------------------ MODULE IngestPipelineProofs ------------------------
(***************************************************************************)
(* Theorems of IngestPipeline, for any number of workers, messages, sites, *)
(* attempts, faults and replays.                                           *)
(*                                                                         *)
(* The argument is about knowledge that only grows.  What a load of a      *)
(* batch can still return shrinks (entries are trimmed, sites are closed,  *)
(* never the reverse) while rows, billed units and dead letters are only   *)
(* added.  So a worker may act on an old snapshot, without a lease and     *)
(* after any delay: what the snapshot said about the stores is still true. *)
(*                                                                         *)
(* The counting theorems, a row once and a unit once, rest on the          *)
(* manifests: every message has at most one, for ever, since a manifest is *)
(* created from messages that have none and none is deleted.  So whatever  *)
(* is done for a message is done under one batch id, hence under one token *)
(* and one usage row.  A batch is given up only when its retries are       *)
(* spent: the attempts a worker remembers are behind those of the row,     *)
(* which only grow until an operator replays a batch.                      *)
(***************************************************************************)
EXTENDS IngestPipeline, TLAPS

\* What the stores hold of a batch.
Stored(b) == \A m \in Admissible(b) : rows[m] >= 1
Charged(b) == \A m \in Admissible(b) : billed[m] >= 1
Copied(b) == b \cap stream \subseteq dlq

\* What the state of a manifest, or an old snapshot of it, says about them.
Tells(b, state) ==
    /\ state \in {"inserted", "usage_recorded", "completed"} => Stored(b)
    /\ state \in {"usage_recorded", "completed"} => Charged(b)
    /\ state = "dead_lettered" => Copied(b)

\* The calls at which a worker has a manifest.
RunCalls == {"snapshot", "ack_again", "load", "mark_inserting", "await_insert",
             "mark_inserted", "settle", "apply_usage", "mark_usage", "ack", "complete",
             "publish", "dead_letter", "ack_dead", "mark_failed"}

\* The calls that still use the rows the load returned.
Loaded == {"mark_inserting", "await_insert", "mark_inserted", "settle", "apply_usage"}

\* Whatever refers to a manifest refers to one that exists.
WorkerExists(w) ==
    /\ pc[w] \in RunCalls => run[w].batch \in Batches /\ Exists(run[w].batch)
    /\ pc[w] = "load" => run[w].state \in Runnable
    /\ \A t \in todo[w] : Exists(t.batch)

StoresExist ==
    /\ \A r \in requests : Exists(r.batch)
    /\ \A b \in tokens : Exists(b)
    /\ \A b \in applied : Exists(b)

RunsExist == StoresExist /\ \A w \in Workers : WorkerExists(w)

ManifestTells == \A b \in Batches : Tells(b, manifest[b].state)

TodoTells(w) == \A t \in todo[w] : Tells(t.batch, t.state)

RunTells(w) ==
    LET b == run[w].batch IN
      /\ pc[w] = "load" => Tells(b, run[w].state)
      /\ pc[w] \in Loaded => Admissible(b) \subseteq run[w].writable
      /\ pc[w] = "await_insert" =>
           Stored(b) \/ \E r \in requests : r.by = w /\ r.batch = b
      /\ pc[w] \in {"mark_inserted", "settle", "apply_usage", "mark_usage", "ack"} => Stored(b)
      /\ pc[w] \in {"mark_usage", "ack"} => Charged(b)
      /\ pc[w] \in {"dead_letter", "ack_dead"} => Copied(b)
      /\ pc[w] = "ack_again" => Copied(b) \/ (Stored(b) /\ Charged(b))

WorkersTell == \A w \in Workers : TodoTells(w) /\ RunTells(w)

StoresTell ==
    /\ \A r \in requests : Admissible(r.batch) \subseteq r.rows
    /\ \A b \in tokens : Stored(b)
    /\ \A b \in applied : Stored(b) /\ Charged(b)

KnowledgeInv == ManifestTells /\ WorkersTell /\ StoresTell
-----------------------------------------------------------------------------
(* The shape of the state. *)

LEMMA ZeroAttempts == 0 \in 0 .. MaxAttempts
BY BoundsAssumption

\* The columns an UPDATE of ingest_batches sets.
LEMMA RowUpdates ==
  ASSUME NEW row \in RowType
  PROVE  /\ \A s \in BatchStates :
              /\ [row EXCEPT !.state = s] \in RowType
              /\ [row EXCEPT !.state = s, !.owner = NoWorker, !.lease = "none"] \in RowType
              /\ [row EXCEPT !.state = s, !.waiting = FALSE] \in RowType
              /\ [row EXCEPT !.state = s, !.attempts = 0, !.waiting = FALSE] \in RowType
         /\ \A w \in Workers : [row EXCEPT !.owner = w, !.lease = "live"] \in RowType
         /\ [row EXCEPT !.lease = "expired"] \in RowType
         /\ [row EXCEPT !.waiting = FALSE] \in RowType
<1>1. ASSUME NEW s \in BatchStates
      PROVE  /\ [row EXCEPT !.state = s] \in RowType
             /\ [row EXCEPT !.state = s, !.owner = NoWorker, !.lease = "none"] \in RowType
             /\ [row EXCEPT !.state = s, !.waiting = FALSE] \in RowType
  BY DEF RowType
<1>2. ASSUME NEW s \in BatchStates
      PROVE  [row EXCEPT !.state = s, !.attempts = 0, !.waiting = FALSE] \in RowType
  BY ZeroAttempts DEF RowType
<1>3. ASSUME NEW w \in Workers
      PROVE  [row EXCEPT !.owner = w, !.lease = "live"] \in RowType
  BY DEF RowType
<1>4. [row EXCEPT !.lease = "expired"] \in RowType /\ [row EXCEPT !.waiting = FALSE] \in RowType
  BY DEF RowType
<1> QED
  BY <1>1, <1>2, <1>3, <1>4

LEMMA NoRowType == NoRow \in RowType
BY ZeroAttempts DEF NoRow, RowType

LEMMA NewRowType ==
  ASSUME NEW w \in Workers, NEW row \in RowType
  PROVE  [row EXCEPT !.state = "pending", !.owner = w, !.lease = "live"] \in RowType
BY DEF RowType, BatchStates, Runnable

LEMMA NoRunType == NoRun \in RunType
BY BoundsAssumption DEF NoRun, RunType, BatchStates, Runnable

\* A run with some fields changed.
LEMMA RunUpdates ==
  ASSUME NEW r \in RunType, NEW b \in SUBSET Msgs, NEW writable \in SUBSET Msgs,
         NEW state \in BatchStates \union {"absent"}, NEW attempts \in 0 .. MaxAttempts,
         NEW ambiguous \in BOOLEAN
  PROVE  /\ [r EXCEPT !.ambiguous = ambiguous] \in RunType
         /\ [r EXCEPT !.writable = writable] \in RunType
         /\ [r EXCEPT !.state = state, !.attempts = attempts] \in RunType
         /\ [r EXCEPT !.batch = b, !.state = state, !.attempts = attempts] \in RunType
<1>1. r = [batch |-> r.batch, state |-> r.state, attempts |-> r.attempts,
           writable |-> r.writable, ambiguous |-> r.ambiguous]
  BY DEF RunType
<1>2. /\ r.batch \in SUBSET Msgs /\ r.state \in BatchStates \union {"absent"}
      /\ r.attempts \in 0 .. MaxAttempts
      /\ r.writable \in SUBSET Msgs /\ r.ambiguous \in BOOLEAN
  BY DEF RunType
<1>3. [r EXCEPT !.ambiguous = ambiguous]
        = [batch |-> r.batch, state |-> r.state, attempts |-> r.attempts,
           writable |-> r.writable, ambiguous |-> ambiguous]
  BY <1>1
<1>4. [r EXCEPT !.writable = writable]
        = [batch |-> r.batch, state |-> r.state, attempts |-> r.attempts,
           writable |-> writable, ambiguous |-> r.ambiguous]
  BY <1>1
<1>5. [r EXCEPT !.ambiguous = ambiguous] \in RunType
  BY <1>2, <1>3 DEF RunType
<1>6. [r EXCEPT !.writable = writable] \in RunType
  BY <1>2, <1>4 DEF RunType
<1>7. [r EXCEPT !.state = state, !.attempts = attempts] \in RunType
  BY DEF RunType
<1>8. [r EXCEPT !.batch = b, !.state = state, !.attempts = attempts] \in RunType
  BY DEF RunType
<1> QED
  BY <1>5, <1>6, <1>7, <1>8

\* The run recoverManifests starts from a snapshot.
LEMMA SnapshotRun ==
  ASSUME NEW b, NEW state, NEW attempts
  PROVE  LET r == [NoRun EXCEPT !.batch = b, !.state = state, !.attempts = attempts]
         IN  r.batch = b /\ r.state = state
BY DEF NoRun

\* Control: the worker's next call, and the part of the tick it is in.
LEMMA FinishType ==
  ASSUME TypeOK, NEW w \in Workers, Finish(w)
  PROVE  /\ pc' \in [Workers -> Calls] /\ phase' \in [Workers -> Phases]
         /\ run' \in [Workers -> RunType]
         /\ UNCHANGED <<held, queue, todo>>
BY NoRunType DEF Finish, AfterRun, TypeOK, Goto, Phases, Calls, TickCalls

LEMMA FailRunType ==
  ASSUME TypeOK, NEW w \in Workers, NEW ambiguous \in BOOLEAN, FailRun(w, ambiguous)
  PROVE  /\ pc' \in [Workers -> Calls]
         /\ run' \in [Workers -> RunType]
         /\ UNCHANGED <<phase, held, queue, todo>>
<1>0. /\ run[w] \in RunType /\ run[w].state \in BatchStates \union {"absent"}
      /\ run[w].attempts \in 0 .. MaxAttempts
  BY DEF TypeOK, RunType
<1>1. [run[w] EXCEPT !.ambiguous = ambiguous] \in RunType
  BY <1>0, RunUpdates
<1>2. run' \in [Workers -> RunType]
  BY <1>1 DEF FailRun, TypeOK
<1> QED
  BY <1>2 DEF FailRun, TypeOK, Goto, Calls, TickCalls, loop

LEMMA AbandonTickType ==
  ASSUME TypeOK, NEW w \in Workers, AbandonTick(w)
  PROVE  /\ pc' \in [Workers -> Calls] /\ phase' \in [Workers -> Phases]
         /\ run' \in [Workers -> RunType]
         /\ queue' \in [Workers -> SUBSET Msgs]
         /\ todo' \in [Workers -> SUBSET ListedType]
         /\ UNCHANGED held
BY NoRunType DEF AbandonTick, TypeOK, Goto, Phases, Calls, TickCalls, ListedType

LEMMA AbandonType ==
  ASSUME TypeOK, NEW w \in Workers, Abandon(w)
  PROVE  requests' \subseteq [by : Workers \union {NoWorker}, batch : Batches,
                              rows : SUBSET Msgs]
<1> SUFFICES ASSUME NEW q \in requests'
             PROVE  q \in [by : Workers \union {NoWorker}, batch : Batches, rows : SUBSET Msgs]
  OBVIOUS
<1>1. PICK r \in requests : q = IF r.by = w THEN [r EXCEPT !.by = NoWorker] ELSE r
  BY DEF Abandon
<1>2. r \in [by : Workers \union {NoWorker}, batch : Batches, rows : SUBSET Msgs]
  BY DEF TypeOK
<1>3. [r EXCEPT !.by = NoWorker] = [by |-> NoWorker, batch |-> r.batch, rows |-> r.rows]
  BY <1>2
<1> QED
  BY <1>1, <1>2, <1>3

LEMMA TypeInit == Init => TypeOK
<1>1. Init => manifest \in [Batches -> RowType] /\ run \in [Workers -> RunType]
  BY NoRunType, NoRowType DEF Init
<1> QED
  BY <1>1 DEF Init, TypeOK, FenceStates, Phases, Calls, TickCalls

LEMMA ElementTypes ==
  ASSUME TypeOK
  PROVE  /\ \A w \in Workers : \A t \in todo[w] :
              /\ t.batch \in Batches /\ t.state \in BatchStates \union {"listed"}
              /\ t.attempts \in 0 .. MaxAttempts
         /\ \A r \in requests : r.batch \in Batches /\ r.rows \subseteq Msgs
         /\ tokens \subseteq Batches /\ applied \subseteq Batches
BY DEF TypeOK, ListedType

\* A manifest as a load finds it.
Found(b) == [batch |-> b, state |-> manifest[b].state, attempts |-> manifest[b].attempts]

LEMMA LoadListedDoes ==
  ASSUME TypeOK, RunsExist, NEW w \in Workers, LoadListed(w)
  PROVE  \E b \in Batches :
           /\ Exists(b) /\ todo'[w] \subseteq todo[w] \union {Found(b)}
           /\ todo' \in [Workers -> SUBSET ListedType]
           /\ \A u \in Workers \ {w} : todo'[u] = todo[u]
           /\ pc[w] = "claim" /\ UNCHANGED <<pc, run, manifest>>
<1> PICK t \in todo[w] :
       /\ pc[w] = "claim" /\ UNCHANGED <<pc, run, manifest>>
       /\ todo' = [todo EXCEPT ![w] = (@ \ {t}) \union {Found(t.batch)}]
  BY DEF LoadListed, Found
<1>1. t.batch \in Batches /\ Exists(t.batch)
  BY ElementTypes DEF RunsExist, WorkerExists
<1>2. Found(t.batch) \in ListedType
  <2>1. manifest[t.batch] \in RowType
    BY <1>1 DEF TypeOK
  <2> QED
    BY <1>1, <2>1 DEF Found, ListedType, RowType, Exists
<1>3. todo \in [Workers -> SUBSET ListedType]
  BY DEF TypeOK
<1> QED
  BY <1>1, <1>2, <1>3

\* What a claimed snapshot leads to.
LEMMA ActionOf ==
  ASSUME NEW state \in BatchStates
  PROVE  /\ RecoveryAction(state) = "none" => state \in Terminal
         /\ RecoveryAction(state) # "none" => state \in Runnable
BY DEF BatchStates, Runnable, Terminal, RecoveryAction

LEMMA TypeNext == TypeOK /\ RunsExist /\ [Next]_vars => TypeOK'
<1> SUFFICES ASSUME TypeOK, RunsExist, [Next]_vars PROVE TypeOK'
  OBVIOUS
<1>1. ASSUME NEW w \in Workers, ListRunnable(w)
      PROVE  TypeOK'
  <2>1. todo' \in [Workers -> SUBSET ListedType]
    <3>1. \A b \in Batches : [batch |-> b, state |-> "listed", attempts |-> 0] \in ListedType
      BY ZeroAttempts DEF ListedType
    <3>2. todo \in [Workers -> SUBSET ListedType]
      BY DEF TypeOK
    <3> QED
      BY <1>1, <3>1, <3>2 DEF ListRunnable
  <2>2. pc' \in [Workers -> Calls]
    BY <1>1 DEF ListRunnable, TypeOK, Goto, Calls, TickCalls
  <2> QED
    BY <1>1, <2>1, <2>2 DEF ListRunnable, TypeOK, valkey, ledger, clickhouse, bounds
<1>0. ASSUME NEW w \in Workers, LoadListed(w)
      PROVE  TypeOK'
  <2>1. todo' \in [Workers -> SUBSET ListedType]
    BY <1>0, LoadListedDoes
  <2> QED
    BY <1>0, <2>1 DEF LoadListed, TypeOK, valkey, ledger, clickhouse, bounds
<1>2. ASSUME NEW w \in Workers, Claim(w)
      PROVE  TypeOK'
  <2> PICK t \in todo[w] :
         /\ t.state # "listed" /\ todo' = [todo EXCEPT ![w] = @ \ {t}]
         /\ \/ /\ manifest' = [manifest EXCEPT ![t.batch].owner = w,
                                                ![t.batch].lease = "live"]
               /\ run' = [run EXCEPT ![w] =
                             [NoRun EXCEPT !.batch = t.batch, !.state = t.state,
                                           !.attempts = t.attempts]]
               /\ Goto(w, IF RecoveryAction(t.state) = "none" THEN "ack_again" ELSE "load")
            \/ /\ Goto(w, IF todo[w] = {t} THEN "reclaim" ELSE "claim")
               /\ UNCHANGED <<manifest, run>>
    BY <1>2 DEF Claim
  <2>1. /\ t.batch \in Batches /\ t.batch \subseteq Msgs
        /\ t.state \in BatchStates /\ t.attempts \in 0 .. MaxAttempts
    BY ElementTypes DEF Batches
  <2>2. [manifest[t.batch] EXCEPT !.owner = w, !.lease = "live"] \in RowType
    BY <2>1, RowUpdates DEF TypeOK
  <2>3. manifest' \in [Batches -> RowType]
    <3>1. CASE manifest' = [manifest EXCEPT ![t.batch].owner = w, ![t.batch].lease = "live"]
      <4>1. manifest' = [manifest EXCEPT ![t.batch] =
                          [manifest[t.batch] EXCEPT !.owner = w, !.lease = "live"]]
        BY <3>1
      <4>2. manifest \in [Batches -> RowType]
        BY DEF TypeOK
      <4> QED
        BY ONLY <2>1, <2>2, <4>1, <4>2
    <3>2. CASE UNCHANGED manifest
      BY <3>2 DEF TypeOK
    <3> QED
      BY <3>1, <3>2
  <2>4. [NoRun EXCEPT !.batch = t.batch, !.state = t.state, !.attempts = t.attempts] \in RunType
    BY <2>1, NoRunType, RunUpdates DEF BatchStates
  <2>5. run' \in [Workers -> RunType]
    BY <2>4 DEF TypeOK
  <2>6. pc' \in [Workers -> Calls]
    BY DEF TypeOK, Goto, Calls, TickCalls, TryCalls
  <2>7. todo' \in [Workers -> SUBSET ListedType]
    BY DEF TypeOK
  <2> QED
    BY <1>2, <2>3, <2>5, <2>6, <2>7 DEF Claim, TypeOK, valkey, ledger, clickhouse, loop, bounds
<1>3. ASSUME NEW w \in Workers, NEW idle \in SUBSET pel, Reclaim(w, idle)
      PROVE  TypeOK'
  BY <1>3
     DEF Reclaim, TypeOK, Goto, Calls, TickCalls, Phases, valkey, ledger, clickhouse, loop,
         bounds
<1>4. ASSUME NEW w \in Workers, NEW got \in SUBSET undelivered, NEW flush \in BOOLEAN,
             Read(w, got, flush)
      PROVE  TypeOK'
  <2>1. /\ undelivered' = undelivered \ got /\ pel' = pel \union got /\ stream' = stream
        /\ got \subseteq Msgs
    BY <1>4 DEF Read, TypeOK
  <2>2. /\ undelivered' \subseteq stream' /\ stream' \subseteq Msgs
        /\ pel' \subseteq Msgs /\ pel' \intersect undelivered' = {}
    BY <2>1 DEF TypeOK
  <2>3. held' \in [Workers -> SUBSET Msgs] /\ queue' \in [Workers -> SUBSET Msgs]
    <3>1. /\ held[w] \union got \in SUBSET Msgs
          /\ held \in [Workers -> SUBSET Msgs] /\ queue \in [Workers -> SUBSET Msgs]
      BY <2>1 DEF TypeOK
    <3>2. /\ held' = [held EXCEPT ![w] = IF flush THEN {} ELSE held[w] \union got]
          /\ queue' = IF flush THEN [queue EXCEPT ![w] = held[w] \union got] ELSE queue
      BY <1>4, <3>1 DEF Read
    <3> QED
      BY <3>1, <3>2
  <2>4. pc' \in [Workers -> Calls] /\ phase' \in [Workers -> Phases]
    BY <1>4 DEF Read, TypeOK, Goto, Calls, TickCalls, Phases
  <2> QED
    BY <1>4, <2>2, <2>3, <2>4 DEF Read, TypeOK, ledger, clickhouse, bounds
<1>5. ASSUME NEW w \in Workers, Plan(w)
      PROVE  TypeOK'
  <2> PICK b \in Batches :
         /\ \/ manifest' = [manifest EXCEPT ![b] =
                              [NoRow EXCEPT !.state = "pending", !.owner = w,
                                            !.lease = "live"]]
            \/ UNCHANGED manifest
         /\ run' = [run EXCEPT ![w] = [NoRun EXCEPT !.batch = b]]
         /\ queue' = [queue EXCEPT ![w] = @ \ b]
    BY <1>5 DEF Plan
  <2>1. [NoRow EXCEPT !.state = "pending", !.owner = w, !.lease = "live"] \in RowType
    BY NewRowType, NoRowType
  <2>2. manifest' \in [Batches -> RowType]
    BY <2>1 DEF TypeOK
  <2>3. [NoRun EXCEPT !.batch = b] \in RunType
    BY NoRunType DEF RunType, Batches
  <2>4. run' \in [Workers -> RunType]
    BY <2>3 DEF TypeOK
  <2> QED
    BY <1>5, <2>2, <2>4
       DEF Plan, TypeOK, Goto, Calls, TickCalls, TryCalls, valkey, ledger, clickhouse, loop,
           bounds
<1>6. ASSUME NEW w \in Workers, Snapshot(w)
      PROVE  TypeOK'
  <2>1. run[w].batch \in Batches /\ Exists(run[w].batch)
    BY <1>6 DEF RunsExist, WorkerExists, RunCalls, Snapshot
  <2>2. [run[w] EXCEPT !.state = manifest[run[w].batch].state,
                       !.attempts = manifest[run[w].batch].attempts] \in RunType
    <3>1. /\ manifest[run[w].batch].state \in BatchStates \union {"absent"}
          /\ manifest[run[w].batch].attempts \in 0 .. MaxAttempts
      BY <2>1 DEF TypeOK, RowType
    <3>2. run[w] \in RunType /\ run[w].batch \in SUBSET Msgs
      BY DEF TypeOK, RunType
    <3> QED
      BY <3>1, <3>2, RunUpdates
  <2>3. run' \in [Workers -> RunType]
    BY <1>6, <2>2 DEF Snapshot, TypeOK
  <2> QED
    BY <1>6, <2>3
       DEF Snapshot, TypeOK, Goto, Calls, TickCalls, TryCalls, valkey, ledger, clickhouse,
           loop, bounds
<1>7. ASSUME NEW w \in Workers, AckAgain(w)
      PROVE  TypeOK'
  BY <1>7, FinishType DEF AckAgain, TypeOK, valkey, ledger, clickhouse, loop, bounds
<1>8. ASSUME NEW w \in Workers, Load(w)
      PROVE  TypeOK'
  <2>1. run[w].batch \in Batches /\ Exists(run[w].batch)
    BY <1>8 DEF RunsExist, WorkerExists, RunCalls, Load
  <2>2. [run[w] EXCEPT !.writable = Admissible(run[w].batch)] \in RunType
    <3>1. /\ run[w] \in RunType /\ run[w].state \in BatchStates \union {"absent"}
          /\ run[w].attempts \in 0 .. MaxAttempts
      BY DEF TypeOK, RunType
    <3>2. Admissible(run[w].batch) \in SUBSET Msgs
      BY DEF TypeOK, Admissible
    <3> QED
      BY <3>1, <3>2, RunUpdates
  <2>3. run' \in [Workers -> RunType]
    BY <1>8, <2>2 DEF Load, TypeOK
  <2>4. fence' \in [Batches -> [Sites -> FenceStates]]
    BY <1>8 DEF Load, TypeOK, FenceStates
  <2>5. run[w].state \in Runnable
    BY <1>8 DEF Load, RunsExist, WorkerExists
  <2>6. pc' \in [Workers -> Calls]
    BY <1>8, <2>5
       DEF Load, TypeOK, RecoveryAction, FirstCall, Runnable, Goto, Calls, TickCalls, TryCalls
  <2> QED
    BY <1>8, <2>3, <2>4, <2>6 DEF Load, TypeOK, valkey, ledger, clickhouse, loop, bounds
<1>9. ASSUME NEW w \in Workers, MarkInserting(w)
      PROVE  TypeOK'
  <2>1. run[w].batch \in Batches /\ Exists(run[w].batch)
    BY <1>9 DEF RunsExist, WorkerExists, RunCalls, MarkInserting
  <2>m. manifest[run[w].batch] \in RowType
    BY <2>1 DEF TypeOK
  <2> DEFINE row == [manifest[run[w].batch] EXCEPT !.state = "inserting", !.waiting = FALSE]
  <2>2. row \in RowType
    BY <2>1, <2>m, RowUpdates DEF BatchStates, Runnable, Terminal
  <2>3. manifest' = [manifest EXCEPT ![run[w].batch] = row]
    BY <1>9 DEF MarkInserting, Transition
  <2>4. manifest' \in [Batches -> RowType]
    BY <2>2, <2>3 DEF TypeOK
  <2>5. run[w].writable \subseteq Msgs
    BY DEF TypeOK, RunType
  <2>6. requests' \subseteq [by : Workers \union {NoWorker}, batch : Batches, rows : SUBSET Msgs]
    BY <1>9, <2>1, <2>5 DEF MarkInserting, TypeOK
  <2> QED
    BY <1>9, <2>4, <2>6
       DEF MarkInserting, TypeOK, Goto, Calls, TickCalls, TryCalls, valkey, ledger,
           clickhouse, loop, bounds
<1>10. ASSUME NEW w \in Workers, InsertConfirmed(w)
      PROVE  TypeOK'
  BY <1>10
     DEF InsertConfirmed, TypeOK, Goto, Calls, TickCalls, TryCalls, valkey, ledger,
         clickhouse, loop, bounds
<1>11. ASSUME NEW w \in Workers, MarkInserted(w)
      PROVE  TypeOK'
  <2>1. run[w].batch \in Batches /\ Exists(run[w].batch)
    BY <1>11 DEF RunsExist, WorkerExists, RunCalls, MarkInserted
  <2>m. manifest[run[w].batch] \in RowType
    BY <2>1 DEF TypeOK
  <2> DEFINE row == [manifest[run[w].batch] EXCEPT !.state = "inserted"]
  <2>2. row \in RowType
    BY <2>1, <2>m, RowUpdates DEF BatchStates, Runnable, Terminal
  <2>3. manifest' = [manifest EXCEPT ![run[w].batch] = row]
    BY <1>11 DEF MarkInserted, Transition
  <2>4. manifest' \in [Batches -> RowType]
    BY <2>2, <2>3 DEF TypeOK
  <2> QED
    BY <1>11, <2>4
       DEF MarkInserted, TypeOK, Goto, Calls, TickCalls, TryCalls, valkey, ledger, clickhouse,
           loop, bounds
<1>12. ASSUME NEW w \in Workers, SettleWritten(w)
      PROVE  TypeOK'
  BY <1>12
     DEF SettleWritten, TypeOK, Goto, Calls, TickCalls, TryCalls, Settle, FenceStates, valkey,
         ledger, clickhouse, loop, bounds
<1>13. ASSUME NEW w \in Workers, ApplyUsage(w)
      PROVE  TypeOK'
  BY <1>13
     DEF ApplyUsage, TypeOK, Goto, Calls, TickCalls, TryCalls, RunsExist, WorkerExists,
         RunCalls, valkey, ledger, clickhouse, loop, bounds
<1>14. ASSUME NEW w \in Workers, MarkUsageRecorded(w)
      PROVE  TypeOK'
  <2>1. run[w].batch \in Batches /\ Exists(run[w].batch)
    BY <1>14 DEF RunsExist, WorkerExists, RunCalls, MarkUsageRecorded
  <2>m. manifest[run[w].batch] \in RowType
    BY <2>1 DEF TypeOK
  <2> DEFINE row == [manifest[run[w].batch] EXCEPT !.state = "usage_recorded"]
  <2>2. row \in RowType
    BY <2>1, <2>m, RowUpdates DEF BatchStates, Runnable, Terminal
  <2>3. manifest' = [manifest EXCEPT ![run[w].batch] = row]
    BY <1>14 DEF MarkUsageRecorded, Transition
  <2>4. manifest' \in [Batches -> RowType]
    BY <2>2, <2>3 DEF TypeOK
  <2> QED
    BY <1>14, <2>4
       DEF MarkUsageRecorded, TypeOK, Goto, Calls, TickCalls, TryCalls, valkey, ledger,
           clickhouse, loop, bounds
<1>15. ASSUME NEW w \in Workers, Ack(w)
      PROVE  TypeOK'
  BY <1>15
     DEF Ack, TypeOK, Goto, Calls, TickCalls, TryCalls, valkey, ledger, clickhouse, loop, bounds
<1>16. ASSUME NEW w \in Workers, MarkCompleted(w)
      PROVE  TypeOK'
  <2>1. run[w].batch \in Batches /\ Exists(run[w].batch)
    BY <1>16 DEF RunsExist, WorkerExists, RunCalls, MarkCompleted
  <2>m. manifest[run[w].batch] \in RowType
    BY <2>1 DEF TypeOK
  <2> DEFINE row == [manifest[run[w].batch] EXCEPT !.state = "completed",
                                                  !.owner = NoWorker, !.lease = "none"]
  <2>2. row \in RowType
    BY <2>1, <2>m, RowUpdates DEF BatchStates, Runnable, Terminal
  <2>3. manifest' = [manifest EXCEPT ![run[w].batch] = row]
    BY <1>16 DEF MarkCompleted, Transition
  <2>4. manifest' \in [Batches -> RowType]
    BY <2>2, <2>3 DEF TypeOK
  <2> QED
    BY <1>16, <2>4, FinishType
       DEF MarkCompleted, TypeOK, Settle, FenceStates, valkey, ledger, clickhouse, loop, bounds
<1>17. ASSUME NEW w \in Workers, PublishDeadLetter(w)
      PROVE  TypeOK'
  BY <1>17
     DEF PublishDeadLetter, TypeOK, Goto, Calls, TickCalls, TryCalls, valkey, ledger,
         clickhouse, loop, bounds
<1>18. ASSUME NEW w \in Workers, MarkDeadLettered(w)
      PROVE  TypeOK'
  <2>1. run[w].batch \in Batches /\ Exists(run[w].batch)
    BY <1>18 DEF RunsExist, WorkerExists, RunCalls, MarkDeadLettered
  <2>m. manifest[run[w].batch] \in RowType
    BY <2>1 DEF TypeOK
  <2> DEFINE row == [manifest[run[w].batch] EXCEPT !.state = "dead_lettered",
                                                  !.owner = NoWorker, !.lease = "none"]
  <2>2. row \in RowType
    BY <2>1, <2>m, RowUpdates DEF BatchStates, Runnable, Terminal
  <2>3. manifest' = [manifest EXCEPT ![run[w].batch] = row]
    BY <1>18 DEF MarkDeadLettered, Transition
  <2>4. manifest' \in [Batches -> RowType]
    BY <2>2, <2>3 DEF TypeOK
  <2> QED
    BY <1>18, <2>4
       DEF MarkDeadLettered, TypeOK, Settle, FenceStates, Goto, Calls, TickCalls, TryCalls,
           valkey, ledger, clickhouse, loop, bounds
<1>19. ASSUME NEW w \in Workers, AckDead(w)
      PROVE  TypeOK'
  BY <1>19, FinishType DEF AckDead, TypeOK, valkey, ledger, clickhouse, loop, bounds
<1>20. ASSUME NEW w \in Workers, MarkAttemptFailed(w)
      PROVE  TypeOK'
  <2>1. run[w].batch \in Batches /\ Exists(run[w].batch)
    BY <1>20 DEF RunsExist, WorkerExists, RunCalls, MarkAttemptFailed
  <2>m. manifest[run[w].batch] \in RowType
    BY <2>1 DEF TypeOK
  <2> DEFINE row == [state |-> IF run[w].ambiguous THEN "inserting" ELSE "pending",
                     attempts |-> IF manifest[run[w].batch].attempts < MaxAttempts
                                  THEN manifest[run[w].batch].attempts + 1 ELSE MaxAttempts,
                     owner |-> NoWorker, lease |-> "none", waiting |-> TRUE]
  <2>2. row \in RowType
    BY <2>1, <2>m, BoundsAssumption DEF RowType, BatchStates, Runnable, Terminal
  <2>3. manifest' = [manifest EXCEPT ![run[w].batch] = row]
    BY <1>20 DEF MarkAttemptFailed, Transition
  <2>4. manifest' \in [Batches -> RowType]
    BY <2>2, <2>3 DEF TypeOK
  <2> QED
    BY <1>20, <2>4, FinishType
       DEF MarkAttemptFailed, TypeOK, valkey, ledger, clickhouse, loop, bounds
<1>21. ASSUME NEW w \in Workers, TransitionRefused(w)
      PROVE  TypeOK'
  <2>1. FailRun(w, TRUE) \/ AbandonTick(w)
    BY <1>21 DEF TransitionRefused
  <2> QED
    BY <1>21, <2>1, FailRunType, AbandonTickType
       DEF TransitionRefused, TypeOK, valkey, ledger, clickhouse, bounds
<1>22. ASSUME NEW w \in Workers, InsertRefused(w)
      PROVE  TypeOK'
  <2>1. FailRun(w, FALSE)
    BY <1>22 DEF InsertRefused
  <2>n. faults' \in Nat
    BY <1>22 DEF InsertRefused, TypeOK
  <2> QED
    BY <1>22, <2>1, <2>n, FailRunType DEF InsertRefused, TypeOK, valkey, ledger
<1>23. ASSUME NEW w \in Workers, InsertTimesOut(w)
      PROVE  TypeOK'
  <2>1. FailRun(w, TRUE) /\ Abandon(w)
    BY <1>23 DEF InsertTimesOut
  <2>n. faults' \in Nat
    BY <1>23 DEF InsertTimesOut, TypeOK
  <2> QED
    BY <1>23, <2>1, <2>n, FailRunType, AbandonType DEF InsertTimesOut, TypeOK, valkey, ledger
<1>24. ASSUME NEW w \in Workers, CallFails(w)
      PROVE  TypeOK'
  <2>1. FailRun(w, TRUE) \/ AbandonTick(w)
    BY <1>24 DEF CallFails
  <2>n. faults' \in Nat
    BY <1>24 DEF CallFails, TypeOK
  <2> QED
    BY <1>24, <2>1, <2>n, FailRunType, AbandonTickType
       DEF CallFails, TypeOK, valkey, ledger, clickhouse
<1>25. ASSUME NEW w \in Workers, Crash(w)
      PROVE  TypeOK'
  <2>1. run' \in [Workers -> RunType]
    BY <1>25, NoRunType DEF Crash, TypeOK
  <2> QED
    BY <1>25, <2>1, AbandonType
       DEF Crash, TypeOK, Phases, Goto, Calls, TickCalls, TryCalls, valkey, ledger,
           clickhouse, loop, bounds
<1>26. ASSUME NEW r \in requests, ServerExecutes(r)
      PROVE  TypeOK'
  BY <1>26 DEF ServerExecutes, TypeOK, valkey, ledger, clickhouse, loop, bounds
<1>27. ASSUME NEW r \in requests, RequestLost(r)
      PROVE  TypeOK'
  BY <1>27 DEF RequestLost, TypeOK, valkey, ledger, clickhouse, loop, bounds
<1>28. ASSUME NEW b \in Batches, LeaseExpires(b)
      PROVE  TypeOK'
  <2>1. [manifest[b] EXCEPT !.lease = "expired"] \in RowType
    BY RowUpdates DEF TypeOK
  <2>2. manifest' \in [Batches -> RowType]
    BY <1>28, <2>1 DEF LeaseExpires, TypeOK
  <2> QED
    BY <1>28, <2>2 DEF LeaseExpires, TypeOK, valkey, ledger, clickhouse, loop, bounds
<1>29. ASSUME NEW b \in Batches, BackoffElapses(b)
      PROVE  TypeOK'
  <2>1. [manifest[b] EXCEPT !.waiting = FALSE] \in RowType
    BY RowUpdates DEF TypeOK
  <2>2. manifest' \in [Batches -> RowType]
    BY <1>29, <2>1 DEF BackoffElapses, TypeOK
  <2> QED
    BY <1>29, <2>2 DEF BackoffElapses, TypeOK, valkey, ledger, clickhouse, loop, bounds
<1>30. ASSUME NEW s \in Sites, StartDeletion(s)
      PROVE  TypeOK'
  BY <1>30 DEF StartDeletion, TypeOK, valkey, ledger, clickhouse, loop, bounds
<1>31. ASSUME NEW b \in Batches, Replay(b)
      PROVE  TypeOK'
  <2>1. [manifest[b] EXCEPT !.state = "pending", !.attempts = 0, !.waiting = FALSE] \in RowType
    BY RowUpdates DEF TypeOK, BatchStates, Runnable
  <2>2. manifest' \in [Batches -> RowType]
    BY <1>31, <2>1 DEF Replay, Transition, TypeOK
  <2>n. replays' \in Nat
    BY <1>31 DEF Replay, TypeOK
  <2>f. fence' \in [Batches -> [Sites -> FenceStates]]
    BY <1>31 DEF Replay, TypeOK, FenceStates
  <2> QED
    BY <1>31, <2>2, <2>n, <2>f DEF Replay, TypeOK, valkey, ledger, clickhouse, loop, bounds
<1>32. ASSUME NEW b \in Batches, TokenForgotten(b)
      PROVE  TypeOK'
  BY <1>32 DEF TokenForgotten, TypeOK, valkey, ledger, clickhouse, loop, bounds
<1>33. CASE TrimPlan
  BY <1>33 DEF TrimPlan, TypeOK, valkey, ledger, clickhouse, loop, bounds
<1>34. CASE TrimApply
  BY <1>34 DEF TrimApply, TypeOK, valkey, ledger, clickhouse, loop, bounds
<1>35. CASE UNCHANGED vars
  BY <1>35 DEF vars, TypeOK, valkey, ledger, clickhouse, loop, bounds
<1> QED
  BY <1>0, <1>1, <1>2, <1>3, <1>4, <1>5, <1>6, <1>7, <1>8, <1>9, <1>10, <1>11, <1>12,
     <1>13, <1>14, <1>15, <1>16, <1>17, <1>18, <1>19, <1>20, <1>21, <1>22, <1>23, <1>24,
     <1>25, <1>26, <1>27, <1>28, <1>29, <1>30, <1>31, <1>32, <1>33, <1>34, <1>35
  DEF Next, Recovers, Reclaims, Reads, RunsManifest, Faults, Server, Clock, Operator, Trim

-----------------------------------------------------------------------------
(* Knowledge only grows. *)

StoresGrow ==
    /\ stream' \subseteq stream
    /\ \A s \in Sites : site'[s] = "active" => site[s] = "active"
    /\ \A m \in Msgs : rows[m] <= rows'[m] /\ billed[m] <= billed'[m]
    /\ dlq \subseteq dlq'

\* The stores the properties speak about stay as they are.
Frozen == UNCHANGED <<stream, site, rows, billed, dlq>>

LEMMA FrozenGrows == TypeOK /\ Frozen => StoresGrow
BY DEF TypeOK, Frozen, StoresGrow

LEMMA StoresStep == TypeOK /\ [Next]_vars => StoresGrow
<1> SUFFICES ASSUME TypeOK, [Next]_vars PROVE StoresGrow
  OBVIOUS
<1>1. ASSUME NEW w \in Workers,
             ListRunnable(w) \/ LoadListed(w) \/ Claim(w) \/ Plan(w) \/ Snapshot(w)
      PROVE  Frozen
  BY <1>1
     DEF Frozen, ListRunnable, LoadListed, Claim, Plan, Snapshot, valkey, ledger, clickhouse,
         loop, bounds
<1>2. ASSUME NEW w \in Workers,
             Load(w) \/ MarkInserting(w) \/ InsertConfirmed(w) \/ MarkInserted(w)
      PROVE  Frozen
  BY <1>2
     DEF Frozen, Load, MarkInserting, InsertConfirmed, MarkInserted, valkey, ledger,
         clickhouse, loop, bounds
<1>3. ASSUME NEW w \in Workers,
             SettleWritten(w) \/ MarkUsageRecorded(w) \/ Ack(w) \/ MarkCompleted(w)
      PROVE  Frozen
  BY <1>3
     DEF Frozen, SettleWritten, MarkUsageRecorded, Ack, MarkCompleted, valkey, ledger,
         clickhouse, loop, bounds
<1>4. ASSUME NEW w \in Workers,
             AckAgain(w) \/ MarkDeadLettered(w) \/ AckDead(w) \/ MarkAttemptFailed(w)
      PROVE  Frozen
  BY <1>4
     DEF Frozen, AckAgain, MarkDeadLettered, AckDead, MarkAttemptFailed, valkey, ledger,
         clickhouse, loop, bounds
<1>5. ASSUME NEW w \in Workers,
             TransitionRefused(w) \/ InsertRefused(w) \/ InsertTimesOut(w) \/ CallFails(w) \/ Crash(w)
      PROVE  Frozen
  BY <1>5
     DEF Frozen, TransitionRefused, InsertRefused, InsertTimesOut, CallFails, Crash, valkey,
         ledger, clickhouse, loop, bounds
<1>6. ASSUME NEW w \in Workers, NEW idle \in SUBSET pel, Reclaim(w, idle)
      PROVE  Frozen
  BY <1>6 DEF Frozen, Reclaim, valkey, ledger, clickhouse, loop, bounds
<1>7. ASSUME NEW w \in Workers, NEW got \in SUBSET undelivered, NEW flush \in BOOLEAN,
             Read(w, got, flush)
      PROVE  Frozen
  BY <1>7 DEF Frozen, Read, valkey, ledger, clickhouse, loop, bounds
<1>8. ASSUME NEW w \in Workers, ApplyUsage(w)
      PROVE  StoresGrow
  BY <1>8 DEF ApplyUsage, StoresGrow, TypeOK, valkey, clickhouse
<1>9. ASSUME NEW w \in Workers, PublishDeadLetter(w)
      PROVE  StoresGrow
  BY <1>9 DEF PublishDeadLetter, StoresGrow, TypeOK, ledger, clickhouse
<1>10. ASSUME NEW r \in requests, ServerExecutes(r)
      PROVE  StoresGrow
  BY <1>10 DEF ServerExecutes, StoresGrow, TypeOK, valkey, ledger
<1>11. ASSUME NEW r \in requests, RequestLost(r)
      PROVE  Frozen
  BY <1>11 DEF RequestLost, Frozen, valkey, ledger, clickhouse, loop, bounds
<1>12. ASSUME NEW b \in Batches,
             LeaseExpires(b) \/ BackoffElapses(b) \/ Replay(b) \/ TokenForgotten(b)
      PROVE  Frozen
  BY <1>12
     DEF LeaseExpires, BackoffElapses, Replay, TokenForgotten, Frozen, valkey, ledger,
         clickhouse, loop, bounds
<1>13. ASSUME NEW s \in Sites, StartDeletion(s)
      PROVE  StoresGrow
  BY <1>13 DEF StartDeletion, StoresGrow, TypeOK, valkey, ledger, clickhouse, loop, bounds
<1>14. CASE TrimPlan
  BY <1>14 DEF TrimPlan, StoresGrow, TypeOK, valkey, ledger, clickhouse, loop, bounds
<1>15. CASE TrimApply
  BY <1>15 DEF TrimApply, StoresGrow, TypeOK, valkey, ledger, clickhouse, loop, bounds
<1>16. CASE UNCHANGED vars
  BY <1>16 DEF vars, StoresGrow, TypeOK, valkey, ledger, clickhouse, loop, bounds
<1> QED
  BY FrozenGrows, <1>1, <1>2, <1>3, <1>4, <1>5, <1>6, <1>7, <1>8, <1>9,
     <1>10, <1>11, <1>12, <1>13, <1>14, <1>15, <1>16
  DEF Next, Recovers, Reclaims, Reads, RunsManifest, Faults, Server, Clock, Operator, Trim

\* What is known of a batch stays true.
LEMMA Persistence ==
  ASSUME TypeOK, TypeOK', StoresGrow, NEW b \in SUBSET Msgs
  PROVE  /\ Admissible(b)' \subseteq Admissible(b)
         /\ Stored(b) => Stored(b)'
         /\ Charged(b) => Charged(b)'
         /\ Copied(b) => Copied(b)'
         /\ \A s : Tells(b, s) => Tells(b, s)'
<1>1. Admissible(b)' \subseteq Admissible(b)
  BY SitesAssumption DEF Admissible, Admitted, StoresGrow
<1>2. Stored(b) => Stored(b)'
  <2> SUFFICES ASSUME Stored(b), NEW m \in Admissible(b)'
               PROVE  rows'[m] >= 1
    BY DEF Stored
  <2>1. m \in Msgs /\ rows[m] >= 1
    BY <1>1 DEF Stored, Admissible
  <2> QED
    BY <2>1 DEF StoresGrow, TypeOK
<1>3. Charged(b) => Charged(b)'
  <2> SUFFICES ASSUME Charged(b), NEW m \in Admissible(b)'
               PROVE  billed'[m] >= 1
    BY DEF Charged
  <2>1. m \in Msgs /\ billed[m] >= 1
    BY <1>1 DEF Charged, Admissible
  <2> QED
    BY <2>1 DEF StoresGrow, TypeOK
<1>4. Copied(b) => Copied(b)'
  BY DEF Copied, StoresGrow
<1> QED
  BY <1>1, <1>2, <1>3, <1>4 DEF Tells

-----------------------------------------------------------------------------
(* What a step of one worker does to the control state. *)

OthersKeep(w) ==
    \A u \in Workers \ {w} : pc'[u] = pc[u] /\ run'[u] = run[u] /\ todo'[u] = todo[u]

LEMMA FinishControl ==
  ASSUME TypeOK, NEW w \in Workers, Finish(w)
  PROVE  /\ pc'[w] \notin RunCalls /\ pc'[w] # "load"
         /\ run'[w] = NoRun /\ todo'[w] = todo[w] /\ OthersKeep(w)
BY DEF Finish, AfterRun, Goto, TypeOK, Phases, RunCalls, OthersKeep

LEMMA FailRunControl ==
  ASSUME TypeOK, NEW w \in Workers, NEW ambiguous \in BOOLEAN, FailRun(w, ambiguous)
  PROVE  /\ pc'[w] \in {"publish", "mark_failed"}
         /\ run[w].attempts + 1 < MaxAttempts => pc'[w] = "mark_failed"
         /\ run'[w].batch = run[w].batch /\ run'[w].attempts = run[w].attempts
         /\ run'[w].writable = run[w].writable
         /\ todo'[w] = todo[w] /\ OthersKeep(w)
<1>1. run'[w] = [run[w] EXCEPT !.ambiguous = ambiguous]
  BY DEF FailRun, TypeOK
<1>2. run[w] \in RunType
  BY DEF TypeOK
<1>3. /\ run'[w].batch = run[w].batch /\ run'[w].attempts = run[w].attempts
      /\ run'[w].writable = run[w].writable
  BY <1>1, <1>2 DEF RunType
<1>4. run[w].attempts \in Nat
  BY <1>2, BoundsAssumption DEF RunType
<1>5. /\ pc'[w] \in {"publish", "mark_failed"}
      /\ run[w].attempts + 1 < MaxAttempts => pc'[w] = "mark_failed"
  BY <1>4, BoundsAssumption DEF FailRun, Goto, TypeOK
<1>6. todo'[w] = todo[w] /\ OthersKeep(w)
  BY DEF FailRun, Goto, TypeOK, OthersKeep, loop
<1> QED
  BY <1>3, <1>5, <1>6

LEMMA AbandonTickControl ==
  ASSUME TypeOK, NEW w \in Workers, AbandonTick(w)
  PROVE  pc'[w] = "list" /\ run'[w] = NoRun /\ todo'[w] = {} /\ OthersKeep(w)
BY DEF AbandonTick, Goto, TypeOK, OthersKeep

-----------------------------------------------------------------------------
(* Manifests are never deleted, and nothing refers to one that does not exist. *)

ManifestsStay == \A b \in Batches : Exists(b) => Exists(b)'

LEMMA SameManifestStays == UNCHANGED manifest => ManifestsStay
BY DEF ManifestsStay, Exists

LEMMA UpdateStays ==
  ASSUME TypeOK, NEW b, NEW row, row.state # "absent",
         manifest' = [manifest EXCEPT ![b] = row]
  PROVE  ManifestsStay
BY DEF TypeOK, ManifestsStay, Exists

LEMMA ManifestStep == TypeOK /\ RunsExist /\ [Next]_vars => ManifestsStay
<1> SUFFICES ASSUME TypeOK, RunsExist, [Next]_vars PROVE ManifestsStay
  OBVIOUS
<1>1. ASSUME NEW w \in Workers,
             ListRunnable(w) \/ LoadListed(w) \/ Snapshot(w) \/ AckAgain(w) \/ Load(w)
      PROVE  UNCHANGED manifest
  BY <1>1 DEF ListRunnable, LoadListed, Snapshot, AckAgain, Load
<1>2. ASSUME NEW w \in Workers,
             InsertConfirmed(w) \/ SettleWritten(w) \/ ApplyUsage(w) \/ Ack(w)
      PROVE  UNCHANGED manifest
  BY <1>2 DEF InsertConfirmed, SettleWritten, ApplyUsage, Ack
<1>3. ASSUME NEW w \in Workers,
             PublishDeadLetter(w) \/ AckDead(w) \/ TransitionRefused(w)
      PROVE  UNCHANGED manifest
  BY <1>3 DEF PublishDeadLetter, AckDead, TransitionRefused
<1>4. ASSUME NEW w \in Workers,
             InsertRefused(w) \/ InsertTimesOut(w) \/ CallFails(w) \/ Crash(w)
      PROVE  UNCHANGED manifest
  BY <1>4 DEF InsertRefused, InsertTimesOut, CallFails, Crash
<1>5. ASSUME NEW w \in Workers, NEW idle \in SUBSET pel, Reclaim(w, idle)
      PROVE  UNCHANGED manifest
  BY <1>5 DEF Reclaim
<1>6. ASSUME NEW w \in Workers, NEW got \in SUBSET undelivered, NEW flush \in BOOLEAN,
             Read(w, got, flush)
      PROVE  UNCHANGED manifest
  BY <1>6 DEF Read
<1>7. ASSUME NEW w \in Workers, Claim(w)
      PROVE  ManifestsStay
  <2> PICK t \in todo[w] :
         \/ manifest' = [manifest EXCEPT ![t.batch].owner = w, ![t.batch].lease = "live"]
         \/ UNCHANGED manifest
    BY <1>7 DEF Claim
  <2>1. t.batch \in Batches /\ Exists(t.batch)
    BY ElementTypes DEF RunsExist, WorkerExists
  <2>2. manifest[t.batch] \in RowType
    BY <2>1 DEF TypeOK
  <2> DEFINE row == [manifest[t.batch] EXCEPT !.owner = w, !.lease = "live"]
  <2>3. row.state # "absent"
    BY <2>1, <2>2 DEF Exists, RowType
  <2>4. manifest' = [manifest EXCEPT ![t.batch] = row] \/ UNCHANGED manifest
    OBVIOUS
  <2> QED
    BY <2>3, <2>4, UpdateStays, SameManifestStays
<1>8. ASSUME NEW w \in Workers, Plan(w)
      PROVE  ManifestsStay
  <2> PICK b \in Batches :
         \/ manifest' = [manifest EXCEPT ![b] =
                           [NoRow EXCEPT !.state = "pending", !.owner = w, !.lease = "live"]]
         \/ UNCHANGED manifest
    BY <1>8 DEF Plan
  <2> DEFINE row == [NoRow EXCEPT !.state = "pending", !.owner = w, !.lease = "live"]
  <2>1. row.state # "absent"
    BY DEF NoRow
  <2> QED
    BY <2>1, UpdateStays, SameManifestStays
<1>9. ASSUME NEW w \in Workers, MarkInserting(w)
      PROVE  ManifestsStay
  <2> DEFINE b == run[w].batch
             row == [manifest[b] EXCEPT !.state = "inserting", !.waiting = FALSE]
  <2>1. manifest[b] \in RowType
    BY <1>9 DEF MarkInserting, TypeOK, RunsExist, WorkerExists, RunCalls
  <2>2. row.state # "absent"
    BY <2>1 DEF RowType
  <2>3. manifest' = [manifest EXCEPT ![b] = row]
    BY <1>9 DEF MarkInserting, Transition
  <2> QED
    BY <2>2, <2>3, UpdateStays
<1>10. ASSUME NEW w \in Workers, MarkInserted(w)
      PROVE  ManifestsStay
  <2> DEFINE b == run[w].batch
             row == [manifest[b] EXCEPT !.state = "inserted"]
  <2>1. manifest[b] \in RowType
    BY <1>10 DEF MarkInserted, TypeOK, RunsExist, WorkerExists, RunCalls
  <2>2. row.state # "absent"
    BY <2>1 DEF RowType
  <2>3. manifest' = [manifest EXCEPT ![b] = row]
    BY <1>10 DEF MarkInserted, Transition
  <2> QED
    BY <2>2, <2>3, UpdateStays
<1>11. ASSUME NEW w \in Workers, MarkUsageRecorded(w)
      PROVE  ManifestsStay
  <2> DEFINE b == run[w].batch
             row == [manifest[b] EXCEPT !.state = "usage_recorded"]
  <2>1. manifest[b] \in RowType
    BY <1>11 DEF MarkUsageRecorded, TypeOK, RunsExist, WorkerExists, RunCalls
  <2>2. row.state # "absent"
    BY <2>1 DEF RowType
  <2>3. manifest' = [manifest EXCEPT ![b] = row]
    BY <1>11 DEF MarkUsageRecorded, Transition
  <2> QED
    BY <2>2, <2>3, UpdateStays
<1>12. ASSUME NEW w \in Workers, MarkCompleted(w)
      PROVE  ManifestsStay
  <2> DEFINE b == run[w].batch
             row == [manifest[b] EXCEPT !.state = "completed", !.owner = NoWorker,
                                    !.lease = "none"]
  <2>1. manifest[b] \in RowType
    BY <1>12 DEF MarkCompleted, TypeOK, RunsExist, WorkerExists, RunCalls
  <2>2. row.state # "absent"
    BY <2>1 DEF RowType
  <2>3. manifest' = [manifest EXCEPT ![b] = row]
    BY <1>12 DEF MarkCompleted, Transition
  <2> QED
    BY <2>2, <2>3, UpdateStays
<1>13. ASSUME NEW w \in Workers, MarkDeadLettered(w)
      PROVE  ManifestsStay
  <2> DEFINE b == run[w].batch
             row == [manifest[b] EXCEPT !.state = "dead_lettered", !.owner = NoWorker,
                                    !.lease = "none"]
  <2>1. manifest[b] \in RowType
    BY <1>13 DEF MarkDeadLettered, TypeOK, RunsExist, WorkerExists, RunCalls
  <2>2. row.state # "absent"
    BY <2>1 DEF RowType
  <2>3. manifest' = [manifest EXCEPT ![b] = row]
    BY <1>13 DEF MarkDeadLettered, Transition
  <2> QED
    BY <2>2, <2>3, UpdateStays
<1>14. ASSUME NEW w \in Workers, MarkAttemptFailed(w)
      PROVE  ManifestsStay
  <2> DEFINE row == [state |-> IF run[w].ambiguous THEN "inserting" ELSE "pending",
                     attempts |-> IF manifest[run[w].batch].attempts < MaxAttempts
                                  THEN manifest[run[w].batch].attempts + 1 ELSE MaxAttempts,
                     owner |-> NoWorker, lease |-> "none", waiting |-> TRUE]
  <2>1. row.state # "absent"
    OBVIOUS
  <2>2. manifest' = [manifest EXCEPT ![run[w].batch] = row]
    BY <1>14 DEF MarkAttemptFailed, Transition
  <2> QED
    BY <2>1, <2>2, UpdateStays
<1>15. ASSUME NEW b \in Batches, LeaseExpires(b)
      PROVE  ManifestsStay
  BY <1>15 DEF LeaseExpires, TypeOK, RowType, ManifestsStay, Exists
<1>16. ASSUME NEW b \in Batches, BackoffElapses(b)
      PROVE  ManifestsStay
  BY <1>16 DEF BackoffElapses, TypeOK, RowType, ManifestsStay, Exists
<1>17. ASSUME NEW b \in Batches, Replay(b)
      PROVE  ManifestsStay
  BY <1>17 DEF Replay, Transition, TypeOK, RowType, ManifestsStay, Exists
<1>18. ASSUME NEW b \in Batches, TokenForgotten(b)
      PROVE  UNCHANGED manifest
  BY <1>18 DEF TokenForgotten
<1>19. ASSUME NEW r \in requests, ServerExecutes(r) \/ RequestLost(r)
      PROVE  UNCHANGED manifest
  BY <1>19 DEF ServerExecutes, RequestLost
<1>20. ASSUME NEW s \in Sites, StartDeletion(s)
      PROVE  UNCHANGED manifest
  BY <1>20 DEF StartDeletion
<1>21. CASE TrimPlan \/ TrimApply \/ UNCHANGED vars
  BY <1>21, SameManifestStays DEF TrimPlan, TrimApply, vars
<1> QED
  BY SameManifestStays, <1>1, <1>2, <1>3, <1>4, <1>5, <1>6, <1>7, <1>8, <1>9,
     <1>10, <1>11, <1>12, <1>13, <1>14, <1>15, <1>16, <1>17, <1>18, <1>19, <1>20, <1>21
  DEF Next, Recovers, Reclaims, Reads, RunsManifest, Faults, Server, Clock, Operator, Trim

LEMMA RunsExistInit == Init => RunsExist
BY DEF Init, RunsExist, WorkerExists, StoresExist, RunCalls

LEMMA AbandonKeeps ==
  ASSUME TypeOK, NEW w \in Workers, Abandon(w)
  PROVE  \A r \in requests' : \E q \in requests :
           r.batch = q.batch /\ r.rows = q.rows /\ (r.by = q.by \/ q.by = w)
<1>1. \A q \in requests : [q EXCEPT !.by = NoWorker].batch = q.batch
                         /\ [q EXCEPT !.by = NoWorker].rows = q.rows
  BY DEF TypeOK
<1> QED
  BY <1>1 DEF Abandon

\* Nothing new is referred to.
LEMMA StoresExistKept ==
  ASSUME TypeOK, ManifestsStay, StoresExist,
         \A r \in requests' : \E q \in requests : r.batch = q.batch,
         tokens' \subseteq tokens, applied' = applied
  PROVE  StoresExist'
BY ElementTypes DEF StoresExist, ManifestsStay

LEMMA WorkerExistsKept ==
  ASSUME TypeOK, ManifestsStay, NEW w \in Workers, WorkerExists(w),
         pc'[w] \in RunCalls => /\ pc[w] \in RunCalls
                                /\ run'[w].batch = run[w].batch,
         pc'[w] = "load" => pc[w] = "load" /\ run'[w] = run[w],
         todo'[w] \subseteq todo[w]
  PROVE  WorkerExists(w)'
BY ElementTypes DEF WorkerExists, ManifestsStay

LEMMA OthersExist ==
  ASSUME TypeOK, RunsExist, ManifestsStay, NEW w \in Workers, OthersKeep(w),
         WorkerExists(w)', StoresExist'
  PROVE  RunsExist'
<1>1. ASSUME NEW u \in Workers \ {w}
      PROVE  WorkerExists(u)'
  BY <1>1, WorkerExistsKept DEF RunsExist, OthersKeep
<1> QED
  BY <1>1 DEF RunsExist

\* The worker at work lets its manifest go, or keeps it.
LEMMA FewerRefer ==
  ASSUME TypeOK, RunsExist, ManifestsStay, NEW w \in Workers, OthersKeep(w),
         pc'[w] \in RunCalls => /\ pc[w] \in RunCalls /\ pc'[w] # "load"
                                /\ run'[w].batch = run[w].batch,
         todo'[w] \subseteq todo[w],
         \A r \in requests' : \E q \in requests : r.batch = q.batch,
         tokens' \subseteq tokens, applied' = applied
  PROVE  RunsExist'
<1>1. StoresExist'
  BY StoresExistKept DEF RunsExist
<1>2. pc'[w] # "load"
  BY DEF RunCalls
<1>3. WorkerExists(w)'
  BY <1>2, WorkerExistsKept DEF RunsExist
<1> QED
  BY <1>1, <1>3, OthersExist

LEMMA SameWorkersExist ==
  ASSUME TypeOK, RunsExist, ManifestsStay, UNCHANGED <<pc, run, todo>>, StoresExist'
  PROVE  RunsExist'
BY WorkerExistsKept DEF RunsExist

LEMMA RunsExistNext == TypeOK /\ RunsExist /\ [Next]_vars => RunsExist'
<1> SUFFICES ASSUME TypeOK, RunsExist, [Next]_vars PROVE RunsExist'
  OBVIOUS
<1>0. ManifestsStay
  BY ManifestStep
<1>1. ASSUME NEW w \in Workers, ListRunnable(w)
      PROVE  RunsExist'
  <2> DEFINE due == {b \in Batches : /\ manifest[b].state \in Runnable
                                    /\ ~manifest[b].waiting
                                    /\ manifest[b].lease # "live"}
  <2>1. /\ todo'[w] = {[batch |-> b, state |-> "listed", attempts |-> 0] : b \in due}
        /\ pc'[w] \in {"reclaim", "claim"} /\ OthersKeep(w)
    BY <1>1 DEF ListRunnable, Goto, TypeOK, OthersKeep
  <2>2. UNCHANGED <<manifest, requests, tokens, applied>>
    BY <1>1 DEF ListRunnable, ledger, clickhouse
  <2>3. WorkerExists(w)'
    BY <2>1, <2>2 DEF WorkerExists, Exists, Runnable, RunCalls
  <2>4. StoresExist'
    BY <2>2 DEF RunsExist, StoresExist, Exists
  <2> QED
    BY <1>0, <2>1, <2>3, <2>4, OthersExist
<1>l. ASSUME NEW w \in Workers, LoadListed(w)
      PROVE  RunsExist'
  <2>1. UNCHANGED <<manifest, requests, tokens, applied>>
    BY <1>l DEF LoadListed, ledger, clickhouse
  <2>2. StoresExist'
    BY <1>0, <2>1, StoresExistKept DEF RunsExist
  <2> PICK b \in Batches :
         /\ Exists(b) /\ todo'[w] \subseteq todo[w] \union {Found(b)}
         /\ \A u \in Workers \ {w} : todo'[u] = todo[u]
         /\ pc[w] = "claim" /\ UNCHANGED <<pc, run>>
    BY <1>l, LoadListedDoes
  <2>3. OthersKeep(w) /\ pc'[w] \notin RunCalls /\ pc'[w] # "load"
    BY DEF OthersKeep, RunCalls
  <2>4. \A t \in todo'[w] : Exists(t.batch)'
    BY <2>1 DEF RunsExist, WorkerExists, Exists, Found
  <2>5. WorkerExists(w)'
    BY <2>3, <2>4 DEF WorkerExists
  <2> QED
    BY <1>0, <2>2, <2>3, <2>5, OthersExist
<1>2. ASSUME NEW w \in Workers, Claim(w)
      PROVE  RunsExist'
  <2>1. UNCHANGED <<requests, tokens, applied>>
    BY <1>2 DEF Claim, ledger, clickhouse
  <2>2. StoresExist'
    BY <1>0, <2>1, StoresExistKept DEF RunsExist
  <2> PICK t \in todo[w] :
         /\ t.state # "listed" /\ todo' = [todo EXCEPT ![w] = @ \ {t}]
         /\ \/ /\ run' = [run EXCEPT ![w] =
                             [NoRun EXCEPT !.batch = t.batch, !.state = t.state,
                                           !.attempts = t.attempts]]
               /\ Goto(w, IF RecoveryAction(t.state) = "none" THEN "ack_again" ELSE "load")
            \/ /\ Goto(w, IF todo[w] = {t} THEN "reclaim" ELSE "claim")
               /\ UNCHANGED run
    BY <1>2 DEF Claim
  <2>3. OthersKeep(w) /\ todo'[w] \subseteq todo[w]
    BY DEF Goto, TypeOK, OthersKeep
  <2>4. pc'[w] \in RunCalls => run'[w].batch = t.batch /\ run'[w].state = t.state
    <3>1. SUFFICES ASSUME pc'[w] \in RunCalls
                   PROVE  run'[w].batch = t.batch /\ run'[w].state = t.state
      OBVIOUS
    <3>2. run' = [run EXCEPT ![w] = [NoRun EXCEPT !.batch = t.batch, !.state = t.state,
                                                  !.attempts = t.attempts]]
      BY <3>1 DEF Goto, RunCalls, TypeOK
    <3>3. run'[w] = [NoRun EXCEPT !.batch = t.batch, !.state = t.state,
                                  !.attempts = t.attempts]
      BY <3>2 DEF TypeOK
    <3> QED
      BY <3>3, SnapshotRun
  <2>5. /\ t.batch \in Batches /\ \A x \in todo[w] : Exists(x.batch)'
        /\ pc'[w] = "load" => t.state \in Runnable
    <3>1. t.batch \in Batches /\ t.state \in BatchStates
      BY ElementTypes
    <3>2. pc'[w] = "load" => RecoveryAction(t.state) # "none"
      BY DEF Goto, TypeOK
    <3> QED
      BY <1>0, <3>1, <3>2, ActionOf, ElementTypes DEF RunsExist, WorkerExists, ManifestsStay
  <2>6. WorkerExists(w)'
    BY <2>3, <2>4, <2>5 DEF WorkerExists, RunCalls
  <2> QED
    BY <1>0, <2>2, <2>3, <2>6, OthersExist
<1>3. ASSUME NEW w \in Workers, NEW idle \in SUBSET pel, Reclaim(w, idle)
      PROVE  RunsExist'
  <2>1. OthersKeep(w) /\ pc'[w] \notin RunCalls /\ todo'[w] \subseteq todo[w]
    BY <1>3 DEF Reclaim, OthersKeep, Goto, TypeOK, RunCalls, loop
  <2>2. UNCHANGED <<requests, tokens, applied>>
    BY <1>3 DEF Reclaim, ledger, clickhouse
  <2> QED
    BY <2>1, <2>2, <1>0, FewerRefer
<1>4. ASSUME NEW w \in Workers, NEW got \in SUBSET undelivered, NEW flush \in BOOLEAN,
             Read(w, got, flush)
      PROVE  RunsExist'
  <2>1. OthersKeep(w) /\ pc'[w] \notin RunCalls /\ todo'[w] \subseteq todo[w]
    BY <1>4 DEF Read, OthersKeep, Goto, TypeOK, RunCalls, loop
  <2>2. UNCHANGED <<requests, tokens, applied>>
    BY <1>4 DEF Read, ledger, clickhouse
  <2> QED
    BY <2>1, <2>2, <1>0, FewerRefer
<1>5. ASSUME NEW w \in Workers, Plan(w)
      PROVE  RunsExist'
  <2>1. UNCHANGED <<requests, tokens, applied, todo>>
    BY <1>5 DEF Plan, ledger, clickhouse
  <2>2. StoresExist'
    BY <1>0, <2>1, StoresExistKept DEF RunsExist
  <2> PICK b \in Batches :
         /\ \/ manifest' = [manifest EXCEPT ![b] =
                              [NoRow EXCEPT !.state = "pending", !.owner = w,
                                            !.lease = "live"]]
            \/ Exists(b)
         /\ run' = [run EXCEPT ![w] = [NoRun EXCEPT !.batch = b]]
    BY <1>5 DEF Plan
  <2>3. Exists(b)'
    <3>1. CASE Exists(b)
      BY <1>0, <3>1 DEF ManifestsStay
    <3>2. CASE manifest' = [manifest EXCEPT ![b] = [NoRow EXCEPT !.state = "pending",
                                                     !.owner = w, !.lease = "live"]]
      BY <3>2 DEF Exists, NoRow, TypeOK
    <3> QED
      BY <3>1, <3>2
  <2>4. OthersKeep(w) /\ pc'[w] = "snapshot" /\ run'[w].batch = b
    BY <1>5 DEF Plan, Goto, TypeOK, OthersKeep, NoRun
  <2>5. \A t \in todo[w] : Exists(t.batch)'
    BY <1>0, ElementTypes DEF RunsExist, WorkerExists, ManifestsStay
  <2>6. WorkerExists(w)'
    BY <2>1, <2>3, <2>4, <2>5 DEF WorkerExists
  <2> QED
    BY <1>0, <2>2, <2>4, <2>6, OthersExist
<1>6. ASSUME NEW w \in Workers, Snapshot(w)
      PROVE  RunsExist'
  <2>1. /\ OthersKeep(w) /\ todo'[w] = todo[w]
        /\ run'[w] = [run[w] EXCEPT !.state = manifest[run[w].batch].state,
                                     !.attempts = manifest[run[w].batch].attempts]
        /\ pc'[w] = IF RecoveryAction(manifest[run[w].batch].state) = "none" THEN "ack_again"
                    ELSE "load"
    BY <1>6 DEF Snapshot, OthersKeep, Goto, TypeOK, loop
  <2>2. run'[w].batch = run[w].batch /\ run'[w].state = manifest[run[w].batch].state
    BY <2>1 DEF TypeOK, RunType
  <2>3. pc'[w] = "load" => run'[w].state \in Runnable
    BY <2>1, <2>2 DEF RecoveryAction, Runnable
  <2>4. UNCHANGED <<manifest, requests, tokens, applied>>
    BY <1>6 DEF Snapshot, ledger, clickhouse
  <2>5. StoresExist'
    BY <2>4 DEF RunsExist, StoresExist, Exists
  <2>6. WorkerExists(w)'
    BY <1>6, <2>1, <2>2, <2>3, <2>4 DEF Snapshot, RunsExist, WorkerExists, Exists, RunCalls
  <2> QED
    BY <2>1, <2>5, <2>6, <1>0, OthersExist
<1>7. ASSUME NEW w \in Workers, AckAgain(w)
      PROVE  RunsExist'
  <2>1. Finish(w) /\ UNCHANGED <<requests, tokens, applied>>
    BY <1>7 DEF AckAgain, ledger, clickhouse
  <2> QED
    BY <1>0, <2>1, FinishControl, FewerRefer
<1>8. ASSUME NEW w \in Workers, Load(w)
      PROVE  RunsExist'
  <2>1. /\ OthersKeep(w) /\ todo'[w] = todo[w]
        /\ pc[w] \in RunCalls /\ pc'[w] = FirstCall[RecoveryAction(run[w].state)]
    BY <1>8 DEF Load, OthersKeep, Goto, TypeOK, RunCalls, loop
  <2>2. run[w].state \in Runnable
    BY <1>8 DEF Load, RunsExist, WorkerExists
  <2>3. pc'[w] \in RunCalls /\ pc'[w] # "load"
    BY <2>1, <2>2 DEF FirstCall, RecoveryAction, Runnable, RunCalls
  <2>4. run'[w].batch = run[w].batch
    BY <1>8 DEF Load, TypeOK, RunType
  <2>5. UNCHANGED <<requests, tokens, applied>>
    BY <1>8 DEF Load, ledger, clickhouse
  <2> QED
    BY <2>1, <2>3, <2>4, <2>5, <1>0, FewerRefer
<1>9. ASSUME NEW w \in Workers, MarkInserting(w)
      PROVE  RunsExist'
  <2>1. /\ OthersKeep(w) /\ pc'[w] # "load" /\ pc[w] \in RunCalls
        /\ run'[w] = run[w] /\ todo'[w] = todo[w]
    BY <1>9 DEF MarkInserting, OthersKeep, Goto, TypeOK, RunCalls, loop
  <2>2. WorkerExists(w)'
    BY <1>0, <2>1, WorkerExistsKept DEF RunsExist
  <2>3. Exists(run[w].batch)'
    BY <1>0, <2>1 DEF RunsExist, WorkerExists, ManifestsStay
  <2>4. /\ \A r \in requests' : r \in requests \/ r.batch = run[w].batch
        /\ UNCHANGED <<tokens, applied>>
    BY <1>9 DEF MarkInserting, ledger
  <2>5. StoresExist'
    BY <1>0, <2>1, <2>3, <2>4, ElementTypes DEF RunsExist, StoresExist, ManifestsStay
  <2> QED
    BY <1>0, <2>1, <2>2, <2>5, OthersExist
<1>10. ASSUME NEW w \in Workers, InsertConfirmed(w)
      PROVE  RunsExist'
  <2>1. /\ OthersKeep(w) /\ pc[w] \in RunCalls /\ pc'[w] \in RunCalls /\ pc'[w] # "load"
        /\ run'[w].batch = run[w].batch /\ todo'[w] = todo[w]
    BY <1>10 DEF InsertConfirmed, OthersKeep, Goto, TypeOK, RunType, RunCalls, loop
  <2>2. UNCHANGED <<requests, tokens, applied>>
    BY <1>10 DEF InsertConfirmed, ledger, clickhouse
  <2> QED
    BY <2>1, <2>2, <1>0, FewerRefer
<1>11. ASSUME NEW w \in Workers, MarkInserted(w)
      PROVE  RunsExist'
  <2>1. /\ OthersKeep(w) /\ pc[w] \in RunCalls /\ pc'[w] \in RunCalls /\ pc'[w] # "load"
        /\ run'[w].batch = run[w].batch /\ todo'[w] = todo[w]
    BY <1>11 DEF MarkInserted, OthersKeep, Goto, TypeOK, RunType, RunCalls, loop
  <2>2. UNCHANGED <<requests, tokens, applied>>
    BY <1>11 DEF MarkInserted, ledger, clickhouse
  <2> QED
    BY <2>1, <2>2, <1>0, FewerRefer
<1>12. ASSUME NEW w \in Workers, SettleWritten(w)
      PROVE  RunsExist'
  <2>1. /\ OthersKeep(w) /\ pc[w] \in RunCalls /\ pc'[w] \in RunCalls /\ pc'[w] # "load"
        /\ run'[w].batch = run[w].batch /\ todo'[w] = todo[w]
    BY <1>12 DEF SettleWritten, OthersKeep, Goto, TypeOK, RunType, RunCalls, loop
  <2>2. UNCHANGED <<requests, tokens, applied>>
    BY <1>12 DEF SettleWritten, ledger, clickhouse
  <2> QED
    BY <2>1, <2>2, <1>0, FewerRefer
<1>13. ASSUME NEW w \in Workers, ApplyUsage(w)
      PROVE  RunsExist'
  <2>1. /\ OthersKeep(w) /\ pc[w] \in RunCalls /\ pc'[w] \in RunCalls /\ pc'[w] # "load"
        /\ run'[w] = run[w] /\ todo'[w] = todo[w]
    BY <1>13 DEF ApplyUsage, OthersKeep, Goto, TypeOK, RunCalls, loop
  <2>2. WorkerExists(w)'
    BY <1>0, <2>1, WorkerExistsKept DEF RunsExist
  <2>3. /\ applied' = applied \union {run[w].batch}
        /\ UNCHANGED <<manifest, requests, tokens>>
        /\ Exists(run[w].batch)
    BY <1>13, <2>1 DEF ApplyUsage, clickhouse, RunsExist, WorkerExists
  <2>4. StoresExist'
    BY <2>3 DEF RunsExist, StoresExist, Exists
  <2> QED
    BY <2>1, <2>2, <2>4, <1>0, OthersExist
<1>14. ASSUME NEW w \in Workers, MarkUsageRecorded(w)
      PROVE  RunsExist'
  <2>1. /\ OthersKeep(w) /\ pc[w] \in RunCalls /\ pc'[w] \in RunCalls /\ pc'[w] # "load"
        /\ run'[w].batch = run[w].batch /\ todo'[w] = todo[w]
    BY <1>14 DEF MarkUsageRecorded, OthersKeep, Goto, TypeOK, RunType, RunCalls, loop
  <2>2. UNCHANGED <<requests, tokens, applied>>
    BY <1>14 DEF MarkUsageRecorded, ledger, clickhouse
  <2> QED
    BY <2>1, <2>2, <1>0, FewerRefer
<1>15. ASSUME NEW w \in Workers, Ack(w)
      PROVE  RunsExist'
  <2>1. /\ OthersKeep(w) /\ pc[w] \in RunCalls /\ pc'[w] \in RunCalls /\ pc'[w] # "load"
        /\ run'[w].batch = run[w].batch /\ todo'[w] = todo[w]
    BY <1>15 DEF Ack, OthersKeep, Goto, TypeOK, RunType, RunCalls, loop
  <2>2. UNCHANGED <<requests, tokens, applied>>
    BY <1>15 DEF Ack, ledger, clickhouse
  <2> QED
    BY <2>1, <2>2, <1>0, FewerRefer
<1>16. ASSUME NEW w \in Workers, MarkCompleted(w)
      PROVE  RunsExist'
  <2>1. Finish(w) /\ UNCHANGED <<requests, tokens, applied>>
    BY <1>16 DEF MarkCompleted, ledger, clickhouse
  <2> QED
    BY <1>0, <2>1, FinishControl, FewerRefer
<1>17. ASSUME NEW w \in Workers, PublishDeadLetter(w)
      PROVE  RunsExist'
  <2>1. /\ OthersKeep(w) /\ pc[w] \in RunCalls /\ pc'[w] \in RunCalls /\ pc'[w] # "load"
        /\ run'[w].batch = run[w].batch /\ todo'[w] = todo[w]
    BY <1>17 DEF PublishDeadLetter, OthersKeep, Goto, TypeOK, RunType, RunCalls, loop
  <2>2. UNCHANGED <<requests, tokens, applied>>
    BY <1>17 DEF PublishDeadLetter, ledger, clickhouse
  <2> QED
    BY <2>1, <2>2, <1>0, FewerRefer
<1>18. ASSUME NEW w \in Workers, MarkDeadLettered(w)
      PROVE  RunsExist'
  <2>1. /\ OthersKeep(w) /\ pc[w] \in RunCalls /\ pc'[w] \in RunCalls /\ pc'[w] # "load"
        /\ run'[w].batch = run[w].batch /\ todo'[w] = todo[w]
    BY <1>18 DEF MarkDeadLettered, OthersKeep, Goto, TypeOK, RunType, RunCalls, loop
  <2>2. UNCHANGED <<requests, tokens, applied>>
    BY <1>18 DEF MarkDeadLettered, ledger, clickhouse
  <2> QED
    BY <2>1, <2>2, <1>0, FewerRefer
<1>19. ASSUME NEW w \in Workers, AckDead(w)
      PROVE  RunsExist'
  <2>1. Finish(w) /\ UNCHANGED <<requests, tokens, applied>>
    BY <1>19 DEF AckDead, ledger, clickhouse
  <2> QED
    BY <1>0, <2>1, FinishControl, FewerRefer
<1>20. ASSUME NEW w \in Workers, MarkAttemptFailed(w)
      PROVE  RunsExist'
  <2>1. Finish(w) /\ UNCHANGED <<requests, tokens, applied>>
    BY <1>20 DEF MarkAttemptFailed, ledger, clickhouse
  <2> QED
    BY <1>0, <2>1, FinishControl, FewerRefer
<1>21. ASSUME NEW w \in Workers, TransitionRefused(w)
      PROVE  RunsExist'
  <2>1. UNCHANGED <<requests, tokens, applied>> /\ pc[w] \in RunCalls
    BY <1>21 DEF TransitionRefused, From, RunCalls, ledger, clickhouse
  <2>2. FailRun(w, TRUE) \/ AbandonTick(w)
    BY <1>21 DEF TransitionRefused
  <2>3. CASE FailRun(w, TRUE) /\ pc[w] \in RunCalls
    BY <1>0, <2>1, <2>3, FailRunControl, FewerRefer
  <2>4. CASE AbandonTick(w)
    BY <1>0, <2>1, <2>4, AbandonTickControl, FewerRefer DEF RunCalls
  <2> QED
    BY <2>1, <2>2, <2>3, <2>4
<1>22. ASSUME NEW w \in Workers, InsertRefused(w)
      PROVE  RunsExist'
  <2>1. FailRun(w, FALSE) /\ pc[w] \in RunCalls
    BY <1>22 DEF InsertRefused, RunCalls
  <2>2. requests' \subseteq requests /\ UNCHANGED <<tokens, applied>>
    BY <1>22 DEF InsertRefused, ledger
  <2> QED
    BY <2>1, <2>2, FailRunControl, <1>0, FewerRefer
<1>23. ASSUME NEW w \in Workers, InsertTimesOut(w)
      PROVE  RunsExist'
  <2>1. FailRun(w, TRUE) /\ pc[w] \in RunCalls
    BY <1>23 DEF InsertTimesOut, RunCalls
  <2>2. Abandon(w) /\ UNCHANGED <<tokens, applied>>
    BY <1>23 DEF InsertTimesOut, ledger
  <2>3. \A r \in requests' : \E q \in requests : r.batch = q.batch
    BY <2>2, AbandonKeeps
  <2> QED
    BY <2>1, <2>2, <2>3, FailRunControl, <1>0, FewerRefer
<1>24. ASSUME NEW w \in Workers, CallFails(w)
      PROVE  RunsExist'
  <2>1. UNCHANGED <<requests, tokens, applied>>
    BY <1>24 DEF CallFails, ledger, clickhouse
  <2>2. (FailRun(w, TRUE) /\ pc[w] \in RunCalls) \/ AbandonTick(w)
    BY <1>24 DEF CallFails, TryCalls, RunCalls
  <2>3. CASE FailRun(w, TRUE) /\ pc[w] \in RunCalls
    BY <1>0, <2>1, <2>3, FailRunControl, FewerRefer
  <2>4. CASE AbandonTick(w)
    BY <1>0, <2>1, <2>4, AbandonTickControl, FewerRefer DEF RunCalls
  <2> QED
    BY <2>1, <2>2, <2>3, <2>4
<1>25. ASSUME NEW w \in Workers, Crash(w)
      PROVE  RunsExist'
  <2>1. OthersKeep(w) /\ pc'[w] \notin RunCalls /\ todo'[w] = {}
    BY <1>25 DEF Crash, OthersKeep, Goto, TypeOK, RunCalls
  <2>2. Abandon(w) /\ UNCHANGED <<tokens, applied>>
    BY <1>25 DEF Crash, ledger
  <2>3. \A r \in requests' : \E q \in requests : r.batch = q.batch
    BY <2>2, AbandonKeeps
  <2> QED
    BY <2>1, <2>2, <2>3, <1>0, FewerRefer
<1>26. ASSUME NEW r \in requests, ServerExecutes(r)
      PROVE  RunsExist'
  <2>1. /\ UNCHANGED <<pc, run, todo, manifest, applied>>
        /\ requests' \subseteq requests /\ tokens' \subseteq tokens \union {r.batch}
    BY <1>26 DEF ServerExecutes, loop, ledger
  <2>2. StoresExist'
    BY <2>1 DEF RunsExist, StoresExist, Exists
  <2> QED
    BY <1>0, <2>1, <2>2, SameWorkersExist
<1>27. ASSUME NEW r \in requests, RequestLost(r)
      PROVE  RunsExist'
  <2>1. /\ UNCHANGED <<pc, run, todo, applied>>
        /\ requests' \subseteq requests /\ tokens' \subseteq tokens
    BY <1>27 DEF RequestLost, loop, ledger, clickhouse
  <2> QED
    BY <1>0, <2>1, StoresExistKept, SameWorkersExist DEF RunsExist
<1>28. ASSUME NEW b \in Batches, LeaseExpires(b)
      PROVE  RunsExist'
  <2>1. /\ UNCHANGED <<pc, run, todo, applied>>
        /\ requests' \subseteq requests /\ tokens' \subseteq tokens
    BY <1>28 DEF LeaseExpires, loop, ledger, clickhouse
  <2> QED
    BY <1>0, <2>1, StoresExistKept, SameWorkersExist DEF RunsExist
<1>29. ASSUME NEW b \in Batches, BackoffElapses(b)
      PROVE  RunsExist'
  <2>1. /\ UNCHANGED <<pc, run, todo, applied>>
        /\ requests' \subseteq requests /\ tokens' \subseteq tokens
    BY <1>29 DEF BackoffElapses, loop, ledger, clickhouse
  <2> QED
    BY <1>0, <2>1, StoresExistKept, SameWorkersExist DEF RunsExist
<1>30. ASSUME NEW s \in Sites, StartDeletion(s)
      PROVE  RunsExist'
  <2>1. /\ UNCHANGED <<pc, run, todo, applied>>
        /\ requests' \subseteq requests /\ tokens' \subseteq tokens
    BY <1>30 DEF StartDeletion, loop, ledger, clickhouse
  <2> QED
    BY <1>0, <2>1, StoresExistKept, SameWorkersExist DEF RunsExist
<1>31. ASSUME NEW b \in Batches, Replay(b)
      PROVE  RunsExist'
  <2>1. /\ UNCHANGED <<pc, run, todo, applied>>
        /\ requests' \subseteq requests /\ tokens' \subseteq tokens
    BY <1>31 DEF Replay, loop, ledger, clickhouse
  <2> QED
    BY <1>0, <2>1, StoresExistKept, SameWorkersExist DEF RunsExist
<1>32. ASSUME NEW b \in Batches, TokenForgotten(b)
      PROVE  RunsExist'
  <2>1. /\ UNCHANGED <<pc, run, todo, applied>>
        /\ requests' \subseteq requests /\ tokens' \subseteq tokens
    BY <1>32 DEF TokenForgotten, loop, ledger, clickhouse
  <2> QED
    BY <1>0, <2>1, StoresExistKept, SameWorkersExist DEF RunsExist
<1>33. CASE TrimPlan
  <2>1. /\ UNCHANGED <<pc, run, todo, applied>>
        /\ requests' \subseteq requests /\ tokens' \subseteq tokens
    BY <1>33 DEF TrimPlan, loop, ledger, clickhouse
  <2> QED
    BY <1>0, <2>1, StoresExistKept, SameWorkersExist DEF RunsExist
<1>34. CASE TrimApply
  <2>1. /\ UNCHANGED <<pc, run, todo, applied>>
        /\ requests' \subseteq requests /\ tokens' \subseteq tokens
    BY <1>34 DEF TrimApply, loop, ledger, clickhouse
  <2> QED
    BY <1>0, <2>1, StoresExistKept, SameWorkersExist DEF RunsExist
<1>35. CASE UNCHANGED vars
  BY <1>35
     DEF vars, RunsExist, WorkerExists, StoresExist, Exists, valkey, ledger, clickhouse, loop,
         bounds
<1> QED
  BY <1>l, <1>1, <1>2, <1>3, <1>4, <1>5, <1>6, <1>7, <1>8, <1>9, <1>10, <1>11,
     <1>12, <1>13, <1>14, <1>15, <1>16, <1>17, <1>18, <1>19, <1>20, <1>21, <1>22, <1>23,
     <1>24, <1>25, <1>26, <1>27, <1>28, <1>29, <1>30, <1>31, <1>32, <1>33, <1>34, <1>35
  DEF Next, Recovers, Reclaims, Reads, RunsManifest, Faults, Server, Clock, Operator, Trim

-----------------------------------------------------------------------------
(* What manifests tell. *)

LEMMA KnowledgeInit == Init => KnowledgeInv
BY DEF Init, KnowledgeInv, ManifestTells, WorkersTell, TodoTells, RunTells, StoresTell, Tells,
       NoRow, Loaded

LEMMA BatchIsSet == \A b \in Batches : b \in SUBSET Msgs
BY DEF Batches

LEMMA RunBatchIsSet == TypeOK => \A w \in Workers : run[w].batch \in SUBSET Msgs
BY DEF TypeOK, RunType

LEMMA SameStatesTell ==
  ASSUME TypeOK, TypeOK', StoresGrow, ManifestTells,
         \A b \in Batches : manifest'[b].state = manifest[b].state
  PROVE  ManifestTells'
BY Persistence, BatchIsSet DEF ManifestTells

LEMMA UpdateTells ==
  ASSUME TypeOK, TypeOK', StoresGrow, ManifestTells, NEW c \in Batches, NEW row,
         manifest' = [manifest EXCEPT ![c] = row], Tells(c, row.state)
  PROVE  ManifestTells'
<1>1. ASSUME NEW b \in Batches
      PROVE  Tells(b, manifest'[b].state)
  BY DEF TypeOK, ManifestTells
<1> QED
  BY <1>1, Persistence, BatchIsSet DEF ManifestTells

LEMMA ManifestTellsNext ==
  TypeOK /\ TypeOK' /\ RunsExist /\ StoresGrow /\ KnowledgeInv /\ [Next]_vars => ManifestTells'
<1> SUFFICES ASSUME TypeOK, TypeOK', RunsExist, StoresGrow, KnowledgeInv, [Next]_vars
             PROVE  ManifestTells'
  OBVIOUS
<1>0. ManifestTells
  BY DEF KnowledgeInv
<1>s. UNCHANGED manifest => ManifestTells'
  BY <1>0, SameStatesTell
<1>1. ASSUME NEW w \in Workers,
             ListRunnable(w) \/ LoadListed(w) \/ Snapshot(w) \/ AckAgain(w) \/ Load(w)
      PROVE  UNCHANGED manifest
  BY <1>1 DEF ListRunnable, LoadListed, Snapshot, AckAgain, Load
<1>2. ASSUME NEW w \in Workers,
             InsertConfirmed(w) \/ SettleWritten(w) \/ ApplyUsage(w) \/ Ack(w)
      PROVE  UNCHANGED manifest
  BY <1>2 DEF InsertConfirmed, SettleWritten, ApplyUsage, Ack
<1>3. ASSUME NEW w \in Workers,
             PublishDeadLetter(w) \/ AckDead(w) \/ TransitionRefused(w)
      PROVE  UNCHANGED manifest
  BY <1>3 DEF PublishDeadLetter, AckDead, TransitionRefused
<1>4. ASSUME NEW w \in Workers,
             InsertRefused(w) \/ InsertTimesOut(w) \/ CallFails(w) \/ Crash(w)
      PROVE  UNCHANGED manifest
  BY <1>4 DEF InsertRefused, InsertTimesOut, CallFails, Crash
<1>5. ASSUME NEW w \in Workers, NEW idle \in SUBSET pel, Reclaim(w, idle)
      PROVE  UNCHANGED manifest
  BY <1>5 DEF Reclaim
<1>6. ASSUME NEW w \in Workers, NEW got \in SUBSET undelivered, NEW flush \in BOOLEAN,
             Read(w, got, flush)
      PROVE  UNCHANGED manifest
  BY <1>6 DEF Read
<1>7. ASSUME NEW w \in Workers, Claim(w)
      PROVE  ManifestTells'
  <2> PICK t \in todo[w] :
         \/ manifest' = [manifest EXCEPT ![t.batch].owner = w, ![t.batch].lease = "live"]
         \/ UNCHANGED manifest
    BY <1>7 DEF Claim
  <2> DEFINE row == [manifest[t.batch] EXCEPT !.owner = w, !.lease = "live"]
  <2>1. t.batch \in Batches
    BY ElementTypes
  <2>2. row.state = manifest[t.batch].state
    BY <2>1 DEF TypeOK, RowType
  <2>3. Tells(t.batch, row.state)
    BY <1>0, <2>1, <2>2 DEF ManifestTells
  <2>4. manifest' = [manifest EXCEPT ![t.batch] = row] \/ UNCHANGED manifest
    OBVIOUS
  <2> QED
    BY <1>0, <1>s, <2>1, <2>3, <2>4, UpdateTells
<1>8. ASSUME NEW w \in Workers, Plan(w)
      PROVE  ManifestTells'
  <2> PICK b \in Batches :
         \/ manifest' = [manifest EXCEPT ![b] =
                           [NoRow EXCEPT !.state = "pending", !.owner = w, !.lease = "live"]]
         \/ UNCHANGED manifest
    BY <1>8 DEF Plan
  <2> DEFINE row == [NoRow EXCEPT !.state = "pending", !.owner = w, !.lease = "live"]
  <2>1. row.state = "pending"
    BY DEF NoRow
  <2>2. Tells(b, row.state)
    BY <2>1 DEF Tells
  <2> QED
    BY <1>0, <1>s, <2>2, UpdateTells
<1>9. ASSUME NEW w \in Workers, MarkInserting(w)
      PROVE  ManifestTells'
  <2> DEFINE b == run[w].batch
             row == [manifest[b] EXCEPT !.state = "inserting", !.waiting = FALSE]
  <2>1. b \in Batches /\ manifest[b] \in RowType
    BY <1>9 DEF MarkInserting, TypeOK, RunsExist, WorkerExists, RunCalls
  <2>2. row.state = "inserting"
    BY <2>1 DEF RowType
  <2>3. Tells(b, row.state)
    BY <2>2 DEF Tells
  <2>4. manifest' = [manifest EXCEPT ![b] = row]
    BY <1>9 DEF MarkInserting, Transition
  <2> QED
    BY <1>0, <2>1, <2>3, <2>4, UpdateTells
<1>10. ASSUME NEW w \in Workers, MarkInserted(w)
      PROVE  ManifestTells'
  <2> DEFINE b == run[w].batch
             row == [manifest[b] EXCEPT !.state = "inserted"]
  <2>1. b \in Batches /\ manifest[b] \in RowType
    BY <1>10 DEF MarkInserted, TypeOK, RunsExist, WorkerExists, RunCalls
  <2>k. Stored(b)
    BY <1>10 DEF MarkInserted, KnowledgeInv, WorkersTell, RunTells
  <2>2. row.state = "inserted"
    BY <2>1 DEF RowType
  <2>3. Tells(b, row.state)
    BY <2>k, <2>2 DEF Tells
  <2>4. manifest' = [manifest EXCEPT ![b] = row]
    BY <1>10 DEF MarkInserted, Transition
  <2> QED
    BY <1>0, <2>1, <2>3, <2>4, UpdateTells
<1>11. ASSUME NEW w \in Workers, MarkUsageRecorded(w)
      PROVE  ManifestTells'
  <2> DEFINE b == run[w].batch
             row == [manifest[b] EXCEPT !.state = "usage_recorded"]
  <2>1. b \in Batches /\ manifest[b] \in RowType
    BY <1>11 DEF MarkUsageRecorded, TypeOK, RunsExist, WorkerExists, RunCalls
  <2>k. Stored(b) /\ Charged(b)
    BY <1>11 DEF MarkUsageRecorded, KnowledgeInv, WorkersTell, RunTells
  <2>2. row.state = "usage_recorded"
    BY <2>1 DEF RowType
  <2>3. Tells(b, row.state)
    BY <2>k, <2>2 DEF Tells
  <2>4. manifest' = [manifest EXCEPT ![b] = row]
    BY <1>11 DEF MarkUsageRecorded, Transition
  <2> QED
    BY <1>0, <2>1, <2>3, <2>4, UpdateTells
<1>12. ASSUME NEW w \in Workers, MarkCompleted(w)
      PROVE  ManifestTells'
  <2> DEFINE b == run[w].batch
             row == [manifest[b] EXCEPT !.state = "completed", !.owner = NoWorker,
                                    !.lease = "none"]
  <2>1. b \in Batches /\ manifest[b] \in RowType
    BY <1>12 DEF MarkCompleted, TypeOK, RunsExist, WorkerExists, RunCalls
  <2>k. Stored(b) /\ Charged(b)
    BY <1>0, <1>12, <2>1 DEF MarkCompleted, Transition, ManifestTells, Tells
  <2>2. row.state = "completed"
    BY <2>1 DEF RowType
  <2>3. Tells(b, row.state)
    BY <2>k, <2>2 DEF Tells
  <2>4. manifest' = [manifest EXCEPT ![b] = row]
    BY <1>12 DEF MarkCompleted, Transition
  <2> QED
    BY <1>0, <2>1, <2>3, <2>4, UpdateTells
<1>13. ASSUME NEW w \in Workers, MarkDeadLettered(w)
      PROVE  ManifestTells'
  <2> DEFINE b == run[w].batch
             row == [manifest[b] EXCEPT !.state = "dead_lettered", !.owner = NoWorker,
                                    !.lease = "none"]
  <2>1. b \in Batches /\ manifest[b] \in RowType
    BY <1>13 DEF MarkDeadLettered, TypeOK, RunsExist, WorkerExists, RunCalls
  <2>k. Copied(b)
    BY <1>13 DEF MarkDeadLettered, KnowledgeInv, WorkersTell, RunTells
  <2>2. row.state = "dead_lettered"
    BY <2>1 DEF RowType
  <2>3. Tells(b, row.state)
    BY <2>k, <2>2 DEF Tells
  <2>4. manifest' = [manifest EXCEPT ![b] = row]
    BY <1>13 DEF MarkDeadLettered, Transition
  <2> QED
    BY <1>0, <2>1, <2>3, <2>4, UpdateTells
<1>14. ASSUME NEW w \in Workers, MarkAttemptFailed(w)
      PROVE  ManifestTells'
  <2> DEFINE b == run[w].batch
             row == [state |-> IF run[w].ambiguous THEN "inserting" ELSE "pending",
                     attempts |-> IF manifest[b].attempts < MaxAttempts
                                  THEN manifest[b].attempts + 1 ELSE MaxAttempts,
                     owner |-> NoWorker, lease |-> "none", waiting |-> TRUE]
  <2>1. b \in Batches
    BY <1>14 DEF MarkAttemptFailed, RunsExist, WorkerExists, RunCalls
  <2>2. Tells(b, row.state)
    BY DEF Tells
  <2>3. manifest' = [manifest EXCEPT ![b] = row]
    BY <1>14 DEF MarkAttemptFailed, Transition
  <2> QED
    BY <1>0, <2>1, <2>2, <2>3, UpdateTells
<1>15. ASSUME NEW b \in Batches, LeaseExpires(b)
      PROVE  ManifestTells'
  <2>1. \A c \in Batches : manifest'[c].state = manifest[c].state
    BY <1>15 DEF LeaseExpires, TypeOK, RowType
  <2> QED
    BY <1>0, <2>1, SameStatesTell
<1>16. ASSUME NEW b \in Batches, BackoffElapses(b)
      PROVE  ManifestTells'
  <2>1. \A c \in Batches : manifest'[c].state = manifest[c].state
    BY <1>16 DEF BackoffElapses, TypeOK, RowType
  <2> QED
    BY <1>0, <2>1, SameStatesTell
<1>17. ASSUME NEW b \in Batches, Replay(b)
      PROVE  ManifestTells'
  <2> DEFINE row == [manifest[b] EXCEPT !.state = "pending", !.attempts = 0, !.waiting = FALSE]
  <2>1. row.state = "pending"
    BY DEF TypeOK, RowType
  <2>2. Tells(b, row.state)
    BY <2>1 DEF Tells
  <2>3. manifest' = [manifest EXCEPT ![b] = row]
    BY <1>17 DEF Replay, Transition
  <2> QED
    BY <1>0, <2>2, <2>3, UpdateTells
<1>18. ASSUME NEW b \in Batches, TokenForgotten(b)
      PROVE  UNCHANGED manifest
  BY <1>18 DEF TokenForgotten
<1>19. ASSUME NEW r \in requests, ServerExecutes(r) \/ RequestLost(r)
      PROVE  UNCHANGED manifest
  BY <1>19 DEF ServerExecutes, RequestLost
<1>20. ASSUME NEW s \in Sites, StartDeletion(s)
      PROVE  UNCHANGED manifest
  BY <1>20 DEF StartDeletion
<1>21. CASE TrimPlan \/ TrimApply \/ UNCHANGED vars
  BY <1>21, <1>s DEF TrimPlan, TrimApply, vars
<1> QED
  BY <1>s, <1>1, <1>2, <1>3, <1>4, <1>5, <1>6, <1>7, <1>8, <1>9, <1>10,
     <1>11, <1>12, <1>13, <1>14, <1>15, <1>16, <1>17, <1>18, <1>19, <1>20, <1>21
  DEF Next, Recovers, Reclaims, Reads, RunsManifest, Faults, Server, Clock, Operator, Trim

-----------------------------------------------------------------------------
(* What requests, tokens and the ledger tell. *)

LEMMA StoresTellKept ==
  ASSUME TypeOK, TypeOK', StoresGrow, StoresTell,
         \A r \in requests' : \E q \in requests : r.batch = q.batch /\ r.rows = q.rows,
         tokens' \subseteq tokens, applied' = applied
  PROVE  StoresTell'
<1>1. ASSUME NEW r \in requests' PROVE Admissible(r.batch)' \subseteq r.rows
  <2> PICK q \in requests : r.batch = q.batch /\ r.rows = q.rows
    OBVIOUS
  <2>1. q.batch \in SUBSET Msgs /\ Admissible(q.batch) \subseteq q.rows
    BY ElementTypes, BatchIsSet DEF StoresTell
  <2>2. Admissible(q.batch)' \subseteq Admissible(q.batch)
    BY <2>1, Persistence
  <2> QED
    BY <2>1, <2>2 DEF Admissible, Admitted
<1>2. ASSUME NEW b \in tokens' PROVE Stored(b)'
  BY Persistence, ElementTypes, BatchIsSet DEF StoresTell
<1>3. ASSUME NEW b \in applied' PROVE Stored(b)' /\ Charged(b)'
  BY Persistence, ElementTypes, BatchIsSet DEF StoresTell
<1> QED
  BY <1>1, <1>2, <1>3 DEF StoresTell

\* The two steps that add rows and units add them for everything a load of the
\* batch could still return.
LEMMA ServerStores ==
  ASSUME TypeOK, TypeOK', StoresGrow, StoresTell, NEW r \in requests, ServerExecutes(r)
  PROVE  Stored(r.batch)'
<1>1. r.batch \in SUBSET Msgs /\ Admissible(r.batch) \subseteq r.rows /\ r.rows \subseteq Msgs
  BY ElementTypes, BatchIsSet DEF StoresTell
<1>2. CASE r.batch \in tokens
  BY <1>1, <1>2, Persistence DEF StoresTell
<1>3. CASE r.batch \notin tokens
  <2>1. \A m \in r.rows : rows'[m] >= 1
    BY <1>1, <1>3 DEF ServerExecutes, TypeOK
  <2>2. Admissible(r.batch)' \subseteq r.rows
    BY <1>1, Persistence
  <2> QED
    BY <2>1, <2>2 DEF Stored
<1> QED
  BY <1>2, <1>3

LEMMA ApplyUsageCharges ==
  ASSUME TypeOK, TypeOK', StoresGrow, KnowledgeInv, NEW w \in Workers, ApplyUsage(w)
  PROVE  Stored(run[w].batch)' /\ Charged(run[w].batch)'
<1> DEFINE b == run[w].batch
<1>1. /\ b \in SUBSET Msgs /\ Admissible(b) \subseteq run[w].writable
      /\ Stored(b) /\ run' = run
  BY RunBatchIsSet DEF ApplyUsage, KnowledgeInv, WorkersTell, RunTells, Loaded
<1>2. /\ Admissible(b)' \subseteq Admissible(b)
      /\ Stored(b)' /\ (Charged(b) => Charged(b)')
  BY <1>1, Persistence
<1>3. CASE b \in applied
  BY <1>2, <1>3 DEF KnowledgeInv, StoresTell
<1>4. CASE b \notin applied
  <2>1. \A m \in Admissible(b) : billed'[m] >= 1
    BY <1>1, <1>4 DEF ApplyUsage, TypeOK, Admissible
  <2> QED
    BY <1>1, <1>2, <2>1 DEF Charged
<1> QED
  BY <1>2, <1>3, <1>4

LEMMA StoresTellNext ==
  TypeOK /\ TypeOK' /\ RunsExist /\ StoresGrow /\ KnowledgeInv /\ [Next]_vars => StoresTell'
<1> SUFFICES ASSUME TypeOK, TypeOK', RunsExist, StoresGrow, KnowledgeInv, [Next]_vars
             PROVE  StoresTell'
  OBVIOUS
<1>0. StoresTell
  BY DEF KnowledgeInv
<1> DEFINE Quiet == /\ requests' \subseteq requests /\ tokens' \subseteq tokens
                    /\ applied' = applied
<1>q. Quiet => StoresTell'
  BY <1>0, StoresTellKept
<1>1. ASSUME NEW w \in Workers,
             ListRunnable(w) \/ LoadListed(w) \/ Claim(w) \/ Plan(w) \/ Snapshot(w) \/ AckAgain(w)
      PROVE  Quiet
  BY <1>1 DEF ListRunnable, LoadListed, Claim, Plan, Snapshot, AckAgain, ledger, clickhouse
<1>2. ASSUME NEW w \in Workers,
             Load(w) \/ InsertConfirmed(w) \/ MarkInserted(w) \/ SettleWritten(w) \/ MarkUsageRecorded(w)
      PROVE  Quiet
  BY <1>2
     DEF Load, InsertConfirmed, MarkInserted, SettleWritten, MarkUsageRecorded, ledger,
         clickhouse
<1>3. ASSUME NEW w \in Workers,
             Ack(w) \/ MarkCompleted(w) \/ PublishDeadLetter(w) \/ MarkDeadLettered(w)
      PROVE  Quiet
  BY <1>3 DEF Ack, MarkCompleted, PublishDeadLetter, MarkDeadLettered, ledger, clickhouse
<1>4. ASSUME NEW w \in Workers,
             AckDead(w) \/ MarkAttemptFailed(w) \/ TransitionRefused(w) \/ InsertRefused(w) \/ CallFails(w)
      PROVE  Quiet
  BY <1>4
     DEF AckDead, MarkAttemptFailed, TransitionRefused, InsertRefused, CallFails, ledger,
         clickhouse
<1>5. ASSUME NEW w \in Workers, NEW idle \in SUBSET pel, Reclaim(w, idle)
      PROVE  Quiet
  BY <1>5 DEF Reclaim, ledger, clickhouse
<1>6. ASSUME NEW w \in Workers, NEW got \in SUBSET undelivered, NEW flush \in BOOLEAN,
             Read(w, got, flush)
      PROVE  Quiet
  BY <1>6 DEF Read, ledger, clickhouse
<1>7. ASSUME NEW w \in Workers, InsertTimesOut(w) \/ Crash(w)
      PROVE  StoresTell'
  <2>1. Abandon(w) /\ UNCHANGED <<tokens, applied>>
    BY <1>7 DEF InsertTimesOut, Crash, ledger
  <2>2. \A r \in requests' : \E q \in requests : r.batch = q.batch /\ r.rows = q.rows
    BY <2>1, AbandonKeeps
  <2> QED
    BY <1>0, <2>1, <2>2, StoresTellKept
<1>8. ASSUME NEW w \in Workers, MarkInserting(w)
      PROVE  StoresTell'
  <2> DEFINE b == run[w].batch
  <2>1. /\ b \in SUBSET Msgs /\ Admissible(b) \subseteq run[w].writable
    BY <1>8, RunBatchIsSet
       DEF MarkInserting, KnowledgeInv, WorkersTell, RunTells, Loaded
  <2>2. /\ requests' \subseteq requests \union {[by |-> w, batch |-> b, rows |-> run[w].writable]}
        /\ UNCHANGED <<stream, site, rows, billed, tokens, applied>>
    BY <1>8 DEF MarkInserting, valkey, ledger
  <2> QED
    BY <1>0, <2>1, <2>2 DEF StoresTell, Admissible, Admitted, Stored, Charged
<1>9. ASSUME NEW w \in Workers, ApplyUsage(w)
      PROVE  StoresTell'
  <2> DEFINE b == run[w].batch
  <2>1. UNCHANGED <<stream, site, rows, tokens, requests>>
    BY <1>9 DEF ApplyUsage, valkey, clickhouse
  <2>2. Stored(b)' /\ Charged(b)'
    BY <1>9, ApplyUsageCharges
  <2>3. \A c \in applied' : Stored(c)' /\ Charged(c)'
    <3>1. \A c \in applied : Stored(c)' /\ Charged(c)'
      BY <1>0, Persistence, ElementTypes, BatchIsSet DEF StoresTell
    <3>2. applied' = applied \union {b} /\ run' = run
      BY <1>9 DEF ApplyUsage
    <3> QED
      BY <2>2, <3>1, <3>2
  <2> QED
    BY <1>0, <2>1, <2>3 DEF StoresTell, Admissible, Admitted, Stored
<1>10. ASSUME NEW r \in requests, ServerExecutes(r)
      PROVE  StoresTell'
  <2>1. Stored(r.batch)'
    BY <1>0, <1>10, ServerStores
  <2>2. /\ requests' \subseteq requests /\ tokens' \subseteq tokens \union {r.batch}
        /\ applied' = applied
    BY <1>10 DEF ServerExecutes, ledger
  <2>3. \A q \in requests : Admissible(q.batch)' \subseteq q.rows
    <3>1. \A q \in requests : Admissible(q.batch)' \subseteq Admissible(q.batch)
      BY Persistence, ElementTypes, BatchIsSet
    <3> QED
      BY <1>0, <3>1 DEF StoresTell
  <2>4. \A b \in tokens : Stored(b)'
    BY <1>0, Persistence, ElementTypes, BatchIsSet DEF StoresTell
  <2>5. \A b \in applied : Stored(b)' /\ Charged(b)'
    BY <1>0, Persistence, ElementTypes, BatchIsSet DEF StoresTell
  <2> QED
    BY <2>1, <2>2, <2>3, <2>4, <2>5 DEF StoresTell
<1>11. ASSUME NEW r \in requests, RequestLost(r)
      PROVE  Quiet
  BY <1>11 DEF RequestLost, ledger
<1>12. ASSUME NEW b \in Batches,
             LeaseExpires(b) \/ BackoffElapses(b) \/ Replay(b) \/ TokenForgotten(b)
      PROVE  Quiet
  BY <1>12 DEF LeaseExpires, BackoffElapses, Replay, TokenForgotten, ledger, clickhouse
<1>13. ASSUME NEW s \in Sites, StartDeletion(s)
      PROVE  Quiet
  BY <1>13 DEF StartDeletion, ledger, clickhouse
<1>14. CASE TrimPlan \/ TrimApply \/ UNCHANGED vars
  BY <1>14, <1>q DEF TrimPlan, TrimApply, vars, ledger, clickhouse
<1> QED
  BY <1>q, <1>1, <1>2, <1>3, <1>4, <1>5, <1>6, <1>7,
     <1>8, <1>9, <1>10, <1>11, <1>12, <1>13, <1>14
  DEF Next, Recovers, Reclaims, Reads, RunsManifest, Faults, Server, Clock, Operator, Trim

-----------------------------------------------------------------------------
(* What workers know. *)

LEMMA TodoTellsKept ==
  ASSUME TypeOK, TypeOK', StoresGrow, NEW w \in Workers, TodoTells(w),
         todo'[w] \subseteq todo[w]
  PROVE  TodoTells(w)'
BY Persistence, ElementTypes, BatchIsSet DEF TodoTells

LEMMA RunTellsKept ==
  ASSUME TypeOK, TypeOK', StoresGrow, NEW w \in Workers, RunTells(w),
         pc'[w] = pc[w], run'[w] = run[w],
         \A r \in requests : r.by = w => r \in requests' \/ Stored(r.batch)'
  PROVE  RunTells(w)'
<1> DEFINE b == run[w].batch
<1>1. /\ Admissible(b)' \subseteq Admissible(b)
      /\ Stored(b) => Stored(b)'
      /\ Charged(b) => Charged(b)'
      /\ Copied(b) => Copied(b)'
      /\ \A x : Tells(b, x) => Tells(b, x)'
  BY Persistence, RunBatchIsSet
<1> QED
  BY <1>1 DEF RunTells, Loaded

\* A worker without a manifest knows nothing of one.
LEMMA IdleTells ==
  ASSUME NEW w \in Workers, pc'[w] \notin RunCalls
  PROVE  RunTells(w)'
BY DEF RunTells, Loaded, RunCalls

LEMMA SnapshotTells ==
  ASSUME NEW w, NEW c, NEW x, Tells(c, x)', run'[w].batch = c, run'[w].state = x,
         pc'[w] = "load" \/ (pc'[w] = "ack_again" /\ x \in Terminal)
  PROVE  RunTells(w)'
BY DEF RunTells, Tells, Loaded, Terminal, Stored, Charged, Copied, Admissible

LEMMA OthersTell ==
  ASSUME TypeOK, TypeOK', StoresGrow, WorkersTell, NEW w \in Workers, OthersKeep(w),
         \A r \in requests : r.by # w => r \in requests',
         TodoTells(w)', RunTells(w)'
  PROVE  WorkersTell'
<1>1. ASSUME NEW u \in Workers \ {w} PROVE TodoTells(u)' /\ RunTells(u)'
  BY <1>1, TodoTellsKept, RunTellsKept DEF OthersKeep, WorkersTell
<1> QED
  BY <1>1 DEF WorkersTell

LEMMA SameWorkersTell ==
  ASSUME TypeOK, TypeOK', StoresGrow, WorkersTell, UNCHANGED <<pc, run, todo>>,
         \A r \in requests : r.by \in Workers => r \in requests' \/ Stored(r.batch)'
  PROVE  WorkersTell'
BY TodoTellsKept, RunTellsKept DEF WorkersTell

LEMMA WorkersTellNext ==
  TypeOK /\ TypeOK' /\ RunsExist /\ StoresGrow /\ KnowledgeInv /\ [Next]_vars => WorkersTell'
<1> SUFFICES ASSUME TypeOK, TypeOK', RunsExist, StoresGrow, KnowledgeInv, [Next]_vars
             PROVE  WorkersTell'
  OBVIOUS
<1>0. WorkersTell /\ ManifestTells /\ StoresTell
  BY DEF KnowledgeInv
<1>k. ASSUME NEW w \in Workers
      PROVE  /\ TodoTells(w) /\ RunTells(w)
             /\ todo'[w] \subseteq todo[w] => TodoTells(w)'
  BY <1>0, TodoTellsKept DEF WorkersTell
<1>l. ASSUME NEW w \in Workers, run'[w].batch = run[w].batch
      PROVE  /\ Admissible(run[w].batch)' \subseteq Admissible(run[w].batch)
             /\ Stored(run[w].batch) => Stored(run[w].batch)'
             /\ Charged(run[w].batch) => Charged(run[w].batch)'
             /\ Copied(run[w].batch) => Copied(run[w].batch)'
  BY <1>l, Persistence, RunBatchIsSet
<1>1. ASSUME NEW w \in Workers, ListRunnable(w)
      PROVE  WorkersTell'
  <2>1. /\ OthersKeep(w) /\ pc'[w] \notin RunCalls /\ UNCHANGED requests
        /\ \A t \in todo'[w] : t.state = "listed"
    BY <1>1 DEF ListRunnable, OthersKeep, Goto, TypeOK, RunCalls, clickhouse
  <2>2. TodoTells(w)'
    BY <2>1 DEF TodoTells, Tells
  <2> QED
    BY <1>0, <2>1, <2>2, IdleTells, OthersTell
<1>m. ASSUME NEW w \in Workers, LoadListed(w)
      PROVE  WorkersTell'
  <2> PICK b \in Batches :
         /\ todo'[w] \subseteq todo[w] \union {Found(b)}
         /\ \A u \in Workers \ {w} : todo'[u] = todo[u]
         /\ pc[w] = "claim" /\ UNCHANGED <<pc, run>>
    BY <1>m, LoadListedDoes
  <2>1. OthersKeep(w) /\ pc'[w] \notin RunCalls /\ UNCHANGED requests
    BY <1>m DEF LoadListed, OthersKeep, RunCalls, clickhouse
  <2>2. Tells(b, manifest[b].state)'
    BY <1>0, Persistence, BatchIsSet, <1>m DEF ManifestTells, LoadListed
  <2>3. ASSUME NEW t \in todo'[w]
        PROVE  Tells(t.batch, t.state)'
    <3>1. CASE t \in todo[w]
      BY <3>1, <1>k, Persistence, ElementTypes, BatchIsSet DEF TodoTells
    <3>2. CASE t = Found(b)
      <4>1. t.batch = b /\ t.state = manifest'[b].state
        BY <3>2, <1>m DEF Found, LoadListed
      <4> QED
        BY <2>2, <4>1
    <3> QED
      BY <2>3, <3>1, <3>2
  <2> QED
    BY <1>0, <2>1, <2>3, IdleTells, OthersTell DEF TodoTells
<1>2. ASSUME NEW w \in Workers, Claim(w)
      PROVE  WorkersTell'
  <2> PICK t \in todo[w] :
         /\ t.state # "listed" /\ todo' = [todo EXCEPT ![w] = @ \ {t}]
         /\ \/ /\ run' = [run EXCEPT ![w] =
                             [NoRun EXCEPT !.batch = t.batch, !.state = t.state,
                                           !.attempts = t.attempts]]
               /\ Goto(w, IF RecoveryAction(t.state) = "none" THEN "ack_again" ELSE "load")
            \/ /\ Goto(w, IF todo[w] = {t} THEN "reclaim" ELSE "claim")
               /\ UNCHANGED run
    BY <1>2 DEF Claim
  <2>1. OthersKeep(w) /\ todo'[w] \subseteq todo[w]
    BY DEF Goto, TypeOK, OthersKeep
  <2>2. UNCHANGED requests
    BY <1>2 DEF Claim, clickhouse
  <2>3. TodoTells(w)'
    BY <1>k, <2>1
  <2>4. CASE pc'[w] \notin RunCalls
    BY <1>0, <2>1, <2>2, <2>3, <2>4, IdleTells, OthersTell
  <2>5. CASE pc'[w] \in RunCalls
    <3>1. /\ pc'[w] = IF RecoveryAction(t.state) = "none" THEN "ack_again" ELSE "load"
          /\ run'[w].batch = t.batch /\ run'[w].state = t.state
      <4>1. /\ pc'[w] = IF RecoveryAction(t.state) = "none" THEN "ack_again" ELSE "load"
            /\ run' = [run EXCEPT ![w] =
                                        [NoRun EXCEPT !.batch = t.batch, !.state = t.state,
                                                      !.attempts = t.attempts]]
        BY <2>5 DEF Goto, RunCalls, TypeOK
      <4>2. run'[w] = [NoRun EXCEPT !.batch = t.batch, !.state = t.state,
                                    !.attempts = t.attempts]
        BY <4>1 DEF TypeOK
      <4>3. run'[w].batch = t.batch /\ run'[w].state = t.state
        BY ONLY <4>2, SnapshotRun
      <4> QED
        BY <4>1, <4>3
    <3>2. Tells(t.batch, t.state)'
      BY <1>k, Persistence, ElementTypes, BatchIsSet DEF TodoTells
    <3>3. RunTells(w)'
      <4>1. t.state \in BatchStates
        BY ElementTypes
      <4>2. pc'[w] = "load" \/ (pc'[w] = "ack_again" /\ t.state \in Terminal)
        BY <3>1, <4>1, ActionOf
      <4> QED
        BY <3>1, <3>2, <4>2, SnapshotTells
    <3> QED
      BY <1>0, <2>1, <2>2, <2>3, <3>3, OthersTell
  <2> QED
    BY <2>4, <2>5
<1>3. ASSUME NEW w \in Workers, NEW idle \in SUBSET pel, Reclaim(w, idle)
      PROVE  WorkersTell'
  <2>1. /\ OthersKeep(w) /\ pc'[w] \notin RunCalls
        /\ UNCHANGED <<requests, todo>>
    BY <1>3 DEF Reclaim, OthersKeep, Goto, TypeOK, RunCalls, clickhouse
  <2> QED
    BY <1>0, <1>k, <2>1, IdleTells, OthersTell
<1>4. ASSUME NEW w \in Workers, NEW got \in SUBSET undelivered, NEW flush \in BOOLEAN,
             Read(w, got, flush)
      PROVE  WorkersTell'
  <2>1. /\ OthersKeep(w) /\ pc'[w] \notin RunCalls
        /\ UNCHANGED <<requests, todo>>
    BY <1>4 DEF Read, OthersKeep, Goto, TypeOK, RunCalls, clickhouse
  <2> QED
    BY <1>0, <1>k, <2>1, IdleTells, OthersTell
<1>5. ASSUME NEW w \in Workers, Plan(w)
      PROVE  WorkersTell'
  <2>1. /\ OthersKeep(w) /\ pc'[w] = "snapshot" /\ UNCHANGED <<requests, todo>>
    BY <1>5 DEF Plan, OthersKeep, Goto, TypeOK, clickhouse
  <2>2. RunTells(w)'
    BY <2>1 DEF RunTells, Loaded
  <2> QED
    BY <1>0, <1>k, <2>1, <2>2, OthersTell
<1>6. ASSUME NEW w \in Workers, Snapshot(w)
      PROVE  WorkersTell'
  <2> DEFINE b == run[w].batch
             state == manifest[b].state
  <2>1. /\ OthersKeep(w) /\ UNCHANGED <<requests, todo>>
        /\ run'[w] = [run[w] EXCEPT !.state = state, !.attempts = manifest[b].attempts]
        /\ pc'[w] = IF RecoveryAction(state) = "none" THEN "ack_again" ELSE "load"
    BY <1>6 DEF Snapshot, OthersKeep, Goto, TypeOK, loop, clickhouse
  <2>2. run'[w].batch = b /\ run'[w].state = state
    BY <2>1 DEF TypeOK, RunType
  <2>3. b \in Batches /\ state \in BatchStates
    BY <1>6 DEF Snapshot, RunsExist, WorkerExists, RunCalls, Exists, TypeOK, RowType
  <2>4. Tells(b, state)
    BY <1>0, <2>3 DEF ManifestTells
  <2>5. pc'[w] = "ack_again" => state \in Terminal
    BY <2>1, <2>3 DEF RecoveryAction, BatchStates, Runnable
  <2> PICK c \in Batches, x \in BatchStates : c = b /\ x = state
    BY <2>3
  <2>6. Tells(c, x)'
    BY <2>4, Persistence, BatchIsSet
  <2>7. /\ run'[w].batch = c /\ run'[w].state = x
        /\ pc'[w] = "load" \/ (pc'[w] = "ack_again" /\ x \in Terminal)
    BY <2>1, <2>2, <2>5
  <2>8. RunTells(w)'
    BY <2>6, <2>7, SnapshotTells
  <2> QED
    BY <1>0, <1>k, <2>1, <2>8, OthersTell
<1>7. ASSUME NEW w \in Workers, Load(w)
      PROVE  WorkersTell'
  <2> DEFINE b == run[w].batch
  <2>1. /\ OthersKeep(w) /\ UNCHANGED <<requests, todo, stream, site, rows, billed>>
        /\ pc[w] = "load" /\ pc'[w] = FirstCall[RecoveryAction(run[w].state)]
        /\ run'[w] = [run[w] EXCEPT !.writable = Admissible(b)]
    BY <1>7 DEF Load, OthersKeep, Goto, TypeOK, loop, clickhouse, valkey, ledger
  <2>2. run'[w].batch = b /\ run'[w].writable = Admissible(b)
    BY <2>1 DEF TypeOK, RunType
  <2>3. run[w].state \in Runnable /\ Tells(b, run[w].state)
    BY <1>k, <2>1 DEF RunTells, RunsExist, WorkerExists
  <2>4. /\ pc'[w] \in {"mark_inserting", "settle", "ack"}
        /\ pc'[w] \in {"settle", "ack"} => Stored(b)
        /\ pc'[w] = "ack" => Charged(b)
    BY <2>1, <2>3 DEF FirstCall, RecoveryAction, Runnable, Tells
  <2>5. RunTells(w)'
    BY <1>l, <2>1, <2>2, <2>4 DEF RunTells, Loaded, Admissible, Admitted, Stored, Charged
  <2> QED
    BY <1>0, <1>k, <2>1, <2>5, OthersTell
<1>8. ASSUME NEW w \in Workers, MarkInserting(w)
      PROVE  WorkersTell'
  <2> DEFINE b == run[w].batch
             request == [by |-> w, batch |-> b, rows |-> run[w].writable]
  <2>1. /\ OthersKeep(w) /\ UNCHANGED <<todo, run>> /\ pc[w] = "mark_inserting"
    BY <1>8 DEF MarkInserting, OthersKeep, Goto, TypeOK, loop
  <2>2. \A r \in requests : r \in requests'
    BY <1>8 DEF MarkInserting
  <2>3. Admissible(b) \subseteq run[w].writable
    BY <1>k, <2>1 DEF RunTells, Loaded
  <2>4. CASE run[w].writable = {}
    <3>1. Stored(b) /\ pc'[w] = "mark_inserted"
      BY <1>8, <2>3, <2>4 DEF Stored, MarkInserting, Goto, TypeOK
    <3>2. RunTells(w)'
      BY <1>l, <2>1, <2>3, <3>1 DEF RunTells, Loaded
    <3> QED
      BY <1>0, <1>k, <2>1, <2>2, <3>2, OthersTell
  <2>5. CASE run[w].writable # {}
    <3>1. pc'[w] = "await_insert" /\ request \in requests'
      BY <1>8, <2>5 DEF MarkInserting, Goto, TypeOK
    <3>2. RunTells(w)'
      BY <1>l, <2>1, <2>3, <3>1 DEF RunTells, Loaded
    <3> QED
      BY <1>0, <1>k, <2>1, <2>2, <3>2, OthersTell
  <2> QED
    BY <2>4, <2>5
<1>9. ASSUME NEW w \in Workers, InsertConfirmed(w)
      PROVE  WorkersTell'
  <2>1. /\ OthersKeep(w) /\ UNCHANGED <<requests, todo, run>>
        /\ pc[w] = "await_insert" /\ pc'[w] = "mark_inserted"
    BY <1>9 DEF InsertConfirmed, OthersKeep, Goto, TypeOK, loop, clickhouse
  <2>2. Stored(run[w].batch) /\ Admissible(run[w].batch) \subseteq run[w].writable
    BY <1>9, <1>k, <2>1 DEF InsertConfirmed, RunTells, Loaded, RequestsOf
  <2>3. RunTells(w)'
    BY <1>l, <2>1, <2>2 DEF RunTells, Loaded
  <2> QED
    BY <1>0, <1>k, <2>1, <2>3, OthersTell
<1>10. ASSUME NEW w \in Workers, MarkInserted(w)
      PROVE  WorkersTell'
  <2>1. /\ OthersKeep(w) /\ UNCHANGED <<requests, todo, run>>
        /\ pc[w] = "mark_inserted" /\ pc'[w] = "settle"
    BY <1>10 DEF MarkInserted, OthersKeep, Goto, TypeOK, loop, clickhouse
  <2>2. Stored(run[w].batch) /\ Admissible(run[w].batch) \subseteq run[w].writable
    BY <1>k, <2>1 DEF RunTells, Loaded
  <2>3. RunTells(w)'
    BY <1>l, <2>1, <2>2 DEF RunTells, Loaded
  <2> QED
    BY <1>0, <1>k, <2>1, <2>3, OthersTell
<1>11. ASSUME NEW w \in Workers, SettleWritten(w)
      PROVE  WorkersTell'
  <2>1. /\ OthersKeep(w) /\ UNCHANGED <<requests, todo, run>>
        /\ pc[w] = "settle" /\ pc'[w] = "apply_usage"
    BY <1>11 DEF SettleWritten, OthersKeep, Goto, TypeOK, loop, clickhouse
  <2>2. Stored(run[w].batch) /\ Admissible(run[w].batch) \subseteq run[w].writable
    BY <1>k, <2>1 DEF RunTells, Loaded
  <2>3. RunTells(w)'
    BY <1>l, <2>1, <2>2 DEF RunTells, Loaded
  <2> QED
    BY <1>0, <1>k, <2>1, <2>3, OthersTell
<1>12. ASSUME NEW w \in Workers, MarkUsageRecorded(w)
      PROVE  WorkersTell'
  <2>1. /\ OthersKeep(w) /\ UNCHANGED <<requests, todo, run>>
        /\ pc[w] = "mark_usage" /\ pc'[w] = "ack"
    BY <1>12 DEF MarkUsageRecorded, OthersKeep, Goto, TypeOK, loop, clickhouse
  <2>2. Stored(run[w].batch) /\ Charged(run[w].batch)
    BY <1>k, <2>1 DEF RunTells, Loaded
  <2>3. RunTells(w)'
    BY <1>l, <2>1, <2>2 DEF RunTells, Loaded
  <2> QED
    BY <1>0, <1>k, <2>1, <2>3, OthersTell
<1>13. ASSUME NEW w \in Workers, MarkDeadLettered(w)
      PROVE  WorkersTell'
  <2>1. /\ OthersKeep(w) /\ UNCHANGED <<requests, todo, run>>
        /\ pc[w] = "dead_letter" /\ pc'[w] = "ack_dead"
    BY <1>13 DEF MarkDeadLettered, OthersKeep, Goto, TypeOK, loop, clickhouse
  <2>2. Copied(run[w].batch)
    BY <1>k, <2>1 DEF RunTells, Loaded
  <2>3. RunTells(w)'
    BY <1>l, <2>1, <2>2 DEF RunTells, Loaded
  <2> QED
    BY <1>0, <1>k, <2>1, <2>3, OthersTell
<1>14. ASSUME NEW w \in Workers, Ack(w)
      PROVE  WorkersTell'
  <2>1. /\ OthersKeep(w) /\ UNCHANGED <<requests, todo, run>>
        /\ pc[w] = "ack" /\ pc'[w] = "complete"
    BY <1>14 DEF Ack, OthersKeep, Goto, TypeOK, loop, clickhouse
  <2>3. RunTells(w)'
    BY <1>l, <2>1 DEF RunTells, Loaded
  <2> QED
    BY <1>0, <1>k, <2>1, <2>3, OthersTell
<1>15. ASSUME NEW w \in Workers, ApplyUsage(w)
      PROVE  WorkersTell'
  <2>1. /\ OthersKeep(w) /\ UNCHANGED <<requests, todo, run>>
        /\ pc[w] = "apply_usage" /\ pc'[w] = "mark_usage"
    BY <1>15 DEF ApplyUsage, OthersKeep, Goto, TypeOK, loop, clickhouse
  <2>2. Stored(run[w].batch)' /\ Charged(run[w].batch)'
    BY <1>15, ApplyUsageCharges
  <2>3. RunTells(w)'
    BY <2>1, <2>2 DEF RunTells, Loaded
  <2> QED
    BY <1>0, <1>k, <2>1, <2>3, OthersTell
<1>16. ASSUME NEW w \in Workers, PublishDeadLetter(w)
      PROVE  WorkersTell'
  <2>1. /\ OthersKeep(w) /\ UNCHANGED <<requests, todo, run>> /\ pc'[w] = "dead_letter"
    BY <1>16 DEF PublishDeadLetter, OthersKeep, Goto, TypeOK, loop, clickhouse
  <2>2. Copied(run[w].batch)'
    BY <1>16, <2>1 DEF PublishDeadLetter, Copied
  <2>3. RunTells(w)'
    BY <2>1, <2>2 DEF RunTells, Loaded
  <2> QED
    BY <1>0, <1>k, <2>1, <2>3, OthersTell
<1>17. ASSUME NEW w \in Workers, AckAgain(w)
      PROVE  WorkersTell'
  <2>1. Finish(w) /\ UNCHANGED requests
    BY <1>17 DEF AckAgain, clickhouse
  <2> QED
    BY <1>0, <1>k, <2>1, FinishControl, IdleTells, OthersTell
<1>18. ASSUME NEW w \in Workers, MarkCompleted(w)
      PROVE  WorkersTell'
  <2>1. Finish(w) /\ UNCHANGED requests
    BY <1>18 DEF MarkCompleted, clickhouse
  <2> QED
    BY <1>0, <1>k, <2>1, FinishControl, IdleTells, OthersTell
<1>19. ASSUME NEW w \in Workers, AckDead(w)
      PROVE  WorkersTell'
  <2>1. Finish(w) /\ UNCHANGED requests
    BY <1>19 DEF AckDead, clickhouse
  <2> QED
    BY <1>0, <1>k, <2>1, FinishControl, IdleTells, OthersTell
<1>20. ASSUME NEW w \in Workers, MarkAttemptFailed(w)
      PROVE  WorkersTell'
  <2>1. Finish(w) /\ UNCHANGED requests
    BY <1>20 DEF MarkAttemptFailed, clickhouse
  <2> QED
    BY <1>0, <1>k, <2>1, FinishControl, IdleTells, OthersTell
<1>f. ASSUME NEW w \in Workers, FailRun(w, TRUE) \/ FailRun(w, FALSE) \/ AbandonTick(w)
      PROVE  OthersKeep(w) /\ TodoTells(w)' /\ RunTells(w)'
  <2>1. CASE FailRun(w, TRUE) \/ FailRun(w, FALSE)
    <3>1. /\ pc'[w] \in {"publish", "mark_failed"}
          /\ todo'[w] = todo[w] /\ OthersKeep(w)
      BY <2>1, FailRunControl
    <3> QED
      BY <1>k, <3>1 DEF RunTells, Loaded
  <2>2. CASE AbandonTick(w)
    <3>1. pc'[w] = "list" /\ todo'[w] = {} /\ OthersKeep(w)
      BY <2>2, AbandonTickControl
    <3> QED
      BY <1>k, <3>1 DEF RunTells, Loaded
  <2> QED
    BY <1>f, <2>1, <2>2
<1>21. ASSUME NEW w \in Workers, TransitionRefused(w)
      PROVE  WorkersTell'
  <2>1. /\ FailRun(w, TRUE) \/ FailRun(w, FALSE) \/ AbandonTick(w)
        /\ \A r \in requests : r.by # w => r \in requests'
    BY <1>21 DEF TransitionRefused, clickhouse
  <2> QED
    BY <1>0, <1>f, <2>1, OthersTell
<1>22. ASSUME NEW w \in Workers, CallFails(w)
      PROVE  WorkersTell'
  <2>1. /\ FailRun(w, TRUE) \/ FailRun(w, FALSE) \/ AbandonTick(w)
        /\ \A r \in requests : r.by # w => r \in requests'
    BY <1>22 DEF CallFails, clickhouse
  <2> QED
    BY <1>0, <1>f, <2>1, OthersTell
<1>23. ASSUME NEW w \in Workers, InsertRefused(w)
      PROVE  WorkersTell'
  <2>1. /\ FailRun(w, TRUE) \/ FailRun(w, FALSE) \/ AbandonTick(w)
        /\ \A r \in requests : r.by # w => r \in requests'
    BY <1>23 DEF InsertRefused, clickhouse, RequestsOf
  <2> QED
    BY <1>0, <1>f, <2>1, OthersTell
<1>24. ASSUME NEW w \in Workers, InsertTimesOut(w)
      PROVE  WorkersTell'
  <2>1. /\ FailRun(w, TRUE)
        /\ \A r \in requests : r.by # w => r \in requests'
    BY <1>24 DEF InsertTimesOut, Abandon
  <2> QED
    BY <1>0, <1>f, <2>1, OthersTell
<1>25. ASSUME NEW w \in Workers, Crash(w)
      PROVE  WorkersTell'
  <2>1. /\ OthersKeep(w) /\ pc'[w] \notin RunCalls /\ todo'[w] = {}
        /\ \A r \in requests : r.by # w => r \in requests'
    BY <1>25 DEF Crash, Abandon, Goto, TypeOK, OthersKeep, RunCalls
  <2> QED
    BY <1>0, <1>k, <2>1, IdleTells, OthersTell
<1>26. ASSUME NEW r \in requests, ServerExecutes(r)
      PROVE  WorkersTell'
  <2>1. Stored(r.batch)'
    BY <1>0, <1>26, ServerStores
  <2>2. UNCHANGED <<pc, run, todo>> /\ requests' = requests \ {r}
    BY <1>26 DEF ServerExecutes, loop
  <2>3. \A q \in requests : q \in requests' \/ Stored(q.batch)'
    BY <2>1, <2>2
  <2> QED
    BY <1>0, <2>2, <2>3, SameWorkersTell
<1>27. ASSUME NEW r \in requests, RequestLost(r)
      PROVE  WorkersTell'
  <2>1. UNCHANGED <<pc, run, todo>> /\ requests' = requests \ {r} /\ r.by \notin Workers
    BY <1>27, WorkersAssumption DEF RequestLost, loop
  <2> QED
    BY <1>0, <2>1, SameWorkersTell
<1>28. ASSUME NEW b \in Batches,
             LeaseExpires(b) \/ BackoffElapses(b) \/ Replay(b) \/ TokenForgotten(b)
      PROVE  WorkersTell'
  <2>1. UNCHANGED <<pc, run, todo, requests>>
    BY <1>28 DEF LeaseExpires, BackoffElapses, Replay, TokenForgotten, loop, clickhouse
  <2> QED
    BY <1>0, <2>1, SameWorkersTell
<1>29. ASSUME NEW s \in Sites, StartDeletion(s)
      PROVE  WorkersTell'
  <2>1. UNCHANGED <<pc, run, todo, requests>>
    BY <1>29 DEF StartDeletion, loop, clickhouse
  <2> QED
    BY <1>0, <2>1, SameWorkersTell
<1>30. CASE TrimPlan \/ TrimApply \/ UNCHANGED vars
  <2>1. UNCHANGED <<pc, run, todo, requests>>
    BY <1>30 DEF TrimPlan, TrimApply, vars, loop, clickhouse
  <2> QED
    BY <1>0, <2>1, SameWorkersTell
<1> QED
  BY <1>m, <1>1, <1>2, <1>3, <1>4, <1>5, <1>6, <1>7, <1>8, <1>9, <1>10, <1>11,
     <1>12, <1>13, <1>14, <1>15, <1>16, <1>17, <1>18, <1>19, <1>20, <1>21, <1>22, <1>23,
     <1>24, <1>25, <1>26, <1>27, <1>28, <1>29, <1>30
  DEF Next, Recovers, Reclaims, Reads, RunsManifest, Faults, Server, Clock, Operator, Trim

-----------------------------------------------------------------------------
(* The queue forgets nothing. *)

LEMMA KnowledgeNext ==
  TypeOK /\ TypeOK' /\ RunsExist /\ StoresGrow /\ KnowledgeInv /\ [Next]_vars => KnowledgeInv'
BY ManifestTellsNext, StoresTellNext, WorkersTellNext DEF KnowledgeInv

LEMMA AckedInit == Init => AckedIsSettled
BY DEF Init, AckedIsSettled

\* A step takes an entry out of the care of the queue.
Releases(m) == m \in undelivered \union pel /\ m \notin undelivered' \union pel'

LEMMA AckedKept ==
  ASSUME TypeOK, TypeOK', StoresGrow, AckedIsSettled,
         \A m \in stream' : Releases(m) => (Admitted(m) => Settled(m))
  PROVE  AckedIsSettled'
<1> SUFFICES ASSUME NEW m \in stream', m \notin undelivered' \union pel', Admitted(m)'
             PROVE  Settled(m)'
  BY DEF AckedIsSettled
<1>1. m \in stream /\ m \in Msgs /\ Admitted(m)
  BY SitesAssumption DEF StoresGrow, TypeOK, Admitted
<1>2. Settled(m)
  BY <1>1 DEF Releases, AckedIsSettled
<1>3. m \in dlq => m \in dlq'
  BY DEF StoresGrow
<1>4. rows[m] >= 1 /\ billed[m] >= 1 => rows'[m] >= 1 /\ billed'[m] >= 1
  BY <1>1 DEF StoresGrow, TypeOK
<1> QED
  BY <1>2, <1>3, <1>4 DEF Settled

\* Only what has its verdict is acknowledged.
LEMMA AckSettles ==
  ASSUME TypeOK, TypeOK', StoresGrow, AckedIsSettled, NEW w \in Workers,
         undelivered' = undelivered, pel' = pel \ run[w].batch, stream' = stream,
         Copied(run[w].batch) \/ (Stored(run[w].batch) /\ Charged(run[w].batch))
  PROVE  AckedIsSettled'
<1>1. ASSUME NEW m \in stream', Releases(m), Admitted(m)
      PROVE  Settled(m)
  <2>1. m \in run[w].batch /\ m \in stream
    BY <1>1 DEF Releases
  <2> QED
    BY <1>1, <2>1 DEF Copied, Stored, Charged, Admissible, Settled
<1> QED
  BY <1>1, AckedKept

LEMMA AckedNext ==
  TypeOK /\ TypeOK' /\ StoresGrow /\ KnowledgeInv /\ AckedIsSettled /\ [Next]_vars
  => AckedIsSettled'
<1> SUFFICES ASSUME TypeOK, TypeOK', StoresGrow, KnowledgeInv, AckedIsSettled, [Next]_vars
             PROVE  AckedIsSettled'
  OBVIOUS
<1> DEFINE Idle == undelivered' = undelivered /\ pel' = pel
<1>q. Idle => AckedIsSettled'
  BY AckedKept DEF Releases
<1>1. ASSUME NEW w \in Workers,
             ListRunnable(w) \/ LoadListed(w) \/ Claim(w) \/ Plan(w) \/ Snapshot(w) \/ Load(w)
      PROVE  Idle
  BY <1>1 DEF ListRunnable, LoadListed, Claim, Plan, Snapshot, Load, valkey
<1>2. ASSUME NEW w \in Workers,
             MarkInserting(w) \/ InsertConfirmed(w) \/ MarkInserted(w) \/ SettleWritten(w)
      PROVE  Idle
  BY <1>2 DEF MarkInserting, InsertConfirmed, MarkInserted, SettleWritten, valkey
<1>3. ASSUME NEW w \in Workers,
             ApplyUsage(w) \/ MarkUsageRecorded(w) \/ MarkCompleted(w) \/ PublishDeadLetter(w)
      PROVE  Idle
  BY <1>3 DEF ApplyUsage, MarkUsageRecorded, MarkCompleted, PublishDeadLetter, valkey
<1>4. ASSUME NEW w \in Workers,
             MarkDeadLettered(w) \/ MarkAttemptFailed(w) \/ TransitionRefused(w) \/ InsertRefused(w)
      PROVE  Idle
  BY <1>4 DEF MarkDeadLettered, MarkAttemptFailed, TransitionRefused, InsertRefused, valkey
<1>5. ASSUME NEW w \in Workers,
             InsertTimesOut(w) \/ CallFails(w) \/ Crash(w)
      PROVE  Idle
  BY <1>5 DEF InsertTimesOut, CallFails, Crash, valkey
<1>6. ASSUME NEW w \in Workers, NEW idle \in SUBSET pel, Reclaim(w, idle)
      PROVE  AckedIsSettled'
  <2>1. pel' = pel \ (idle \ stream) /\ undelivered' = undelivered /\ stream' = stream
    BY <1>6 DEF Reclaim
  <2>2. \A m \in stream' : ~Releases(m)
    BY <2>1 DEF Releases
  <2> QED
    BY <2>2, AckedKept
<1>7. ASSUME NEW w \in Workers, NEW got \in SUBSET undelivered, NEW flush \in BOOLEAN,
             Read(w, got, flush)
      PROVE  AckedIsSettled'
  <2>1. pel' = pel \union got /\ undelivered' = undelivered \ got
    BY <1>7 DEF Read
  <2>2. \A m : ~Releases(m)
    BY <2>1 DEF Releases
  <2> QED
    BY <2>2, AckedKept
<1>8. ASSUME NEW w \in Workers, AckAgain(w)
      PROVE  AckedIsSettled'
  BY <1>8, AckSettles DEF AckAgain, KnowledgeInv, WorkersTell, RunTells
<1>9. ASSUME NEW w \in Workers, Ack(w)
      PROVE  AckedIsSettled'
  BY <1>9, AckSettles DEF Ack, KnowledgeInv, WorkersTell, RunTells
<1>10. ASSUME NEW w \in Workers, AckDead(w)
      PROVE  AckedIsSettled'
  BY <1>10, AckSettles DEF AckDead, KnowledgeInv, WorkersTell, RunTells
<1>11. ASSUME NEW r \in requests, ServerExecutes(r) \/ RequestLost(r)
      PROVE  Idle
  BY <1>11 DEF ServerExecutes, RequestLost, valkey
<1>12. ASSUME NEW b \in Batches,
             LeaseExpires(b) \/ BackoffElapses(b) \/ Replay(b) \/ TokenForgotten(b)
      PROVE  Idle
  BY <1>12 DEF LeaseExpires, BackoffElapses, Replay, TokenForgotten, valkey
<1>13. ASSUME NEW s \in Sites, StartDeletion(s)
      PROVE  Idle
  BY <1>13 DEF StartDeletion, valkey
<1>14. CASE TrimPlan \/ UNCHANGED vars
  BY <1>14, <1>q DEF TrimPlan, vars, valkey
<1>15. CASE TrimApply
  <2>1. pel' = pel /\ undelivered' = undelivered \ trimming /\ stream' = stream \ trimming
    BY <1>15 DEF TrimApply
  <2>2. \A m \in stream' : ~Releases(m)
    BY <2>1 DEF Releases
  <2> QED
    BY <2>2, AckedKept
<1> QED
  BY <1>q, <1>1, <1>2, <1>3, <1>4, <1>5, <1>6, <1>7, <1>8, <1>9,
     <1>10, <1>11, <1>12, <1>13, <1>14, <1>15
  DEF Next, Recovers, Reclaims, Reads, RunsManifest, Faults, Server, Clock, Operator, Trim

-----------------------------------------------------------------------------
(* Theorems. *)

SafeInv == TypeOK /\ RunsExist /\ KnowledgeInv /\ AckedIsSettled

LEMMA SafeInit == Init => SafeInv
BY TypeInit, RunsExistInit, KnowledgeInit, AckedInit DEF SafeInv

LEMMA SafeNext == SafeInv /\ [Next]_vars => SafeInv'
<1> SUFFICES ASSUME SafeInv, [Next]_vars PROVE SafeInv'
  OBVIOUS
<1>1. TypeOK /\ RunsExist /\ KnowledgeInv /\ AckedIsSettled
  BY DEF SafeInv
<1>2. TypeOK' /\ StoresGrow /\ RunsExist'
  BY <1>1, TypeNext, StoresStep, RunsExistNext
<1>3. KnowledgeInv' /\ AckedIsSettled'
  BY <1>1, <1>2, KnowledgeNext, AckedNext
<1> QED
  BY <1>2, <1>3 DEF SafeInv

\* A completed manifest reconciles: its state says so.
LEMMA SafeReconciles == SafeInv => CompletedReconciles
BY DEF SafeInv, KnowledgeInv, ManifestTells, Tells, Stored, Charged, CompletedReconciles

\* The inductive invariant.
THEOREM AlwaysSafe == Spec => []SafeInv
BY SafeInit, SafeNext, PTL DEF Spec

\* The state keeps its shape.
THEOREM TypeCorrect == Spec => []TypeOK
<1>1. SafeInv => TypeOK
  BY DEF SafeInv
<1> QED
  BY <1>1, AlwaysSafe, PTL

\* No acknowledged entry is lost, whatever the workers do and however they fail.
THEOREM NothingForgotten == Spec => []AckedIsSettled
<1>1. SafeInv => AckedIsSettled
  BY DEF SafeInv
<1> QED
  BY <1>1, AlwaysSafe, PTL

\* A completed manifest has its rows and its units.
THEOREM CompletedHasAll == Spec => []CompletedReconciles
BY SafeReconciles, AlwaysSafe, PTL

-----------------------------------------------------------------------------
(* Counting: what the stores hold of a message, and how often. *)

Disjoint == \A b, c \in Batches : Exists(b) /\ Exists(c) /\ b \cap c # {} => b = c

\* A request, and a worker past its load, write no rows but the batch's own.
Covers(w) == pc[w] \in Loaded => run[w].writable \subseteq run[w].batch
RequestsCover == \A r \in requests : r.rows \subseteq r.batch

\* How often a message may be stored more than once.
Again == IF LateReplay THEN replays ELSE 0

\* No request of the batch can add rows, before an operator replays it.
InFlight(b) == \E r \in requests : r.batch = b
Spent(b) ==
    b \in tokens \/ (LateReplay /\ manifest[b].state = "dead_lettered" /\ ~InFlight(b))

RowsCounted ==
    \A m \in Msgs :
      /\ rows[m] <= 1 + Again
      /\ ~Owned(m) => rows[m] <= Again
      /\ \A b \in Batches : Exists(b) /\ m \in b /\ ~Spent(b) => rows[m] <= Again

UnitsCounted ==
    \A m \in Msgs : billed[m] <= 1 /\ (billed[m] >= 1 => \E b \in applied : m \in b)

\* The calls at which a worker has the attempts of its snapshot.
Busy == RunCalls \ {"snapshot"}

Behind(w) ==
    /\ \A t \in todo[w] : t.attempts <= manifest[t.batch].attempts
    /\ pc[w] \in Busy => run[w].attempts <= manifest[run[w].batch].attempts
    /\ pc[w] \in {"publish", "dead_letter"} => run[w].attempts + 1 >= MaxAttempts

OnceInv ==
    /\ Disjoint /\ RequestsCover /\ RowsCounted /\ UnitsCounted
    /\ \A w \in Workers : Covers(w) /\ (replays = 0 => Behind(w))

-----------------------------------------------------------------------------
(* What a step does to the manifests. *)

\* A manifest is created from messages that had none, one in a step.
OwnersMove ==
    \A b \in Batches : Exists(b)' /\ ~Exists(b) =>
        /\ \A m \in b : ~Owned(m)
        /\ \A c \in Batches : c # b /\ Exists(c)' => Exists(c)

\* Until a replay, attempts grow and a batch given up stays given up.
RowMoves(b) ==
    Exists(b) =>
      /\ manifest[b].attempts <= manifest'[b].attempts \/ replays' = replays + 1
      /\ manifest[b].state = "dead_lettered" =>
           manifest'[b].state = "dead_lettered" \/ replays' = replays + 1

Moves == OwnersMove /\ replays' \in {replays, replays + 1} /\ \A b \in Batches : RowMoves(b)

LEMMA AttemptsInNat ==
  TypeOK => \A b \in Batches : /\ manifest[b] \in RowType /\ manifest[b].attempts \in Nat
                               /\ manifest[b].attempts <= MaxAttempts
BY BoundsAssumption DEF TypeOK, RowType

LEMMA SameMoves ==
  ASSUME TypeOK, UNCHANGED <<manifest, replays>>
  PROVE  Moves
BY AttemptsInNat DEF Moves, OwnersMove, RowMoves, Exists

\* An UPDATE of a row that exists.
LEMMA UpdateMoves ==
  ASSUME TypeOK, NEW b \in Batches, NEW row, Exists(b), UNCHANGED replays,
         manifest' = [manifest EXCEPT ![b] = row],
         row.attempts \in Nat, manifest[b].attempts <= row.attempts,
         manifest[b].state = "dead_lettered" => row.state = "dead_lettered"
  PROVE  Moves
<1>1. ASSUME NEW c \in Batches
      PROVE  manifest'[c] = IF c = b THEN row ELSE manifest[c]
  BY DEF TypeOK
<1>2. OwnersMove
  BY <1>1 DEF OwnersMove, Exists
<1>3. ASSUME NEW c \in Batches
      PROVE  RowMoves(c)
  BY <1>1, AttemptsInNat DEF RowMoves
<1> QED
  BY <1>2, <1>3 DEF Moves

LEMMA ManifestMoves == TypeOK /\ RunsExist /\ [Next]_vars => Moves
<1> SUFFICES ASSUME TypeOK, RunsExist, [Next]_vars PROVE Moves
  OBVIOUS
<1> DEFINE Same == UNCHANGED <<manifest, replays>>
<1>1. ASSUME NEW w \in Workers,
             ListRunnable(w) \/ LoadListed(w) \/ Snapshot(w) \/ AckAgain(w) \/ Load(w)
      PROVE  Same
  BY <1>1 DEF ListRunnable, LoadListed, Snapshot, AckAgain, Load, bounds
<1>2. ASSUME NEW w \in Workers,
             InsertConfirmed(w) \/ SettleWritten(w) \/ ApplyUsage(w) \/ Ack(w)
      PROVE  Same
  BY <1>2 DEF InsertConfirmed, SettleWritten, ApplyUsage, Ack, bounds
<1>3. ASSUME NEW w \in Workers,
             PublishDeadLetter(w) \/ AckDead(w) \/ TransitionRefused(w)
      PROVE  Same
  BY <1>3 DEF PublishDeadLetter, AckDead, TransitionRefused, bounds
<1>4. ASSUME NEW w \in Workers,
             InsertRefused(w) \/ InsertTimesOut(w) \/ CallFails(w) \/ Crash(w)
      PROVE  Same
  BY <1>4 DEF InsertRefused, InsertTimesOut, CallFails, Crash
<1>5. ASSUME NEW w \in Workers, NEW idle \in SUBSET pel, Reclaim(w, idle)
      PROVE  Same
  BY <1>5 DEF Reclaim, bounds
<1>6. ASSUME NEW w \in Workers, NEW got \in SUBSET undelivered, NEW flush \in BOOLEAN,
             Read(w, got, flush)
      PROVE  Same
  BY <1>6 DEF Read, bounds
<1>7. ASSUME NEW w \in Workers, Claim(w)
      PROVE  Moves
  <2> PICK t \in todo[w] :
         \/ manifest' = [manifest EXCEPT ![t.batch].owner = w, ![t.batch].lease = "live"]
         \/ UNCHANGED manifest
    BY <1>7 DEF Claim
  <2>1. t.batch \in Batches /\ Exists(t.batch) /\ UNCHANGED replays
    BY <1>7, ElementTypes DEF RunsExist, WorkerExists, Claim, bounds
  <2> DEFINE row == [manifest[t.batch] EXCEPT !.owner = w, !.lease = "live"]
  <2>2. /\ row.state = manifest[t.batch].state /\ row.attempts = manifest[t.batch].attempts
        /\ row.attempts \in Nat /\ manifest[t.batch].attempts <= row.attempts
    BY <2>1, AttemptsInNat DEF RowType
  <2>3. manifest' = [manifest EXCEPT ![t.batch] = row] \/ UNCHANGED manifest
    OBVIOUS
  <2> QED
    BY <2>1, <2>2, <2>3, UpdateMoves, SameMoves
<1>8. ASSUME NEW w \in Workers, Plan(w)
      PROVE  Moves
  <2> PICK b \in Batches :
         \/ /\ \A m \in b : ~Owned(m)
            /\ manifest' = [manifest EXCEPT ![b] =
                              [NoRow EXCEPT !.state = "pending", !.owner = w, !.lease = "live"]]
         \/ UNCHANGED manifest
    BY <1>8 DEF Plan
  <2>1. UNCHANGED replays
    BY <1>8 DEF Plan, bounds
  <2>2. CASE UNCHANGED manifest
    BY <2>1, <2>2, SameMoves
  <2>3. CASE /\ \A m \in b : ~Owned(m)
             /\ manifest' = [manifest EXCEPT ![b] =
                               [NoRow EXCEPT !.state = "pending", !.owner = w, !.lease = "live"]]
    <3>1. ~Exists(b)
      BY <2>3 DEF Owned, Batches
    <3>2. \A c \in Batches : c # b => manifest'[c] = manifest[c]
      BY <2>3 DEF TypeOK
    <3>3. OwnersMove
      BY <2>3, <3>2 DEF OwnersMove, Exists
    <3>4. ASSUME NEW c \in Batches
          PROVE  RowMoves(c)
      BY <3>1, <3>2, AttemptsInNat DEF RowMoves
    <3> QED
      BY <2>1, <3>3, <3>4 DEF Moves
  <2> QED
    BY <2>2, <2>3
<1>r. ASSUME NEW w \in Workers, pc[w] \in RunCalls
      PROVE  /\ run[w].batch \in Batches /\ manifest[run[w].batch] \in RowType
             /\ manifest[run[w].batch].attempts \in Nat
             /\ manifest[run[w].batch].attempts <= MaxAttempts
  BY <1>r, AttemptsInNat DEF RunsExist, WorkerExists
<1>9. ASSUME NEW w \in Workers, MarkInserting(w)
      PROVE  Moves
  <2> DEFINE b == run[w].batch
             row == [manifest[b] EXCEPT !.state = "inserting", !.waiting = FALSE]
  <2>1. /\ b \in Batches /\ manifest[b] \in RowType /\ manifest[b].attempts \in Nat
    BY <1>9, <1>r DEF MarkInserting, RunCalls
  <2>2. /\ manifest' = [manifest EXCEPT ![b] = row] /\ Exists(b) /\ UNCHANGED replays
        /\ manifest[b].state # "dead_lettered"
    BY <1>9 DEF MarkInserting, Transition, Exists, bounds
  <2>3. row.attempts \in Nat /\ manifest[b].attempts <= row.attempts
    BY <2>1 DEF RowType
  <2> QED
    BY <2>1, <2>2, <2>3, UpdateMoves
<1>10. ASSUME NEW w \in Workers, MarkInserted(w)
      PROVE  Moves
  <2> DEFINE b == run[w].batch
             row == [manifest[b] EXCEPT !.state = "inserted"]
  <2>1. /\ b \in Batches /\ manifest[b] \in RowType /\ manifest[b].attempts \in Nat
    BY <1>10, <1>r DEF MarkInserted, RunCalls
  <2>2. /\ manifest' = [manifest EXCEPT ![b] = row] /\ Exists(b) /\ UNCHANGED replays
        /\ manifest[b].state # "dead_lettered"
    BY <1>10 DEF MarkInserted, Transition, Exists, bounds
  <2>3. row.attempts \in Nat /\ manifest[b].attempts <= row.attempts
    BY <2>1 DEF RowType
  <2> QED
    BY <2>1, <2>2, <2>3, UpdateMoves
<1>11. ASSUME NEW w \in Workers, MarkUsageRecorded(w)
      PROVE  Moves
  <2> DEFINE b == run[w].batch
             row == [manifest[b] EXCEPT !.state = "usage_recorded"]
  <2>1. /\ b \in Batches /\ manifest[b] \in RowType /\ manifest[b].attempts \in Nat
    BY <1>11, <1>r DEF MarkUsageRecorded, RunCalls
  <2>2. /\ manifest' = [manifest EXCEPT ![b] = row] /\ Exists(b) /\ UNCHANGED replays
        /\ manifest[b].state # "dead_lettered"
    BY <1>11 DEF MarkUsageRecorded, Transition, Exists, bounds
  <2>3. row.attempts \in Nat /\ manifest[b].attempts <= row.attempts
    BY <2>1 DEF RowType
  <2> QED
    BY <2>1, <2>2, <2>3, UpdateMoves
<1>12. ASSUME NEW w \in Workers, MarkCompleted(w)
      PROVE  Moves
  <2> DEFINE b == run[w].batch
             row == [manifest[b] EXCEPT !.state = "completed", !.owner = NoWorker,
                                        !.lease = "none"]
  <2>1. /\ b \in Batches /\ manifest[b] \in RowType /\ manifest[b].attempts \in Nat
    BY <1>12, <1>r DEF MarkCompleted, RunCalls
  <2>2. /\ manifest' = [manifest EXCEPT ![b] = row] /\ Exists(b) /\ UNCHANGED replays
        /\ manifest[b].state # "dead_lettered"
    BY <1>12 DEF MarkCompleted, Transition, Exists, bounds
  <2>3. row.attempts \in Nat /\ manifest[b].attempts <= row.attempts
    BY <2>1 DEF RowType
  <2> QED
    BY <2>1, <2>2, <2>3, UpdateMoves
<1>13. ASSUME NEW w \in Workers, MarkDeadLettered(w)
      PROVE  Moves
  <2> DEFINE b == run[w].batch
             row == [manifest[b] EXCEPT !.state = "dead_lettered", !.owner = NoWorker,
                                        !.lease = "none"]
  <2>1. /\ b \in Batches /\ manifest[b] \in RowType /\ manifest[b].attempts \in Nat
    BY <1>13, <1>r DEF MarkDeadLettered, RunCalls
  <2>2. /\ manifest' = [manifest EXCEPT ![b] = row] /\ Exists(b) /\ UNCHANGED replays
        /\ manifest[b].state # "dead_lettered"
    BY <1>13 DEF MarkDeadLettered, Transition, Exists, bounds
  <2>3. row.attempts \in Nat /\ manifest[b].attempts <= row.attempts
    BY <2>1 DEF RowType
  <2> QED
    BY <2>1, <2>2, <2>3, UpdateMoves
<1>14. ASSUME NEW w \in Workers, MarkAttemptFailed(w)
      PROVE  Moves
  <2> DEFINE b == run[w].batch
             row == [state |-> IF run[w].ambiguous THEN "inserting" ELSE "pending",
                     attempts |-> IF manifest[b].attempts < MaxAttempts
                                  THEN manifest[b].attempts + 1 ELSE MaxAttempts,
                     owner |-> NoWorker, lease |-> "none", waiting |-> TRUE]
  <2>1. /\ b \in Batches /\ manifest[b].attempts \in Nat /\ manifest[b].attempts <= MaxAttempts
    BY <1>14, <1>r DEF MarkAttemptFailed, RunCalls
  <2>2. /\ manifest' = [manifest EXCEPT ![b] = row] /\ Exists(b) /\ UNCHANGED replays
        /\ manifest[b].state # "dead_lettered"
    BY <1>14 DEF MarkAttemptFailed, Transition, Exists, bounds
  <2>3. row.attempts \in Nat /\ manifest[b].attempts <= row.attempts
    BY <2>1, BoundsAssumption
  <2> QED
    BY <2>1, <2>2, <2>3, UpdateMoves
<1>15. ASSUME NEW b \in Batches, LeaseExpires(b)
      PROVE  Moves
  <2> DEFINE row == [manifest[b] EXCEPT !.lease = "expired"]
  <2>1. manifest' = [manifest EXCEPT ![b] = row] /\ UNCHANGED replays
    BY <1>15 DEF LeaseExpires, bounds
  <2>2. /\ row.attempts = manifest[b].attempts /\ row.state = manifest[b].state
        /\ row.attempts \in Nat /\ manifest[b].attempts <= row.attempts
    BY AttemptsInNat DEF RowType
  <2>3. CASE Exists(b)
    BY <2>1, <2>2, <2>3, UpdateMoves
  <2>4. CASE ~Exists(b)
    <3>1. \A c \in Batches : manifest'[c].state = manifest[c].state
                             /\ manifest'[c].attempts = manifest[c].attempts
      BY <2>1, <2>2 DEF TypeOK
    <3> QED
      BY <2>1, <3>1, AttemptsInNat DEF Moves, OwnersMove, RowMoves, Exists
  <2> QED
    BY <2>3, <2>4
<1>16. ASSUME NEW b \in Batches, BackoffElapses(b)
      PROVE  Moves
  <2> DEFINE row == [manifest[b] EXCEPT !.waiting = FALSE]
  <2>1. manifest' = [manifest EXCEPT ![b] = row] /\ UNCHANGED replays
    BY <1>16 DEF BackoffElapses, bounds
  <2>2. /\ row.attempts = manifest[b].attempts /\ row.state = manifest[b].state
    BY AttemptsInNat DEF RowType
  <2>3. \A c \in Batches : manifest'[c].state = manifest[c].state
                           /\ manifest'[c].attempts = manifest[c].attempts
    BY <2>1, <2>2 DEF TypeOK
  <2> QED
    BY <2>1, <2>3, AttemptsInNat DEF Moves, OwnersMove, RowMoves, Exists
<1>17. ASSUME NEW b \in Batches, Replay(b)
      PROVE  Moves
  <2>1. replays' = replays + 1 /\ Exists(b)
    BY <1>17 DEF Replay, Transition, Exists
  <2>2. \A c \in Batches : c # b => manifest'[c] = manifest[c]
    BY <1>17 DEF Replay, Transition, TypeOK
  <2>3. OwnersMove
    BY <2>1, <2>2 DEF OwnersMove, Exists
  <2> QED
    BY <2>1, <2>3 DEF Moves, RowMoves
<1>18. ASSUME NEW b \in Batches, TokenForgotten(b)
      PROVE  Same
  BY <1>18 DEF TokenForgotten, bounds
<1>19. ASSUME NEW r \in requests, ServerExecutes(r) \/ RequestLost(r)
      PROVE  Same
  BY <1>19 DEF ServerExecutes, RequestLost, bounds
<1>20. ASSUME NEW s \in Sites, StartDeletion(s)
      PROVE  Same
  BY <1>20 DEF StartDeletion, bounds
<1>21. CASE TrimPlan \/ TrimApply \/ UNCHANGED vars
  BY <1>21, SameMoves DEF TrimPlan, TrimApply, vars, bounds
<1> QED
  BY SameMoves, <1>1, <1>2, <1>3, <1>4, <1>5, <1>6, <1>7, <1>8, <1>9,
     <1>10, <1>11, <1>12, <1>13, <1>14, <1>15, <1>16, <1>17, <1>18, <1>19, <1>20, <1>21
  DEF Next, Recovers, Reclaims, Reads, RunsManifest, Faults, Server, Clock, Operator, Trim

\* Two manifests have no message in common.
LEMMA DisjointKept == ASSUME Moves, Disjoint PROVE Disjoint'
<1> SUFFICES ASSUME NEW b \in Batches, NEW c \in Batches, Exists(b)', Exists(c)',
                    NEW m \in b \cap c, b # c
             PROVE  FALSE
  BY DEF Disjoint
<1>1. CASE Exists(b) /\ Exists(c)
  BY <1>1 DEF Disjoint
<1>2. CASE ~Exists(b)
  BY <1>2 DEF Moves, OwnersMove, Owned
<1>3. CASE ~Exists(c)
  BY <1>3 DEF Moves, OwnersMove, Owned
<1> QED
  BY <1>1, <1>2, <1>3

-----------------------------------------------------------------------------
(* What a worker remembers. *)

WorkerInv(w) == Covers(w) /\ (replays = 0 => Behind(w))

\* A worker that keeps its run, or lets it go.
LEMMA WorkerKept ==
  ASSUME TypeOK, TypeOK', RunsExist, Moves, NEW w \in Workers, WorkerInv(w),
         todo'[w] \subseteq todo[w],
         pc'[w] \in Busy => /\ pc[w] \in Busy /\ run'[w].batch = run[w].batch
                            /\ run'[w].attempts = run[w].attempts,
         pc'[w] \in Loaded => pc[w] \in Loaded /\ run'[w].writable = run[w].writable
                              /\ run'[w].batch = run[w].batch,
         pc'[w] \in {"publish", "dead_letter"} =>
           pc[w] \in {"publish", "dead_letter"} \/ run[w].attempts + 1 >= MaxAttempts
  PROVE  WorkerInv(w)'
<1>1. Covers(w)'
  BY DEF WorkerInv, Covers
<1>2. ASSUME replays' = 0
      PROVE  Behind(w)'
  <2>1. replays = 0 /\ Behind(w)
    BY <1>2 DEF Moves, WorkerInv, TypeOK
  <2>2. ASSUME NEW b \in Batches, Exists(b)
        PROVE  /\ manifest[b].attempts \in Nat /\ manifest'[b].attempts \in Nat
               /\ manifest[b].attempts <= manifest'[b].attempts
    <3>1. manifest[b] \in RowType /\ manifest'[b] \in RowType
      BY DEF TypeOK
    <3>2. manifest[b].attempts \in Nat /\ manifest'[b].attempts \in Nat
      BY <3>1, BoundsAssumption DEF RowType
    <3> QED
      BY <1>2, <2>1, <2>2, <3>2 DEF Moves, RowMoves
  <2>3. ASSUME NEW t \in todo'[w]
        PROVE  t.attempts <= manifest'[t.batch].attempts
    <3>1. /\ t \in todo[w] /\ t.batch \in Batches /\ Exists(t.batch)
          /\ t.attempts \in 0 .. MaxAttempts
      BY ElementTypes DEF RunsExist, WorkerExists
    <3>2. t.attempts \in Nat /\ t.attempts <= manifest[t.batch].attempts
      BY <2>1, <3>1, BoundsAssumption DEF Behind
    <3> QED
      BY <2>2, <3>1, <3>2
  <2>4. ASSUME pc'[w] \in Busy
        PROVE  run'[w].attempts <= manifest'[run'[w].batch].attempts
    <3>1. /\ pc[w] \in Busy /\ run'[w].batch = run[w].batch
          /\ run'[w].attempts = run[w].attempts
      BY <2>4
    <3>2. run[w].batch \in Batches /\ Exists(run[w].batch)
      BY <3>1 DEF Busy, RunsExist, WorkerExists
    <3>3. run[w].attempts \in Nat
      BY BoundsAssumption DEF TypeOK, RunType
    <3>4. run[w].attempts <= manifest[run[w].batch].attempts
      BY <2>1, <3>1 DEF Behind
    <3> QED
      BY <2>2, <3>1, <3>2, <3>3, <3>4
  <2>5. ASSUME pc'[w] \in {"publish", "dead_letter"}
        PROVE  run'[w].attempts + 1 >= MaxAttempts
    <3>1. run'[w].attempts = run[w].attempts
      BY <2>5 DEF Busy, RunCalls
    <3> QED
      BY <2>1, <2>5, <3>1 DEF Behind
  <2> QED
    BY <2>3, <2>4, <2>5 DEF Behind
<1> QED
  BY <1>1, <1>2 DEF WorkerInv

\* A step of one worker, or of none, leaves the others as they are.
LEMMA OtherWorkersKept ==
  ASSUME TypeOK, TypeOK', RunsExist, Moves, \A u \in Workers : WorkerInv(u),
         NEW w \in Workers, OthersKeep(w), WorkerInv(w)'
  PROVE  \A u \in Workers : WorkerInv(u)'
<1>1. ASSUME NEW u \in Workers \ {w}
      PROVE  WorkerInv(u)'
  BY <1>1, WorkerKept DEF OthersKeep
<1> QED
  BY <1>1

LEMMA SameWorkersKept ==
  ASSUME TypeOK, TypeOK', RunsExist, Moves, \A u \in Workers : WorkerInv(u),
         UNCHANGED <<pc, run, todo>>
  PROVE  \A u \in Workers : WorkerInv(u)'
BY WorkerKept

LEMMA WorkersNext ==
  TypeOK /\ TypeOK' /\ RunsExist /\ Moves /\ (\A w \in Workers : WorkerInv(w)) /\ [Next]_vars
  => \A w \in Workers : WorkerInv(w)'
<1> SUFFICES ASSUME TypeOK, TypeOK', RunsExist, Moves, \A w \in Workers : WorkerInv(w),
                    [Next]_vars
             PROVE  \A w \in Workers : WorkerInv(w)'
  OBVIOUS
<1> DEFINE Goal == \A w \in Workers : WorkerInv(w)'
\* The worker keeps run and todo, and goes from one call to another.
<1>k. ASSUME NEW w \in Workers, OthersKeep(w), run'[w] = run[w], todo'[w] = todo[w],
             pc'[w] \in Busy => pc[w] \in Busy,
             pc'[w] \in Loaded => pc[w] \in Loaded,
             pc'[w] \in {"publish", "dead_letter"} => pc[w] \in {"publish", "dead_letter"}
      PROVE  Goal
  <2>1. WorkerInv(w)'
    BY <1>k, WorkerKept
  <2> QED
    BY <1>k, <2>1, OtherWorkersKept
\* It lets its run go.
<1>l. ASSUME NEW w \in Workers, OthersKeep(w), todo'[w] \subseteq todo[w],
             pc'[w] \notin RunCalls
      PROVE  Goal
  <2>0. /\ pc'[w] \notin Busy /\ pc'[w] \notin Loaded
        /\ pc'[w] \notin {"publish", "dead_letter"}
    BY <1>l DEF Busy, Loaded, RunCalls
  <2>1. WorkerInv(w)'
    BY <1>l, <2>0, WorkerKept
  <2> QED
    BY <1>l, <2>1, OtherWorkersKept
<1>f. ASSUME NEW w \in Workers, NEW ambiguous \in BOOLEAN, FailRun(w, ambiguous), pc[w] \in Busy
      PROVE  Goal
  <2>1. /\ pc'[w] \in {"publish", "mark_failed"}
        /\ run[w].attempts + 1 < MaxAttempts => pc'[w] = "mark_failed"
        /\ run'[w].batch = run[w].batch /\ run'[w].attempts = run[w].attempts
        /\ todo'[w] = todo[w] /\ OthersKeep(w)
    BY <1>f, FailRunControl
  <2>2. run[w].attempts \in Nat
    BY BoundsAssumption DEF TypeOK, RunType
  <2>3. pc'[w] = "publish" => run[w].attempts + 1 >= MaxAttempts
    BY <2>1, <2>2, BoundsAssumption
  <2>4. pc'[w] \notin Loaded /\ (pc'[w] \in {"publish", "dead_letter"} => pc'[w] = "publish")
    BY <2>1 DEF Loaded
  <2>5. WorkerInv(w)'
    BY <1>f, <2>1, <2>3, <2>4, WorkerKept
  <2> QED
    BY <2>1, <2>5, OtherWorkersKept
<1>t. TryCalls \subseteq Busy
  BY DEF TryCalls, Busy, RunCalls
<1>a. ASSUME NEW w \in Workers, AbandonTick(w)
      PROVE  Goal
  <2>1. pc'[w] = "list" /\ todo'[w] = {} /\ OthersKeep(w)
    BY <1>a, AbandonTickControl
  <2> QED
    BY <1>l, <2>1 DEF RunCalls
<1>d. ASSUME NEW w \in Workers, Finish(w)
      PROVE  Goal
  <2>1. pc'[w] \notin RunCalls /\ todo'[w] = todo[w] /\ OthersKeep(w)
    BY <1>d, FinishControl
  <2> QED
    BY <1>l, <2>1
<1>1. ASSUME NEW w \in Workers, ListRunnable(w)
      PROVE  Goal
  <2> DEFINE due == {b \in Batches : /\ manifest[b].state \in Runnable
                                     /\ ~manifest[b].waiting
                                     /\ manifest[b].lease # "live"}
  <2>1. /\ todo'[w] = {[batch |-> b, state |-> "listed", attempts |-> 0] : b \in due}
        /\ pc'[w] \in {"reclaim", "claim"} /\ OthersKeep(w) /\ UNCHANGED manifest
    BY <1>1 DEF ListRunnable, Goto, TypeOK, OthersKeep
  <2>2. /\ pc'[w] \notin Busy /\ pc'[w] \notin Loaded
        /\ pc'[w] \notin {"publish", "dead_letter"}
    BY <2>1 DEF Busy, Loaded, RunCalls
  <2>3. \A t \in todo'[w] : t.attempts <= manifest'[t.batch].attempts
    BY <2>1, AttemptsInNat
  <2>4. WorkerInv(w)'
    BY <2>2, <2>3 DEF WorkerInv, Covers, Behind
  <2> QED
    BY <2>1, <2>4, OtherWorkersKept
<1>0. ASSUME NEW w \in Workers, LoadListed(w)
      PROVE  Goal
  <2> PICK b \in Batches :
         /\ todo'[w] \subseteq todo[w] \union {Found(b)}
         /\ \A u \in Workers \ {w} : todo'[u] = todo[u]
         /\ pc[w] = "claim" /\ UNCHANGED <<pc, run, manifest>>
    BY <1>0, LoadListedDoes
  <2>1. /\ pc'[w] \notin Busy /\ pc'[w] \notin Loaded
        /\ pc'[w] \notin {"publish", "dead_letter"}
    BY DEF Busy, Loaded, RunCalls
  <2>2. OthersKeep(w) /\ UNCHANGED replays
    BY <1>0 DEF LoadListed, OthersKeep, bounds
  <2>3. ASSUME Behind(w), NEW t \in todo'[w]
        PROVE  t.attempts <= manifest'[t.batch].attempts
    <3>1. CASE t \in todo[w]
      BY <2>3, <3>1 DEF Behind
    <3>2. CASE t = Found(b)
      <4>1. t.batch = b /\ t.attempts = manifest[b].attempts
        BY <3>2 DEF Found
      <4> QED
        BY <4>1, AttemptsInNat
    <3> QED
      BY <2>3, <3>1, <3>2
  <2>4. WorkerInv(w)'
    BY <2>1, <2>2, <2>3 DEF WorkerInv, Covers, Behind
  <2> QED
    BY <2>2, <2>4, OtherWorkersKept
<1>2. ASSUME NEW w \in Workers, Claim(w)
      PROVE  Goal
  <2> PICK t \in todo[w] :
         /\ t.state # "listed" /\ todo' = [todo EXCEPT ![w] = @ \ {t}]
         /\ \/ /\ run' = [run EXCEPT ![w] =
                             [NoRun EXCEPT !.batch = t.batch, !.state = t.state,
                                           !.attempts = t.attempts]]
               /\ Goto(w, IF RecoveryAction(t.state) = "none" THEN "ack_again" ELSE "load")
            \/ /\ Goto(w, IF todo[w] = {t} THEN "reclaim" ELSE "claim")
               /\ UNCHANGED <<manifest, run>>
    BY <1>2 DEF Claim
  <2>0. todo'[w] \subseteq todo[w]
    BY DEF TypeOK
  <2>1. CASE /\ run' = [run EXCEPT ![w] =
                          [NoRun EXCEPT !.batch = t.batch, !.state = t.state,
                                        !.attempts = t.attempts]]
             /\ Goto(w, IF RecoveryAction(t.state) = "none" THEN "ack_again" ELSE "load")
    <3>1. pc'[w] \in {"ack_again", "load"} /\ OthersKeep(w)
      BY <2>1 DEF Goto, TypeOK, OthersKeep
    <3>2. run'[w].batch = t.batch /\ run'[w].attempts = t.attempts
      BY <2>1 DEF TypeOK, NoRun
    <3>3. ASSUME replays' = 0
          PROVE  Behind(w)'
      <4>1. replays = 0 /\ Behind(w)
        BY <3>3 DEF Moves, WorkerInv, TypeOK
      <4>2. ASSUME NEW u \in todo[w]
            PROVE  u.attempts <= manifest'[u.batch].attempts
        <5>1. /\ u.batch \in Batches /\ Exists(u.batch) /\ u.attempts \in 0 .. MaxAttempts
          BY ElementTypes DEF RunsExist, WorkerExists
        <5>2. u.attempts \in Nat /\ u.attempts <= manifest[u.batch].attempts
          BY <4>1, <5>1, BoundsAssumption DEF Behind
        <5>3. manifest[u.batch].attempts \in Nat /\ manifest'[u.batch].attempts \in Nat
          <6>1. manifest[u.batch] \in RowType /\ manifest'[u.batch] \in RowType
            BY <5>1 DEF TypeOK
          <6> QED
            BY <6>1, BoundsAssumption DEF RowType
        <5>4. manifest[u.batch].attempts <= manifest'[u.batch].attempts
          BY <3>3, <4>1, <5>1 DEF Moves, RowMoves
        <5> QED
          BY <5>2, <5>3, <5>4
      <4>3. pc'[w] \notin {"publish", "dead_letter"}
        BY <3>1
      <4> QED
        BY <2>0, <3>2, <4>2, <4>3 DEF Behind
    <3>4. Covers(w)'
      BY <3>1 DEF Covers, Loaded
    <3>5. WorkerInv(w)'
      BY <3>3, <3>4 DEF WorkerInv
    <3> QED
      BY <3>1, <3>5, OtherWorkersKept
  <2>2. CASE /\ Goto(w, IF todo[w] = {t} THEN "reclaim" ELSE "claim")
             /\ UNCHANGED <<manifest, run>>
    <3>1. pc'[w] \notin RunCalls /\ OthersKeep(w)
      BY <2>2 DEF Goto, TypeOK, OthersKeep, RunCalls
    <3> QED
      BY <1>l, <2>0, <3>1
  <2> QED
    BY <2>1, <2>2
<1>3. ASSUME NEW w \in Workers, NEW idle \in SUBSET pel, Reclaim(w, idle)
      PROVE  Goal
  <2>1. pc'[w] \in {"read", "plan"} /\ todo'[w] = todo[w] /\ OthersKeep(w)
    BY <1>3 DEF Reclaim, Goto, TypeOK, OthersKeep
  <2> QED
    BY <1>l, <2>1 DEF RunCalls
<1>4. ASSUME NEW w \in Workers, NEW got \in SUBSET undelivered, NEW flush \in BOOLEAN,
             Read(w, got, flush)
      PROVE  Goal
  <2>1. pc'[w] \in {"list", "plan"} /\ todo'[w] = todo[w] /\ OthersKeep(w)
    BY <1>4 DEF Read, Goto, TypeOK, OthersKeep
  <2> QED
    BY <1>l, <2>1 DEF RunCalls
<1>5. ASSUME NEW w \in Workers, Plan(w)
      PROVE  Goal
  <2>1. pc'[w] = "snapshot" /\ todo'[w] = todo[w] /\ OthersKeep(w)
    BY <1>5 DEF Plan, Goto, TypeOK, OthersKeep
  <2>2. /\ pc'[w] \notin Busy /\ pc'[w] \notin Loaded
        /\ pc'[w] \notin {"publish", "dead_letter"}
    BY <2>1 DEF Busy, Loaded
  <2>3. WorkerInv(w)'
    BY <2>1, <2>2, WorkerKept
  <2> QED
    BY <2>1, <2>3, OtherWorkersKept
<1>6. ASSUME NEW w \in Workers, Snapshot(w)
      PROVE  Goal
  <2>1. /\ run'[w] = [run[w] EXCEPT !.state = manifest[run[w].batch].state,
                                    !.attempts = manifest[run[w].batch].attempts]
        /\ pc'[w] \in {"ack_again", "load"}
        /\ todo'[w] = todo[w] /\ OthersKeep(w) /\ UNCHANGED manifest
    BY <1>6 DEF Snapshot, Goto, TypeOK, OthersKeep, loop
  <2>2. run[w] \in RunType /\ run[w].batch \in Batches
    BY <1>6 DEF TypeOK, Snapshot, RunsExist, WorkerExists, RunCalls
  <2>3. run'[w].batch = run[w].batch /\ run'[w].attempts = manifest[run[w].batch].attempts
    BY <2>1, <2>2 DEF RunType
  <2>4. run'[w].attempts <= manifest'[run'[w].batch].attempts
    BY <2>1, <2>2, <2>3, AttemptsInNat
  <2>5. pc'[w] \notin Loaded /\ pc'[w] \notin {"publish", "dead_letter"}
    BY <2>1 DEF Loaded
  <2>6. replays' = 0 => Behind(w)
    BY DEF Moves, WorkerInv, TypeOK
  <2>7. WorkerInv(w)'
    BY <2>1, <2>4, <2>5, <2>6 DEF WorkerInv, Covers, Behind
  <2> QED
    BY <2>1, <2>7, OtherWorkersKept
<1>7. ASSUME NEW w \in Workers, AckAgain(w)
      PROVE  Goal
  BY <1>7, <1>d DEF AckAgain
<1>8. ASSUME NEW w \in Workers, Load(w)
      PROVE  Goal
  <2>0. run[w].state \in Runnable
    BY <1>8 DEF Load, RunsExist, WorkerExists
  <2>1. /\ run'[w] = [run[w] EXCEPT !.writable = Admissible(run[w].batch)]
        /\ pc'[w] \in {"mark_inserting", "settle", "ack"} /\ pc[w] = "load"
        /\ todo'[w] = todo[w] /\ OthersKeep(w) /\ UNCHANGED <<manifest, replays>>
    BY <1>8, <2>0
       DEF Load, RecoveryAction, FirstCall, Runnable, Goto, TypeOK, OthersKeep, loop, bounds
  <2>2. run[w] \in RunType
    BY DEF TypeOK
  <2>3. /\ run'[w].batch = run[w].batch /\ run'[w].attempts = run[w].attempts
        /\ run'[w].writable = Admissible(run[w].batch)
    BY <2>1, <2>2 DEF RunType
  <2>4. Covers(w)'
    BY <2>3 DEF Covers, Admissible
  <2>5. pc[w] \in Busy /\ pc'[w] \notin {"publish", "dead_letter"}
    BY <2>1 DEF Busy, RunCalls
  <2>6. replays' = 0 => Behind(w)'
    BY <2>1, <2>3, <2>5 DEF Behind, WorkerInv
  <2>7. WorkerInv(w)'
    BY <2>4, <2>6 DEF WorkerInv
  <2> QED
    BY <2>1, <2>7, OtherWorkersKept
<1>9. ASSUME NEW w \in Workers,
             MarkInserting(w) \/ InsertConfirmed(w) \/ MarkInserted(w) \/ SettleWritten(w)
      PROVE  Goal
  <2>1. /\ pc'[w] \in {"await_insert", "mark_inserted", "settle", "apply_usage"}
        /\ pc[w] \in {"mark_inserting", "await_insert", "mark_inserted", "settle"}
        /\ run'[w] = run[w] /\ todo'[w] = todo[w] /\ OthersKeep(w)
    BY <1>9 DEF MarkInserting, InsertConfirmed, MarkInserted, SettleWritten, Goto, TypeOK,
                OthersKeep, loop
  <2> QED
    BY <1>k, <2>1 DEF Busy, RunCalls, Loaded
<1>10. ASSUME NEW w \in Workers,
             ApplyUsage(w) \/ MarkUsageRecorded(w) \/ Ack(w) \/ PublishDeadLetter(w)
             \/ MarkDeadLettered(w)
      PROVE  Goal
  <2>1. /\ \/ pc[w] \in {"apply_usage", "mark_usage", "ack"}
              /\ pc'[w] \in {"mark_usage", "ack", "complete"}
           \/ pc[w] \in {"publish", "dead_letter"} /\ pc'[w] \in {"dead_letter", "ack_dead"}
        /\ run'[w] = run[w] /\ todo'[w] = todo[w] /\ OthersKeep(w)
    BY <1>10 DEF ApplyUsage, MarkUsageRecorded, Ack, PublishDeadLetter, MarkDeadLettered, Goto,
                 TypeOK, OthersKeep, loop
  <2> QED
    BY <1>k, <2>1 DEF Busy, RunCalls, Loaded
<1>11. ASSUME NEW w \in Workers, MarkCompleted(w) \/ AckDead(w) \/ MarkAttemptFailed(w)
      PROVE  Goal
  BY <1>11, <1>d DEF MarkCompleted, AckDead, MarkAttemptFailed
<1>12. ASSUME NEW w \in Workers, TransitionRefused(w) \/ CallFails(w)
      PROVE  Goal
  BY <1>12, <1>a, <1>f, <1>t DEF TransitionRefused, CallFails
<1>13. ASSUME NEW w \in Workers, InsertRefused(w) \/ InsertTimesOut(w)
      PROVE  Goal
  BY <1>13, <1>f DEF InsertRefused, InsertTimesOut, Busy, RunCalls
<1>14. ASSUME NEW w \in Workers, Crash(w)
      PROVE  Goal
  <2>1. OthersKeep(w) /\ pc'[w] \notin RunCalls /\ todo'[w] = {}
    BY <1>14 DEF Crash, Goto, TypeOK, OthersKeep, RunCalls
  <2> QED
    BY <1>l, <2>1
<1>15. ASSUME NEW r \in requests, ServerExecutes(r) \/ RequestLost(r)
      PROVE  Goal
  BY <1>15, SameWorkersKept DEF ServerExecutes, RequestLost, loop
<1>16. ASSUME NEW b \in Batches,
             LeaseExpires(b) \/ BackoffElapses(b) \/ Replay(b) \/ TokenForgotten(b)
      PROVE  Goal
  BY <1>16, SameWorkersKept DEF LeaseExpires, BackoffElapses, Replay, TokenForgotten, loop
<1>17. ASSUME NEW s \in Sites, StartDeletion(s)
      PROVE  Goal
  BY <1>17, SameWorkersKept DEF StartDeletion, loop
<1>18. CASE TrimPlan \/ TrimApply \/ UNCHANGED vars
  BY <1>18, SameWorkersKept DEF TrimPlan, TrimApply, vars, loop
<1> QED
  BY <1>0, <1>1, <1>2, <1>3, <1>4, <1>5, <1>6, <1>7, <1>8, <1>9, <1>10,
     <1>11, <1>12, <1>13, <1>14, <1>15, <1>16, <1>17, <1>18
  DEF Next, Recovers, Reclaims, Reads, RunsManifest, Faults, Server, Clock, Operator, Trim

-----------------------------------------------------------------------------
(* Requests write the rows of their batch. *)

LEMMA RequestsCoverNext ==
  TypeOK /\ RequestsCover /\ (\A w \in Workers : Covers(w)) /\ [Next]_vars => RequestsCover'
<1> SUFFICES ASSUME TypeOK, RequestsCover, \A w \in Workers : Covers(w), [Next]_vars
             PROVE  RequestsCover'
  OBVIOUS
<1> DEFINE Fewer == requests' \subseteq requests
<1>q. Fewer => RequestsCover'
  BY DEF RequestsCover
<1>1. ASSUME NEW w \in Workers,
             ListRunnable(w) \/ LoadListed(w) \/ Claim(w) \/ Plan(w) \/ Snapshot(w)
             \/ AckAgain(w) \/ Load(w)
      PROVE  Fewer
  BY <1>1 DEF ListRunnable, LoadListed, Claim, Plan, Snapshot, AckAgain, Load, clickhouse
<1>2. ASSUME NEW w \in Workers,
             InsertConfirmed(w) \/ MarkInserted(w) \/ SettleWritten(w) \/ ApplyUsage(w)
             \/ MarkUsageRecorded(w) \/ Ack(w) \/ MarkCompleted(w)
      PROVE  Fewer
  BY <1>2 DEF InsertConfirmed, MarkInserted, SettleWritten, ApplyUsage, MarkUsageRecorded,
              Ack, MarkCompleted, clickhouse
<1>3. ASSUME NEW w \in Workers,
             PublishDeadLetter(w) \/ MarkDeadLettered(w) \/ AckDead(w) \/ MarkAttemptFailed(w)
             \/ TransitionRefused(w) \/ CallFails(w) \/ InsertRefused(w)
      PROVE  Fewer
  BY <1>3 DEF PublishDeadLetter, MarkDeadLettered, AckDead, MarkAttemptFailed,
              TransitionRefused, CallFails, InsertRefused, clickhouse
<1>4. ASSUME NEW w \in Workers, InsertTimesOut(w) \/ Crash(w)
      PROVE  RequestsCover'
  <2>1. Abandon(w)
    BY <1>4 DEF InsertTimesOut, Crash
  <2> QED
    BY <2>1, AbandonKeeps DEF RequestsCover
<1>5. ASSUME NEW w \in Workers, NEW idle \in SUBSET pel, Reclaim(w, idle)
      PROVE  Fewer
  BY <1>5 DEF Reclaim, clickhouse
<1>6. ASSUME NEW w \in Workers, NEW got \in SUBSET undelivered, NEW flush \in BOOLEAN,
             Read(w, got, flush)
      PROVE  Fewer
  BY <1>6 DEF Read, clickhouse
<1>7. ASSUME NEW w \in Workers, MarkInserting(w)
      PROVE  RequestsCover'
  <2> DEFINE new == [by |-> w, batch |-> run[w].batch, rows |-> run[w].writable]
  <2>1. requests' \subseteq requests \union {new}
    BY <1>7 DEF MarkInserting
  <2>2. new.rows \subseteq new.batch
    BY <1>7 DEF MarkInserting, Covers, Loaded
  <2> QED
    BY <2>1, <2>2 DEF RequestsCover
<1>8. ASSUME NEW r \in requests, ServerExecutes(r) \/ RequestLost(r)
      PROVE  Fewer
  BY <1>8 DEF ServerExecutes, RequestLost
<1>9. ASSUME NEW b \in Batches,
             LeaseExpires(b) \/ BackoffElapses(b) \/ Replay(b) \/ TokenForgotten(b)
      PROVE  Fewer
  BY <1>9 DEF LeaseExpires, BackoffElapses, Replay, TokenForgotten, clickhouse
<1>10. ASSUME NEW s \in Sites, StartDeletion(s)
      PROVE  Fewer
  BY <1>10 DEF StartDeletion, clickhouse
<1>11. CASE TrimPlan \/ TrimApply \/ UNCHANGED vars
  BY <1>11, <1>q DEF TrimPlan, TrimApply, vars, clickhouse
<1> QED
  BY <1>q, <1>1, <1>2, <1>3, <1>4, <1>5, <1>6, <1>7, <1>8, <1>9, <1>10, <1>11
  DEF Next, Recovers, Reclaims, Reads, RunsManifest, Faults, Server, Clock, Operator, Trim

-----------------------------------------------------------------------------
(* Rows. *)

LEMMA AgainStep ==
  ASSUME TypeOK, Moves
  PROVE  /\ Again \in Nat /\ Again' \in Nat /\ Again <= Again'
         /\ LateReplay /\ replays' = replays + 1 => Again' = Again + 1
BY BoundsAssumption DEF Moves, Again, TypeOK

\* No row is added, and no batch that was given up is inserted again.
LEMMA RowsKept ==
  ASSUME TypeOK, RunsExist, Moves, ManifestsStay, RowsCounted, UNCHANGED <<rows, tokens>>,
         \A b \in Batches : manifest[b].state = "dead_lettered" /\ InFlight(b)' => InFlight(b)
  PROVE  RowsCounted'
<1>0. \A m \in Msgs : rows[m] \in Nat
  BY DEF TypeOK
<1>1. ASSUME NEW m \in Msgs
      PROVE  rows'[m] <= 1 + Again'
  BY <1>0, AgainStep DEF RowsCounted
<1>2. ASSUME NEW m \in Msgs, ~Owned(m)'
      PROVE  rows'[m] <= Again'
  <2>1. ~Owned(m)
    BY <1>2 DEF Owned, ManifestsStay
  <2> QED
    BY <1>0, <2>1, AgainStep DEF RowsCounted
<1>3. ASSUME NEW m \in Msgs, NEW b \in Batches, Exists(b)', m \in b, ~Spent(b)'
      PROVE  rows'[m] <= Again'
  <2>1. CASE ~Exists(b)
    <3>1. ~Owned(m)
      BY <1>3, <2>1 DEF Moves, OwnersMove
    <3> QED
      BY <1>0, <3>1, AgainStep DEF RowsCounted
  <2>2. CASE Exists(b) /\ ~Spent(b)
    BY <1>0, <1>3, <2>2, AgainStep DEF RowsCounted
  <2>3. CASE Exists(b) /\ Spent(b)
    <3>1. /\ LateReplay /\ manifest[b].state = "dead_lettered" /\ ~InFlight(b)
          /\ ~InFlight(b)'
      BY <1>3, <2>3 DEF Spent
    <3>2. replays' = replays + 1
      BY <1>3, <2>3, <3>1 DEF Moves, RowMoves, Spent
    <3>3. Again' = Again + 1
      BY <3>1, <3>2, AgainStep
    <3> QED
      BY <1>0, <3>3, AgainStep DEF RowsCounted
  <2> QED
    BY <2>1, <2>2, <2>3
<1> QED
  BY <1>1, <1>2, <1>3 DEF RowsCounted

\* A request is executed: its batch had added no row since the last replay.
LEMMA RowsExecuted ==
  ASSUME TypeOK, RunsExist, Disjoint, RequestsCover, RowsCounted,
         NEW r \in requests, ServerExecutes(r)
  PROVE  RowsCounted'
<1>0. /\ UNCHANGED <<manifest, replays>> /\ requests' = requests \ {r}
      /\ r.batch \in Batches /\ Exists(r.batch) /\ InFlight(r.batch)
      /\ r.rows \subseteq r.batch
  BY ElementTypes DEF ServerExecutes, RunsExist, StoresExist, InFlight, RequestsCover, bounds
<1>1. /\ Again' = Again /\ Again \in Nat
      /\ \A b \in Batches : Exists(b)' = Exists(b)
      /\ \A m \in Msgs : Owned(m)' = Owned(m) /\ rows[m] \in Nat
  BY <1>0, BoundsAssumption DEF Again, TypeOK, Exists, Owned
<1>2. \A b \in Batches : InFlight(b)' => InFlight(b)
  BY <1>0 DEF InFlight
<1>3. CASE r.batch \in tokens
  <2>1. UNCHANGED <<rows, tokens>>
    BY <1>3 DEF ServerExecutes
  <2>2. \A b \in Batches : Spent(b) => Spent(b)'
    BY <1>0, <1>2, <2>1 DEF Spent
  <2> QED
    BY <1>1, <2>1, <2>2 DEF RowsCounted
<1>4. CASE r.batch \notin tokens
  <2>1. /\ rows' = [m \in Msgs |-> IF m \in r.rows THEN rows[m] + 1 ELSE rows[m]]
        /\ tokens' = tokens \union {r.batch}
    BY <1>4 DEF ServerExecutes
  <2>2. ~Spent(r.batch)
    BY <1>0, <1>4 DEF Spent
  <2>3. \A b \in Batches : Spent(b) => Spent(b)'
    BY <1>0, <1>2, <2>1 DEF Spent
  <2>4. Spent(r.batch)'
    BY <2>1 DEF Spent
  <2>5. ASSUME NEW m \in Msgs, m \in r.rows
        PROVE  /\ rows[m] <= Again /\ rows'[m] = rows[m] + 1 /\ Owned(m)
               /\ \A b \in Batches : Exists(b) /\ m \in b => b = r.batch
    BY <1>0, <2>1, <2>2, <2>5 DEF RowsCounted, Owned, Disjoint
  <2>6. ASSUME NEW m \in Msgs, m \notin r.rows
        PROVE  rows'[m] = rows[m]
    BY <2>1, <2>6
  <2>7. ASSUME NEW m \in Msgs
        PROVE  rows'[m] <= 1 + Again'
    BY <1>1, <2>5, <2>6 DEF RowsCounted
  <2>8. ASSUME NEW m \in Msgs, ~Owned(m)'
        PROVE  rows'[m] <= Again'
    BY <1>1, <2>5, <2>6, <2>8 DEF RowsCounted
  <2>9. ASSUME NEW m \in Msgs, NEW b \in Batches, Exists(b)', m \in b, ~Spent(b)'
        PROVE  rows'[m] <= Again'
    <3>1. m \notin r.rows
      BY <1>1, <2>4, <2>5, <2>9
    <3> QED
      BY <1>1, <2>3, <2>6, <2>9, <3>1 DEF RowsCounted
  <2> QED
    BY <2>7, <2>8, <2>9 DEF RowsCounted
<1> QED
  BY <1>3, <1>4

LEMMA RowsNext ==
  /\ TypeOK /\ RunsExist /\ Moves /\ ManifestsStay /\ Disjoint /\ RequestsCover
  /\ RowsCounted /\ [Next]_vars
  => RowsCounted'
<1> SUFFICES ASSUME TypeOK, RunsExist, Moves, ManifestsStay, Disjoint, RequestsCover,
                    RowsCounted, [Next]_vars
             PROVE  RowsCounted'
  OBVIOUS
<1> DEFINE Quiet == /\ UNCHANGED <<rows, tokens>>
                    /\ \A b \in Batches : InFlight(b)' => InFlight(b)
<1>q. Quiet => RowsCounted'
  BY RowsKept
<1>1. ASSUME NEW w \in Workers,
             ListRunnable(w) \/ LoadListed(w) \/ Claim(w) \/ Plan(w) \/ Snapshot(w)
             \/ AckAgain(w) \/ Load(w)
      PROVE  Quiet
  BY <1>1 DEF ListRunnable, LoadListed, Claim, Plan, Snapshot, AckAgain, Load, clickhouse,
              InFlight
<1>2. ASSUME NEW w \in Workers,
             InsertConfirmed(w) \/ MarkInserted(w) \/ SettleWritten(w) \/ ApplyUsage(w)
             \/ MarkUsageRecorded(w) \/ Ack(w) \/ MarkCompleted(w)
      PROVE  Quiet
  BY <1>2 DEF InsertConfirmed, MarkInserted, SettleWritten, ApplyUsage, MarkUsageRecorded,
              Ack, MarkCompleted, clickhouse, InFlight
<1>3. ASSUME NEW w \in Workers,
             PublishDeadLetter(w) \/ MarkDeadLettered(w) \/ AckDead(w) \/ MarkAttemptFailed(w)
             \/ TransitionRefused(w) \/ CallFails(w) \/ InsertRefused(w)
      PROVE  Quiet
  BY <1>3 DEF PublishDeadLetter, MarkDeadLettered, AckDead, MarkAttemptFailed,
              TransitionRefused, CallFails, InsertRefused, clickhouse, InFlight
<1>4. ASSUME NEW w \in Workers, InsertTimesOut(w) \/ Crash(w)
      PROVE  Quiet
  <2>1. Abandon(w) /\ UNCHANGED <<rows, tokens>>
    BY <1>4 DEF InsertTimesOut, Crash
  <2> QED
    BY <2>1, AbandonKeeps DEF InFlight
<1>5. ASSUME NEW w \in Workers, NEW idle \in SUBSET pel, Reclaim(w, idle)
      PROVE  Quiet
  BY <1>5 DEF Reclaim, clickhouse, InFlight
<1>6. ASSUME NEW w \in Workers, NEW got \in SUBSET undelivered, NEW flush \in BOOLEAN,
             Read(w, got, flush)
      PROVE  Quiet
  BY <1>6 DEF Read, clickhouse, InFlight
<1>7. ASSUME NEW w \in Workers, MarkInserting(w)
      PROVE  RowsCounted'
  <2>1. /\ UNCHANGED <<rows, tokens>>
        /\ requests' \subseteq requests
             \union {[by |-> w, batch |-> run[w].batch, rows |-> run[w].writable]}
        /\ manifest[run[w].batch].state # "dead_lettered"
    BY <1>7 DEF MarkInserting, Transition
  <2>2. \A b \in Batches : manifest[b].state = "dead_lettered" /\ InFlight(b)' => InFlight(b)
    BY <2>1 DEF InFlight
  <2> QED
    BY <2>1, <2>2, RowsKept
<1>8. ASSUME NEW r \in requests, ServerExecutes(r)
      PROVE  RowsCounted'
  BY <1>8, RowsExecuted
<1>9. ASSUME NEW r \in requests, RequestLost(r)
      PROVE  Quiet
  BY <1>9 DEF RequestLost, InFlight
<1>10. ASSUME NEW b \in Batches, LeaseExpires(b) \/ BackoffElapses(b) \/ Replay(b)
      PROVE  Quiet
  BY <1>10 DEF LeaseExpires, BackoffElapses, Replay, clickhouse, InFlight
<1>11. ASSUME NEW b \in Batches, TokenForgotten(b)
      PROVE  RowsCounted'
  <2>1. /\ LateReplay /\ manifest[b].state = "dead_lettered" /\ ~InFlight(b)
        /\ UNCHANGED <<manifest, rows, requests, replays>> /\ tokens' = tokens \ {b}
    BY <1>11 DEF TokenForgotten, InFlight, bounds
  <2>2. \A c \in Batches : Spent(c) => Spent(c)'
    BY <2>1 DEF Spent, InFlight
  <2>3. /\ Again' = Again /\ \A c \in Batches : Exists(c)' = Exists(c)
        /\ \A m \in Msgs : Owned(m)' = Owned(m)
    BY <2>1 DEF Again, Exists, Owned
  <2> QED
    BY <2>1, <2>2, <2>3 DEF RowsCounted
<1>12. ASSUME NEW s \in Sites, StartDeletion(s)
      PROVE  Quiet
  BY <1>12 DEF StartDeletion, clickhouse, InFlight
<1>13. CASE TrimPlan \/ TrimApply \/ UNCHANGED vars
  BY <1>13, <1>q DEF TrimPlan, TrimApply, vars, clickhouse, InFlight
<1> QED
  BY <1>q, <1>1, <1>2, <1>3, <1>4, <1>5, <1>6, <1>7, <1>8, <1>9, <1>10, <1>11, <1>12, <1>13
  DEF Next, Recovers, Reclaims, Reads, RunsManifest, Faults, Server, Clock, Operator, Trim

-----------------------------------------------------------------------------
(* Units. *)

LEMMA UnitsNext ==
  /\ TypeOK /\ RunsExist /\ Disjoint /\ UnitsCounted /\ (\A w \in Workers : Covers(w))
  /\ [Next]_vars
  => UnitsCounted'
<1> SUFFICES ASSUME TypeOK, RunsExist, Disjoint, UnitsCounted, \A w \in Workers : Covers(w),
                    [Next]_vars
             PROVE  UnitsCounted'
  OBVIOUS
<1> DEFINE Quiet == UNCHANGED <<applied, billed>>
<1>q. Quiet => UnitsCounted'
  BY DEF UnitsCounted
<1>1. ASSUME NEW w \in Workers,
             ListRunnable(w) \/ LoadListed(w) \/ Claim(w) \/ Plan(w) \/ Snapshot(w)
             \/ AckAgain(w) \/ Load(w)
      PROVE  Quiet
  BY <1>1 DEF ListRunnable, LoadListed, Claim, Plan, Snapshot, AckAgain, Load, ledger
<1>2. ASSUME NEW w \in Workers,
             MarkInserting(w) \/ InsertConfirmed(w) \/ MarkInserted(w) \/ SettleWritten(w)
             \/ MarkUsageRecorded(w) \/ Ack(w) \/ MarkCompleted(w)
      PROVE  Quiet
  BY <1>2 DEF MarkInserting, InsertConfirmed, MarkInserted, SettleWritten, MarkUsageRecorded,
              Ack, MarkCompleted, ledger
<1>3. ASSUME NEW w \in Workers,
             PublishDeadLetter(w) \/ MarkDeadLettered(w) \/ AckDead(w) \/ MarkAttemptFailed(w)
      PROVE  Quiet
  BY <1>3 DEF PublishDeadLetter, MarkDeadLettered, AckDead, MarkAttemptFailed, ledger
<1>4. ASSUME NEW w \in Workers,
             TransitionRefused(w) \/ CallFails(w) \/ InsertRefused(w) \/ InsertTimesOut(w)
             \/ Crash(w)
      PROVE  Quiet
  BY <1>4 DEF TransitionRefused, CallFails, InsertRefused, InsertTimesOut, Crash, ledger
<1>5. ASSUME NEW w \in Workers, NEW idle \in SUBSET pel, Reclaim(w, idle)
      PROVE  Quiet
  BY <1>5 DEF Reclaim, ledger
<1>6. ASSUME NEW w \in Workers, NEW got \in SUBSET undelivered, NEW flush \in BOOLEAN,
             Read(w, got, flush)
      PROVE  Quiet
  BY <1>6 DEF Read, ledger
<1>7. ASSUME NEW w \in Workers, ApplyUsage(w)
      PROVE  UnitsCounted'
  <2> DEFINE b == run[w].batch
  <2>1. /\ b \in Batches /\ Exists(b) /\ run[w].writable \subseteq b
        /\ applied' = applied \union {b}
    BY <1>7 DEF ApplyUsage, RunsExist, WorkerExists, RunCalls, Covers, Loaded
  <2>2. CASE b \in applied
    BY <1>7, <2>1, <2>2 DEF ApplyUsage, UnitsCounted
  <2>3. CASE b \notin applied
    <3>1. billed' = [m \in Msgs |-> IF m \in run[w].writable THEN billed[m] + 1 ELSE billed[m]]
      BY <1>7, <2>3 DEF ApplyUsage
    <3>2. ASSUME NEW m \in Msgs, m \in run[w].writable
          PROVE  billed[m] = 0
      <4>1. m \in b /\ billed[m] \in Nat
        BY <2>1, <3>2 DEF TypeOK
      <4>2. \A c \in applied : m \notin c
        BY <2>1, <2>3, <4>1, ElementTypes DEF Disjoint, RunsExist, StoresExist
      <4>3. ~(billed[m] >= 1)
        BY <4>2 DEF UnitsCounted
      <4> QED
        BY <4>1, <4>3
    <3>3. ASSUME NEW m \in Msgs
          PROVE  billed'[m] <= 1 /\ (billed'[m] >= 1 => \E c \in applied' : m \in c)
      <4>1. CASE m \in run[w].writable
        BY <2>1, <3>1, <3>2, <4>1
      <4>2. CASE m \notin run[w].writable
        BY <2>1, <3>1, <4>2 DEF UnitsCounted
      <4> QED
        BY <4>1, <4>2
    <3> QED
      BY <3>3 DEF UnitsCounted
  <2> QED
    BY <2>2, <2>3
<1>8. ASSUME NEW r \in requests, ServerExecutes(r) \/ RequestLost(r)
      PROVE  Quiet
  BY <1>8 DEF ServerExecutes, RequestLost, ledger
<1>9. ASSUME NEW b \in Batches,
             LeaseExpires(b) \/ BackoffElapses(b) \/ Replay(b) \/ TokenForgotten(b)
      PROVE  Quiet
  BY <1>9 DEF LeaseExpires, BackoffElapses, Replay, TokenForgotten, ledger
<1>10. ASSUME NEW s \in Sites, StartDeletion(s)
      PROVE  Quiet
  BY <1>10 DEF StartDeletion, ledger
<1>11. CASE TrimPlan \/ TrimApply \/ UNCHANGED vars
  BY <1>11, <1>q DEF TrimPlan, TrimApply, vars, ledger
<1> QED
  BY <1>q, <1>1, <1>2, <1>3, <1>4, <1>5, <1>6, <1>7, <1>8, <1>9, <1>10, <1>11
  DEF Next, Recovers, Reclaims, Reads, RunsManifest, Faults, Server, Clock, Operator, Trim

-----------------------------------------------------------------------------
(* Theorems. *)

CountInv == SafeInv /\ OnceInv

LEMMA OnceInit == Init => OnceInv
<1> SUFFICES ASSUME Init PROVE OnceInv
  OBVIOUS
<1>1. Disjoint /\ RequestsCover
  BY DEF Init, Disjoint, RequestsCover, Exists, NoRow
<1>2. Again = 0
  BY DEF Init, Again
<1>3. RowsCounted /\ UnitsCounted
  BY <1>2 DEF Init, RowsCounted, UnitsCounted
<1>4. \A w \in Workers : Covers(w) /\ Behind(w)
  BY DEF Init, Covers, Loaded, Behind, Busy, RunCalls
<1> QED
  BY <1>1, <1>3, <1>4 DEF OnceInv

LEMMA OnceNext == SafeInv /\ SafeInv' /\ OnceInv /\ [Next]_vars => OnceInv'
<1> SUFFICES ASSUME SafeInv, SafeInv', OnceInv, [Next]_vars PROVE OnceInv'
  OBVIOUS
<1>1. TypeOK /\ TypeOK' /\ RunsExist
  BY DEF SafeInv
<1>2. Moves /\ ManifestsStay
  BY <1>1, ManifestMoves, ManifestStep
<1>3. \A w \in Workers : WorkerInv(w) /\ Covers(w)
  BY DEF OnceInv, WorkerInv
<1>4. \A w \in Workers : WorkerInv(w)'
  BY <1>1, <1>2, <1>3, WorkersNext
<1>5. Disjoint' /\ RequestsCover' /\ RowsCounted' /\ UnitsCounted'
  BY <1>1, <1>2, <1>3, DisjointKept, RequestsCoverNext, RowsNext, UnitsNext DEF OnceInv
<1> QED
  BY <1>4, <1>5 DEF OnceInv, WorkerInv

\* The inductive invariant.
THEOREM AlwaysOnce == Spec => []CountInv
<1>1. Init => CountInv
  BY SafeInit, OnceInit DEF CountInv
<1>2. CountInv /\ [Next]_vars => CountInv'
  BY SafeNext, OnceNext DEF CountInv
<1> QED
  BY <1>1, <1>2, PTL DEF Spec

\* An event has one row, and one more at most for each late replay.
THEOREM StoredOnce == Spec => []RowAtMostOnce
<1>1. CountInv => RowAtMostOnce
  BY DEF CountInv, OnceInv, RowsCounted, RowAtMostOnce, Again
<1> QED
  BY <1>1, AlwaysOnce, PTL

\* An event is billed once, and only if its row is there.
THEOREM BilledOnce == Spec => []BilledOnceAndStored
<1>1. ASSUME CountInv, NEW m \in Msgs
      PROVE  billed[m] <= 1
             /\ (billed[m] = 1 /\ m \in stream /\ Admitted(m) => rows[m] >= 1)
  <2>1. billed[m] <= 1 /\ (billed[m] = 1 => \E b \in applied : m \in b)
    BY <1>1 DEF CountInv, OnceInv, UnitsCounted
  <2>2. \A b \in applied : Stored(b)
    BY <1>1 DEF CountInv, SafeInv, KnowledgeInv, StoresTell
  <2> QED
    BY <2>1, <2>2 DEF Stored, Admissible
<1>2. CountInv => BilledOnceAndStored
  BY <1>1 DEF BilledOnceAndStored
<1> QED
  BY <1>2, AlwaysOnce, PTL

\* Who gives a batch up has counted its attempts.
LEMMA GivesUp ==
  ASSUME TypeOK, RunsExist, NEW w \in Workers, Behind(w), MarkDeadLettered(w),
         NEW b \in Batches, manifest[b].state # "dead_lettered",
         manifest'[b].state = "dead_lettered"
  PROVE  manifest[b].attempts + 1 >= MaxAttempts
<1>1. pc[w] = "dead_letter" /\ b = run[w].batch
  BY DEF MarkDeadLettered, Transition, TypeOK
<1>2. run[w].attempts <= manifest[b].attempts /\ run[w].attempts + 1 >= MaxAttempts
  BY <1>1 DEF Behind, Busy, RunCalls
<1>3. run[w].attempts \in Nat /\ manifest[b].attempts \in Nat /\ MaxAttempts \in Nat
  BY AttemptsInNat, BoundsAssumption DEF TypeOK, RunType
<1> QED
  BY <1>2, <1>3

\* Only MarkDeadLettered gives a batch up.
NoneGivenUp ==
    \A b \in Batches : manifest'[b].state = "dead_lettered" => manifest[b].state = "dead_lettered"

LEMMA UpdateGivesNoneUp ==
  ASSUME TypeOK, NEW c, NEW row, manifest' = [manifest EXCEPT ![c] = row],
         row.state = manifest[c].state \/ row.state # "dead_lettered"
  PROVE  NoneGivenUp
BY DEF TypeOK, NoneGivenUp

LEMMA GivenUpOnlyBy ==
  ASSUME TypeOK, RunsExist, [Next]_vars
  PROVE  NoneGivenUp \/ \E w \in Workers : MarkDeadLettered(w)
<1> DEFINE Same == UNCHANGED manifest
<1>s. Same => NoneGivenUp
  BY DEF NoneGivenUp
<1>r. ASSUME NEW w \in Workers, pc[w] \in RunCalls
      PROVE  manifest[run[w].batch] \in RowType
  BY <1>r, AttemptsInNat DEF RunsExist, WorkerExists
<1>1. ASSUME NEW w \in Workers,
             ListRunnable(w) \/ LoadListed(w) \/ Snapshot(w) \/ AckAgain(w) \/ Load(w)
      PROVE  Same
  BY <1>1 DEF ListRunnable, LoadListed, Snapshot, AckAgain, Load
<1>2. ASSUME NEW w \in Workers,
             InsertConfirmed(w) \/ SettleWritten(w) \/ ApplyUsage(w) \/ Ack(w)
      PROVE  Same
  BY <1>2 DEF InsertConfirmed, SettleWritten, ApplyUsage, Ack
<1>3. ASSUME NEW w \in Workers,
             PublishDeadLetter(w) \/ AckDead(w) \/ TransitionRefused(w)
      PROVE  Same
  BY <1>3 DEF PublishDeadLetter, AckDead, TransitionRefused
<1>4. ASSUME NEW w \in Workers,
             InsertRefused(w) \/ InsertTimesOut(w) \/ CallFails(w) \/ Crash(w)
      PROVE  Same
  BY <1>4 DEF InsertRefused, InsertTimesOut, CallFails, Crash
<1>5. ASSUME NEW w \in Workers, NEW idle \in SUBSET pel, Reclaim(w, idle)
      PROVE  Same
  BY <1>5 DEF Reclaim
<1>6. ASSUME NEW w \in Workers, NEW got \in SUBSET undelivered, NEW flush \in BOOLEAN,
             Read(w, got, flush)
      PROVE  Same
  BY <1>6 DEF Read
<1>7. ASSUME NEW w \in Workers, Claim(w)
      PROVE  NoneGivenUp
  <2> PICK t \in todo[w] :
         \/ manifest' = [manifest EXCEPT ![t.batch].owner = w, ![t.batch].lease = "live"]
         \/ UNCHANGED manifest
    BY <1>7 DEF Claim
  <2> DEFINE row == [manifest[t.batch] EXCEPT !.owner = w, !.lease = "live"]
  <2>1. manifest[t.batch] \in RowType
    BY ElementTypes, AttemptsInNat
  <2>2. row.state = manifest[t.batch].state
    BY <2>1 DEF RowType
  <2>3. manifest' = [manifest EXCEPT ![t.batch] = row] \/ UNCHANGED manifest
    OBVIOUS
  <2> QED
    BY <1>s, <2>2, <2>3, UpdateGivesNoneUp
<1>8. ASSUME NEW w \in Workers, Plan(w)
      PROVE  NoneGivenUp
  <2> DEFINE row == [NoRow EXCEPT !.state = "pending", !.owner = w, !.lease = "live"]
  <2> PICK b \in Batches : manifest' = [manifest EXCEPT ![b] = row] \/ UNCHANGED manifest
    BY <1>8 DEF Plan
  <2>1. row.state = "pending"
    BY DEF NoRow
  <2> QED
    BY <1>s, <2>1, UpdateGivesNoneUp
<1>9. ASSUME NEW w \in Workers, MarkInserting(w)
      PROVE  NoneGivenUp
  <2> DEFINE b == run[w].batch
             row == [manifest[b] EXCEPT !.state = "inserting", !.waiting = FALSE]
  <2>1. manifest[b] \in RowType
    BY <1>9, <1>r DEF MarkInserting, RunCalls
  <2>2. row.state = "inserting" /\ manifest' = [manifest EXCEPT ![b] = row]
    BY <1>9, <2>1 DEF MarkInserting, Transition, RowType
  <2> QED
    BY <2>2, UpdateGivesNoneUp
<1>10. ASSUME NEW w \in Workers, MarkInserted(w)
      PROVE  NoneGivenUp
  <2> DEFINE b == run[w].batch
             row == [manifest[b] EXCEPT !.state = "inserted"]
  <2>1. manifest[b] \in RowType
    BY <1>10, <1>r DEF MarkInserted, RunCalls
  <2>2. row.state = "inserted" /\ manifest' = [manifest EXCEPT ![b] = row]
    BY <1>10, <2>1 DEF MarkInserted, Transition, RowType
  <2> QED
    BY <2>2, UpdateGivesNoneUp
<1>11. ASSUME NEW w \in Workers, MarkUsageRecorded(w)
      PROVE  NoneGivenUp
  <2> DEFINE b == run[w].batch
             row == [manifest[b] EXCEPT !.state = "usage_recorded"]
  <2>1. manifest[b] \in RowType
    BY <1>11, <1>r DEF MarkUsageRecorded, RunCalls
  <2>2. row.state = "usage_recorded" /\ manifest' = [manifest EXCEPT ![b] = row]
    BY <1>11, <2>1 DEF MarkUsageRecorded, Transition, RowType
  <2> QED
    BY <2>2, UpdateGivesNoneUp
<1>12. ASSUME NEW w \in Workers, MarkCompleted(w)
      PROVE  NoneGivenUp
  <2> DEFINE b == run[w].batch
             row == [manifest[b] EXCEPT !.state = "completed", !.owner = NoWorker,
                                        !.lease = "none"]
  <2>1. manifest[b] \in RowType
    BY <1>12, <1>r DEF MarkCompleted, RunCalls
  <2>2. row.state = "completed" /\ manifest' = [manifest EXCEPT ![b] = row]
    BY <1>12, <2>1 DEF MarkCompleted, Transition, RowType
  <2> QED
    BY <2>2, UpdateGivesNoneUp
<1>13. ASSUME NEW w \in Workers, MarkAttemptFailed(w)
      PROVE  NoneGivenUp
  <2> DEFINE b == run[w].batch
             row == [state |-> IF run[w].ambiguous THEN "inserting" ELSE "pending",
                     attempts |-> IF manifest[b].attempts < MaxAttempts
                                  THEN manifest[b].attempts + 1 ELSE MaxAttempts,
                     owner |-> NoWorker, lease |-> "none", waiting |-> TRUE]
  <2>1. row.state # "dead_lettered"
    OBVIOUS
  <2>2. manifest' = [manifest EXCEPT ![b] = row]
    BY <1>13 DEF MarkAttemptFailed, Transition
  <2> QED
    BY <2>1, <2>2, UpdateGivesNoneUp
<1>14. ASSUME NEW b \in Batches, LeaseExpires(b)
      PROVE  NoneGivenUp
  <2> DEFINE row == [manifest[b] EXCEPT !.lease = "expired"]
  <2>1. manifest' = [manifest EXCEPT ![b] = row]
    BY <1>14 DEF LeaseExpires
  <2>2. row.state = manifest[b].state
    BY AttemptsInNat DEF RowType
  <2> QED
    BY <2>1, <2>2, UpdateGivesNoneUp
<1>15. ASSUME NEW b \in Batches, BackoffElapses(b)
      PROVE  NoneGivenUp
  <2> DEFINE row == [manifest[b] EXCEPT !.waiting = FALSE]
  <2>1. manifest' = [manifest EXCEPT ![b] = row]
    BY <1>15 DEF BackoffElapses
  <2>2. row.state = manifest[b].state
    BY AttemptsInNat DEF RowType
  <2> QED
    BY <2>1, <2>2, UpdateGivesNoneUp
<1>16. ASSUME NEW b \in Batches, Replay(b)
      PROVE  NoneGivenUp
  BY <1>16, AttemptsInNat DEF Replay, Transition, TypeOK, RowType, NoneGivenUp
<1>17. ASSUME NEW b \in Batches, TokenForgotten(b)
      PROVE  Same
  BY <1>17 DEF TokenForgotten
<1>18. ASSUME NEW r \in requests, ServerExecutes(r) \/ RequestLost(r)
      PROVE  Same
  BY <1>18 DEF ServerExecutes, RequestLost
<1>19. ASSUME NEW s \in Sites, StartDeletion(s)
      PROVE  Same
  BY <1>19 DEF StartDeletion
<1>20. CASE TrimPlan \/ TrimApply \/ UNCHANGED vars
  BY <1>20, <1>s DEF TrimPlan, TrimApply, vars
<1> QED
  BY <1>s, <1>1, <1>2, <1>3, <1>4, <1>5, <1>6, <1>7, <1>8, <1>9, <1>10, <1>11,
     <1>12, <1>13, <1>14, <1>15, <1>16, <1>17, <1>18, <1>19, <1>20
  DEF Next, Recovers, Reclaims, Reads, RunsManifest, Faults, Server, Clock, Operator, Trim

\* Until an operator replays a batch, none is given up before its retries are spent.
THEOREM GivenUpWhenSpent == Spec => DeadLetteredAfterRetries
<1>1. CountInv /\ [Next]_vars =>
        [\A b \in Batches :
           /\ manifest[b].state # "dead_lettered"
           /\ manifest'[b].state = "dead_lettered"
           /\ replays = 0
           => manifest[b].attempts + 1 >= MaxAttempts]_vars
  <2> SUFFICES ASSUME CountInv, [Next]_vars, NEW b \in Batches,
                      manifest[b].state # "dead_lettered",
                      manifest'[b].state = "dead_lettered", replays = 0
               PROVE  manifest[b].attempts + 1 >= MaxAttempts
    OBVIOUS
  <2>1. TypeOK /\ RunsExist /\ \A w \in Workers : Behind(w)
    BY DEF CountInv, SafeInv, OnceInv
  <2>2. PICK w \in Workers : MarkDeadLettered(w)
    BY <2>1, GivenUpOnlyBy DEF NoneGivenUp
  <2> QED
    BY <2>1, <2>2, GivesUp
<1> QED
  BY <1>1, AlwaysOnce, PTL DEF Spec, DeadLetteredAfterRetries

=============================================================================
