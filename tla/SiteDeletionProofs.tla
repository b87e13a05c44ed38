------------------------- MODULE SiteDeletionProofs -------------------------
(***************************************************************************)
(* The theorems of SiteDeletion: a target that was verified stays empty,   *)
(* the drain closes the site's ingest, a completed deletion is final.      *)
(*                                                                         *)
(* The argument follows the phases.  A phase is entered only after what    *)
(* the phases before it establish, and each of these facts is stable: the  *)
(* collector's cache, its reads and its requests run out before the drain  *)
(* is over, no registered row is left in the ledger and none can appear    *)
(* (Drained); the finalizer's last pass that may write holds the lease the *)
(* fence takes (Fenced); the epoch keys are erased before the memberships  *)
(* they are found through.  Hence what a worker erased stays erased while  *)
(* it walks to the mark it sets, however long it takes, whoever else runs, *)
(* and whether or not it still holds the job.                              *)
(***************************************************************************)
EXTENDS SiteDeletion, SequenceTheorems, TLAPS

\* The drain is over: the collector's caches and requests have run out and the ledger has
\* no row that may still be inserted.
Drained == status # "active" /\ age + Skew >= Closed /\ batch.ledger # "registered"

\* So is the finalizer's last pass over the site.
Fenced == Drained /\ (overran \/ pass \notin {"cleared", "written"})

Verified(t) == targets[t].verified
Gone(t) == data[t] = {}

\* What holds from a phase on.
Reached(phase) ==
    /\ phase >= 2 => Drained
    /\ phase >= 3 => Fenced
    /\ phase >= 4 => Verified("realtime_epochs")

\* What the collector may still do ends before the drain can be over.
CollectorInv ==
    /\ enqueue.stage = "none" <=> enqueue.left = -1
    /\ status = "active" => age = 0
    /\ fill >= 0 => age + fill <= FillTime
    /\ cache > 0 => age + cache <= FillTime + CacheTTL
    /\ enqueue.left >= 0 => age + enqueue.left < FillTime + CacheTTL + RequestTime

\* Only registered rows are inserted, unless a worker outlived its lease.
BatchInv ==
    /\ batch.pc # "idle" => batch.entry = "pending"
    /\ batch.pc = "insert" => batch.ledger = "registered"
    /\ batch.entry = "pending" => batch.ledger \in {"none", "registered", "dropped"}
    /\ batch.ledger = "dropped" => status # "active"
    /\ batch.late => overran

\* A pass that may write holds the lease of the site.
FinalizerInv ==
    ~overran =>
      /\ pass \in {"cleared", "written"} => lease = Taken(Finalizer)
      /\ pass = "claimed" /\ status = "active" => lease = Taken(Finalizer)

RequestInv ==
    /\ request \in {"running", "completed"} => Drained
    /\ request = "completed" => status = "deleted"
    /\ status = "deleted" => \A t \in AllTargets : Verified(t)

JobInv ==
    /\ Reached(job.phase)
    /\ job.status # "absent" => job.id >= 1 /\ status # "active"

TargetInv ==
    \A t \in AllTargets :
      /\ Completed(t) => Verified(t)
      /\ Verified(t) => Fenced /\ (overran \/ Gone(t))

\* The epoch keys are found through the memberships, so they go first.
OrderInv == Gone("site_members") => overran \/ Gone("realtime_epochs")

Owned(phase) == {t \in AllTargets : PhaseOf(t) = phase}
Among(t, list) == \E i \in 1 .. Len(list) : list[i] = t
InTargets(x) == x.pc \in {"target", "count", "purged"}

\* What a worker may rely on, wherever it is in a phase.
WorkerInv(x) ==
    /\ Reached(x.phase)
    /\ x.pc \notin {"idle", "notify"} => x.id >= 1 /\ status # "active"
    /\ x.todo \in Seq(Owned(x.phase))
    /\ InTargets(x) => x.phase \in 3 .. 6
    /\ x.pc \in {"count", "purged"} => x.todo # <<>>
    /\ x.pc = "count" => x.phase = 5
    /\ InTargets(x) /\ x.phase = 3 =>
         Among("realtime_epochs", x.todo) \/ Verified("realtime_epochs")
    /\ x.pc = "purged" => overran \/ Gone(Head(x.todo))

Inv ==
    /\ TypeOK /\ CollectorInv /\ BatchInv /\ FinalizerInv /\ RequestInv /\ JobInv
    /\ TargetInv /\ OrderInv /\ \A w \in Workers : WorkerInv(worker[w])

-----------------------------------------------------------------------------
(* Types. *)

PCs == {"idle", "enter", "run", "target", "count", "purged", "settle", "notify"}
JobStates == {"absent", "queued", "running", "succeeded", "dead"}
Runners == [pc : PCs, id : Nat, phase : 1 .. 7, todo : Seq(AllTargets),
            seen : SUBSET AllTargets, waits : BOOLEAN, reported : BOOLEAN]
Jobs == [id : Nat, status : JobStates, phase : 1 .. 7, owner : Workers \union {NoWorker},
         live : BOOLEAN, attempts : 0 .. MaxAttempts]
Marks == [phase : {"pending", "running", "completed"}, verified : BOOLEAN, mutation : BOOLEAN]
Batches == [entry : {"none", "pending", "dead"},
            ledger : {"none", "registered", "dropped", "written", "abandoned"},
            pc : {"idle", "insert", "ack"}, late : BOOLEAN]
Leases == [row : BOOLEAN, by : Nat \union {Nobody}, live : BOOLEAN]
Requests == [left : -1 .. RequestTime, stage : {"none", "admitted", "appended"}]

\* The parts of the type invariant, by the steps that change them.
OrderTyped ==
    /\ status \in {"active", "deleting", "deleted"}
    /\ request \in {"none", "pending", "running", "failed", "completed"}
    /\ faults \in Nat
JobTyped == job \in Jobs
WorkersTyped == worker \in [Workers -> Runners]
TargetsTyped == targets \in [AllTargets -> Marks]
DataTyped == data \in [AllTargets -> SUBSET {"covered", "fresh"}]
FinalizerTyped ==
    /\ lease \in Leases
    /\ pass \in {"idle", "listed", "claimed", "cleared", "written"}
    /\ overran \in BOOLEAN
CollectorTyped ==
    /\ cache \in 0 .. CacheTTL /\ fill \in -1 .. FillTime
    /\ enqueue \in Requests
    /\ age \in 0 .. Closed + Skew
BatchTyped == batch \in Batches

LEMMA TypeParts ==
    TypeOK <=> /\ OrderTyped /\ JobTyped /\ WorkersTyped /\ TargetsTyped /\ DataTyped
               /\ FinalizerTyped /\ CollectorTyped /\ BatchTyped
BY DEF TypeOK, OrderTyped, JobTyped, WorkersTyped, TargetsTyped, DataTyped, FinalizerTyped,
       CollectorTyped, BatchTyped, PCs, JobStates, Runners, Jobs, Marks, Batches, Leases, Requests

\* The same for the next state.
LEMMA TypePartsNext ==
    TypeOK' <=> /\ OrderTyped' /\ JobTyped' /\ WorkersTyped' /\ TargetsTyped' /\ DataTyped'
                /\ FinalizerTyped' /\ CollectorTyped' /\ BatchTyped'
BY DEF TypeOK, OrderTyped, JobTyped, WorkersTyped, TargetsTyped, DataTyped, FinalizerTyped,
       CollectorTyped, BatchTyped, PCs, JobStates, Runners, Jobs, Marks, Batches, Leases, Requests

\* A worker's record after the updates the actions make.
LEMMA RunnerMoves ==
    ASSUME NEW x \in Runners, NEW p \in PCs
    PROVE  [x EXCEPT !.pc = p] \in Runners
BY DEF Runners

LEMMA RunnerReports ==
    ASSUME NEW x \in Runners, NEW p \in PCs, NEW f \in BOOLEAN
    PROVE  [x EXCEPT !.pc = p, !.reported = f] \in Runners
BY DEF Runners

LEMMA RunnerGoesOn ==
    ASSUME NEW x \in Runners, NEW p \in PCs, NEW q \in Seq(AllTargets)
    PROVE  [x EXCEPT !.pc = p, !.todo = q] \in Runners
BY DEF Runners

LEMMA RunnerSkips ==
    ASSUME NEW x \in Runners, NEW p \in PCs, NEW q \in Seq(AllTargets), NEW f \in BOOLEAN
    PROVE  [x EXCEPT !.pc = p, !.todo = q, !.waits = f] \in Runners
BY DEF Runners

LEMMA RunnerLists ==
    ASSUME NEW x \in Runners, NEW p \in PCs, NEW q \in Seq(AllTargets),
           NEW S \in SUBSET AllTargets
    PROVE  [x EXCEPT !.pc = p, !.todo = q, !.seen = S] \in Runners
BY DEF Runners

LEMMA IdleTyped == Idle \in Runners
BY DEF Idle, Runners, PCs

LEMMA RunnerBegins ==
    ASSUME NEW n \in Nat, NEW p \in 1 .. 7, NEW c \in PCs
    PROVE  [Idle EXCEPT !.pc = c, !.id = n, !.phase = p] \in Runners
BY IdleTyped DEF Runners

\* A step that replaces one worker's record.
Becomes(w, x) == worker' = [worker EXCEPT ![w] = x]

LEMMA BecomesTyped ==
    ASSUME WorkersTyped, NEW w \in Workers, NEW x \in Runners, Becomes(w, x)
    PROVE  WorkersTyped' /\ worker'[w] = x /\ \A v \in Workers \ {w} : worker'[v] = worker[v]
BY DEF WorkersTyped, Becomes

\* The job's row after the updates the actions make.
LEMMA JobSettled ==
    ASSUME NEW j \in Jobs, NEW s \in JobStates, NEW l \in BOOLEAN,
           NEW o \in Workers \union {NoWorker}
    PROVE  [j EXCEPT !.status = s, !.owner = o, !.live = l] \in Jobs
<1>1. [j EXCEPT !.status = s] \in Jobs
  BY DEF Jobs
<1>2. ASSUME NEW k \in Jobs PROVE [k EXCEPT !.owner = o] \in Jobs
  BY DEF Jobs
<1>3. ASSUME NEW k \in Jobs PROVE [k EXCEPT !.live = l] \in Jobs
  BY DEF Jobs
<1> QED
  BY <1>1, <1>2, <1>3

LEMMA JobRetried ==
    ASSUME NEW j \in Jobs, NEW s \in JobStates, NEW l \in BOOLEAN,
           NEW o \in Workers \union {NoWorker}, NEW a \in 0 .. MaxAttempts
    PROVE  [j EXCEPT !.status = s, !.owner = o, !.live = l, !.attempts = a] \in Jobs
<1>1. [j EXCEPT !.status = s, !.owner = o, !.live = l] \in Jobs
  BY JobSettled
<1>2. ASSUME NEW k \in Jobs PROVE [k EXCEPT !.attempts = a] \in Jobs
  BY DEF Jobs
<1> QED
  BY <1>1, <1>2

LEMMA NewJobTyped == ASSUME NEW n \in Nat PROVE NewJob(n) \in Jobs
BY DeletionAssumption DEF NewJob, Jobs, JobStates

-----------------------------------------------------------------------------
(* The helpers of the model. *)

\* Where a worker is, from the name of its phase.
LEMMA PhaseNumbers ==
    ASSUME NEW n \in 1 .. 7
    PROVE  /\ Phases[n] = "fence_drain" => n = 1
           /\ Phases[n] = "finalizer_fence" => n = 2
           /\ Phases[n] = "redis_purge" => n = 3
           /\ Phases[n] = "object_purge" => n = 4
           /\ Phases[n] = "clickhouse_purge" => n = 5
           /\ Phases[n] = "postgres_purge" => n = 6
           /\ Phases[n] = "verify_finalize" => n = 7
<1>1. n = 1 \/ n = 2 \/ n = 3 \/ n = 4 \/ n = 5 \/ n = 6 \/ n = 7
  OBVIOUS
<1> QED
  BY <1>1 DEF Phases

\* The list of a phase holds targets of that phase only.
LEMMA ListedOwned ==
    ASSUME NEW n \in {3, 4, 5, 6}
    PROVE  Listed(Phases[n]) \in Seq(Owned(n))
<1>1. ASSUME NEW t \in Owned(n) PROVE Outstanding(t) \in Seq(Owned(n))
  BY <1>1 DEF Outstanding
<1>2. ASSUME NEW a \in Seq(Owned(n)), NEW b \in Seq(Owned(n)) PROVE a \o b \in Seq(Owned(n))
  OBVIOUS
<1>3. CASE n = 3
  <2>1. {"queue_index", "realtime_presence", "realtime_epochs"} \subseteq Owned(n)
    BY <1>3 DEF Owned, AllTargets, Redis, ClickHouse, PhaseOf
  <2>2. Listed(Phases[n]) = Outstanding("queue_index") \o Outstanding("realtime_presence")
                              \o Outstanding("realtime_epochs")
    BY <1>3 DEF Listed, Phases
  <2> QED
    BY <1>1, <1>2, <2>1, <2>2
<1>4. CASE n = 4
  <2>1. "objects" \in Owned(n)
    BY <1>4 DEF Owned, AllTargets, Redis, ClickHouse, PhaseOf
  <2>2. Listed(Phases[n]) = Outstanding("objects")
    BY <1>4 DEF Listed, Phases
  <2> QED
    BY <1>1, <2>1, <2>2
<1>5. CASE n = 5
  <2>1. {"events_raw", "session_facts"} \subseteq Owned(n)
    BY <1>5 DEF Owned, AllTargets, Redis, ClickHouse, PhaseOf
  <2>2. Listed(Phases[n]) = Outstanding("events_raw") \o Outstanding("session_facts")
    BY <1>5 DEF Listed, Phases
  <2> QED
    BY <1>1, <1>2, <2>1, <2>2
<1>6. CASE n = 6
  <2>1. "site_members" \in Owned(n)
    BY <1>6 DEF Owned, AllTargets, Redis, ClickHouse, PhaseOf
  <2>2. Listed(Phases[n]) = Outstanding("site_members")
    BY <1>6 DEF Listed, Phases
  <2> QED
    BY <1>1, <2>1, <2>2
<1> QED
  BY <1>3, <1>4, <1>5, <1>6

\* The list of phase 3 holds the epoch keys unless they are completed.
LEMMA ListedEpochs ==
    ~Completed("realtime_epochs") => Among("realtime_epochs", Listed(Phases[3]))
<1> SUFFICES ASSUME ~Completed("realtime_epochs")
             PROVE  Among("realtime_epochs", Listed(Phases[3]))
  OBVIOUS
<1> DEFINE front == Outstanding("queue_index") \o Outstanding("realtime_presence")
<1>1. Listed(Phases[3]) = front \o <<"realtime_epochs">>
  BY DEF Listed, Phases, Outstanding
<1>2. front \in Seq(AllTargets)
  <2>1. ASSUME NEW t \in AllTargets PROVE Outstanding(t) \in Seq(AllTargets)
    BY DEF Outstanding
  <2>2. {"queue_index", "realtime_presence"} \subseteq AllTargets
    BY DEF AllTargets, Redis
  <2> QED
    BY <2>1, <2>2
<1> HIDE DEF front
<1>3. /\ Len(front \o <<"realtime_epochs">>) = Len(front) + 1
      /\ (front \o <<"realtime_epochs">>)[Len(front) + 1] = "realtime_epochs"
  BY <1>2
<1> QED
  BY <1>1, <1>2, <1>3 DEF Among

\* What is not at the head of a list is in its tail.
LEMMA AmongTail ==
    ASSUME NEW S, NEW q \in Seq(S), q # <<>>, NEW t, Among(t, q), Head(q) # t
    PROVE  Among(t, Tail(q))
<1>1. PICK i \in 1 .. Len(q) : q[i] = t
  BY DEF Among
<1>2. i # 1 /\ i - 1 \in 1 .. Len(Tail(q)) /\ Tail(q)[i - 1] = t
  BY <1>1
<1> QED
  BY <1>2 DEF Among

LEMMA OwnedTargets ==
    ASSUME NEW n
    PROVE  /\ Seq(Owned(n)) \subseteq Seq(AllTargets)
           /\ \A t \in Owned(n) : t \in AllTargets /\ PhaseOf(t) = n
BY SeqMonotonic DEF Owned

\* A list moves on.
LEMMA HeadAndTail ==
    ASSUME NEW S, NEW q \in Seq(S), q # <<>>
    PROVE  Head(q) \in S /\ Tail(q) \in Seq(S)
OBVIOUS

-----------------------------------------------------------------------------
(* A worker lets go of its job, or goes on to the next phase. *)

\* The job keeps its place, and is not touched by a worker it does not belong to.
JobStays(w) ==
    /\ job' \in Jobs /\ job'.id = job.id /\ job'.phase = job.phase
    /\ job' = job \/ Held(w)

OnTo(w) == [Idle EXCEPT !.pc = "enter", !.id = worker[w].id, !.phase = worker[w].phase + 1]

LEMMA Retries ==
    ASSUME TypeOK, NEW w \in Workers, Retry(w)
    PROVE  JobStays(w) /\ Becomes(w, Idle)
<1>1. job \in Jobs
  BY TypeParts DEF JobTyped
<1>2. [job EXCEPT !.status = "queued", !.owner = NoWorker, !.live = FALSE, !.attempts = 0] \in Jobs
  <2>1. "queued" \in JobStates /\ 0 \in 0 .. MaxAttempts
    BY DeletionAssumption DEF JobStates
  <2> QED
    BY <1>1, <2>1, JobRetried
<1>3. job' \in Jobs
  BY <1>1, <1>2 DEF Retry
<1>4. job'.id = job.id /\ job'.phase = job.phase
  BY <1>1 DEF Retry, Jobs
<1> QED
  BY <1>3, <1>4 DEF JobStays, Retry, Becomes

LEMMA Advances ==
    ASSUME TypeOK, NEW w \in Workers, worker[w].phase \in 1 .. 6, Advance(w)
    PROVE  JobStays(w) /\ OnTo(w) \in Runners /\ (Becomes(w, Idle) \/ Becomes(w, OnTo(w)))
<1>1. worker[w] \in Runners /\ job \in Jobs
  BY TypeParts DEF WorkersTyped, JobTyped
<1>2. OnTo(w) \in Runners
  <2>1. worker[w].id \in Nat /\ worker[w].phase + 1 \in 1 .. 7
    BY <1>1 DEF Runners
  <2> QED
    BY <2>1, RunnerBegins DEF OnTo, PCs
<1>3. CASE Held(w)
  <2>1. job' = [job EXCEPT !.live = TRUE] /\ Becomes(w, OnTo(w))
    BY <1>3 DEF Advance, Becomes, OnTo
  <2>2. job' \in Jobs
    BY <1>1, <2>1 DEF Jobs
  <2>3. job'.id = job.id /\ job'.phase = job.phase
    BY <1>1, <2>1 DEF Jobs
  <2> QED
    BY <1>2, <1>3, <2>1, <2>2, <2>3 DEF JobStays
<1>4. CASE ~Held(w)
  BY <1>2, <1>4, Retries DEF Advance
<1> QED
  BY <1>3, <1>4

-----------------------------------------------------------------------------
(* Type correctness, action by action. *)

\* A step that leaves the stores and their writers alone.
Still == UNCHANGED <<status, targets, data, pass, cache, fill, enqueue, age, batch, overran>>

\* A step of the writers leaves the deletion alone.
Outside == UNCHANGED <<request, job, targets, worker>>

LEMMA Typing ==
    ASSUME TypeOK
    PROVE  /\ job \in Jobs /\ \A w \in Workers : worker[w] \in Runners
           /\ \A w \in Workers : /\ worker[w].pc \in PCs /\ worker[w].id \in Nat
                                 /\ worker[w].phase \in 1 .. 7
                                 /\ worker[w].todo \in Seq(AllTargets)
           /\ job.id \in Nat /\ job.phase \in 1 .. 7 /\ job.attempts \in 0 .. MaxAttempts
           /\ job.owner \in Workers \union {NoWorker}
<1>1. job \in Jobs /\ \A w \in Workers : worker[w] \in Runners
  BY TypeParts DEF JobTyped, WorkersTyped
<1> QED
  BY <1>1 DEF Jobs, Runners

Claimed == [Idle EXCEPT !.pc = IF request = "completed" THEN "settle" ELSE "enter",
                        !.id = job.id, !.phase = job.phase]

LEMMA ClaimEffect ==
    ASSUME TypeOK, NEW w \in Workers, Claim(w)
    PROVE  /\ JobTyped' /\ job'.id = job.id /\ job'.phase = job.phase /\ job.status # "absent"
           /\ Claimed \in Runners /\ Becomes(w, Claimed)
<1>1. PICK a \in 0 .. MaxAttempts :
         job' = [job EXCEPT !.status = "running", !.owner = w, !.live = TRUE, !.attempts = a]
  <2>1. job.attempts \in 0 .. MaxAttempts /\ MaxAttempts \in Nat
    BY Typing, DeletionAssumption
  <2>2. (IF job.attempts < MaxAttempts THEN job.attempts + 1 ELSE job.attempts) \in 0 .. MaxAttempts
    BY <2>1
  <2>3. job' = [job EXCEPT !.status = "running", !.owner = w, !.live = TRUE, !.attempts =
                  IF job.attempts < MaxAttempts THEN job.attempts + 1 ELSE job.attempts]
    BY DEF Claim
  <2> QED
    BY <2>2, <2>3
<1>2. job' \in Jobs
  BY <1>1, Typing, JobRetried DEF JobStates
<1>3. job'.id = job.id /\ job'.phase = job.phase
  BY <1>1, Typing DEF Jobs
<1>4. Claimed \in Runners
  BY Typing, RunnerBegins DEF Claimed, PCs
<1> QED
  BY <1>2, <1>3, <1>4 DEF JobTyped, Claim, Becomes, Claimed

LEMMA EnterEffect ==
    ASSUME TypeOK, NEW w \in Workers, Enter(w)
    PROVE  /\ JobTyped' /\ job'.id = job.id /\ job'.status = job.status
           /\ job'.phase \in {job.phase, worker[w].phase}
           /\ [worker[w] EXCEPT !.pc = "run"] \in Runners
           /\ Becomes(w, Idle) \/ Becomes(w, [worker[w] EXCEPT !.pc = "run"])
<1>1. [worker[w] EXCEPT !.pc = "run"] \in Runners
  BY Typing, RunnerMoves DEF PCs
<1>2. CASE Held(w)
  <2>1. job' = [job EXCEPT !.phase = worker[w].phase]
    BY <1>2 DEF Enter
  <2>2. JobTyped' /\ job'.id = job.id /\ job'.phase = worker[w].phase /\ job'.status = job.status
    BY <2>1, Typing DEF JobTyped, Jobs
  <2>3. Becomes(w, [worker[w] EXCEPT !.pc = "run"])
    BY <1>2 DEF Enter, Becomes
  <2> QED
    BY <1>1, <2>2, <2>3
<1>3. CASE ~Held(w)
  BY <1>1, <1>3, Typing DEF Enter, Becomes, JobTyped
<1> QED
  BY <1>2, <1>3

LEMMA SettleEffect ==
    ASSUME TypeOK, NEW w \in Workers, Settle(w)
    PROVE  JobStays(w) /\ Becomes(w, Idle)
<1>1. [job EXCEPT !.status = "succeeded", !.owner = NoWorker, !.live = FALSE] \in Jobs
  BY Typing, JobSettled DEF JobStates
<1>2. job' \in Jobs /\ job'.id = job.id /\ job'.phase = job.phase
  BY <1>1, Typing DEF Settle, Jobs
<1> QED
  BY <1>2 DEF JobStays, Settle, Becomes

Notifying == [Idle EXCEPT !.pc = "notify"]

LEMMA ThrowEffect ==
    ASSUME TypeOK, NEW w \in Workers, Throw(w)
    PROVE  /\ JobStays(w) /\ Notifying \in Runners
           /\ Becomes(w, Idle) \/ Becomes(w, Notifying)
<1>1. Notifying \in Runners
  BY RunnerMoves, IdleTyped DEF Notifying, PCs
<1>2. CASE Held(w)
  <2>1. PICK s \in JobStates :
           job' = [job EXCEPT !.status = s, !.owner = NoWorker, !.live = FALSE]
    BY <1>2 DEF Throw, JobStates
  <2>2. job' \in Jobs
    BY <2>1, Typing, JobSettled
  <2>3. job'.id = job.id /\ job'.phase = job.phase
    BY <2>1, Typing DEF Jobs
  <2>4. Becomes(w, Idle) \/ Becomes(w, Notifying)
    BY <1>2 DEF Throw, Becomes, Notifying
  <2> QED
    BY <1>1, <1>2, <2>2, <2>3, <2>4 DEF JobStays
<1>3. CASE ~Held(w)
  BY <1>1, <1>3, Typing DEF Throw, Becomes, JobStays
<1> QED
  BY <1>2, <1>3

LEMMA LapseEffect ==
    ASSUME TypeOK, Lapse
    PROVE  /\ JobTyped' /\ job'.id = job.id /\ job'.phase = job.phase /\ job'.status = job.status
           /\ faults' \in Nat
<1>1. job' = [job EXCEPT !.live = FALSE]
  BY DEF Lapse
<1>2. faults' \in Nat
  BY TypeParts DEF Lapse, Fault, OrderTyped
<1> QED
  BY <1>1, <1>2, Typing DEF Jobs, JobTyped

Listing(w) == [worker[w] EXCEPT !.pc = "target", !.todo = Listed(Phases[worker[w].phase]),
                                !.seen = {t \in AllTargets : targets[t].mutation}]

LEMMA ListsEffect ==
    ASSUME TypeOK, NEW w \in Workers, worker[w].phase \in {3, 4, 5, 6}, Lists(w)
    PROVE  Listing(w) \in Runners /\ Becomes(w, Listing(w))
<1>1. Listed(Phases[worker[w].phase]) \in Seq(AllTargets)
  BY ListedOwned, OwnedTargets
<1>2. {t \in AllTargets : targets[t].mutation} \subseteq AllTargets
  OBVIOUS
<1>3. Listing(w) \in Runners
  BY <1>1, <1>2, Typing, RunnerLists DEF Listing, PCs
<1>4. Becomes(w, Listing(w))
  BY Typing, TypeParts DEF Listing, Lists, Becomes, WorkersTyped
<1> QED
  BY <1>3, <1>4

-----------------------------------------------------------------------------
(* The steps over the targets of a phase. *)

\* The marks move on, and none is verified or completed that was not.
MarksKept ==
    \A t \in AllTargets : /\ targets'[t].verified = targets[t].verified
                          /\ Completed(t)' => Completed(t)

\* What is empty stays empty.
DataKept == \A t \in AllTargets : Gone(t) => Gone(t)'

LEMMA WorkerFacts ==
    ASSUME Inv, NEW w \in Workers
    PROVE  TypeOK /\ WorkerInv(worker[w]) /\ worker[w] \in Runners
BY Typing DEF Inv

\* Where a worker with targets is.
LEMMA HeadFacts ==
    ASSUME Inv, NEW w \in Workers, InTargets(worker[w]), worker[w].todo # <<>>
    PROVE  /\ Head(worker[w].todo) \in AllTargets /\ Tail(worker[w].todo) \in Seq(AllTargets)
           /\ PhaseOf(Head(worker[w].todo)) = worker[w].phase
           /\ Tail(worker[w].todo) \in Seq(Owned(worker[w].phase))
<1>1. worker[w].todo \in Seq(Owned(worker[w].phase))
  BY WorkerFacts DEF WorkerInv
<1>2. Head(worker[w].todo) \in Owned(worker[w].phase)
      /\ Tail(worker[w].todo) \in Seq(Owned(worker[w].phase))
  BY <1>1, HeadAndTail
<1> QED
  BY <1>2, OwnedTargets

Moved(w, p) == [worker[w] EXCEPT !.pc = p]

LEMMA PurgeEffect ==
    ASSUME Inv, NEW w \in Workers, NEW t \in AllTargets, Purge(w, t)
    PROVE  /\ InTargets(worker[w]) /\ worker[w].todo # <<>> /\ Head(worker[w].todo) = t
           /\ TargetsTyped' /\ DataTyped' /\ MarksKept /\ DataKept
           /\ Moved(w, "purged") \in Runners /\ Becomes(w, Moved(w, "purged"))
           /\ lease' \in {lease, NoLease}
           /\ t # "site_members" => lease' = lease /\ data'["site_members"] = data["site_members"]
           /\ Gone(t)' \/ (t = "realtime_epochs" /\ Gone("site_members"))
<1>1. InTargets(worker[w]) /\ worker[w].todo # <<>> /\ Head(worker[w].todo) = t
  BY DEF Purge, On, InTargets
<1>2. TargetsTyped /\ DataTyped /\ TypeOK
  BY TypeParts DEF Inv
<1>3. TargetsTyped' /\ MarksKept
  <2>1. CASE t = "site_members"
    BY <1>2, <2>1 DEF Purge, TargetsTyped, MarksKept, Completed
  <2>2. CASE t # "site_members"
    <3>1. targets' = [targets EXCEPT ![t].phase = "running"]
      BY <2>2 DEF Purge
    <3>2. [targets[t] EXCEPT !.phase = "running"] \in Marks
      BY <1>2 DEF TargetsTyped, Marks
    <3> QED
      BY <1>2, <3>1, <3>2 DEF TargetsTyped, MarksKept, Completed, Marks
  <2> QED
    BY <2>1, <2>2
<1>4. DataTyped' /\ DataKept /\ (t # "site_members" => data'["site_members"] = data["site_members"])
      /\ (Gone(t)' \/ (t = "realtime_epochs" /\ Gone("site_members")))
  BY <1>2 DEF Purge, DataTyped, DataKept, Gone
<1>5. Moved(w, "purged") \in Runners /\ Becomes(w, Moved(w, "purged"))
  BY <1>2, Typing, RunnerMoves DEF Purge, Moved, Becomes, PCs
<1>6. lease' \in {lease, NoLease} /\ (t # "site_members" => lease' = lease)
  BY DEF Purge
<1> QED
  BY <1>1, <1>3, <1>4, <1>5, <1>6

Counting(w, f) == [worker[w] EXCEPT !.pc = "count", !.reported = f]
Skipped(w) == [worker[w] EXCEPT !.pc = "target", !.todo = Tail(worker[w].todo), !.waits = TRUE]

LEMMA SubmitEffect ==
    ASSUME Inv, NEW w \in Workers, NEW t \in AllTargets, Submit(w, t)
    PROVE  /\ InTargets(worker[w]) /\ worker[w].todo # <<>> /\ worker[w].phase = 5
           /\ TargetsTyped' /\ DataTyped' /\ MarksKept /\ DataKept
           /\ data'["site_members"] = data["site_members"]
           /\ Counting(w, FALSE) \in Runners /\ Becomes(w, Counting(w, FALSE))
<1>1. InTargets(worker[w]) /\ worker[w].todo # <<>> /\ Head(worker[w].todo) = t /\ t \in ClickHouse
  BY DEF Submit, On, InTargets
<1>2. TargetsTyped /\ DataTyped /\ TypeOK
  BY TypeParts DEF Inv
<1>3. worker[w].phase = 5
  <2>1. PhaseOf(t) = 5
    BY <1>1 DEF PhaseOf, ClickHouse
  <2> QED
    BY <1>1, <2>1, HeadFacts
<1>4. TargetsTyped' /\ MarksKept
  <2>1. PICK f \in BOOLEAN : targets' = [targets EXCEPT ![t].phase = "running", ![t].mutation = f]
    BY DEF Submit
  <2>2. [[targets[t] EXCEPT !.phase = "running"] EXCEPT !.mutation = f] \in Marks
    <3>1. [targets[t] EXCEPT !.phase = "running"] \in Marks
      BY <1>2 DEF TargetsTyped, Marks
    <3> QED
      BY <3>1 DEF Marks
  <2>3. targets' = [targets EXCEPT ![t] = [[targets[t] EXCEPT !.phase = "running"] EXCEPT !.mutation = f]]
    BY <2>1, <1>2 DEF TargetsTyped
  <2> QED
    BY <1>2, <2>2, <2>3 DEF TargetsTyped, MarksKept, Completed, Marks
<1>5. DataTyped' /\ DataKept /\ data'["site_members"] = data["site_members"]
  BY <1>1, <1>2 DEF Submit, DataTyped, DataKept, Gone, ClickHouse
<1>6. Counting(w, FALSE) \in Runners
  BY <1>2, Typing, RunnerReports DEF Counting, PCs
<1>7. Becomes(w, Counting(w, FALSE))
  BY <1>2, TypeParts DEF Submit, Counting, Becomes, WorkersTyped
<1> QED
  BY <1>1, <1>3, <1>4, <1>5, <1>6, <1>7

LEMMA SkipEffect ==
    ASSUME Inv, NEW w \in Workers, InTargets(worker[w]), worker[w].todo # <<>>, Skip(w)
    PROVE  Skipped(w) \in Runners /\ Becomes(w, Skipped(w))
<1>1. Skipped(w) \in Runners
  BY HeadFacts, WorkerFacts, RunnerSkips DEF Skipped, PCs
<1>2. Becomes(w, Skipped(w))
  BY WorkerFacts, TypeParts DEF Skip, Skipped, Becomes, WorkersTyped
<1> QED
  BY <1>1, <1>2

LEMMA PollEffect ==
    ASSUME Inv, NEW w \in Workers, NEW t \in AllTargets, Poll(w, t)
    PROVE  /\ InTargets(worker[w]) /\ worker[w].todo # <<>> /\ worker[w].phase = 5
           /\ \/ Skipped(w) \in Runners /\ Becomes(w, Skipped(w))
              \/ Counting(w, TRUE) \in Runners /\ Becomes(w, Counting(w, TRUE))
           /\ faults' \in Nat
<1>1. InTargets(worker[w]) /\ worker[w].todo # <<>> /\ Head(worker[w].todo) = t /\ t \in ClickHouse
  BY DEF Poll, On, InTargets
<1>2. worker[w].phase = 5
  <2>1. PhaseOf(t) = 5
    BY <1>1 DEF PhaseOf, ClickHouse
  <2> QED
    BY <1>1, <2>1, HeadFacts
<1>3. TypeOK /\ faults \in Nat
  BY TypeParts DEF Inv, OrderTyped
<1>4. faults' \in Nat
  BY <1>3 DEF Poll, Fault
<1>5. CASE Skip(w)
  BY <1>1, <1>2, <1>4, <1>5, SkipEffect
<1>6. CASE worker' = [worker EXCEPT ![w].pc = "count", ![w].reported = TRUE]
  <2>1. Counting(w, TRUE) \in Runners
    BY <1>3, Typing, RunnerReports DEF Counting, PCs
  <2>2. Becomes(w, Counting(w, TRUE))
    BY <1>3, <1>6, TypeParts DEF Counting, Becomes, WorkersTyped
  <2> QED
    BY <1>1, <1>2, <1>4, <2>1, <2>2
<1> QED
  BY <1>5, <1>6 DEF Poll

LEMMA CountEffect ==
    ASSUME Inv, NEW w \in Workers, Count(w)
    PROVE  /\ InTargets(worker[w]) /\ worker[w].todo # <<>> /\ worker[w].phase = 5
           /\ TargetsTyped' /\ MarksKept
           /\ \/ /\ Gone(Head(worker[w].todo))
                 /\ Moved(w, "purged") \in Runners /\ Becomes(w, Moved(w, "purged"))
              \/ Skipped(w) \in Runners /\ Becomes(w, Skipped(w))
<1>1. InTargets(worker[w]) /\ worker[w].todo # <<>> /\ worker[w].phase = 5
  BY WorkerFacts DEF Count, InTargets, WorkerInv
<1>2. TargetsTyped /\ TypeOK
  BY TypeParts DEF Inv
<1> DEFINE t == Head(worker[w].todo)
<1>3. t \in AllTargets
  BY <1>1, HeadFacts
<1>4. CASE Gone(t)
  <2>1. Moved(w, "purged") \in Runners /\ Becomes(w, Moved(w, "purged"))
    BY <1>2, <1>4, Typing, RunnerMoves DEF Count, Gone, Moved, Becomes, PCs
  <2>2. TargetsTyped' /\ MarksKept
    BY <1>2, <1>4 DEF Count, Gone, TargetsTyped, MarksKept, Completed
  <2> QED
    BY <1>1, <1>4, <2>1, <2>2
<1>5. CASE ~Gone(t)
  <2>1. Skip(w)
    BY <1>5 DEF Count, Gone
  <2>2. targets' = targets \/ targets' = [targets EXCEPT ![t].mutation = FALSE]
    BY <1>5 DEF Count, Gone
  <2>3. [targets[t] EXCEPT !.mutation = FALSE] \in Marks
    BY <1>2, <1>3 DEF TargetsTyped, Marks
  <2> HIDE DEF t
  <2>4. TargetsTyped' /\ MarksKept
    BY <1>2, <1>3, <2>2, <2>3 DEF TargetsTyped, MarksKept, Completed, Marks
  <2> QED
    BY <1>1, <2>1, <2>4, SkipEffect
<1> QED
  BY <1>4, <1>5

GoingOn(w) == [worker[w] EXCEPT !.pc = "target", !.todo = Tail(worker[w].todo)]

LEMMA CompleteEffect ==
    ASSUME Inv, NEW w \in Workers, Complete(w)
    PROVE  /\ InTargets(worker[w]) /\ worker[w].todo # <<>> /\ TargetsTyped' /\ JobStays(w)
           /\ \A t \in AllTargets :
                /\ Verified(t) => Verified(t)'
                /\ Verified(t)' => Verified(t) \/ t = Head(worker[w].todo)
                /\ Completed(t)' => Completed(t) \/ Verified(t)'
           /\ targets'[Head(worker[w].todo)].verified
           /\ GoingOn(w) \in Runners
           /\ Becomes(w, Idle) \/ Becomes(w, GoingOn(w))
<1>1. InTargets(worker[w]) /\ worker[w].todo # <<>>
  BY WorkerFacts DEF Complete, InTargets, WorkerInv
<1>2. TargetsTyped /\ TypeOK
  BY TypeParts DEF Inv
<1> DEFINE t == Head(worker[w].todo)
<1>3. t \in AllTargets
  BY <1>1, HeadFacts
<1>4. targets' = [targets EXCEPT ![t].phase = "completed", ![t].verified = TRUE]
  BY DEF Complete
<1>5. [[targets[t] EXCEPT !.phase = "completed"] EXCEPT !.verified = TRUE] \in Marks
  <2>1. [targets[t] EXCEPT !.phase = "completed"] \in Marks
    BY <1>2, <1>3 DEF TargetsTyped, Marks
  <2> QED
    BY <2>1 DEF Marks
<1>6. GoingOn(w) \in Runners
  BY <1>1, <1>2, HeadFacts, Typing, RunnerGoesOn DEF GoingOn, PCs
<1>7. JobStays(w) /\ (Becomes(w, Idle) \/ Becomes(w, GoingOn(w)))
  <2>1. CASE Held(w)
    <3>1. job' = [job EXCEPT !.live = TRUE]
      BY <2>1 DEF Complete
    <3>2. job' \in Jobs /\ job'.id = job.id /\ job'.phase = job.phase
      BY <1>2, <3>1, Typing DEF Jobs
    <3>3. Becomes(w, GoingOn(w))
      BY <1>2, <2>1, TypeParts DEF Complete, GoingOn, Becomes, WorkersTyped
    <3> QED
      BY <2>1, <3>2, <3>3 DEF JobStays
  <2>2. CASE ~Held(w)
    BY <1>2, <2>2, Retries DEF Complete
  <2> QED
    BY <2>1, <2>2
<1> HIDE DEF t
<1>8. targets' = [targets EXCEPT ![t] = [[targets[t] EXCEPT !.phase = "completed"] EXCEPT !.verified = TRUE]]
  BY <1>2, <1>3, <1>4 DEF TargetsTyped
<1>9. TargetsTyped'
  BY <1>2, <1>3, <1>5, <1>8 DEF TargetsTyped
<1>10. targets'[t].verified
  BY <1>2, <1>3, <1>8 DEF TargetsTyped, Marks
<1>11. \A u \in AllTargets \ {t} : targets'[u] = targets[u]
  BY <1>2, <1>3, <1>8 DEF TargetsTyped
<1>12. ASSUME NEW u \in AllTargets
       PROVE  /\ Verified(u) => Verified(u)'
              /\ Verified(u)' => Verified(u) \/ u = t
              /\ Completed(u)' => Completed(u) \/ Verified(u)'
  <2>1. CASE u = t
    BY <1>10, <2>1 DEF Verified
  <2>2. CASE u # t
    BY <1>11, <2>2 DEF Verified, Completed
  <2> QED
    BY <2>1, <2>2
<1> QED
  BY <1>1, <1>6, <1>7, <1>9, <1>10, <1>12 DEF t

-----------------------------------------------------------------------------
(* The invariant in parts, each with the types of what it is about. *)

RequestPart == OrderTyped /\ RequestInv
JobPart == JobTyped /\ JobInv
WorkerPart == WorkersTyped /\ \A w \in Workers : WorkerInv(worker[w])
TargetPart == TargetsTyped /\ DataTyped /\ TargetInv /\ OrderInv
LeasePart == FinalizerTyped /\ FinalizerInv
WriterPart == CollectorTyped /\ CollectorInv /\ BatchTyped /\ BatchInv

LEMMA Assembled ==
    RequestPart' /\ JobPart' /\ WorkerPart' /\ TargetPart' /\ LeasePart' /\ WriterPart' => Inv'
BY TypePartsNext
   DEF RequestPart, JobPart, WorkerPart, TargetPart, LeasePart, WriterPart, Inv

-----------------------------------------------------------------------------
(* What is stable. *)

\* A deletion does not go back, and what was fenced off and erased stays so.
Forward ==
    /\ status # "active" => status' # "active"
    /\ status = "deleted" => status' = "deleted"
    /\ overran => overran'
    /\ Drained => Drained'
    /\ Fenced => Fenced'
    /\ Fenced => \A t \in AllTargets : Verified(t) => Verified(t)'
    /\ Fenced /\ ~overran' => \A t \in AllTargets : Gone(t) => Gone(t)'

LEMMA PhaseOneIsFree ==
    ASSUME NEW n \in 1 .. 7, Reached(n), status = "active"
    PROVE  n = 1
BY DEF Reached, Drained

LEMMA ReachedForward ==
    ASSUME Forward, NEW n \in 1 .. 7, Reached(n)
    PROVE  Reached(n)'
<1>1. n >= 2 => Drained'
  BY DEF Forward, Reached
<1>2. n >= 3 => Fenced'
  BY DEF Forward, Reached
<1>3. n >= 4 => Verified("realtime_epochs")'
  <2>1. "realtime_epochs" \in AllTargets
    BY DEF AllTargets, Redis
  <2> QED
    BY <2>1 DEF Forward, Reached
<1> QED
  BY <1>1, <1>2, <1>3 DEF Reached

\* A record that is sound stays so while the worker does nothing.
LEMMA RecordForward ==
    ASSUME Forward, NEW x \in Runners, WorkerInv(x)
    PROVE  WorkerInv(x)'
<1>1. x.phase \in 1 .. 7 /\ x.pc \in PCs
  BY DEF Runners
<1>2. x.pc \notin {"idle", "notify"} => x.id >= 1 /\ status' # "active"
  BY DEF WorkerInv, Forward
<1>3. Reached(x.phase)'
  BY <1>1, ReachedForward DEF WorkerInv
<1>4. InTargets(x) => x.phase \in 3 .. 6 /\ Fenced
  BY DEF WorkerInv, Reached
<1>5. InTargets(x) /\ x.phase = 3 =>
        Among("realtime_epochs", x.todo) \/ Verified("realtime_epochs")'
  <2>1. "realtime_epochs" \in AllTargets
    BY DEF AllTargets, Redis
  <2> QED
    BY <1>4, <2>1 DEF Forward, WorkerInv
<1>6. x.pc = "purged" => overran' \/ Gone(Head(x.todo))'
  <2> SUFFICES ASSUME x.pc = "purged", ~overran' PROVE Gone(Head(x.todo))'
    OBVIOUS
  <2>1. Fenced /\ ~overran
    BY <1>4 DEF InTargets, Forward
  <2>2. Head(x.todo) \in AllTargets
    BY HeadAndTail, OwnedTargets DEF WorkerInv
  <2>3. Gone(Head(x.todo))
    BY <2>1 DEF WorkerInv
  <2> QED
    BY <2>1, <2>2, <2>3 DEF Forward
<1> QED
  BY <1>2, <1>3, <1>4, <1>5, <1>6 DEF WorkerInv

\* The other workers are as they were.
LEMMA OneWorkerMoves ==
    ASSUME Inv, Forward, NEW w \in Workers, NEW x \in Runners, Becomes(w, x), WorkerInv(x)'
    PROVE  WorkerPart'
<1>1. WorkersTyped' /\ worker'[w] = x /\ \A v \in Workers \ {w} : worker'[v] = worker[v]
  BY BecomesTyped, TypeParts DEF Inv
<1>2. ASSUME NEW v \in Workers PROVE WorkerInv(worker[v])'
  <2>1. CASE v = w
    BY <1>1, <2>1 DEF WorkerInv
  <2>2. CASE v # w
    <3>1. PICK y \in Runners : y = worker[v] /\ worker'[v] = y
      BY <1>1, <2>2, Typing DEF Inv
    <3>2. WorkerInv(y)'
      BY <3>1, RecordForward DEF Inv
    <3> QED
      BY <3>1, <3>2 DEF WorkerInv
  <2> QED
    BY <2>1, <2>2
<1> QED
  BY <1>1, <1>2 DEF WorkerPart

LEMMA NoWorkerMoves ==
    ASSUME Inv, Forward, UNCHANGED worker
    PROVE  WorkerPart'
<1>1. ASSUME NEW v \in Workers PROVE WorkerInv(worker[v])'
  <2>1. PICK y \in Runners : y = worker[v] /\ worker'[v] = y
    BY Typing DEF Inv
  <2>2. WorkerInv(y)'
    BY <2>1, RecordForward DEF Inv
  <2> QED
    BY <2>1, <2>2 DEF WorkerInv
<1> QED
  BY <1>1, TypeParts DEF Inv, WorkersTyped, WorkerPart

\* The records a worker has where it relies on nothing but its phase.
LEMMA PlainRecords ==
    ASSUME NEW x \in Runners, x.todo = <<>>, x.pc \in {"idle", "enter", "run", "settle", "notify"},
           x.pc \in {"idle", "notify"} \/ (x.id >= 1 /\ status' # "active"), Reached(x.phase)'
    PROVE  WorkerInv(x)'
BY DEF WorkerInv, InTargets

LEMMA IdleRecords ==
    ASSUME NEW x \in Runners, x \in {Idle, Notifying}
    PROVE  WorkerInv(x)'
<1>1. x.todo = <<>> /\ x.pc \in {"idle", "notify"} /\ x.phase = 1
  BY DEF Idle, Notifying
<1>2. Reached(1)'
  BY DEF Reached
<1>3. Reached(x.phase)'
  BY <1>1, <1>2
<1> QED
  BY <1>1, <1>3, PlainRecords

-----------------------------------------------------------------------------
(* Steps that leave something alone. *)

Calm == UNCHANGED <<pass, cache, fill, enqueue, age, batch, overran>>

\* The collector has nothing left once the drain is over.
LEMMA DrainedIsQuiet ==
    ASSUME TypeOK, CollectorInv, Drained
    PROVE  fill = -1 /\ cache = 0 /\ enqueue.left = -1 /\ enqueue.stage = "none"
<1>1. /\ cache \in 0 .. CacheTTL /\ fill \in -1 .. FillTime /\ enqueue.left \in -1 .. RequestTime
      /\ age \in 0 .. Closed + Skew
  BY TypeParts DEF CollectorTyped, Requests
<1>2. age >= CacheTTL + FillTime + RequestTime
  BY <1>1, DeletionAssumption DEF Drained, Closed
<1>3. fill = -1
  BY <1>1, <1>2, DeletionAssumption DEF CollectorInv
<1>4. cache = 0
  BY <1>1, <1>2, DeletionAssumption DEF CollectorInv
<1>5. enqueue.left = -1
  BY <1>1, <1>2, DeletionAssumption DEF CollectorInv
<1> QED
  BY <1>3, <1>4, <1>5 DEF CollectorInv

LEMMA StillForward ==
    ASSUME Still
    PROVE  Forward
BY DEF Still, Forward, Drained, Fenced, Verified, Gone

LEMMA CalmForward ==
    ASSUME Calm, UNCHANGED status,
           \A t \in AllTargets : Verified(t) => Verified(t)', DataKept
    PROVE  Forward
BY DEF Calm, Forward, Drained, Fenced, DataKept

LEMMA CalmKeeps ==
    ASSUME Inv, Calm, status' = status \/ status' # "active"
    PROVE  WriterPart'
<1>1. TypeOK /\ CollectorInv /\ BatchInv
  BY DEF Inv
<1>2. CollectorInv'
  BY <1>1 DEF CollectorInv, Calm
<1>3. BatchInv'
  BY <1>1 DEF BatchInv, Calm
<1>4. CollectorTyped' /\ BatchTyped'
  BY <1>1, TypeParts DEF CollectorTyped, BatchTyped, Calm
<1> QED
  BY <1>2, <1>3, <1>4 DEF WriterPart

LEMMA RestKeeps ==
    ASSUME Inv, UNCHANGED <<targets, data, pass, overran, status>>, Forward
    PROVE  TargetPart'
<1>1. TypeOK /\ TargetInv /\ OrderInv
  BY DEF Inv
<1>2. TargetInv'
  BY <1>1 DEF TargetInv, Forward, Completed, Verified, Gone
<1>3. OrderInv'
  BY <1>1 DEF OrderInv, Gone
<1>4. TargetsTyped' /\ DataTyped'
  BY <1>1, TypeParts DEF TargetsTyped, DataTyped
<1> QED
  BY <1>2, <1>3, <1>4 DEF TargetPart

LEMMA StillKeeps ==
    ASSUME Inv, Still
    PROVE  Forward /\ WriterPart' /\ TargetPart'
<1>1. Forward
  BY StillForward
<1>2. Calm /\ status' = status /\ UNCHANGED <<targets, data, pass, overran, status>>
  BY DEF Still, Calm
<1> QED
  BY <1>1, <1>2, CalmKeeps, RestKeeps

LEMMA LeaseKept ==
    ASSUME Inv, UNCHANGED <<lease, pass, overran, status>>
    PROVE  LeasePart'
<1>1. TypeOK /\ FinalizerInv
  BY DEF Inv
<1> QED
  BY <1>1, TypeParts DEF LeasePart, FinalizerInv, FinalizerTyped

\* Behind the fence the lease protects no writer any more.
LEMMA FencedLease ==
    ASSUME Inv, Fenced, UNCHANGED <<pass, overran>>, status' # "active", lease' \in Leases
    PROVE  LeasePart'
<1>1. TypeOK
  BY DEF Inv
<1> QED
  BY <1>1, TypeParts DEF LeasePart, Fenced, FinalizerInv, FinalizerTyped

LEMMA VerifiedForward ==
    ASSUME Inv, Forward, NEW t \in AllTargets, Verified(t)
    PROVE  Verified(t)'
BY DEF Inv, TargetInv, Forward

LEMMA RequestKept ==
    ASSUME Inv, Forward, UNCHANGED <<request, status>>
    PROVE  RequestInv'
<1>1. status = "deleted" => \A t \in AllTargets : Verified(t)'
  BY VerifiedForward DEF Inv, RequestInv
<1> QED
  BY <1>1 DEF Inv, RequestInv, Forward

\* What changes in the request does not make it running or completed.
LEMMA RequestFalls ==
    ASSUME Inv, Forward, UNCHANGED status,
           request' = request \/ request' \in {"pending", "failed"}
    PROVE  RequestInv'
<1>1. status = "deleted" => \A t \in AllTargets : Verified(t)'
  BY VerifiedForward DEF Inv, RequestInv
<1> QED
  BY <1>1 DEF Inv, RequestInv, Forward

LEMMA JobKept ==
    ASSUME Inv, Forward, job'.id = job.id, job'.phase = job.phase,
           job'.status # "absent" => job.id >= 1 /\ status # "active"
    PROVE  JobInv'
<1>1. Reached(job.phase)'
  <2>1. PICK n \in 1 .. 7 : n = job.phase /\ n = job'.phase
    BY Typing DEF Inv
  <2>2. Reached(n)'
    BY <2>1, ReachedForward DEF Inv, JobInv
  <2> QED
    BY <2>1, <2>2 DEF Reached
<1> QED
  BY <1>1 DEF JobInv, Forward

LEMMA JobHolds ==
    ASSUME Inv, Forward, NEW w \in Workers, JobStays(w), worker[w].pc \notin {"idle", "notify"}
    PROVE  JobPart'
<1>1. job'.status # "absent" => job.id >= 1 /\ status # "active"
  BY DEF Inv, JobStays, JobInv, Held, WorkerInv
<1> QED
  BY <1>1, JobKept DEF JobStays, JobTyped, JobPart

LEMMA JobUntouched ==
    ASSUME Inv, Forward, UNCHANGED job
    PROVE  JobPart'
<1>1. job'.status # "absent" => job.id >= 1 /\ status # "active"
  BY DEF Inv, JobInv
<1> QED
  BY <1>1, JobKept, Typing DEF JobTyped, JobPart, Inv

\* A worker that lets go of its job leaves nothing to rely on.
LEMMA LetsGo ==
    ASSUME Inv, Forward, NEW w \in Workers, Becomes(w, Idle)
    PROVE  WorkerPart'
<1>1. PICK x \in Runners : x = Idle
  BY IdleTyped
<1> QED
  BY <1>1, IdleRecords, OneWorkerMoves

LEMMA RetryKeeps ==
    ASSUME Inv, Forward, NEW w \in Workers, worker[w].pc \notin {"idle", "notify"}, Retry(w)
    PROVE  JobPart' /\ WorkerPart'
<1>1. JobStays(w) /\ Becomes(w, Idle)
  BY Retries DEF Inv
<1> QED
  BY <1>1, JobHolds, LetsGo

LEMMA AdvanceKeeps ==
    ASSUME Inv, Forward, NEW w \in Workers, worker[w].pc \notin {"idle", "notify"}, Advance(w),
           NEW n \in 1 .. 6, worker[w].phase = n, Reached(n + 1)'
    PROVE  JobPart' /\ WorkerPart'
<1>1. JobStays(w) /\ OnTo(w) \in Runners /\ (Becomes(w, Idle) \/ Becomes(w, OnTo(w)))
  BY Advances DEF Inv
<1>2. PICK x \in Runners : x = OnTo(w)
  BY <1>1
<1>3. x.todo = <<>> /\ x.pc = "enter" /\ x.id >= 1 /\ x.phase = n + 1 /\ status' # "active"
  <2>1. worker[w].id >= 1 /\ status' # "active"
    BY DEF Inv, WorkerInv, Forward
  <2> QED
    BY <1>2, <2>1 DEF OnTo, Idle
<1>4. WorkerInv(x)'
  BY <1>3, PlainRecords
<1>5. CASE Becomes(w, x)
  BY <1>1, <1>4, <1>5, JobHolds, OneWorkerMoves
<1>6. CASE Becomes(w, Idle)
  BY <1>1, <1>6, JobHolds, LetsGo
<1> QED
  BY <1>1, <1>2, <1>5, <1>6

-----------------------------------------------------------------------------
(* The job's steps outside the phases. *)

LEMMA ReviveKeeps == ASSUME Inv, Revive PROVE Inv'
<1>1. Still /\ UNCHANGED <<lease, worker, faults>>
  BY DEF Revive, Still, writers
<1>2. Forward /\ WriterPart' /\ TargetPart' /\ LeasePart'
  BY <1>1, StillKeeps, LeaseKept DEF Still
<1>3. RequestPart'
  <2>1. RequestInv'
    BY <1>1, <1>2, RequestFalls DEF Revive
  <2>2. OrderTyped'
    BY <1>1, TypeParts DEF Inv, OrderTyped, Revive
  <2> QED
    BY <2>1, <2>2 DEF RequestPart
<1>4. JobPart'
  <2>1. job.id + 1 \in Nat /\ job' = NewJob(job.id + 1)
    BY Typing DEF Inv, Revive
  <2>2. JobTyped'
    BY <2>1, NewJobTyped DEF JobTyped
  <2>3. job'.phase = 1 /\ job'.id >= 1
    BY <2>1, Typing DEF NewJob, Inv
  <2> QED
    BY <2>2, <2>3 DEF JobPart, JobInv, Reached, Revive
<1>5. WorkerPart'
  BY <1>1, <1>2, NoWorkerMoves
<1> QED
  BY <1>2, <1>3, <1>4, <1>5, Assembled

\* Of a step that leaves the stores, the lease and the request alone, only the job and
\* one worker are left to look at.
Quiet == Still /\ UNCHANGED <<request, lease>> /\ faults' \in Nat

LEMMA QuietKeeps ==
    ASSUME Inv, Quiet
    PROVE  Forward /\ WriterPart' /\ TargetPart' /\ LeasePart' /\ RequestPart'
<1>1. Forward /\ WriterPart' /\ TargetPart'
  BY StillKeeps DEF Quiet
<1>2. LeasePart'
  BY LeaseKept DEF Quiet, Still
<1>3. RequestInv'
  BY <1>1, RequestKept DEF Quiet, Still
<1>4. OrderTyped'
  BY TypeParts DEF Inv, OrderTyped, Quiet, Still
<1> QED
  BY <1>1, <1>2, <1>3, <1>4 DEF RequestPart

LEMMA FaultTyped == ASSUME Inv, UNCHANGED faults \/ Fault PROVE faults' \in Nat
BY TypeParts DEF Inv, OrderTyped, Fault

LEMMA ClaimKeeps == ASSUME Inv, NEW w \in Workers, Claim(w) PROVE Inv'
<1>1. Quiet
  BY FaultTyped DEF Claim, Quiet, Still, writers
<1>2. /\ JobTyped' /\ job'.id = job.id /\ job'.phase = job.phase /\ job.status # "absent"
      /\ Claimed \in Runners /\ Becomes(w, Claimed)
  BY ClaimEffect DEF Inv
<1>3. Forward /\ job.id >= 1 /\ status # "active" /\ status' # "active"
  BY <1>1, <1>2, QuietKeeps DEF Inv, JobInv, Forward
<1>4. JobPart'
  BY <1>2, <1>3, JobKept DEF JobPart
<1>5. PICK x \in Runners : x = Claimed
  BY <1>2
<1>6. x.todo = <<>> /\ x.pc \in {"settle", "enter"} /\ x.id = job.id /\ x.phase = job.phase
  BY <1>5 DEF Claimed, Idle
<1>7. Reached(x.phase)'
  <2>1. PICK n \in 1 .. 7 : n = job.phase
    BY Typing DEF Inv
  <2>2. Reached(n)'
    BY <1>3, <2>1, ReachedForward DEF Inv, JobInv
  <2> QED
    BY <1>6, <2>1, <2>2
<1>8. WorkerPart'
  BY <1>2, <1>3, <1>5, <1>6, <1>7, PlainRecords, OneWorkerMoves
<1> QED
  BY <1>1, <1>4, <1>8, QuietKeeps, Assembled

LEMMA EnterKeeps == ASSUME Inv, NEW w \in Workers, Enter(w) PROVE Inv'
<1>1. Quiet
  BY FaultTyped DEF Enter, Quiet, Still, writers
<1>2. /\ JobTyped' /\ job'.id = job.id /\ job'.status = job.status
      /\ job'.phase \in {job.phase, worker[w].phase}
      /\ [worker[w] EXCEPT !.pc = "run"] \in Runners
      /\ Becomes(w, Idle) \/ Becomes(w, [worker[w] EXCEPT !.pc = "run"])
  BY EnterEffect DEF Inv
<1>3. Forward
  BY <1>1, QuietKeeps
<1>4. PICK n \in 1 .. 7 : n = job'.phase /\ Reached(n)'
  <2>1. PICK m \in {job.phase, worker[w].phase} : m = job'.phase
    BY <1>2
  <2>2. m \in 1 .. 7 /\ Reached(m)
    BY Typing DEF Inv, JobInv, WorkerInv
  <2>3. Reached(m)'
    BY <1>3, <2>2, ReachedForward
  <2> QED
    BY <2>1, <2>2, <2>3
<1>5. JobPart'
  BY <1>2, <1>3, <1>4 DEF JobPart, JobInv, Inv, Reached, Forward
<1>6. PICK x \in Runners : x = [worker[w] EXCEPT !.pc = "run"]
  BY <1>2
<1>7. x.todo = worker[w].todo /\ x.pc = "run" /\ x.id = worker[w].id /\ x.phase = worker[w].phase
  BY <1>6, WorkerFacts DEF Runners
<1>8. WorkerInv(x)'
  <2>1. PICK y \in Runners : y = worker[w]
    BY WorkerFacts
  <2>2. WorkerInv(y)' /\ y.pc = "enter"
    BY <1>3, <2>1, RecordForward DEF Inv, Enter
  <2> QED
    BY <1>7, <2>1, <2>2 DEF WorkerInv, InTargets
<1>9. WorkerPart'
  BY <1>2, <1>3, <1>6, <1>8, LetsGo, OneWorkerMoves
<1> QED
  BY <1>1, <1>5, <1>9, QuietKeeps, Assembled

LEMMA SettleKeeps == ASSUME Inv, NEW w \in Workers, Settle(w) PROVE Inv'
<1>1. Quiet
  BY FaultTyped DEF Settle, Quiet, Still, writers
<1>2. JobPart'
  <2>1. worker[w].pc \notin {"idle", "notify"}
    BY DEF Settle
  <2> QED
    BY <1>1, <2>1, SettleEffect, QuietKeeps, JobHolds DEF Inv
<1>3. WorkerPart'
  BY <1>1, SettleEffect, QuietKeeps, LetsGo DEF Inv
<1> QED
  BY <1>1, <1>2, <1>3, QuietKeeps, Assembled

LEMMA ThrowKeeps == ASSUME Inv, NEW w \in Workers, Throw(w) PROVE Inv'
<1>1. Quiet
  BY FaultTyped DEF Throw, Quiet, Still, writers
<1>2. Forward
  BY <1>1, QuietKeeps
<1>3. /\ JobStays(w) /\ Notifying \in Runners
      /\ Becomes(w, Idle) \/ Becomes(w, Notifying)
  BY ThrowEffect DEF Inv
<1>4. JobPart'
  <2>1. worker[w].pc \notin {"idle", "notify"}
    BY DEF Throw
  <2> QED
    BY <1>2, <1>3, <2>1, JobHolds
<1>5. WorkerPart'
  <2>1. PICK x \in Runners : x = Notifying
    BY <1>3
  <2>2. WorkerInv(x)'
    BY <2>1, IdleRecords
  <2> QED
    BY <1>2, <1>3, <2>1, <2>2, LetsGo, OneWorkerMoves
<1> QED
  BY <1>1, <1>4, <1>5, QuietKeeps, Assembled

LEMMA NotifyKeeps == ASSUME Inv, NEW w \in Workers, Notify(w) PROVE Inv'
<1>1. Still /\ UNCHANGED <<lease, job, faults>>
  BY DEF Notify, Still, writers
<1>2. Forward /\ WriterPart' /\ TargetPart' /\ LeasePart'
  BY <1>1, StillKeeps, LeaseKept DEF Still
<1>3. RequestPart'
  <2>1. RequestInv'
    BY <1>1, <1>2, RequestFalls DEF Notify
  <2>2. OrderTyped'
    BY <1>1, TypeParts DEF Inv, OrderTyped, Notify
  <2> QED
    BY <2>1, <2>2 DEF RequestPart
<1>4. JobPart'
  BY <1>1, <1>2, JobUntouched
<1>5. WorkerPart'
  BY <1>2, LetsGo DEF Notify, Becomes
<1> QED
  BY <1>2, <1>3, <1>4, <1>5, Assembled

LEMMA CrashKeeps == ASSUME Inv, NEW w \in Workers, Crash(w) PROVE Inv'
<1>1. Quiet
  BY FaultTyped DEF Crash, Quiet, Still, writers
<1>2. JobPart'
  BY <1>1, QuietKeeps, JobUntouched DEF Crash
<1>3. WorkerPart'
  BY <1>1, QuietKeeps, LetsGo DEF Crash, Becomes
<1> QED
  BY <1>1, <1>2, <1>3, QuietKeeps, Assembled

LEMMA LapseKeeps == ASSUME Inv, Lapse PROVE Inv'
<1>1. JobTyped' /\ job'.id = job.id /\ job'.phase = job.phase /\ job'.status = job.status
      /\ faults' \in Nat
  BY LapseEffect DEF Inv
<1>2. Quiet
  BY <1>1 DEF Lapse, Quiet, Still, writers
<1>3. JobPart'
  <2>1. job'.status # "absent" => job.id >= 1 /\ status # "active"
    BY <1>1 DEF Inv, JobInv
  <2> QED
    BY <1>1, <1>2, <2>1, QuietKeeps, JobKept DEF JobPart
<1>4. WorkerPart'
  BY <1>2, QuietKeeps, NoWorkerMoves DEF Lapse
<1> QED
  BY <1>2, <1>3, <1>4, QuietKeeps, Assembled

-----------------------------------------------------------------------------
(* The phases. *)

LEMMA AtPhase ==
    ASSUME Inv, NEW w \in Workers, NEW name, At(w, name)
    PROVE  /\ worker[w].pc = "run" /\ status # "active" /\ worker[w].id >= 1
           /\ name = "fence_drain" => worker[w].phase = 1
           /\ name = "finalizer_fence" => worker[w].phase = 2
           /\ name = "redis_purge" => worker[w].phase = 3
           /\ name = "object_purge" => worker[w].phase = 4
           /\ name = "clickhouse_purge" => worker[w].phase = 5
           /\ name = "postgres_purge" => worker[w].phase = 6
           /\ name = "verify_finalize" => worker[w].phase = 7
<1>1. worker[w].phase \in 1 .. 7 /\ Phases[worker[w].phase] = name /\ worker[w].pc = "run"
  BY Typing DEF Inv, At
<1>2. status # "active" /\ worker[w].id >= 1
  BY <1>1 DEF Inv, WorkerInv
<1> QED
  BY <1>1, <1>2, PhaseNumbers

LEMMA FenceDrainKeeps == ASSUME Inv, NEW w \in Workers, FenceDrain(w) PROVE Inv'
<1>1. Still /\ UNCHANGED <<lease, faults>>
      /\ (request' = request \/ (DrainOver /\ request' = "running"))
  BY DEF FenceDrain, Still, writers
<1>2. Forward /\ WriterPart' /\ TargetPart' /\ LeasePart'
  BY <1>1, StillKeeps, LeaseKept DEF Still
<1>3. worker[w].pc = "run" /\ worker[w].phase = 1 /\ status # "active"
  BY AtPhase DEF FenceDrain
<1>4. DrainOver => Drained'
  BY <1>2, <1>3 DEF Drained, DrainOver, Forward
<1>5. RequestPart'
  <2>1. OrderTyped'
    BY <1>1, TypeParts DEF Inv, OrderTyped, Still
  <2>2. CASE request' = request
    BY <1>1, <1>2, <2>1, <2>2, RequestKept DEF RequestPart, Still
  <2>3. CASE DrainOver /\ request' = "running"
    <3>1. status' = "deleted" => \A t \in AllTargets : Verified(t)'
      BY <1>1, <1>2, VerifiedForward DEF Inv, RequestInv, Still
    <3> QED
      BY <1>4, <2>1, <2>3, <3>1 DEF RequestPart, RequestInv
  <2> QED
    BY <1>1, <2>2, <2>3
<1>6. JobPart' /\ WorkerPart'
  <2>1. CASE DrainOver /\ Advance(w)
    <3>1. Reached(1 + 1)'
      BY <1>4, <2>1 DEF Reached
    <3> QED
      BY <1>2, <1>3, <2>1, <3>1, AdvanceKeeps
  <2>2. CASE Retry(w)
    BY <1>2, <1>3, <2>2, RetryKeeps
  <2> QED
    BY <2>1, <2>2 DEF FenceDrain
<1> QED
  BY <1>2, <1>5, <1>6, Assembled

\* Taking the finalizer's row, from the drain on.
LEMMA LeaseTaken ==
    ASSUME Inv, NEW w \in Workers, worker[w].id >= 1, worker[w].id \in Nat, Drained, Drained',
           Takeable(worker[w].id), lease' = Taken(worker[w].id), UNCHANGED <<pass, overran, status>>
    PROVE  LeasePart' /\ Fenced'
<1>1. TypeOK /\ FinalizerInv
  BY DEF Inv
<1>2. overran \/ pass \notin {"cleared", "written"}
  <2> SUFFICES ASSUME ~overran, pass \in {"cleared", "written"} PROVE FALSE
    OBVIOUS
  <2>1. lease = Taken(Finalizer)
    BY <1>1 DEF FinalizerInv
  <2> QED
    BY <2>1 DEF Takeable, Taken, Finalizer, Nobody
<1>3. lease' \in Leases
  BY DEF Taken, Leases
<1>4. status # "active"
  BY DEF Drained
<1> QED
  BY <1>2, <1>3, <1>4, TypeParts, <1>1 DEF LeasePart, FinalizerTyped, FinalizerInv, Fenced

LEMMA FinalizerFenceKeeps == ASSUME Inv, NEW w \in Workers, FinalizerFence(w) PROVE Inv'
<1>1. Still /\ UNCHANGED <<request, faults>>
  BY DEF FinalizerFence, Still
<1>2. Forward /\ WriterPart' /\ TargetPart'
  BY <1>1, StillKeeps
<1>3. worker[w].pc = "run" /\ worker[w].phase = 2 /\ worker[w].id >= 1 /\ worker[w].id \in Nat
  BY AtPhase, Typing DEF FinalizerFence, Inv
<1>4. Drained /\ Drained'
  BY <1>2, <1>3 DEF Inv, WorkerInv, Reached, Forward
<1>5. RequestPart'
  <2>1. OrderTyped' /\ RequestInv'
    BY <1>1, <1>2, TypeParts, RequestKept DEF Inv, OrderTyped, Still
  <2> QED
    BY <2>1 DEF RequestPart
<1>6. CASE Takeable(worker[w].id)
  <2>1. lease' = Taken(worker[w].id) /\ Advance(w)
    BY <1>6 DEF FinalizerFence
  <2>2. LeasePart' /\ Fenced'
    BY <1>1, <1>3, <1>4, <1>6, <2>1, LeaseTaken DEF Still
  <2>3. Reached(2 + 1)'
    BY <1>4, <2>2 DEF Reached
  <2>4. JobPart' /\ WorkerPart'
    BY <1>2, <1>3, <2>1, <2>3, AdvanceKeeps
  <2> QED
    BY <1>2, <1>5, <2>2, <2>4, Assembled
<1>7. CASE ~Takeable(worker[w].id)
  <2>1. UNCHANGED lease /\ Retry(w)
    BY <1>7 DEF FinalizerFence
  <2>2. LeasePart'
    BY <1>1, <2>1, LeaseKept DEF Still
  <2>3. JobPart' /\ WorkerPart'
    BY <1>2, <1>3, <2>1, RetryKeeps
  <2> QED
    BY <1>2, <1>5, <2>2, <2>3, Assembled
<1> QED
  BY <1>6, <1>7

\* The list a worker makes holds what its phase still has to erase.
LEMMA ListsKeeps ==
    ASSUME Inv, Forward, NEW w \in Workers, worker[w].pc = "run",
           NEW n \in {3, 4, 5, 6}, worker[w].phase = n, Lists(w)
    PROVE  WorkerPart'
<1>1. Listing(w) \in Runners /\ Becomes(w, Listing(w))
  BY ListsEffect DEF Inv
<1>2. PICK x \in Runners : x = Listing(w)
  BY <1>1
<1>3. PICK q \in Seq(Owned(n)) : q = Listed(Phases[n])
  BY ListedOwned
<1>4. /\ x.pc = "target" /\ x.phase = n /\ x.id = worker[w].id /\ x.todo = q
  <2>1. worker[w] \in Runners
    BY WorkerFacts
  <2> QED
    BY <1>2, <1>3, <2>1 DEF Listing, Runners
<1>5. worker[w].id >= 1 /\ status' # "active" /\ Reached(n)
  BY DEF Inv, WorkerInv, Forward
<1>6. Reached(n)'
  BY <1>5, ReachedForward
<1>7. n = 3 => Among("realtime_epochs", q) \/ Verified("realtime_epochs")'
  <2> SUFFICES ASSUME n = 3, ~Among("realtime_epochs", q) PROVE Verified("realtime_epochs")'
    OBVIOUS
  <2>1. Completed("realtime_epochs") /\ "realtime_epochs" \in AllTargets
    BY <1>3, ListedEpochs DEF AllTargets, Redis
  <2>2. Verified("realtime_epochs")
    BY <2>1 DEF Inv, TargetInv
  <2> QED
    BY <2>1, <2>2, VerifiedForward
<1>8. WorkerInv(x)'
  BY <1>4, <1>5, <1>6, <1>7 DEF WorkerInv, InTargets
<1> QED
  BY <1>1, <1>2, <1>8, OneWorkerMoves

LEMMA ListKeeps == ASSUME Inv, NEW w \in Workers, List(w) PROVE Inv'
<1>1. Quiet
  BY FaultTyped DEF List, Quiet, Still, writers
<1>2. worker[w].pc = "run" /\ worker[w].phase \in {3, 4}
  BY AtPhase DEF List
<1>3. JobPart'
  BY <1>1, QuietKeeps, JobUntouched DEF List
<1>4. WorkerPart'
  BY <1>1, <1>2, QuietKeeps, ListsKeeps DEF List
<1> QED
  BY <1>1, <1>3, <1>4, QuietKeeps, Assembled

LEMMA HoldAndListKeeps == ASSUME Inv, NEW w \in Workers, HoldAndList(w) PROVE Inv'
<1>1. Still /\ UNCHANGED <<request, faults>>
  BY DEF HoldAndList, Still
<1>2. Forward /\ WriterPart' /\ TargetPart'
  BY <1>1, StillKeeps
<1>3. worker[w].pc = "run" /\ worker[w].phase = 5 /\ worker[w].id >= 1 /\ worker[w].id \in Nat
  BY AtPhase, Typing DEF HoldAndList, Inv
<1>4. Drained /\ Drained'
  BY <1>2, <1>3 DEF Inv, WorkerInv, Reached, Forward
<1>5. RequestPart'
  <2>1. OrderTyped' /\ RequestInv'
    BY <1>1, <1>2, TypeParts, RequestKept DEF Inv, OrderTyped, Still
  <2> QED
    BY <2>1 DEF RequestPart
<1>6. CASE lease' = Taken(worker[w].id) /\ Lists(w) /\ UNCHANGED job /\ Takeable(worker[w].id)
  <2>1. LeasePart'
    BY <1>1, <1>3, <1>4, <1>6, LeaseTaken DEF Still
  <2>2. JobPart' /\ WorkerPart'
    BY <1>2, <1>3, <1>6, JobUntouched, ListsKeeps
  <2> QED
    BY <1>2, <1>5, <2>1, <2>2, Assembled
<1>7. CASE UNCHANGED lease /\ Retry(w)
  <2>1. LeasePart'
    BY <1>1, <1>7, LeaseKept DEF Still
  <2>2. JobPart' /\ WorkerPart'
    BY <1>2, <1>3, <1>7, RetryKeeps
  <2> QED
    BY <1>2, <1>5, <2>1, <2>2, Assembled
<1> QED
  BY <1>6, <1>7 DEF HoldAndList

LEMMA HoldIfOutstandingKeeps == ASSUME Inv, NEW w \in Workers, HoldIfOutstanding(w) PROVE Inv'
<1>1. Still /\ UNCHANGED <<request, faults>>
  BY DEF HoldIfOutstanding, Still
<1>2. Forward /\ WriterPart' /\ TargetPart'
  BY <1>1, StillKeeps
<1>3. worker[w].pc = "run" /\ worker[w].phase = 6 /\ worker[w].id >= 1 /\ worker[w].id \in Nat
  BY AtPhase, Typing DEF HoldIfOutstanding, Inv
<1>4. Drained /\ Drained' /\ Reached(6 + 1)'
  BY <1>2, <1>3, ReachedForward DEF Inv, WorkerInv, Reached, Forward
<1>5. RequestPart'
  <2>1. OrderTyped' /\ RequestInv'
    BY <1>1, <1>2, TypeParts, RequestKept DEF Inv, OrderTyped, Still
  <2> QED
    BY <2>1 DEF RequestPart
<1>6. CASE lease' = Taken(worker[w].id) /\ Lists(w) /\ UNCHANGED job /\ Takeable(worker[w].id)
  <2>1. LeasePart'
    BY <1>1, <1>3, <1>4, <1>6, LeaseTaken DEF Still
  <2>2. JobPart' /\ WorkerPart'
    BY <1>2, <1>3, <1>6, JobUntouched, ListsKeeps
  <2> QED
    BY <1>2, <1>5, <2>1, <2>2, Assembled
<1>7. CASE UNCHANGED lease /\ (Retry(w) \/ Advance(w))
  <2>1. LeasePart'
    BY <1>1, <1>7, LeaseKept DEF Still
  <2>2. JobPart' /\ WorkerPart'
    BY <1>2, <1>3, <1>4, <1>7, RetryKeeps, AdvanceKeeps
  <2> QED
    BY <1>2, <1>5, <2>1, <2>2, Assembled
<1> QED
  BY <1>6, <1>7 DEF HoldIfOutstanding

LEMMA UnavailableKeeps == ASSUME Inv, NEW w \in Workers, Unavailable(w) PROVE Inv'
<1>1. Quiet
  BY FaultTyped DEF Unavailable, Quiet, Still, writers
<1>2. worker[w].pc \notin {"idle", "notify"} /\ Retry(w)
  BY DEF Unavailable
<1> QED
  BY <1>1, <1>2, QuietKeeps, RetryKeeps, Assembled

-----------------------------------------------------------------------------
(* The targets. *)

\* The worker's record, known to be sound after the step, before it is changed.
LEMMA RecordAfter ==
    ASSUME Inv, Forward, NEW w \in Workers, InTargets(worker[w]), worker[w].todo # <<>>
    PROVE  \E y \in Runners :
             /\ y = worker[w] /\ WorkerInv(y)' /\ WorkerInv(y) /\ InTargets(y) /\ y.todo # <<>>
             /\ y.id >= 1 /\ y.phase \in 3 .. 6
<1>1. PICK y \in Runners : y = worker[w]
  BY WorkerFacts
<1>2. WorkerInv(y) /\ WorkerInv(y)'
  BY <1>1, RecordForward DEF Inv
<1> QED
  BY <1>1, <1>2 DEF WorkerInv, InTargets

\* A worker goes over to the next step of its target.
LEMMA StepWithin ==
    ASSUME Inv, Forward, NEW w \in Workers, InTargets(worker[w]), worker[w].todo # <<>>,
           NEW x \in Runners, Becomes(w, x), InTargets(x),
           x.todo = worker[w].todo, x.phase = worker[w].phase, x.id = worker[w].id,
           x.pc = "count" => x.phase = 5,
           x.pc = "purged" => overran' \/ Gone(Head(x.todo))'
    PROVE  WorkerPart'
<1>1. PICK y \in Runners :
         /\ y = worker[w] /\ WorkerInv(y)' /\ InTargets(y) /\ y.todo # <<>>
         /\ y.id >= 1 /\ y.phase \in 3 .. 6
  BY RecordAfter
<1>2. WorkerInv(x)'
  BY <1>1 DEF WorkerInv, InTargets
<1> QED
  BY <1>2, OneWorkerMoves

\* A worker leaves its target behind: the epoch keys only when they are verified.
LEMMA StepOver ==
    ASSUME Inv, Forward, NEW w \in Workers, InTargets(worker[w]), worker[w].todo # <<>>,
           NEW x \in Runners, Becomes(w, x), x.pc = "target",
           x.todo = Tail(worker[w].todo), x.phase = worker[w].phase, x.id = worker[w].id,
           x.phase = 5 \/ Verified(Head(worker[w].todo)) \/ targets'[Head(worker[w].todo)].verified
    PROVE  WorkerPart'
<1>1. PICK y \in Runners :
         /\ y = worker[w] /\ WorkerInv(y)' /\ WorkerInv(y) /\ InTargets(y) /\ y.todo # <<>>
         /\ y.id >= 1 /\ y.phase \in 3 .. 6
  BY RecordAfter
<1>2. x.todo = Tail(y.todo) /\ x.todo \in Seq(Owned(y.phase)) /\ y.todo \in Seq(Owned(y.phase))
  BY <1>1, HeadAndTail DEF WorkerInv
<1>3. x.phase = 3 => Among("realtime_epochs", x.todo) \/ Verified("realtime_epochs")'
  <2> SUFFICES ASSUME x.phase = 3, ~Verified("realtime_epochs")' PROVE Among("realtime_epochs", x.todo)
    OBVIOUS
  <2>1. Among("realtime_epochs", y.todo)
    BY <1>1 DEF WorkerInv
  <2>2. "realtime_epochs" \in AllTargets
    BY DEF AllTargets, Redis
  <2>3. ~Verified("realtime_epochs") /\ ~targets'["realtime_epochs"].verified
    BY <2>2, VerifiedForward DEF Verified
  <2>4. Head(y.todo) # "realtime_epochs"
    BY <1>1, <2>3
  <2> QED
    BY <1>1, <1>2, <2>1, <2>4, AmongTail
<1>4. WorkerInv(x)'
  BY <1>1, <1>2, <1>3 DEF WorkerInv, InTargets
<1> QED
  BY <1>4, OneWorkerMoves

\* Marks that only move on and data that only shrinks keep what was verified empty.
LEMMA MarksKeep ==
    ASSUME Inv, Forward, MarksKept, TargetsTyped', DataTyped', OrderInv'
    PROVE  TargetPart'
<1>1. TargetInv'
  <2> SUFFICES ASSUME NEW t \in AllTargets
               PROVE  /\ Completed(t)' => Verified(t)'
                      /\ Verified(t)' => Fenced' /\ (overran' \/ Gone(t)')
    BY DEF TargetInv
  <2>1. Verified(t)' <=> Verified(t)
    BY DEF MarksKept, Verified
  <2>2. Completed(t)' => Completed(t)
    BY DEF MarksKept
  <2>3. TargetInv
    BY DEF Inv
  <2> QED
    BY <2>1, <2>2, <2>3 DEF TargetInv, Forward
<1> QED
  BY <1>1 DEF TargetPart

LEMMA OrderKept ==
    ASSUME Inv, DataKept, data'["site_members"] = data["site_members"], overran' = overran
    PROVE  OrderInv'
<1>1. "realtime_epochs" \in AllTargets
  BY DEF AllTargets, Redis
<1> QED
  BY <1>1 DEF Inv, OrderInv, DataKept, Gone

LEMMA PurgeKeeps ==
    ASSUME Inv, NEW w \in Workers, NEW t \in AllTargets, Purge(w, t) PROVE Inv'
<1>1. /\ InTargets(worker[w]) /\ worker[w].todo # <<>> /\ Head(worker[w].todo) = t
      /\ TargetsTyped' /\ DataTyped' /\ MarksKept /\ DataKept
      /\ Moved(w, "purged") \in Runners /\ Becomes(w, Moved(w, "purged"))
      /\ lease' \in {lease, NoLease}
      /\ t # "site_members" => lease' = lease /\ data'["site_members"] = data["site_members"]
      /\ Gone(t)' \/ (t = "realtime_epochs" /\ Gone("site_members"))
  BY PurgeEffect
<1>2. Calm /\ UNCHANGED <<status, request, job, faults>>
  BY DEF Purge, Calm
<1>3. Forward
  BY <1>1, <1>2, CalmForward DEF MarksKept, Verified
<1>4. WriterPart'
  BY <1>2, CalmKeeps
<1>5. RequestPart'
  <2>1. OrderTyped' /\ RequestInv'
    BY <1>2, <1>3, TypeParts, RequestKept DEF Inv, OrderTyped
  <2> QED
    BY <2>1 DEF RequestPart
<1>6. JobPart'
  BY <1>2, <1>3, JobUntouched
<1>7. /\ worker[w].phase \in 3 .. 6 /\ Reached(worker[w].phase) /\ PhaseOf(t) = worker[w].phase
      /\ worker[w].id >= 1
  BY <1>1, HeadFacts DEF Inv, WorkerInv, InTargets
<1>8. Fenced
  BY <1>7 DEF Reached
<1>9. LeasePart'
  <2>1. CASE t = "site_members"
    <3>1. lease' \in Leases
      <4>1. NoLease \in Leases
        BY DEF NoLease, Leases
      <4>2. lease \in Leases
        BY TypeParts DEF Inv, FinalizerTyped
      <4> QED
        BY <1>1, <4>1, <4>2
    <3> QED
      BY <1>2, <1>8, <3>1, FencedLease DEF Calm, Fenced, Drained
  <2>2. CASE t # "site_members"
    BY <1>1, <1>2, <2>2, LeaseKept DEF Calm
  <2> QED
    BY <2>1, <2>2
<1>10. {"realtime_epochs", "site_members"} \subseteq AllTargets
  BY DEF AllTargets, Redis
<1>11. TargetPart'
  <2>1. CASE t = "site_members"
    <3>1. worker[w].phase = 6
      BY <1>7, <2>1 DEF PhaseOf, ClickHouse
    <3>2. Verified("realtime_epochs")
      BY <1>7, <3>1 DEF Reached
    <3>3. overran \/ Gone("realtime_epochs")
      BY <1>10, <3>2 DEF Inv, TargetInv
    <3>4. OrderInv'
      BY <1>1, <1>2, <1>10, <3>3 DEF OrderInv, DataKept, Gone, Calm
    <3> QED
      BY <1>1, <1>3, <3>4, MarksKeep
  <2>2. CASE t # "site_members"
    BY <1>1, <1>2, <1>3, <2>2, OrderKept, MarksKeep DEF Calm
  <2> QED
    BY <2>1, <2>2
<1>12. PICK x \in Runners : x = Moved(w, "purged")
  BY <1>1
<1>13. x.pc = "purged" /\ x.todo = worker[w].todo /\ x.phase = worker[w].phase /\ x.id = worker[w].id
  <2>1. worker[w] \in Runners
    BY WorkerFacts
  <2> QED
    BY <1>12, <2>1 DEF Moved, Runners
<1>14. overran' \/ Gone(t)'
  <2> SUFFICES ASSUME t = "realtime_epochs", Gone("site_members") PROVE overran' \/ Gone(t)'
    BY <1>1
  <2>1. overran \/ Gone(t)
    BY DEF Inv, OrderInv
  <2> QED
    BY <1>1, <1>2, <2>1 DEF DataKept, Calm
<1>15. WorkerPart'
  <2>1. x.pc = "purged" => overran' \/ Gone(Head(x.todo))'
    BY <1>1, <1>13, <1>14
  <2> QED
    BY <1>1, <1>3, <1>12, <1>13, <2>1, StepWithin DEF InTargets
<1> QED
  BY <1>4, <1>5, <1>6, <1>9, <1>11, <1>15, Assembled

LEMMA CountingFields ==
    ASSUME Inv, NEW w \in Workers, NEW f \in BOOLEAN
    PROVE  /\ Counting(w, f).pc = "count" /\ Counting(w, f).todo = worker[w].todo
           /\ Counting(w, f).phase = worker[w].phase /\ Counting(w, f).id = worker[w].id
<1>1. worker[w] \in Runners
  BY WorkerFacts
<1> QED
  BY <1>1 DEF Counting, Runners

LEMMA SkippedFields ==
    ASSUME Inv, NEW w \in Workers
    PROVE  /\ Skipped(w).pc = "target" /\ Skipped(w).todo = Tail(worker[w].todo)
           /\ Skipped(w).phase = worker[w].phase /\ Skipped(w).id = worker[w].id
<1>1. worker[w] \in Runners
  BY WorkerFacts
<1> QED
  BY <1>1 DEF Skipped, Runners

\* In phase 5 a worker counts what is left of its target, or goes on to the next.
LEMMA CountsOrSkips ==
    ASSUME Inv, Forward, NEW w \in Workers, InTargets(worker[w]), worker[w].todo # <<>>,
           worker[w].phase = 5, NEW f \in BOOLEAN,
           \/ Skipped(w) \in Runners /\ Becomes(w, Skipped(w))
           \/ Counting(w, f) \in Runners /\ Becomes(w, Counting(w, f))
    PROVE  WorkerPart'
<1>1. CASE Skipped(w) \in Runners /\ Becomes(w, Skipped(w))
  <2>1. PICK x \in Runners : x = Skipped(w)
    BY <1>1
  <2> QED
    BY <1>1, <2>1, SkippedFields, StepOver
<1>2. CASE Counting(w, f) \in Runners /\ Becomes(w, Counting(w, f))
  <2>1. PICK x \in Runners : x = Counting(w, f)
    BY <1>2
  <2>2. InTargets(x) /\ x.pc # "purged"
    BY <2>1, CountingFields DEF InTargets
  <2> QED
    BY <1>2, <2>1, <2>2, CountingFields, StepWithin
<1> QED
  BY <1>1, <1>2

LEMMA SubmitKeeps ==
    ASSUME Inv, NEW w \in Workers, NEW t \in AllTargets, Submit(w, t) PROVE Inv'
<1>1. /\ InTargets(worker[w]) /\ worker[w].todo # <<>> /\ worker[w].phase = 5
      /\ TargetsTyped' /\ DataTyped' /\ MarksKept /\ DataKept
      /\ data'["site_members"] = data["site_members"]
      /\ Counting(w, FALSE) \in Runners /\ Becomes(w, Counting(w, FALSE))
  BY SubmitEffect
<1>2. Calm /\ UNCHANGED <<status, request, job, lease, faults>>
  BY DEF Submit, Calm, writers
<1>3. Forward
  BY <1>1, <1>2, CalmForward DEF MarksKept, Verified
<1>4. WriterPart' /\ JobPart' /\ LeasePart'
  BY <1>2, <1>3, CalmKeeps, JobUntouched, LeaseKept DEF Calm
<1>5. RequestPart'
  <2>1. OrderTyped' /\ RequestInv'
    BY <1>2, <1>3, TypeParts, RequestKept DEF Inv, OrderTyped
  <2> QED
    BY <2>1 DEF RequestPart
<1>6. TargetPart'
  BY <1>1, <1>2, <1>3, OrderKept, MarksKeep DEF Calm
<1>7. WorkerPart'
  BY <1>1, <1>3, CountsOrSkips
<1> QED
  BY <1>4, <1>5, <1>6, <1>7, Assembled

LEMMA PollKeeps ==
    ASSUME Inv, NEW w \in Workers, NEW t \in AllTargets, Poll(w, t) PROVE Inv'
<1>1. /\ InTargets(worker[w]) /\ worker[w].todo # <<>> /\ worker[w].phase = 5
      /\ \/ Skipped(w) \in Runners /\ Becomes(w, Skipped(w))
         \/ Counting(w, TRUE) \in Runners /\ Becomes(w, Counting(w, TRUE))
      /\ faults' \in Nat
  BY PollEffect
<1>2. Quiet /\ UNCHANGED job
  BY <1>1 DEF Poll, Quiet, Still, writers
<1>3. JobPart'
  BY <1>2, QuietKeeps, JobUntouched
<1>4. WorkerPart'
  BY <1>1, <1>2, QuietKeeps, CountsOrSkips
<1> QED
  BY <1>2, <1>3, <1>4, QuietKeeps, Assembled

LEMMA CountKeeps == ASSUME Inv, NEW w \in Workers, Count(w) PROVE Inv'
<1>1. /\ InTargets(worker[w]) /\ worker[w].todo # <<>> /\ worker[w].phase = 5
      /\ TargetsTyped' /\ MarksKept
      /\ \/ /\ Gone(Head(worker[w].todo))
            /\ Moved(w, "purged") \in Runners /\ Becomes(w, Moved(w, "purged"))
         \/ Skipped(w) \in Runners /\ Becomes(w, Skipped(w))
  BY CountEffect
<1>2. Calm /\ UNCHANGED <<status, request, job, lease, faults, data>>
  BY DEF Count, Calm, writers
<1>3. DataKept /\ DataTyped'
  BY <1>2, TypeParts DEF DataKept, Gone, Inv, DataTyped
<1>4. Forward
  BY <1>1, <1>2, <1>3, CalmForward DEF MarksKept, Verified
<1>5. WriterPart' /\ JobPart' /\ LeasePart'
  BY <1>2, <1>4, CalmKeeps, JobUntouched, LeaseKept DEF Calm
<1>6. RequestPart'
  <2>1. OrderTyped' /\ RequestInv'
    BY <1>2, <1>4, TypeParts, RequestKept DEF Inv, OrderTyped
  <2> QED
    BY <2>1 DEF RequestPart
<1>7. TargetPart'
  BY <1>1, <1>2, <1>3, <1>4, OrderKept, MarksKeep DEF Calm
<1>8. WorkerPart'
  <2>1. CASE Skipped(w) \in Runners /\ Becomes(w, Skipped(w))
    BY <1>1, <1>4, <2>1, CountsOrSkips
  <2>2. CASE Gone(Head(worker[w].todo)) /\ Moved(w, "purged") \in Runners /\ Becomes(w, Moved(w, "purged"))
    <3>1. PICK x \in Runners : x = Moved(w, "purged")
      BY <2>2
    <3>2. x.pc = "purged" /\ x.todo = worker[w].todo /\ x.phase = worker[w].phase /\ x.id = worker[w].id
      <4>1. worker[w] \in Runners
        BY WorkerFacts
      <4> QED
        BY <3>1, <4>1 DEF Moved, Runners
    <3>3. Gone(Head(x.todo))'
      BY <1>2, <2>2, <3>2 DEF Gone
    <3> QED
      BY <1>1, <1>4, <2>2, <3>1, <3>2, <3>3, StepWithin DEF InTargets
  <2> QED
    BY <1>1, <2>1, <2>2
<1> QED
  BY <1>5, <1>6, <1>7, <1>8, Assembled

LEMMA CompleteKeeps == ASSUME Inv, NEW w \in Workers, Complete(w) PROVE Inv'
<1>1. /\ InTargets(worker[w]) /\ worker[w].todo # <<>> /\ TargetsTyped' /\ JobStays(w)
      /\ \A t \in AllTargets :
           /\ Verified(t) => Verified(t)'
           /\ Verified(t)' => Verified(t) \/ t = Head(worker[w].todo)
           /\ Completed(t)' => Completed(t) \/ Verified(t)'
      /\ targets'[Head(worker[w].todo)].verified
      /\ GoingOn(w) \in Runners
      /\ Becomes(w, Idle) \/ Becomes(w, GoingOn(w))
  BY CompleteEffect
<1>2. Calm /\ UNCHANGED <<status, request, lease, faults, data>>
  BY DEF Complete, Calm, writers
<1>3. DataKept /\ DataTyped'
  BY <1>2, TypeParts DEF DataKept, Gone, Inv, DataTyped
<1>4. Forward
  BY <1>1, <1>2, <1>3, CalmForward
<1>5. worker[w].pc = "purged"
  BY DEF Complete
<1>6. WriterPart' /\ JobPart' /\ LeasePart'
  BY <1>1, <1>2, <1>4, <1>5, CalmKeeps, JobHolds, LeaseKept DEF Calm
<1>7. RequestPart'
  <2>1. OrderTyped' /\ RequestInv'
    BY <1>2, <1>4, TypeParts, RequestKept DEF Inv, OrderTyped
  <2> QED
    BY <2>1 DEF RequestPart
<1>8. /\ Fenced
      /\ overran \/ Gone(Head(worker[w].todo))
  BY <1>5 DEF Inv, WorkerInv, InTargets, Reached
<1>9. TargetPart'
  <2>1. OrderInv'
    BY <1>2, <1>3, OrderKept DEF Calm
  <2>2. TargetInv'
    <3> SUFFICES ASSUME NEW t \in AllTargets
                 PROVE  /\ Completed(t)' => Verified(t)'
                        /\ Verified(t)' => Fenced' /\ (overran' \/ Gone(t)')
      BY DEF TargetInv
    <3>1. TargetInv
      BY DEF Inv
    <3>2. Verified(t)' => Verified(t) \/ t = Head(worker[w].todo)
      BY <1>1
    <3>3. Verified(t)' => overran \/ Gone(t)
      BY <1>8, <3>1, <3>2 DEF TargetInv
    <3>4. Completed(t)' => Verified(t)'
      BY <1>1, <3>1 DEF TargetInv
    <3> QED
      BY <1>2, <1>4, <1>8, <3>3, <3>4 DEF Forward, Gone
  <2> QED
    BY <1>1, <1>3, <2>1, <2>2 DEF TargetPart
<1>10. WorkerPart'
  <2>1. CASE Becomes(w, GoingOn(w))
    <3>1. PICK x \in Runners : x = GoingOn(w)
      BY <1>1
    <3>2. /\ x.pc = "target" /\ x.todo = Tail(worker[w].todo) /\ x.phase = worker[w].phase
          /\ x.id = worker[w].id
      <4>1. worker[w] \in Runners
        BY WorkerFacts
      <4> QED
        BY <3>1, <4>1 DEF GoingOn, Runners
    <3> QED
      BY <1>1, <1>4, <2>1, <3>1, <3>2, StepOver
  <2>2. CASE Becomes(w, Idle)
    BY <1>4, <2>2, LetsGo
  <2> QED
    BY <1>1, <2>1, <2>2
<1> QED
  BY <1>6, <1>7, <1>9, <1>10, Assembled

LEMMA EndPhaseKeeps == ASSUME Inv, NEW w \in Workers, EndPhase(w) PROVE Inv'
<1>1. Quiet
  BY FaultTyped DEF EndPhase, Quiet, Still, writers
<1>2. worker[w].pc = "target" /\ worker[w].todo = <<>>
  BY DEF EndPhase
<1>3. /\ worker[w].phase \in 3 .. 6 /\ Reached(worker[w].phase)
      /\ worker[w].phase = 3 => Verified("realtime_epochs")
  BY <1>2 DEF Inv, WorkerInv, InTargets, Among
<1>4. PICK n \in 3 .. 6 : worker[w].phase = n /\ Reached(n) /\ (n = 3 => Verified("realtime_epochs"))
  BY <1>3
<1>5. Reached(n + 1)
  BY <1>4 DEF Reached
<1>6. Reached(n + 1)'
  BY <1>1, <1>5, QuietKeeps, ReachedForward
<1>7. Advance(w) \/ Retry(w)
  BY DEF EndPhase
<1>8. JobPart' /\ WorkerPart'
  BY <1>1, <1>2, <1>4, <1>6, <1>7, QuietKeeps, AdvanceKeeps, RetryKeeps
<1> QED
  BY <1>1, <1>8, QuietKeeps, Assembled

\* Everything was verified, so the tombstone is written over empty stores.
LEMMA TombstoneKeeps ==
    ASSUME Inv, NEW w \in Workers, VerifyFinalize(w), Unfinished = {}
    PROVE  Inv'
<1>1. /\ status' = "deleted" /\ request' = "completed" /\ lease' = NoLease
      /\ worker' = [worker EXCEPT ![w].pc = "settle"] /\ UNCHANGED job
      /\ Calm /\ UNCHANGED <<targets, data, faults>>
  BY DEF VerifyFinalize, Calm
<1>2. worker[w].pc = "run" /\ worker[w].phase = 7 /\ status # "active"
  BY AtPhase DEF VerifyFinalize
<1>3. Fenced
  BY <1>2 DEF Inv, WorkerInv, Reached
<1>4. Forward
  BY <1>1 DEF Forward, Drained, Fenced, Calm, Verified, Gone
<1>5. WriterPart' /\ JobPart'
  BY <1>1, <1>4, CalmKeeps, JobUntouched
<1>6. LeasePart'
  <2>1. NoLease \in Leases
    BY DEF NoLease, Leases
  <2> QED
    BY <1>1, <1>3, <2>1, FencedLease DEF Calm
<1>7. \A t \in AllTargets : Verified(t)
  BY DEF Unfinished, Verified
<1>8. RequestPart'
  <2>1. RequestInv'
    BY <1>1, <1>3, <1>4, <1>7 DEF RequestInv, Verified, Forward, Fenced
  <2>2. OrderTyped'
    BY <1>1, TypeParts DEF Inv, OrderTyped
  <2> QED
    BY <2>1, <2>2 DEF RequestPart
<1>9. TargetPart'
  <2>1. TargetInv' /\ OrderInv'
    BY <1>1, <1>4 DEF Inv, TargetInv, OrderInv, Completed, Verified, Gone, Calm, Forward
  <2>2. TargetsTyped' /\ DataTyped'
    BY <1>1, TypeParts DEF Inv, TargetsTyped, DataTyped
  <2> QED
    BY <2>1, <2>2 DEF TargetPart
<1>10. WorkerPart'
  <2>1. PICK y \in Runners : y = worker[w]
    BY WorkerFacts
  <2>2. PICK x \in Runners : x = [y EXCEPT !.pc = "settle"]
    BY RunnerMoves DEF PCs
  <2>3. x.pc = "settle" /\ x.todo = y.todo /\ x.phase = y.phase /\ x.id = y.id
    BY <2>2 DEF Runners
  <2>4. WorkerInv(y)' /\ y.pc = "run"
    BY <1>2, <1>4, <2>1, RecordForward DEF Inv
  <2>5. WorkerInv(x)'
    BY <2>3, <2>4 DEF WorkerInv, InTargets
  <2>6. Becomes(w, x)
    BY <1>1, <2>1, <2>2, TypeParts DEF Becomes, Inv, WorkersTyped
  <2> QED
    BY <1>4, <2>5, <2>6, OneWorkerMoves
<1> QED
  BY <1>5, <1>6, <1>8, <1>9, <1>10, Assembled

LEMMA BackToKeeps ==
    ASSUME Inv, NEW w \in Workers, VerifyFinalize(w), Unfinished # {}
    PROVE  Inv'
<1>1. PICK t \in AllTargets :
        job' = IF Held(w)
               THEN [job EXCEPT !.status = "queued", !.owner = NoWorker, !.live = FALSE,
                                !.attempts = 0, !.phase = PhaseOf(t)]
               ELSE job
  BY DEF VerifyFinalize, Unfinished
<1>2. Still /\ UNCHANGED <<request, lease, faults>> /\ Becomes(w, Idle)
  BY DEF VerifyFinalize, Still, Becomes
<1>3. Quiet
  BY <1>2, FaultTyped DEF Quiet
<1>4. Forward
  BY <1>3, QuietKeeps
<1>5. worker[w].pc = "run" /\ worker[w].phase = 7 /\ worker[w].id >= 1 /\ status # "active"
  BY AtPhase DEF VerifyFinalize
<1>6. JobPart'
  <2>1. CASE Held(w)
    <3>1. PICK p \in 3 .. 6 : p = PhaseOf(t)
      BY DEF PhaseOf
    <3>2. "queued" \in JobStates /\ 0 \in 0 .. MaxAttempts /\ p \in 1 .. 7 /\ job \in Jobs
      BY DeletionAssumption, Typing DEF JobStates, Inv
    <3>3. PICK j \in Jobs : j = [job EXCEPT !.status = "queued", !.owner = NoWorker,
                                            !.live = FALSE, !.attempts = 0]
      BY <3>2, JobRetried
    <3>4. j.id = job.id
      BY <3>2, <3>3 DEF Jobs
    <3>5. job' = [j EXCEPT !.phase = p]
      BY <1>1, <2>1, <3>1, <3>3
    <3>6. JobTyped' /\ job'.phase = p /\ job'.id = job.id
      BY <3>2, <3>4, <3>5 DEF JobTyped, Jobs
    <3>7. Reached(p)
      BY <1>5 DEF Inv, WorkerInv, Reached
    <3>8. Reached(p)'
      BY <1>4, <3>2, <3>7, ReachedForward
    <3>9. job.id >= 1 /\ status' # "active"
      BY <1>4, <1>5, <2>1 DEF Held, Forward
    <3> QED
      BY <3>6, <3>8, <3>9 DEF JobPart, JobInv, Reached
  <2>2. CASE ~Held(w)
    BY <1>1, <1>4, <2>2, JobUntouched
  <2> QED
    BY <2>1, <2>2
<1>7. WorkerPart'
  BY <1>2, <1>4, LetsGo
<1> QED
  BY <1>3, <1>6, <1>7, QuietKeeps, Assembled

\* While the site is active nothing has begun: the job is absent and every worker idle.
LEMMA StartKeeps == ASSUME Inv, Start PROVE Inv'
<1>1. /\ status = "active" /\ status' = "deleting" /\ request' = "pending"
      /\ targets' = [t \in AllTargets |-> Pending] /\ job' = NewJob(1) /\ age' = 0
      /\ UNCHANGED <<worker, data, faults, lease, pass, cache, fill, enqueue, batch, overran>>
  BY DEF Start, writers
<1>2. ~Drained /\ ~Fenced /\ age = 0
  BY <1>1 DEF Drained, Fenced, Inv, CollectorInv
<1>3. \A t \in AllTargets : ~Verified(t)
  BY <1>2 DEF Inv, TargetInv
<1>4. Forward
  BY <1>1, <1>2 DEF Forward
<1>5. WorkerPart'
  BY <1>1, <1>4, NoWorkerMoves
<1>6. JobPart'
  <2>1. JobTyped'
    BY <1>1, NewJobTyped DEF JobTyped
  <2>2. job'.phase = 1 /\ job'.id = 1
    BY <1>1 DEF NewJob
  <2> QED
    BY <1>1, <2>1, <2>2 DEF JobPart, JobInv, Reached
<1>7. RequestPart'
  BY <1>1, TypeParts DEF RequestPart, RequestInv, OrderTyped, Inv
<1>8. LeasePart'
  BY <1>1, TypeParts DEF LeasePart, FinalizerTyped, FinalizerInv, Inv
<1>9. WriterPart'
  <2>1. CollectorInv' /\ BatchInv'
    BY <1>1, <1>2 DEF Inv, CollectorInv, BatchInv
  <2>2. CollectorTyped' /\ BatchTyped'
    BY <1>1, <1>2, TypeParts DEF Inv, CollectorTyped, BatchTyped
  <2> QED
    BY <2>1, <2>2 DEF WriterPart
<1>10. TargetPart'
  <2>1. Pending \in Marks /\ ~Pending.verified /\ Pending.phase # "completed"
    BY DEF Pending, Marks
  <2>2. TargetsTyped' /\ DataTyped'
    BY <1>1, <2>1, TypeParts DEF Inv, TargetsTyped, DataTyped
  <2>3. TargetInv'
    BY <1>1, <2>1 DEF TargetInv, Completed, Verified
  <2>4. OrderInv'
    BY <1>1 DEF Inv, OrderInv, Gone
  <2> QED
    BY <2>2, <2>3, <2>4 DEF TargetPart
<1> QED
  BY <1>5, <1>6, <1>7, <1>8, <1>9, <1>10, Assembled

-----------------------------------------------------------------------------
(* The writers. *)

LEMMA OutsideForward ==
    ASSUME Outside, UNCHANGED status, overran => overran', Drained => Drained', Fenced => Fenced',
           Fenced /\ ~overran' => DataKept
    PROVE  Forward
BY DEF Outside, Forward, DataKept, Verified

LEMMA OutsideKeeps ==
    ASSUME Inv, Forward, Outside, UNCHANGED status, faults' \in Nat
    PROVE  RequestPart' /\ JobPart' /\ WorkerPart'
<1>1. RequestPart'
  <2>1. RequestInv' /\ OrderTyped'
    BY RequestKept, TypeParts DEF Outside, Inv, OrderTyped
  <2> QED
    BY <2>1 DEF RequestPart
<1> QED
  BY <1>1, JobUntouched, NoWorkerMoves DEF Outside

LEMMA OutsideTargets ==
    ASSUME Inv, Forward, Outside, DataTyped',
           UNCHANGED <<data["site_members"], data["realtime_epochs"]>>
    PROVE  TargetPart'
<1>1. TargetInv'
  BY DEF Inv, Outside, TargetInv, Forward, Completed, Verified
<1>2. OrderInv'
  BY DEF Inv, OrderInv, Gone, Forward
<1>3. TargetsTyped'
  BY TypeParts DEF Inv, Outside, TargetsTyped
<1> QED
  BY <1>1, <1>2, <1>3 DEF TargetPart

\* A step of a writer that adds no row.
LEMMA OutsideQuietly ==
    ASSUME Inv, Outside, UNCHANGED <<status, data>>, overran => overran', Drained => Drained',
           Fenced => Fenced', faults' \in Nat, WriterPart', LeasePart'
    PROVE  Inv'
<1>1. Forward
  BY OutsideForward DEF DataKept, Gone
<1>2. DataTyped'
  BY TypeParts DEF Inv, DataTyped
<1> QED
  BY <1>1, <1>2, OutsideKeeps, OutsideTargets, Assembled

\* A step of a writer that adds rows to one store adds none behind the fence.
LEMMA OutsideAdds ==
    ASSUME Inv, Outside, UNCHANGED <<status, overran, faults>>,
           NEW t \in {"queue_index", "realtime_presence", "events_raw", "session_facts"},
           NEW rows \in SUBSET {"covered", "fresh"}, data' = [data EXCEPT ![t] = rows],
           Fenced => overran, Drained => Drained', Fenced => Fenced', WriterPart', LeasePart'
    PROVE  Inv'
<1>1. Forward
  BY OutsideForward
<1>2. DataTyped /\ faults \in Nat
  BY TypeParts DEF Inv, OrderTyped
<1>3. DataTyped' /\ UNCHANGED <<data["site_members"], data["realtime_epochs"]>>
  <2>1. t \in AllTargets /\ t \notin {"site_members", "realtime_epochs"}
    BY DEF AllTargets, Redis, ClickHouse
  <2> QED
    BY <1>2, <2>1 DEF DataTyped
<1> QED
  BY <1>1, <1>2, <1>3, OutsideKeeps, OutsideTargets, Assembled

LEMMA MutationRunsKeeps == ASSUME Inv, NEW t \in ClickHouse, MutationRuns(t) PROVE Inv'
<1>1. Outside /\ Calm /\ UNCHANGED <<status, lease, faults>>
  BY DEF MutationRuns, Outside, Calm, writers
<1>2. DataTyped /\ t \in AllTargets /\ t \notin {"site_members", "realtime_epochs"} /\ faults \in Nat
  BY TypeParts DEF Inv, AllTargets, ClickHouse, OrderTyped
<1>3. DataKept
  BY <1>2 DEF MutationRuns, DataTyped, DataKept, Gone
<1>4. DataTyped' /\ UNCHANGED <<data["site_members"], data["realtime_epochs"]>>
  BY <1>2 DEF MutationRuns, DataTyped
<1>5. Forward
  BY <1>1, <1>3, OutsideForward DEF Calm, Drained, Fenced
<1>6. WriterPart' /\ LeasePart'
  BY <1>1, CalmKeeps, LeaseKept DEF Calm
<1> QED
  BY <1>1, <1>2, <1>4, <1>5, <1>6, OutsideKeeps, OutsideTargets, Assembled

\* A step of the collector or of the ingest worker leaves the finalizer alone, and the
\* other way round.
CollectorMoves == Outside /\ UNCHANGED <<status, lease, pass, overran, faults>>
FinalizerMoves == Outside /\ UNCHANGED <<status, cache, fill, enqueue, age, batch>>

LEMMA CollectorFacts ==
    ASSUME Inv
    PROVE  /\ CollectorInv /\ BatchInv /\ batch \in Batches /\ enqueue \in Requests
           /\ cache \in 0 .. CacheTTL /\ fill \in -1 .. FillTime /\ age \in 0 .. Closed + Skew
           /\ enqueue.left \in -1 .. RequestTime /\ faults \in Nat
           /\ CacheTTL \in Nat \ {0} /\ FillTime \in Nat /\ RequestTime \in Nat
           /\ Margin \in Nat /\ Skew \in Nat
<1>1. CollectorInv /\ BatchInv /\ batch \in Batches /\ enqueue \in Requests /\ faults \in Nat
  BY TypeParts DEF Inv, BatchTyped, CollectorTyped, OrderTyped
<1>2. cache \in 0 .. CacheTTL /\ fill \in -1 .. FillTime /\ age \in 0 .. Closed + Skew
  BY TypeParts DEF Inv, CollectorTyped
<1> QED
  BY <1>1, <1>2, DeletionAssumption DEF Requests

LEMMA LeaseCollector ==
    ASSUME Inv, CollectorMoves
    PROVE  LeasePart' /\ Outside /\ UNCHANGED <<status, overran, faults>> /\ faults' \in Nat
BY LeaseKept, CollectorFacts DEF CollectorMoves

LEMMA FetchKeeps == ASSUME Inv, Fetch PROVE Inv'
<1>1. CollectorMoves /\ UNCHANGED <<data, cache, enqueue, age, batch>>
  BY DEF Fetch, CollectorMoves, Outside
<1>2. fill' = FillTime /\ status = "active"
  BY DEF Fetch
<1>3. CollectorInv' /\ BatchInv'
  BY <1>1, <1>2, CollectorFacts DEF CollectorInv, BatchInv, CollectorMoves
<1>4. CollectorTyped' /\ BatchTyped'
  BY <1>1, <1>2, CollectorFacts DEF CollectorTyped, BatchTyped
<1>5. (Drained => Drained') /\ (Fenced => Fenced')
  BY <1>1 DEF Drained, Fenced, CollectorMoves
<1> QED
  BY <1>1, <1>3, <1>4, <1>5, LeaseCollector, OutsideQuietly DEF WriterPart

LEMMA RememberKeeps == ASSUME Inv, Remember PROVE Inv'
<1>1. CollectorMoves /\ UNCHANGED <<data, enqueue, age, batch>>
  BY DEF Remember, CollectorMoves, Outside
<1>2. fill >= 0 /\ fill' = -1 /\ cache' = CacheTTL
  BY DEF Remember
<1>3. CollectorInv' /\ BatchInv'
  BY <1>1, <1>2, CollectorFacts DEF CollectorInv, BatchInv, CollectorMoves
<1>4. CollectorTyped' /\ BatchTyped'
  BY <1>1, <1>2, CollectorFacts DEF CollectorTyped, BatchTyped
<1>5. (Drained => Drained') /\ (Fenced => Fenced')
  BY <1>1 DEF Drained, Fenced, CollectorMoves
<1> QED
  BY <1>1, <1>3, <1>4, <1>5, LeaseCollector, OutsideQuietly DEF WriterPart

LEMMA AdmitKeeps == ASSUME Inv, Admit PROVE Inv'
<1>1. CollectorMoves /\ UNCHANGED <<data, cache, fill, age, batch>>
  BY DEF Admit, CollectorMoves, Outside
<1>2. cache > 0 /\ enqueue' = [left |-> RequestTime, stage |-> "admitted"]
  BY DEF Admit
<1>3. CollectorInv' /\ BatchInv'
  BY <1>1, <1>2, CollectorFacts DEF CollectorInv, BatchInv, CollectorMoves
<1>4. CollectorTyped' /\ BatchTyped'
  BY <1>1, <1>2, CollectorFacts DEF CollectorTyped, BatchTyped, Requests
<1>5. (Drained => Drained') /\ (Fenced => Fenced')
  BY <1>1 DEF Drained, Fenced, CollectorMoves
<1> QED
  BY <1>1, <1>3, <1>4, <1>5, LeaseCollector, OutsideQuietly DEF WriterPart

LEMMA RunScriptKeeps == ASSUME Inv, RunScript PROVE Inv'
<1>1. CollectorMoves /\ UNCHANGED <<cache, fill, age>>
  BY DEF RunScript, CollectorMoves, Outside
<1>2. /\ enqueue.stage = "admitted" /\ enqueue' = [enqueue EXCEPT !.stage = "appended"]
      /\ data' = [data EXCEPT !["queue_index"] = {"fresh"}]
  BY DEF RunScript
<1>3. enqueue'.left = enqueue.left /\ enqueue'.stage = "appended" /\ enqueue' \in Requests
  BY <1>2, CollectorFacts DEF Requests
<1>4. \/ batch' = batch
      \/ batch.entry = "none" /\ batch' = [[batch EXCEPT !.entry = "pending"] EXCEPT !.ledger = "none"]
  BY DEF RunScript
<1>5. batch' \in Batches /\ BatchInv' /\ (batch'.ledger = "registered" => batch.ledger = "registered")
  <2>1. CASE batch' = batch
    BY <1>1, <2>1, CollectorFacts DEF BatchInv, CollectorMoves
  <2>2. CASE batch.entry = "none" /\ batch' = [[batch EXCEPT !.entry = "pending"] EXCEPT !.ledger = "none"]
    <3>1. [batch EXCEPT !.entry = "pending"] \in Batches
      BY CollectorFacts DEF Batches
    <3>2. batch' \in Batches /\ batch'.entry = "pending" /\ batch'.ledger = "none"
          /\ batch'.pc = batch.pc /\ batch'.late = batch.late
      BY <2>2, <3>1, CollectorFacts DEF Batches
    <3> QED
      BY <1>1, <2>2, <3>2, CollectorFacts DEF BatchInv, CollectorMoves
  <2> QED
    BY <1>4, <2>1, <2>2
<1>6. CollectorInv'
  BY <1>1, <1>2, <1>3, CollectorFacts DEF CollectorInv, CollectorMoves
<1>7. WriterPart'
  BY <1>1, <1>3, <1>5, <1>6, CollectorFacts DEF WriterPart, CollectorTyped, BatchTyped
<1>8. ~Drained
  BY <1>2, DrainedIsQuiet DEF Inv
<1> QED
  BY <1>1, <1>2, <1>7, <1>8, LeaseCollector, OutsideAdds DEF Fenced

LEMMA TouchKeeps == ASSUME Inv, Touch PROVE Inv'
<1>1. CollectorMoves /\ UNCHANGED <<cache, fill, age, batch>>
  BY DEF Touch, CollectorMoves, Outside
<1>2. /\ enqueue.stage = "appended" /\ enqueue' = [left |-> -1, stage |-> "none"]
      /\ data' = [data EXCEPT !["realtime_presence"] = {"fresh"}]
  BY DEF Touch
<1>3. CollectorInv' /\ BatchInv'
  BY <1>1, <1>2, CollectorFacts DEF CollectorInv, BatchInv, CollectorMoves
<1>4. CollectorTyped' /\ BatchTyped'
  BY <1>1, <1>2, CollectorFacts DEF CollectorTyped, BatchTyped, Requests
<1>5. ~Drained
  BY <1>2, DrainedIsQuiet DEF Inv
<1> QED
  BY <1>1, <1>2, <1>3, <1>4, <1>5, LeaseCollector, OutsideAdds DEF Fenced, WriterPart

LEMMA TickKeeps == ASSUME Inv, Tick PROVE Inv'
<1>1. CollectorMoves /\ UNCHANGED <<data, batch>>
  BY DEF Tick, CollectorMoves, Outside
<1>2. /\ fill # 0 /\ enqueue.left # 0 /\ age < Closed + Skew
      /\ age' = IF status = "active" THEN age ELSE age + 1
      /\ cache' = (IF cache > 0 THEN cache - 1 ELSE cache)
      /\ fill' = (IF fill > 0 THEN fill - 1 ELSE fill)
  BY DEF Tick, Less
<1>3. enqueue' = [enqueue EXCEPT !.left = IF enqueue.left > 0 THEN enqueue.left - 1 ELSE enqueue.left]
  BY DEF Tick, Less
<1>4. PICK n \in -1 .. RequestTime :
         n = IF enqueue.left > 0 THEN enqueue.left - 1 ELSE enqueue.left
  BY CollectorFacts
<1>5. enqueue' \in Requests /\ enqueue'.left = n /\ enqueue'.stage = enqueue.stage
  BY <1>3, <1>4, CollectorFacts DEF Requests
<1>6. age' \in 0 .. Closed + Skew /\ cache' \in 0 .. CacheTTL /\ fill' \in -1 .. FillTime
  <2>1. Closed + Skew \in Nat
    BY CollectorFacts DEF Closed
  <2> QED
    BY <1>2, <2>1, CollectorFacts
<1>7. CollectorInv'
  <2>1. enqueue'.stage = "none" <=> enqueue'.left = -1
    BY <1>2, <1>4, <1>5, CollectorFacts DEF CollectorInv
  <2>2. status' = "active" => age' = 0
    BY <1>1, <1>2, CollectorFacts DEF CollectorInv, CollectorMoves
  <2>3. fill' >= 0 => age' + fill' <= FillTime
    BY <1>2, CollectorFacts DEF CollectorInv
  <2>4. cache' > 0 => age' + cache' <= FillTime + CacheTTL
    BY <1>2, CollectorFacts DEF CollectorInv
  <2>5. enqueue'.left >= 0 => age' + enqueue'.left < FillTime + CacheTTL + RequestTime
    BY <1>2, <1>4, <1>5, CollectorFacts DEF CollectorInv
  <2> QED
    BY <2>1, <2>2, <2>3, <2>4, <2>5 DEF CollectorInv
<1>8. BatchInv' /\ BatchTyped'
  BY <1>1, CollectorFacts DEF BatchInv, BatchTyped, CollectorMoves
<1>9. WriterPart'
  BY <1>5, <1>6, <1>7, <1>8 DEF WriterPart, CollectorTyped
<1>10. (Drained => Drained') /\ (Fenced => Fenced')
  <2>1. age' >= age
    BY <1>2, CollectorFacts
  <2>2. age + Skew >= Closed => age' + Skew >= Closed
    BY <1>6, <2>1, CollectorFacts DEF Closed
  <2> QED
    BY <1>1, <2>2 DEF Drained, Fenced, CollectorMoves
<1> QED
  BY <1>1, <1>9, <1>10, LeaseCollector, OutsideQuietly

\* The steps of the ingest worker, by what they make of the batch's row.
LEMMA BatchStep ==
    ASSUME Inv, Outside, UNCHANGED <<status, lease, pass, cache, fill, enqueue, age>>,
           overran' \in BOOLEAN, overran => overran',
           batch' \in Batches, BatchInv', status # "active" /\ batch'.ledger = "registered" =>
             batch.ledger = "registered"
    PROVE  /\ WriterPart' /\ LeasePart'
           /\ Drained => Drained'
           /\ Fenced => Fenced'
<1>1. CollectorInv' /\ CollectorTyped'
  BY CollectorFacts DEF CollectorInv, CollectorTyped
<1>2. LeasePart'
  BY TypeParts DEF Inv, LeasePart, FinalizerInv, FinalizerTyped
<1>3. (Drained => Drained') /\ (Fenced => Fenced')
  BY DEF Drained, Fenced
<1> QED
  BY <1>1, <1>2, <1>3 DEF WriterPart, BatchTyped

LEMMA RegisterKeeps == ASSUME Inv, Register PROVE Inv'
<1>1. CollectorMoves /\ UNCHANGED <<data, cache, fill, enqueue, age>>
  BY DEF Register, CollectorMoves, Outside
<1>2. batch.entry = "pending" /\ batch.pc = "idle" /\ batch.ledger \in {"none", "registered", "dropped"}
      /\ (batch.ledger = "dropped" => status # "active") /\ batch \in Batches
      /\ (batch.late => overran)
  BY CollectorFacts DEF Register, BatchInv
<1>3. PICK p \in {"insert", "ack"}, l \in {"none", "registered", "dropped", "written", "abandoned"} :
         /\ batch' = [[batch EXCEPT !.pc = p] EXCEPT !.ledger = l]
         /\ p = "insert" => status = "active" /\ l = "registered"
         /\ p = "ack" => /\ status # "active"
                         /\ l = batch.ledger \/ l = "dropped"
  <2>1. CASE status = "active"
    <3>1. batch.ledger \in {"none", "registered"}
      BY <1>2, <2>1
    <3>2. batch' = [[batch EXCEPT !.pc = "insert"] EXCEPT !.ledger = "registered"]
      BY <1>2, <2>1, <3>1 DEF Register, Registers, Batches
    <3> QED
      BY <2>1, <3>2
  <2>2. CASE status # "active"
    <3>1. batch' = [[batch EXCEPT !.pc = "ack"] EXCEPT !.ledger =
                      IF batch.ledger = "none" THEN "dropped" ELSE batch.ledger]
      BY <1>2, <2>2 DEF Register, Registers, Batches
    <3> QED
      BY <1>2, <2>2, <3>1
  <2> QED
    BY <2>1, <2>2
<1>4. batch' \in Batches /\ batch'.pc = p /\ batch'.ledger = l /\ batch'.entry = "pending"
      /\ batch'.late = batch.late
  <2>1. [batch EXCEPT !.pc = p] \in Batches
    BY <1>2 DEF Batches
  <2> QED
    BY <1>2, <1>3, <2>1 DEF Batches
<1>5. BatchInv'
  BY <1>1, <1>2, <1>3, <1>4 DEF BatchInv, CollectorMoves
<1>6. status # "active" /\ batch'.ledger = "registered" => batch.ledger = "registered"
  BY <1>3, <1>4
<1>7. WriterPart' /\ (Drained => Drained') /\ (Fenced => Fenced')
  BY <1>1, <1>4, <1>5, <1>6, BatchStep, TypeParts DEF CollectorMoves, Inv, FinalizerTyped
<1> QED
  BY <1>1, <1>7, LeaseCollector, OutsideQuietly

\* The batch's worker goes on with a batch that stays as registered as it was.
LEMMA BatchMoves ==
    ASSUME Inv, CollectorMoves, UNCHANGED <<data, cache, fill, enqueue, age>>,
           batch' \in Batches, BatchInv', batch'.ledger = "registered" => batch.ledger = "registered"
    PROVE  Inv'
<1>1. WriterPart' /\ (Drained => Drained') /\ (Fenced => Fenced')
  BY BatchStep, TypeParts DEF CollectorMoves, Inv, FinalizerTyped
<1> QED
  BY <1>1, LeaseCollector, OutsideQuietly

LEMMA AckKeeps == ASSUME Inv, Ack PROVE Inv'
<1>1. CollectorMoves /\ UNCHANGED <<data, cache, fill, enqueue, age>>
  BY DEF Ack, CollectorMoves, Outside
<1>2. batch \in Batches /\ BatchInv
  BY CollectorFacts
<1>3. PICK l \in {"written", batch.ledger} :
         /\ batch' = [[[batch EXCEPT !.pc = "idle"] EXCEPT !.entry = "none"] EXCEPT !.ledger = l]
         /\ l # "registered"
  <2>1. batch' = [[[batch EXCEPT !.pc = "idle"] EXCEPT !.entry = "none"] EXCEPT !.ledger =
                    IF batch.ledger = "registered" THEN "written" ELSE batch.ledger]
    BY <1>2 DEF Ack, Batches
  <2> QED
    BY <2>1
<1>4. batch' \in Batches /\ batch'.pc = "idle" /\ batch'.ledger = l /\ batch'.entry = "none"
      /\ batch'.late = batch.late
  BY <1>2, <1>3 DEF Batches
<1>5. BatchInv'
  BY <1>1, <1>2, <1>3, <1>4 DEF BatchInv, CollectorMoves
<1> QED
  BY <1>1, <1>3, <1>4, <1>5, BatchMoves

LEMMA AttemptFailsKeeps == ASSUME Inv, AttemptFails PROVE Inv'
<1>1. Outside /\ UNCHANGED <<status, data, lease, pass, overran, cache, fill, enqueue, age>>
      /\ faults' \in Nat
  BY FaultTyped DEF AttemptFails, Outside
<1>2. batch \in Batches /\ BatchInv /\ batch' = [batch EXCEPT !.pc = "idle"]
  BY CollectorFacts DEF AttemptFails
<1>3. batch' \in Batches /\ batch'.pc = "idle" /\ batch'.ledger = batch.ledger
      /\ batch'.entry = batch.entry /\ batch'.late = batch.late
  BY <1>2 DEF Batches
<1>4. BatchInv'
  BY <1>1, <1>2, <1>3 DEF BatchInv
<1>5. WriterPart' /\ LeasePart' /\ (Drained => Drained') /\ (Fenced => Fenced')
  BY <1>1, <1>3, <1>4, BatchStep, TypeParts DEF Inv, FinalizerTyped
<1> QED
  BY <1>1, <1>5, OutsideQuietly

LEMMA DeadLetterKeeps == ASSUME Inv, DeadLetter PROVE Inv'
<1>1. Outside /\ UNCHANGED <<status, data, lease, pass, overran, cache, fill, enqueue, age>>
      /\ faults' \in Nat
  BY FaultTyped DEF DeadLetter, Outside
<1>2. batch \in Batches /\ BatchInv
  BY CollectorFacts
<1>3. PICK l \in {"abandoned", batch.ledger} :
         /\ batch' = [[[batch EXCEPT !.pc = "idle"] EXCEPT !.entry = "dead"] EXCEPT !.ledger = l]
         /\ l # "registered"
  <2>1. batch' = [[[batch EXCEPT !.pc = "idle"] EXCEPT !.entry = "dead"] EXCEPT !.ledger =
                    IF batch.ledger = "registered" THEN "abandoned" ELSE batch.ledger]
    BY <1>2 DEF DeadLetter, Batches
  <2> QED
    BY <2>1
<1>4. batch' \in Batches /\ batch'.pc = "idle" /\ batch'.ledger = l /\ batch'.entry = "dead"
      /\ batch'.late = batch.late
  BY <1>2, <1>3 DEF Batches
<1>5. BatchInv'
  BY <1>1, <1>2, <1>3, <1>4 DEF BatchInv
<1>6. WriterPart' /\ LeasePart' /\ (Drained => Drained') /\ (Fenced => Fenced')
  BY <1>1, <1>3, <1>4, <1>5, BatchStep, TypeParts DEF Inv, FinalizerTyped
<1> QED
  BY <1>1, <1>6, OutsideQuietly

LEMMA ReplayKeeps == ASSUME Inv, Replay PROVE Inv'
<1>1. CollectorMoves /\ UNCHANGED <<data, cache, fill, enqueue, age>>
  BY DEF Replay, CollectorMoves, Outside
<1>2. batch \in Batches /\ BatchInv /\ batch.entry = "dead"
      /\ batch' = [[batch EXCEPT !.entry = "pending"] EXCEPT !.ledger = "none"]
  BY CollectorFacts DEF Replay
<1>3. batch' \in Batches /\ batch'.pc = batch.pc /\ batch'.ledger = "none"
      /\ batch'.entry = "pending" /\ batch'.late = batch.late
  BY <1>2 DEF Batches
<1>4. BatchInv'
  BY <1>1, <1>2, <1>3 DEF BatchInv, CollectorMoves
<1> QED
  BY <1>1, <1>3, <1>4, BatchMoves

LEMMA OverrunKeeps == ASSUME Inv, Overrun PROVE Inv'
<1>1. Outside /\ UNCHANGED <<status, data, lease, pass, cache, fill, enqueue, age>> /\ overran'
      /\ overran' \in BOOLEAN /\ faults' \in Nat
  BY FaultTyped DEF Overrun, Outside
<1>2. batch \in Batches /\ BatchInv
      /\ batch' = [[batch EXCEPT !.pc = "idle"] EXCEPT !.late = TRUE]
  BY CollectorFacts DEF Overrun
<1>3. [batch EXCEPT !.pc = "idle"] \in Batches
  BY <1>2 DEF Batches
<1>4. batch' \in Batches /\ batch'.pc = "idle" /\ batch'.ledger = batch.ledger
      /\ batch'.entry = batch.entry
  BY <1>2, <1>3 DEF Batches
<1>5. BatchInv'
  BY <1>1, <1>2, <1>4 DEF BatchInv
<1>6. WriterPart' /\ LeasePart' /\ (Drained => Drained') /\ (Fenced => Fenced')
  BY <1>1, <1>4, <1>5, BatchStep
<1> QED
  BY <1>1, <1>6, OutsideQuietly

LEMMA InsertKeeps == ASSUME Inv, Insert PROVE Inv'
<1>1. CollectorMoves /\ UNCHANGED <<cache, fill, enqueue, age>>
  BY DEF Insert, CollectorMoves, Outside
<1>2. batch \in Batches /\ BatchInv /\ batch.pc = "insert" /\ batch' = [batch EXCEPT !.pc = "ack"]
      /\ data' = [data EXCEPT !["events_raw"] = data["events_raw"] \union {"fresh"}]
  BY CollectorFacts DEF Insert
<1>3. batch' \in Batches /\ batch'.pc = "ack" /\ batch'.ledger = batch.ledger
      /\ batch'.entry = batch.entry /\ batch'.late = batch.late
  BY <1>2 DEF Batches
<1>4. BatchInv'
  BY <1>1, <1>2, <1>3 DEF BatchInv, CollectorMoves
<1>5. WriterPart' /\ (Drained => Drained') /\ (Fenced => Fenced')
  BY <1>1, <1>3, <1>4, BatchStep, TypeParts DEF CollectorMoves, Inv, FinalizerTyped
<1>6. ~Drained
  BY <1>2 DEF Drained, BatchInv
<1>7. data["events_raw"] \union {"fresh"} \in SUBSET {"covered", "fresh"}
  BY TypeParts DEF Inv, DataTyped, AllTargets, ClickHouse
<1> QED
  BY <1>1, <1>2, <1>5, <1>6, <1>7, LeaseCollector, OutsideAdds DEF Fenced

LEMMA LateInsertKeeps == ASSUME Inv, LateInsert PROVE Inv'
<1>1. CollectorMoves /\ UNCHANGED <<cache, fill, enqueue, age>>
  BY DEF LateInsert, CollectorMoves, Outside
<1>2. batch \in Batches /\ BatchInv /\ batch.late /\ batch' = [batch EXCEPT !.late = FALSE]
      /\ data' = [data EXCEPT !["events_raw"] = data["events_raw"] \union {"fresh"}]
  BY CollectorFacts DEF LateInsert
<1>3. batch' \in Batches /\ batch'.pc = batch.pc /\ batch'.ledger = batch.ledger
      /\ batch'.entry = batch.entry
  BY <1>2 DEF Batches
<1>4. ~batch'.late
  BY <1>2 DEF Batches
<1>5. BatchInv'
  BY <1>1, <1>2, <1>3, <1>4 DEF BatchInv, CollectorMoves
<1>6. WriterPart' /\ (Drained => Drained') /\ (Fenced => Fenced')
  BY <1>1, <1>3, <1>5, BatchStep, TypeParts DEF CollectorMoves, Inv, FinalizerTyped
<1>7. overran
  BY <1>2 DEF BatchInv
<1>8. data["events_raw"] \union {"fresh"} \in SUBSET {"covered", "fresh"}
  BY TypeParts DEF Inv, DataTyped, AllTargets, ClickHouse
<1> QED
  BY <1>1, <1>2, <1>6, <1>7, <1>8, LeaseCollector, OutsideAdds

-----------------------------------------------------------------------------
(* The session finalizer. *)

\* The steps of a pass: it may come to write only while the site is active.
LEMMA PassMoves ==
    ASSUME Inv, FinalizerMoves, overran => overran', FinalizerTyped', FinalizerInv',
           pass' \in {"cleared", "written"} => \/ pass \in {"cleared", "written"} \/ overran'
                                               \/ status = "active"
    PROVE  /\ WriterPart' /\ LeasePart' /\ Outside /\ UNCHANGED status
           /\ Drained => Drained'
           /\ Fenced => Fenced'
<1>1. CollectorInv' /\ CollectorTyped'
  BY CollectorFacts DEF FinalizerMoves, CollectorInv, CollectorTyped
<1>2. BatchInv' /\ BatchTyped'
  BY CollectorFacts DEF FinalizerMoves, BatchInv, BatchTyped
<1>3. (Drained => Drained') /\ (Fenced => Fenced')
  BY DEF FinalizerMoves, Drained, Fenced
<1> QED
  BY <1>1, <1>2, <1>3 DEF WriterPart, LeasePart, FinalizerMoves

LEMMA PassFacts ==
    ASSUME Inv
    PROVE  /\ FinalizerInv /\ lease \in Leases /\ overran \in BOOLEAN /\ faults \in Nat
           /\ pass \in {"idle", "listed", "claimed", "cleared", "written"}
BY TypeParts DEF Inv, FinalizerTyped, OrderTyped

\* A pass that is over, or that has not begun, needs no lease.
LEMMA PassIdles ==
    ASSUME Inv, FinalizerMoves, UNCHANGED <<overran, data>>, pass' \in {"idle", "listed"},
           lease' \in Leases, faults' \in Nat
    PROVE  Inv'
<1>1. FinalizerTyped' /\ FinalizerInv'
  BY PassFacts DEF FinalizerTyped, FinalizerInv
<1> QED
  BY <1>1, PassMoves, OutsideQuietly

LEMMA Released ==
    ASSUME Inv, Release
    PROVE  lease' \in Leases
<1>1. [lease EXCEPT !.by = Nobody] \in Leases
  BY PassFacts DEF Leases
<1>2. [lease EXCEPT !.by = Nobody, !.live = FALSE] \in Leases
  BY <1>1 DEF Leases
<1> QED
  BY <1>2, PassFacts DEF Release

LEMMA DiscoverKeeps == ASSUME Inv, Discover PROVE Inv'
<1>1. FinalizerMoves /\ UNCHANGED <<overran, data, lease, faults>> /\ pass' = "listed"
  BY DEF Discover, FinalizerMoves, Outside
<1> QED
  BY <1>1, PassFacts, PassIdles

LEMMA ClaimSiteKeeps == ASSUME Inv, ClaimSite PROVE Inv'
<1>1. FinalizerMoves /\ UNCHANGED <<overran, data, faults>>
  BY DEF ClaimSite, FinalizerMoves, Outside
<1>2. CASE Takeable(Finalizer)
  <2>1. lease' = Taken(Finalizer) /\ pass' = "claimed"
    BY <1>2 DEF ClaimSite
  <2>2. Taken(Finalizer) \in Leases
    BY DEF Taken, Leases, Finalizer
  <2>3. FinalizerTyped' /\ FinalizerInv'
    BY <1>1, <2>1, <2>2, PassFacts DEF FinalizerTyped, FinalizerInv, Taken
  <2> QED
    BY <1>1, <2>1, <2>3, PassMoves, PassFacts, OutsideQuietly
<1>3. CASE ~Takeable(Finalizer)
  BY <1>1, <1>3, PassFacts, PassIdles DEF ClaimSite
<1> QED
  BY <1>2, <1>3

LEMMA RecheckKeeps == ASSUME Inv, Recheck PROVE Inv'
<1>1. FinalizerMoves /\ UNCHANGED <<overran, data, faults>>
  BY DEF Recheck, FinalizerMoves, Outside
<1>2. CASE status = "active"
  <2>1. pass = "claimed" /\ pass' = "cleared" /\ lease' = lease
    BY <1>2 DEF Recheck
  <2>2. ~overran => lease = Taken(Finalizer)
    BY <1>2, <2>1, PassFacts DEF FinalizerInv
  <2>3. FinalizerTyped' /\ FinalizerInv'
    BY <1>1, <2>1, <2>2, PassFacts DEF FinalizerTyped, FinalizerInv, Taken
  <2> QED
    BY <1>1, <1>2, <2>3, PassMoves, PassFacts, OutsideQuietly
<1>3. CASE status # "active"
  BY <1>1, <1>3, Released, PassFacts, PassIdles DEF Recheck
<1> QED
  BY <1>2, <1>3

LEMMA WriteFactsKeeps == ASSUME Inv, WriteFacts PROVE Inv'
<1>1. FinalizerMoves /\ UNCHANGED <<lease, overran, faults>> /\ pass = "cleared"
      /\ pass' = "written"
  BY DEF WriteFacts, FinalizerMoves, Outside
<1>2. FinalizerTyped' /\ FinalizerInv'
  BY <1>1, PassFacts DEF FinalizerTyped, FinalizerInv, Taken
<1>3. Fenced => overran
  BY <1>1 DEF Fenced
<1>4. data["session_facts"] \union {"fresh"} \in SUBSET {"covered", "fresh"}
  BY TypeParts DEF Inv, DataTyped, AllTargets, ClickHouse
<1>5. data' = [data EXCEPT !["session_facts"] = data["session_facts"] \union {"fresh"}]
  BY DEF WriteFacts
<1> QED
  BY <1>1, <1>2, <1>3, <1>4, <1>5, PassMoves, OutsideAdds

LEMMA EndPassKeeps == ASSUME Inv, EndPass PROVE Inv'
<1>1. FinalizerMoves /\ UNCHANGED <<overran, data, faults>> /\ pass' = "idle" /\ Release
  BY DEF EndPass, FinalizerMoves, Outside
<1> QED
  BY <1>1, Released, PassFacts, PassIdles

LEMMA PassDiesKeeps == ASSUME Inv, PassDies PROVE Inv'
<1>1. FinalizerMoves /\ UNCHANGED <<overran, data, lease>> /\ pass' = "idle"
      /\ faults' \in Nat
  BY FaultTyped DEF PassDies, FinalizerMoves, Outside
<1> QED
  BY <1>1, PassFacts, PassIdles

LEMMA LeaseLapsesKeeps == ASSUME Inv, LeaseLapses PROVE Inv'
<1>1. FinalizerMoves /\ UNCHANGED <<data, pass>> /\ lease' = [lease EXCEPT !.live = FALSE]
      /\ faults' \in Nat
  BY FaultTyped DEF LeaseLapses, FinalizerMoves, Outside
<1>2. lease' \in Leases
  BY <1>1, PassFacts DEF Leases
<1>3. /\ overran' = overran \/ overran'
      /\ overran' \in BOOLEAN
      /\ lease.by = Finalizer /\ pass \in {"claimed", "cleared", "written"} => overran'
  BY PassFacts DEF LeaseLapses
<1>4. FinalizerInv'
  <2>1. lease = Taken(Finalizer) => lease.by = Finalizer
    BY DEF Taken
  <2> QED
    BY <1>1, <1>3, <2>1, PassFacts DEF FinalizerInv, FinalizerMoves
<1>5. FinalizerTyped'
  BY <1>1, <1>2, <1>3, PassFacts DEF FinalizerTyped
<1> QED
  BY <1>1, <1>3, <1>4, <1>5, PassMoves, OutsideQuietly

-----------------------------------------------------------------------------
(* The invariant. *)

LEMMA InvInit == Init => Inv
<1> SUFFICES ASSUME Init PROVE Inv
  OBVIOUS
<1>1. OrderTyped /\ JobTyped
  <2>1. [NewJob(0) EXCEPT !.status = "absent"] \in Jobs
    BY NewJobTyped DEF Jobs, JobStates
  <2> QED
    BY <2>1 DEF Init, OrderTyped, JobTyped
<1>2. WorkersTyped
  BY IdleTyped DEF Init, WorkersTyped
<1>3. TargetsTyped /\ DataTyped
  BY DEF Init, TargetsTyped, DataTyped, Marks, Pending
<1>4. FinalizerTyped /\ CollectorTyped /\ BatchTyped
  <2>1. CollectorTyped
    <3>1. 0 \in 0 .. CacheTTL /\ -1 \in -1 .. FillTime /\ 0 \in 0 .. Closed + Skew
      BY DeletionAssumption DEF Closed
    <3>2. [left |-> -1, stage |-> "none"] \in Requests
      BY DeletionAssumption DEF Requests
    <3> QED
      BY <3>1, <3>2 DEF Init, CollectorTyped
  <2>2. FinalizerTyped
    BY DEF Init, FinalizerTyped, NoLease, Nobody, Leases
  <2>3. BatchTyped
    BY DEF Init, BatchTyped, Batches
  <2> QED
    BY <2>1, <2>2, <2>3
<1>5. CollectorInv /\ BatchInv /\ FinalizerInv /\ RequestInv
  BY DEF Init, CollectorInv, BatchInv, FinalizerInv, RequestInv
<1>6. JobInv
  BY DEF Init, JobInv, NewJob, Reached
<1>7. TargetInv /\ OrderInv
  BY DEF Init, TargetInv, OrderInv, Completed, Verified, Gone, Pending, AllTargets
<1>8. ASSUME NEW w \in Workers PROVE WorkerInv(worker[w])
  <2>1. worker[w] = Idle
    BY DEF Init
  <2> QED
    BY <2>1 DEF WorkerInv, Idle, Reached, InTargets
<1> QED
  BY <1>1, <1>2, <1>3, <1>4, <1>5, <1>6, <1>7, <1>8, TypeParts DEF Inv

LEMMA VerifyFinalizeKeeps == ASSUME Inv, NEW w \in Workers, VerifyFinalize(w) PROVE Inv'
BY TombstoneKeeps, BackToKeeps

LEMMA ExecutesKeeps == ASSUME Inv, NEW w \in Workers, Executes(w) PROVE Inv'
<1>1. CASE Claim(w) \/ Enter(w) \/ Settle(w) \/ Notify(w)
  BY <1>1, ClaimKeeps, EnterKeeps, SettleKeeps, NotifyKeeps
<1>2. CASE FenceDrain(w) \/ FinalizerFence(w) \/ List(w) \/ HoldAndList(w) \/ HoldIfOutstanding(w)
  BY <1>2, FenceDrainKeeps, FinalizerFenceKeeps, ListKeeps, HoldAndListKeeps,
     HoldIfOutstandingKeeps
<1>3. CASE \E t \in AllTargets : Purge(w, t) \/ Submit(w, t) \/ Poll(w, t)
  BY <1>3, PurgeKeeps, SubmitKeeps, PollKeeps
<1>4. CASE Count(w) \/ Complete(w) \/ EndPhase(w) \/ VerifyFinalize(w)
  BY <1>4, CountKeeps, CompleteKeeps, EndPhaseKeeps, VerifyFinalizeKeeps
<1> QED
  BY <1>1, <1>2, <1>3, <1>4 DEF Executes

LEMMA IdleStepKeeps == ASSUME Inv, UNCHANGED vars PROVE Inv'
<1>1. Quiet /\ UNCHANGED <<job, worker>>
  BY FaultTyped DEF vars, writers, Quiet, Still
<1> QED
  BY <1>1, QuietKeeps, JobUntouched, NoWorkerMoves, Assembled

LEMMA InvStep == Inv /\ [Next]_vars => Inv'
<1> SUFFICES ASSUME Inv, [Next]_vars PROVE Inv'
  OBVIOUS
<1>1. CASE Start \/ Revive
  BY <1>1, StartKeeps, ReviveKeeps
<1>2. CASE \E w \in Workers : Executes(w) \/ Throw(w) \/ Crash(w) \/ Unavailable(w)
  BY <1>2, ExecutesKeeps, ThrowKeeps, CrashKeeps, UnavailableKeeps
<1>3. CASE Lapse \/ LeaseLapses \/ \E t \in ClickHouse : MutationRuns(t)
  BY <1>3, LapseKeeps, LeaseLapsesKeeps, MutationRunsKeeps
<1>4. CASE Fetch \/ Admit \/ Collects \/ Tick
  BY <1>4, FetchKeeps, AdmitKeeps, RememberKeeps, RunScriptKeeps, TouchKeeps, TickKeeps
     DEF Collects
<1>5. CASE Ingests \/ AttemptFails \/ DeadLetter \/ Replay \/ Overrun
  BY <1>5, RegisterKeeps, InsertKeeps, AckKeeps, LateInsertKeeps, AttemptFailsKeeps,
     DeadLetterKeeps, ReplayKeeps, OverrunKeeps DEF Ingests
<1>6. CASE Discover \/ Finalizes \/ PassDies
  BY <1>6, DiscoverKeeps, ClaimSiteKeeps, RecheckKeeps, WriteFactsKeeps, EndPassKeeps,
     PassDiesKeeps DEF Finalizes
<1>7. CASE UNCHANGED vars
  BY <1>7, IdleStepKeeps
<1> QED
  BY <1>1, <1>2, <1>3, <1>4, <1>5, <1>6, <1>7 DEF Next

\* The invariant the theorems below follow from.
LEMMA Invariant == Spec => []Inv
BY InvInit, InvStep, PTL DEF Spec

-----------------------------------------------------------------------------
(* What no step does. *)

Ingested == {"queue_index", "realtime_presence", "events_raw"}

\* A step that brings an event of the site into one of these stores is one of the
\* collector's or of the ingest worker's, and neither is possible after the drain.
NoNewEvents == \A t \in Ingested : "fresh" \in data'[t] => "fresh" \in data[t]

LEMMA DataUntouched == ASSUME UNCHANGED data PROVE NoNewEvents
BY DEF NoNewEvents

LEMMA DrainedWriters ==
    ASSUME Inv, Drained, ~overran
    PROVE  ~RunScript /\ ~Touch /\ ~Insert /\ ~LateInsert
<1>1. enqueue.stage = "none"
  BY DrainedIsQuiet DEF Inv
<1>2. batch.pc # "insert" /\ ~batch.late
  BY DEF Inv, BatchInv, Drained
<1> QED
  BY <1>1, <1>2 DEF RunScript, Touch, Insert, LateInsert

LEMMA ErasureAddsNothing ==
    ASSUME Inv, NEW w \in Workers, NEW t \in AllTargets, Purge(w, t) \/ Submit(w, t) \/ Poll(w, t)
    PROVE  NoNewEvents
<1>1. DataTyped /\ Ingested \subseteq AllTargets
  BY TypeParts DEF Inv, Ingested, AllTargets, Redis, ClickHouse
<1>2. CASE Purge(w, t)
  BY <1>1, <1>2 DEF Purge, DataTyped, NoNewEvents
<1>3. CASE Submit(w, t)
  BY <1>1, <1>3 DEF Submit, DataTyped, NoNewEvents
<1>4. CASE Poll(w, t)
  BY <1>4, DataUntouched DEF Poll
<1> QED
  BY <1>2, <1>3, <1>4

LEMMA DrainStep ==
    ASSUME Inv, [Next]_vars, Drained, ~overran
    PROVE  NoNewEvents
<1>1. DataTyped /\ Ingested \subseteq AllTargets \ {"session_facts"}
  BY TypeParts DEF Inv, Ingested, AllTargets, Redis, ClickHouse
<1>2. CASE Start \/ Revive \/ Lapse \/ LeaseLapses \/ UNCHANGED vars
  BY <1>2, DataUntouched DEF Start, Revive, Lapse, LeaseLapses, vars
<1>3. CASE \E w \in Workers : Executes(w) \/ Throw(w) \/ Crash(w) \/ Unavailable(w)
  <2>1. PICK w \in Workers : Executes(w) \/ Throw(w) \/ Crash(w) \/ Unavailable(w)
    BY <1>3
  <2>2. CASE \E t \in AllTargets : Purge(w, t) \/ Submit(w, t) \/ Poll(w, t)
    BY <2>2, ErasureAddsNothing
  <2>3. CASE Claim(w) \/ Enter(w) \/ Settle(w) \/ Notify(w) \/ Throw(w) \/ Crash(w) \/ Unavailable(w)
    BY <2>3, DataUntouched DEF Claim, Enter, Settle, Notify, Throw, Crash, Unavailable
  <2>4. CASE \/ FenceDrain(w) \/ FinalizerFence(w) \/ List(w) \/ HoldAndList(w)
             \/ HoldIfOutstanding(w)
    BY <2>4, DataUntouched DEF FenceDrain, FinalizerFence, List, HoldAndList, HoldIfOutstanding
  <2>5. CASE Count(w) \/ Complete(w) \/ EndPhase(w) \/ VerifyFinalize(w)
    BY <2>5, DataUntouched DEF Count, Complete, EndPhase, VerifyFinalize
  <2> QED
    BY <2>1, <2>2, <2>3, <2>4, <2>5 DEF Executes
<1>4. CASE \E t \in ClickHouse : MutationRuns(t)
  BY <1>1, <1>4 DEF MutationRuns, DataTyped, NoNewEvents
<1>5. CASE Fetch \/ Admit \/ Collects \/ Tick
  BY <1>5, DrainedWriters, DataUntouched DEF Collects, Fetch, Admit, Remember, Tick
<1>6. CASE Ingests \/ AttemptFails \/ DeadLetter \/ Replay \/ Overrun
  BY <1>6, DrainedWriters, DataUntouched
     DEF Ingests, Register, Ack, AttemptFails, DeadLetter, Replay, Overrun
<1>7. CASE Discover \/ Finalizes \/ PassDies
  <2>1. CASE WriteFacts
    BY <1>1, <2>1 DEF WriteFacts, DataTyped, NoNewEvents
  <2> QED
    BY <1>7, <2>1, DataUntouched DEF Finalizes, Discover, ClaimSite, Recheck, EndPass, PassDies
<1> QED
  BY <1>2, <1>3, <1>4, <1>5, <1>6, <1>7 DEF Next

\* The steps that write sites.status or deletion_requests.status.
LEMMA FinalStep ==
    ASSUME Inv, [Next]_vars
    PROVE  /\ request = "completed" => request' = "completed"
           /\ status = "deleted" => status' = "deleted"
<1>1. request = "completed" => status = "deleted"
  BY DEF Inv, RequestInv
<1>2. CASE Start \/ Revive
  BY <1>1, <1>2 DEF Start, Revive
<1>3. CASE \E w \in Workers : Executes(w) \/ Throw(w) \/ Crash(w) \/ Unavailable(w)
  <2>1. PICK w \in Workers : Executes(w) \/ Throw(w) \/ Crash(w) \/ Unavailable(w)
    BY <1>3
  <2>2. CASE Notify(w) \/ FenceDrain(w) \/ VerifyFinalize(w)
    BY <2>2 DEF Notify, FenceDrain, VerifyFinalize
  <2>3. CASE Claim(w) \/ Enter(w) \/ Settle(w) \/ Throw(w) \/ Crash(w) \/ Unavailable(w)
    BY <2>3 DEF Claim, Enter, Settle, Throw, Crash, Unavailable
  <2>4. CASE FinalizerFence(w) \/ List(w) \/ HoldAndList(w) \/ HoldIfOutstanding(w)
    BY <2>4 DEF FinalizerFence, List, HoldAndList, HoldIfOutstanding
  <2>5. CASE \E t \in AllTargets : Purge(w, t) \/ Submit(w, t) \/ Poll(w, t)
    BY <2>5 DEF Purge, Submit, Poll
  <2>6. CASE Count(w) \/ Complete(w) \/ EndPhase(w)
    BY <2>6 DEF Count, Complete, EndPhase
  <2> QED
    BY <2>1, <2>2, <2>3, <2>4, <2>5, <2>6 DEF Executes
<1>4. CASE Lapse \/ LeaseLapses \/ (\E t \in ClickHouse : MutationRuns(t)) \/ UNCHANGED vars
  BY <1>4 DEF Lapse, LeaseLapses, MutationRuns, vars
<1>5. CASE Fetch \/ Admit \/ Collects \/ Tick
  BY <1>5 DEF Fetch, Admit, Collects, Tick, Remember, RunScript, Touch
<1>6. CASE Ingests \/ AttemptFails \/ DeadLetter \/ Replay \/ Overrun
  BY <1>6 DEF Ingests, Register, Insert, Ack, LateInsert, AttemptFails, DeadLetter, Replay, Overrun
<1>7. CASE Discover \/ Finalizes \/ PassDies
  BY <1>7 DEF Discover, Finalizes, ClaimSite, Recheck, WriteFacts, EndPass, PassDies
<1> QED
  BY <1>2, <1>3, <1>4, <1>5, <1>6, <1>7 DEF Next

-----------------------------------------------------------------------------
(* Theorems. *)

\* Every variable keeps its kind in every behaviour: lists of a phase hold targets,
\* a job's phase stays among the seven, the clocks of the collector stay within
\* their bounds.
THEOREM TypeCorrect == Spec => []TypeOK
<1>1. Inv => TypeOK
  BY DEF Inv
<1>2. QED
  BY <1>1, Invariant, PTL

\* What site-deletion.ts marks verified stays empty, with any number of workers that
\* run the job at once or after they lost it, and whatever the collector, the ingest
\* worker and the finalizer still had in flight; so does everything under a tombstone.
THEOREM VerifiedStaysGone == Spec => []VerifiedIsGone
<1>1. Inv => VerifiedIsGone
  BY DEF Inv, VerifiedIsGone, TargetInv, RequestInv, Verified, Gone
<1>2. QED
  BY <1>1, Invariant, PTL

\* Once fence_drain has let the request run no event of the site comes into Redis or
\* ClickHouse, for every TTL, margin and skew with the margin above the longest read,
\* request and skew together.
THEOREM DrainIsFinal == Spec => DrainClosesIngest
<1>1. Inv /\ [Next]_vars =>
        [~overran /\ request \in {"running", "completed"} =>
           \A t \in {"queue_index", "realtime_presence", "events_raw"} :
              "fresh" \in data'[t] => "fresh" \in data[t]]_vars
  <2>1. Inv /\ request \in {"running", "completed"} => Drained
    BY DEF Inv, RequestInv
  <2> QED
    BY <2>1, DrainStep DEF NoNewEvents, Ingested
<1>2. Spec =>
        [][~overran /\ request \in {"running", "completed"} =>
           \A t \in {"queue_index", "realtime_presence", "events_raw"} :
              "fresh" \in data'[t] => "fresh" \in data[t]]_vars
  BY <1>1, Invariant, PTL DEF Spec
<1>3. QED
  BY <1>2, Zenon DEF DrainClosesIngest

\* A completed deletion stays completed: the terminal hook of a job that died, a
\* route that revives, a worker that lost its lease and repeats verify_finalize.
THEOREM CompletedStays == Spec => CompletedIsFinal
<1>1. Inv /\ [Next]_vars => [/\ request = "completed" => request' = "completed"
                             /\ status = "deleted" => status' = "deleted"]_vars
  BY FinalStep
<1>2. Spec => [][/\ request = "completed" => request' = "completed"
                 /\ status = "deleted" => status' = "deleted"]_vars
  BY <1>1, Invariant, PTL DEF Spec
<1>3. QED
  BY <1>2, Zenon DEF CompletedIsFinal

=============================================================================
