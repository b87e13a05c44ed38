----------------------------- MODULE JobRunner -----------------------------
(***************************************************************************)
(* The job runner: rows of the jobs table claimed under a lease, handed to *)
(* an executor one after the other, and settled.                           *)
(*                                                                         *)
(* Source: apps/worker/src/jobs/runner.ts (runJobsOnce, executeOne,        *)
(* handleThrow, notifyTerminal) and                                        *)
(* packages/postgres/src/repositories/jobs.ts.                             *)
(*                                                                         *)
(* An executor is a black box here: it renews its lease, may learn that it *)
(* lost it, and returns one of the outcomes of JobOutcome or throws.  Time *)
(* is not measured: a lease or a delay may run out at any moment.  A       *)
(* worker's name is unique to its process (consumerNameFor); a process     *)
(* that dies loses all it knew, so the name may be used again here.        *)
(***************************************************************************)
EXTENDS Naturals, FiniteSets

CONSTANTS
    Workers,     \* runners, by claimed_by
    NoWorker,    \* claimed_by is null
    Jobs,        \* job rows, by idempotency key
    NoJob,       \* a worker that is not at a job
    Subjects,    \* sites, users or credentials
    SubjectOf,   \* the subject each job acts on (all of one type)
    MaxAttempts, \* JOB_MAX_ATTEMPTS
    Limit,       \* jobs claimed per tick
    MaxFaults    \* bound: ticks cut short by a crash or an unreachable database

ASSUME JobsAssumption ==
    /\ NoWorker \notin Workers
    /\ NoJob \notin Jobs
    /\ SubjectOf \in [Jobs -> Subjects]
    /\ MaxAttempts \in Nat \ {0}
    /\ Limit \in Nat \ {0}
    /\ MaxFaults \in Nat

VARIABLES
    status,   \* jobs.status ("absent": no row)
    owner,    \* jobs.claimed_by
    lease,    \* jobs.lease_expires_at against now()
    due,      \* jobs whose available_at has arrived
    attempts, \* jobs.attempts; counting stops at MaxAttempts
    page,     \* claimed jobs a worker has not reached yet
    job,      \* the job it is at
    counted,  \* the attempts it read when it claimed each job
    pc,       \* where the worker is
    outcome,  \* what its executor returned
    spent,    \* history: attempts since the last requested wait that failed or lapsed
    faults

row == <<status, owner, lease, due, attempts>>
runner == <<page, job, counted, pc, outcome>>
vars == <<row, runner, spent, faults>>

\* Mutant: a job that waits for its retry is not live.
Live_NotRetryable == {"queued", "running"}

\* The predicate of the unique index on (type, subject_id).
Live == {"queued", "running", "failed_retryable"}
Settled == {"succeeded", "failed_terminal"}
\* "failed": a throw, or a retry with counts, which are settled alike.
Outcomes == {"succeeded", "terminal", "wait", "failed"}

Init ==
    /\ status = [j \in Jobs |-> "absent"]
    /\ owner = [j \in Jobs |-> NoWorker]
    /\ lease = [j \in Jobs |-> "none"]
    /\ due = {}
    /\ attempts = [j \in Jobs |-> 0]
    /\ page = [w \in Workers |-> {}]
    /\ job = [w \in Workers |-> NoJob]
    /\ counted = [w \in Workers |-> [j \in Jobs |-> 0]]
    /\ pc = [w \in Workers |-> "claim"]
    /\ outcome = [w \in Workers |-> "wait"]
    /\ spent = [j \in Jobs |-> 0]
    /\ faults = 0

-----------------------------------------------------------------------------
\* enqueueJob inserts the row unless the key is taken or the subject has a live
\* job; it then answers with the one that exists.
Enqueue(j, available) ==
    /\ status[j] = "absent"
    /\ \A k \in Jobs : SubjectOf[k] = SubjectOf[j] => status[k] \notin Live
    /\ status' = [status EXCEPT ![j] = "queued"]
    /\ due' = IF available THEN due \union {j} ELSE due
    /\ UNCHANGED <<owner, lease, attempts, runner, spent, faults>>

Claimable(j) ==
    \/ status[j] \in {"queued", "failed_retryable"} /\ j \in due
    \/ status[j] = "running" /\ lease[j] = "expired"

Increment(n) == IF n < MaxAttempts THEN n + 1 ELSE n

\* claimDueJobs: FOR UPDATE SKIP LOCKED, up to Limit rows.
Claim(w, claimed) ==
    /\ pc[w] = "claim"
    /\ claimed # {} /\ \A j \in claimed : Claimable(j)
    /\ Cardinality(claimed) <= Limit
    /\ status' = [j \in Jobs |-> IF j \in claimed THEN "running" ELSE status[j]]
    /\ owner' = [j \in Jobs |-> IF j \in claimed THEN w ELSE owner[j]]
    /\ lease' = [j \in Jobs |-> IF j \in claimed THEN "live" ELSE lease[j]]
    /\ attempts' = [j \in Jobs |-> IF j \in claimed THEN Increment(attempts[j]) ELSE attempts[j]]
    /\ page' = [page EXCEPT ![w] = claimed]
    /\ counted' = [counted EXCEPT ![w] = [j \in Jobs |->
                      IF j \in claimed THEN Increment(attempts[j]) ELSE 0]]
    /\ pc' = [pc EXCEPT ![w] = "extend"]
    /\ spent' = [j \in Jobs |->
          IF j \in claimed /\ status[j] = "running" THEN Increment(spent[j]) ELSE spent[j]]
    /\ UNCHANGED <<due, job, outcome, faults>>

\* The next job of the page, or the end of the tick.
NextJob(w, left) ==
    /\ page' = [page EXCEPT ![w] = left]
    /\ job' = [job EXCEPT ![w] = NoJob]
    /\ counted' = [counted EXCEPT ![w] = [j \in Jobs |-> IF j \in left THEN @[j] ELSE 0]]
    /\ pc' = [pc EXCEPT ![w] = IF left = {} THEN "claim" ELSE "extend"]
    /\ outcome' = [outcome EXCEPT ![w] = "wait"]

\* executeOne renews the lease of the next job before it calls the executor.  A
\* job that is somebody else's by now is left alone.
Extend(w, j) ==
    /\ pc[w] = "extend"
    /\ j \in page[w]
    /\ IF owner[j] = w
       THEN /\ lease' = [lease EXCEPT ![j] = "live"]
            /\ page' = [page EXCEPT ![w] = @ \ {j}]
            /\ job' = [job EXCEPT ![w] = j]
            /\ pc' = [pc EXCEPT ![w] = "execute"]
            /\ UNCHANGED <<counted, outcome>>
       ELSE /\ NextJob(w, page[w] \ {j})
            /\ UNCHANGED lease
    /\ UNCHANGED <<status, owner, due, attempts, spent, faults>>

\* The executor renews its lease.
Renew(w) ==
    /\ pc[w] = "execute" /\ owner[job[w]] = w
    /\ lease' = [lease EXCEPT ![job[w]] = "live"]
    /\ UNCHANGED <<status, owner, due, attempts, runner, spent, faults>>

\* The executor is done, or gave up (because extendLease or updatePhase returned
\* false, for one): it returns an outcome or throws.
Execute(w, o) ==
    /\ pc[w] = "execute"
    /\ outcome' = [outcome EXCEPT ![w] = o]
    /\ pc' = [pc EXCEPT ![w] = "settle"]
    /\ UNCHANGED <<row, page, job, counted, spent, faults>>

\* The attempts guard, on the count the claim returned.
Exhausted(w) == outcome[w] = "failed" /\ counted[w][job[w]] >= MaxAttempts

\* The status executeOne or handleThrow writes.
Verdict(w) ==
    IF outcome[w] = "succeeded" THEN "succeeded"
    ELSE IF outcome[w] = "terminal" \/ Exhausted(w) THEN "failed_terminal"
    ELSE "failed_retryable"

\* Mutant: a retry that was asked for keeps the count.
Recount_Kept(w) == attempts[job[w]]

\* resetAttempts: a retry that was asked for starts the count over.
Recount(w) == IF outcome[w] = "wait" THEN 0 ELSE attempts[job[w]]

\* Mutant: the settle is not guarded by claimed_by.
Held_Unguarded(w) == TRUE

\* WHERE id = ... AND claimed_by = ...
Held(w) == owner[job[w]] = w

\* completeJob and failJobRetryable: one UPDATE that also clears the lease.
Settle(w) ==
    /\ pc[w] = "settle" /\ Held(w)
    /\ LET j == job[w]
       IN  /\ status' = [status EXCEPT ![j] = Verdict(w)]
           /\ owner' = [owner EXCEPT ![j] = NoWorker]
           /\ lease' = [lease EXCEPT ![j] = "none"]
           /\ due' = IF Verdict(w) = "failed_retryable" THEN due \ {j} ELSE due
           /\ attempts' = [attempts EXCEPT ![j] = Recount(w)]
           /\ spent' = [spent EXCEPT ![j] =
                IF outcome[w] = "wait" THEN 0
                ELSE IF outcome[w] = "failed" THEN Increment(@) ELSE @]
    /\ IF Verdict(w) = "failed_terminal"
       THEN pc' = [pc EXCEPT ![w] = "notify"] /\ UNCHANGED <<page, job, counted, outcome>>
       ELSE NextJob(w, page[w])
    /\ UNCHANGED faults

\* Mutant: the counter is reset by a statement of its own, which is not guarded.
Lose_Resets(w) ==
    /\ pc[w] = "settle" /\ ~Held(w)
    /\ attempts' = [attempts EXCEPT ![job[w]] = IF outcome[w] = "wait" THEN 0 ELSE @]
    /\ NextJob(w, page[w])
    /\ UNCHANGED <<status, owner, lease, due, spent, faults>>

\* The settle is refused: the job was lost.
Lose(w) ==
    /\ pc[w] = "settle" /\ ~Held(w)
    /\ NextJob(w, page[w])
    /\ UNCHANGED <<row, spent, faults>>

\* notifyTerminal: the hook, on a table of its own, takes effect or throws and is logged.
Notify(w) ==
    /\ pc[w] = "notify"
    /\ NextJob(w, page[w])
    /\ UNCHANGED <<row, spent, faults>>

\* The process dies, or a statement fails outside the executor: the tick ends
\* where it is and the rest of its page waits for the lease.
Abandon(w) ==
    /\ faults < MaxFaults
    /\ faults' = faults + 1
    /\ pc[w] # "claim"
    /\ NextJob(w, {})
    /\ UNCHANGED <<row, spent>>

\* lease_expires_at passes; available_at passes.
LeaseExpires(j) ==
    /\ lease[j] = "live"
    /\ lease' = [lease EXCEPT ![j] = "expired"]
    /\ UNCHANGED <<status, owner, due, attempts, runner, spent, faults>>

BecomesDue(j) ==
    /\ status[j] # "absent" /\ j \notin due
    /\ due' = due \union {j}
    /\ UNCHANGED <<status, owner, lease, attempts, runner, spent, faults>>

-----------------------------------------------------------------------------
Claims(w) == \E claimed \in SUBSET Jobs : Claim(w, claimed)
Extends(w) == \E j \in page[w] : Extend(w, j)
Executes(w) == \E o \in Outcomes : Execute(w, o)

Runs(w) == Claims(w) \/ Extends(w) \/ Executes(w) \/ Settle(w) \/ Lose(w) \/ Notify(w)

Next ==
    \/ \E j \in Jobs :
         \/ LeaseExpires(j) \/ BecomesDue(j)
         \/ \E available \in BOOLEAN : Enqueue(j, available)
    \/ \E w \in Workers : Runs(w) \/ Renew(w) \/ Abandon(w)

Spec == Init /\ [][Next]_vars

-----------------------------------------------------------------------------
(* Properties. *)

\* The shape of the state.  The check jobs_lease_check sets claimed_by and
\* lease_expires_at together; beyond it, both are set exactly while the job runs.
\* A worker has a job exactly from its first renewal to its settlement.
TypeOK ==
    /\ status \in [Jobs -> {"absent"} \union Live \union Settled]
    /\ owner \in [Jobs -> Workers \union {NoWorker}]
    /\ lease \in [Jobs -> {"none", "live", "expired"}]
    /\ \A j \in Jobs :
         /\ status[j] = "running" <=> owner[j] # NoWorker
         /\ status[j] = "running" <=> lease[j] # "none"
    /\ due \subseteq Jobs
    /\ attempts \in [Jobs -> 0 .. MaxAttempts]
    /\ page \in [Workers -> SUBSET Jobs]
    /\ job \in [Workers -> Jobs \union {NoJob}]
    /\ counted \in [Workers -> [Jobs -> 0 .. MaxAttempts]]
    /\ pc \in [Workers -> {"claim", "extend", "execute", "settle", "notify"}]
    /\ \A w \in Workers :
         /\ page[w] # {} => pc[w] # "claim"
         /\ pc[w] \in {"execute", "settle", "notify"} <=> job[w] # NoJob
    /\ outcome \in [Workers -> Outcomes]
    /\ spent \in [Jobs -> 0 .. MaxAttempts]
    /\ faults \in Nat

\* Two producers cannot put two jobs on one subject, and a job between two
\* attempts still keeps the second one out.
OneLivePerSubject ==
    \A j, k \in Jobs :
        j # k /\ SubjectOf[j] = SubjectOf[k] => ~(status[j] \in Live /\ status[k] \in Live)

\* The attempts guard compares the count the claim returned, possibly long ago.
\* It is the row's count whenever the settle can still be written, whatever the
\* workers that had the job in between did to the row.
CountIsCurrent ==
    \A w \in Workers, j \in Jobs :
        (j \in page[w] \/ job[w] = j) /\ owner[j] = w => counted[w][j] = attempts[j]

\* The attempts guard is exact: a worker that settles a job gives it up when its
\* executor declared the work impossible, or when this attempt failed and made up
\* MaxAttempts of them since the job last asked for a wait, and only then.  However
\* long a job waits, it is not given up.  Attempts cut short, whose lease lapsed,
\* count like failed ones, which the "consecutive failures" of runner.ts do not say.
GivenUpWhenSpent ==
    [][\A w \in Workers, j \in Jobs :
         owner[j] = w /\ status[j] = "running" /\ status'[j] # "running" =>
            (status'[j] = "failed_terminal" <=>
                \/ outcome[w] = "terminal"
                \/ outcome[w] = "failed" /\ spent'[j] = MaxAttempts)]_vars

Lease == INSTANCE JobLease WITH
    holder <- owner,
    verdict <- [j \in Jobs |-> IF status[j] \in Live THEN "open" ELSE status[j]],
    expired <- {j \in Jobs : lease[j] = "expired"}

\* The runner keeps the promise of module JobLease: one holder, hand-over only by
\* giving back or by expiry, the holder alone settles, and once.
LeaseSpec == Lease!Spec

=============================================================================
