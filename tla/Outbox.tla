------------------------------- MODULE Outbox -------------------------------
(***************************************************************************)
(* The transactional outbox: rows written with a state change, claimed by  *)
(* drain loops, delivered by a handler and settled; and the sweep that     *)
(* returns the rows a dead worker left behind.                             *)
(*                                                                         *)
(* Source: packages/postgres/src/repositories/outbox.ts, and the loops that *)
(* use it: apps/worker/src/outbox-dispatcher.ts (which also sweeps),       *)
(* apps/worker/src/realtime-revocation-drain.ts and                        *)
(* packages/integrations/src/email-outbox.ts.                              *)
(*                                                                         *)
(* Drains are loops of the same topic in several worker processes.  Only   *)
(* what SQL compares is kept of a row's available_at: whether it is in the *)
(* future, has passed, or passed longer ago than the lease.                *)
(***************************************************************************)
EXTENDS Naturals, FiniteSets

CONSTANTS
    Rows,         \* outbox rows, by idempotency key
    Drains,       \* drain loops
    NoRow,        \* a drain that is not at a row
    MaxAttempts,  \* maxAttempts of markOutboxFailed and reclaimStalledOutbox
    Limit         \* rows claimed per tick

ASSUME OutboxAssumption ==
    /\ NoRow \notin Rows
    /\ MaxAttempts \in Nat \ {0}
    /\ Limit \in Nat \ {0}

VARIABLES
    status,    \* outbox.status
    attempts,  \* outbox.attempts
    late,      \* outbox.available_at against now()
    page,      \* rows a drain claimed and has not settled
    row,       \* the row a drain is at
    step,      \* its next call
    sent       \* how often the side effect of a row took place

store == <<status, attempts, late>>
vars == <<store, page, row, step, sent>>

Open == {"pending", "processing"}
Ended == {"delivered", "failed", "dead"}
Steps == {"claim", "handle", "deliver", "fail", "reject"}

Init ==
    /\ status = [r \in Rows |-> "absent"]
    /\ attempts = [r \in Rows |-> 0]
    /\ late = [r \in Rows |-> "future"]
    /\ page = [d \in Drains |-> {}]
    /\ row = [d \in Drains |-> NoRow]
    /\ step = [d \in Drains |-> "claim"]
    /\ sent = [r \in Rows |-> 0]

-----------------------------------------------------------------------------
\* enqueueOutbox: at most one row for a key; immediately due or scheduled.
Enqueue(r, available) ==
    /\ status[r] = "absent"
    /\ status' = [status EXCEPT ![r] = "pending"]
    /\ late' = [late EXCEPT ![r] = available]
    /\ UNCHANGED <<attempts, page, row, step, sent>>

Due == {r \in Rows : status[r] = "pending" /\ late[r] # "future"}

\* Mutant: attempts are counted when a delivery fails, not when a row is claimed.
Claim_Uncounted(d, rs) ==
    /\ step[d] = "claim"
    /\ rs \subseteq Due /\ rs # {}
    /\ Cardinality(rs) = IF Cardinality(Due) < Limit THEN Cardinality(Due) ELSE Limit
    /\ status' = [r \in Rows |-> IF r \in rs THEN "processing" ELSE status[r]]
    /\ page' = [page EXCEPT ![d] = rs]
    /\ step' = [step EXCEPT ![d] = "handle"]
    /\ UNCHANGED <<attempts, late, row, sent>>

\* claimDueOutbox: FOR UPDATE SKIP LOCKED takes up to Limit due rows.
Claim(d, rs) ==
    /\ step[d] = "claim"
    /\ rs \subseteq Due /\ rs # {}
    /\ Cardinality(rs) = IF Cardinality(Due) < Limit THEN Cardinality(Due) ELSE Limit
    /\ status' = [r \in Rows |-> IF r \in rs THEN "processing" ELSE status[r]]
    /\ attempts' = [r \in Rows |-> IF r \in rs THEN attempts[r] + 1 ELSE attempts[r]]
    /\ page' = [page EXCEPT ![d] = rs]
    /\ step' = [step EXCEPT ![d] = "handle"]
    /\ UNCHANGED <<late, row, sent>>

\* Mutant: the handler swallows its error and the row counts as delivered.
Handle_Swallows(d, r, outcome) ==
    /\ step[d] = "handle"
    /\ r \in page[d]
    /\ row' = [row EXCEPT ![d] = r]
    /\ step' = [step EXCEPT ![d] = "deliver"]
    /\ sent' = [sent EXCEPT ![r] = IF outcome = "deliver" THEN @ + 1 ELSE @]
    /\ UNCHANGED <<store, page>>

\* The handler of one row of the page returns: done, failed, or never possible.
Handle(d, r, outcome) ==
    /\ step[d] = "handle"
    /\ r \in page[d]
    /\ row' = [row EXCEPT ![d] = r]
    /\ step' = [step EXCEPT ![d] = outcome]
    /\ sent' = [sent EXCEPT ![r] = IF outcome = "deliver" THEN @ + 1 ELSE @]
    /\ UNCHANGED <<store, page>>

\* On to the next row of the page.
Settled(d) ==
    /\ page' = [page EXCEPT ![d] = @ \ {row[d]}]
    /\ row' = [row EXCEPT ![d] = NoRow]
    /\ step' = [step EXCEPT ![d] = IF page[d] = {row[d]} THEN "claim" ELSE "handle"]

\* markOutboxDelivered, whatever the row's status is by now.
MarkDelivered(d) ==
    /\ step[d] = "deliver"
    /\ status' = [status EXCEPT ![row[d]] = "delivered"]
    /\ Settled(d)
    /\ UNCHANGED <<attempts, late, sent>>

\* Mutant: the attempts are compared with the wrong boundary.
AfterFailure_Early(r) == IF attempts[r] + 1 >= MaxAttempts THEN "dead" ELSE "pending"

AfterFailure(r) == IF attempts[r] >= MaxAttempts THEN "dead" ELSE "pending"

\* markOutboxFailed: retry a minute later, or give up; whatever the status is.
MarkFailed(d) ==
    /\ step[d] = "fail"
    /\ status' = [status EXCEPT ![row[d]] = AfterFailure(row[d])]
    /\ late' = [late EXCEPT ![row[d]] = "future"]
    /\ Settled(d)
    /\ UNCHANGED <<attempts, sent>>

\* markOutboxFailed with terminal: the message can never be delivered.
MarkRejected(d) ==
    /\ step[d] = "reject"
    /\ status' = [status EXCEPT ![row[d]] = "failed"]
    /\ Settled(d)
    /\ UNCHANGED <<attempts, late, sent>>

\* markOutboxDelivered fails inside the try of the dispatcher and of the
\* revocation drain: the row is then marked failed although it was delivered.
DeliveryUnrecorded(d) ==
    /\ step[d] = "deliver"
    /\ step' = [step EXCEPT ![d] = "fail"]
    /\ UNCHANGED <<store, page, row, sent>>

\* The process dies, or a settle fails outside a try: the rest of the page is
\* forgotten and its rows stay "processing".
Abandon(d) ==
    /\ step[d] # "claim"
    /\ page' = [page EXCEPT ![d] = {}]
    /\ row' = [row EXCEPT ![d] = NoRow]
    /\ step' = [step EXCEPT ![d] = "claim"]
    /\ UNCHANGED <<store, sent>>

\* Mutant: rows whose attempts are spent are skipped.
Sweep_SkipsSpent ==
    LET stalled == {r \in Rows : /\ status[r] = "processing" /\ late[r] = "stale"
                                 /\ attempts[r] < MaxAttempts}
    IN  /\ stalled # {}
        /\ status' = [r \in Rows |-> IF r \in stalled THEN "pending" ELSE status[r]]
        /\ UNCHANGED <<attempts, late, page, row, step, sent>>

\* reclaimStalledOutbox: every row in "processing" whose available_at is older
\* than the lease, whatever its topic and whoever holds it.
Sweep ==
    LET stalled == {r \in Rows : status[r] = "processing" /\ late[r] = "stale"}
    IN  /\ stalled # {}
        /\ status' = [r \in Rows |-> IF r \in stalled THEN AfterFailure(r) ELSE status[r]]
        /\ UNCHANGED <<attempts, late, page, row, step, sent>>

-----------------------------------------------------------------------------
\* available_at passes; then the lease passes as well.
BecomesDue(r) ==
    /\ status[r] # "absent" /\ late[r] = "future"
    /\ late' = [late EXCEPT ![r] = "due"]
    /\ UNCHANGED <<status, attempts, page, row, step, sent>>

BecomesStale(r) ==
    /\ late[r] = "due"
    /\ late' = [late EXCEPT ![r] = "stale"]
    /\ UNCHANGED <<status, attempts, page, row, step, sent>>

-----------------------------------------------------------------------------
Outcomes == {"deliver", "fail", "reject"}

Claims(d) == \E rs \in SUBSET Due : Claim(d, rs)
Handles(d) == \E r \in page[d], outcome \in Outcomes : Handle(d, r, outcome)

Delivers(d) ==
    Claims(d) \/ Handles(d) \/ MarkDelivered(d) \/ MarkFailed(d) \/ MarkRejected(d)

Next ==
    \/ \E r \in Rows, available \in {"future", "due"} : Enqueue(r, available)
    \/ \E d \in Drains : Delivers(d) \/ DeliveryUnrecorded(d) \/ Abandon(d)
    \/ Sweep
    \/ \E r \in Rows : BecomesDue(r) \/ BecomesStale(r)

Spec == Init /\ [][Next]_vars

\* A drain takes its next step, the sweep runs on every tick of the dispatcher
\* and time passes.  Nothing is assumed of failures: a process may die at every
\* delivery.
FairSpec ==
    /\ Spec
    /\ \A d \in Drains : WF_vars(Delivers(d))
    /\ WF_vars(Sweep)
    /\ \A r \in Rows : WF_vars(BecomesDue(r)) /\ WF_vars(BecomesStale(r))

-----------------------------------------------------------------------------
(* Properties. *)

\* The shape of the state; a drain asks for more rows only when it has settled,
\* or lost, the whole page it claimed.
TypeOK ==
    /\ status \in [Rows -> {"absent"} \union Open \union Ended]
    /\ attempts \in [Rows -> Nat]
    /\ late \in [Rows -> {"future", "due", "stale"}]
    /\ page \in [Drains -> SUBSET Rows]
    /\ row \in [Drains -> Rows \union {NoRow}]
    /\ step \in [Drains -> Steps]
    /\ \A d \in Drains :
         /\ step[d] = "claim" <=> page[d] = {}
         /\ step[d] \in Outcomes => row[d] \in page[d]
    /\ sent \in [Rows -> Nat]

\* However many workers crash, lose their rows to the sweep or settle them late,
\* the side effect of a row takes place at most MaxAttempts times.
SentBounded == \A r \in Rows : sent[r] <= attempts[r] /\ attempts[r] <= MaxAttempts

\* A row is "dead" only when its attempts are spent, whoever decided it: the
\* drain that failed, or the sweep.
DeadIsSpent == \A r \in Rows : status[r] = "dead" => attempts[r] >= MaxAttempts

\* "delivered" is never claimed for a row whose side effect did not happen.
DeliveredWasSent == \A r \in Rows : status[r] = "delivered" => sent[r] >= 1

\* The verdict on a row is true whoever gave it: a drain, one that had lost the
\* row long ago, or the sweep.
VerdictIsTrue == DeadIsSpent /\ DeliveredWasSent

\* Every row is decided: no crash leaves one in "processing" for ever, and a
\* payload that kills its worker does not go round for ever.
RowIsSettled == \A r \in Rows : status[r] \in Open ~> status[r] \in Ended

=============================================================================
