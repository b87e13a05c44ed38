----------------------------- MODULE OpenBatch -----------------------------
(***************************************************************************)
(* The open batch of the ingest loop: how long a worker holds messages it  *)
(* has read before it closes them into a manifest.                         *)
(*                                                                         *)
(* Source: apps/worker/src/ingest/batcher.ts (OpenBatch), the flush rule   *)
(* decideFlush of packages/domain/src/ingest-batch.ts, tick(), run() and   *)
(* stop() of apps/worker/src/ingest/loop.ts, and read() of                 *)
(* packages/redis/src/consumer.ts.                                         *)
(*                                                                         *)
(* One worker and a clock.  What a tick does besides the read (recovery,   *)
(* reclaim, processing, the queue gauges) takes time here and may fail;    *)
(* module IngestPipeline says what it does.                                *)
(***************************************************************************)
EXTENDS Integers, Sequences, SequencesExt

CONSTANTS
    MaxRows,    \* WORKER_BATCH_MAX_ROWS
    MaxBytes,   \* WORKER_BATCH_MAX_BYTES
    MaxFlush,   \* WORKER_BATCH_MAX_FLUSH_MS, in units of the clock
    Sizes,      \* payload sizes
    MaxWork,    \* bound: time a tick spends outside the read
    MaxBackoff, \* bound: the longest sleep after a failing tick
    MaxQueued   \* bound: entries waiting in the stream

ASSUME LimitsAssumption ==
    /\ MaxRows \in Nat \ {0}
    /\ MaxBytes \in Nat \ {0}
    /\ MaxFlush \in Nat \ {0}
    /\ Sizes \subseteq Nat \ {0}
    /\ MaxWork \in Nat
    /\ MaxBackoff \in Nat \ {0}
    /\ MaxQueued \in Nat

VARIABLES
    queued,       \* undelivered entries of the stream, by payload size
    messages,     \* #messages, by payload size
    age,          \* time since #firstAt, 0 while the batch is empty
    closed,       \* rows of the batch closed last
    pc,           \* where the loop is
    spent,        \* time spent in this tick before its read, or asleep after it
    wait,         \* what is left of the read's block time
    shuttingDown,
    late          \* history: the age trigger passed with no flush decision due

vars == <<queued, messages, age, closed, pc, spent, wait, shuttingDown, late>>

\* XREADGROUP BLOCK 0 waits until an entry arrives.
Forever == -1

\* The age stops counting where no test can tell it apart any more.
AgeCap == MaxFlush + MaxWork + MaxBackoff

Bytes(batch) == FoldSeq(+, 0, batch)

-----------------------------------------------------------------------------
Init ==
    /\ queued = <<>>
    /\ messages = <<>>
    /\ age = 0
    /\ closed = 0
    /\ pc = "head"
    /\ spent = 0
    /\ wait = 0
    /\ shuttingDown = FALSE
    /\ late = FALSE

\* Mutant: the age of the batch is not taken off the budget.
BlockMsBudget_Full == MaxFlush

\* blockMsBudget(): with messages in the batch, what is left of the age trigger.
BlockMsBudget ==
    IF messages = <<>> THEN MaxFlush
    ELSE IF age >= MaxFlush THEN 0 ELSE MaxFlush - age

\* Mutant: every read asks for a full batch.
CountBudget_Full == MaxRows

\* countBudget().
CountBudget == IF Len(messages) < MaxRows THEN MaxRows - Len(messages) ELSE 1

\* Mutant: the age trigger compares with > .
ShouldFlush_LateAge(batch, a) ==
    batch # <<>> /\ (\/ Len(batch) >= MaxRows
                     \/ Bytes(batch) >= MaxBytes
                     \/ a > MaxFlush
                     \/ shuttingDown)

\* decideFlush: rows, bytes, age or shutdown; never an empty batch.
ShouldFlush(batch, a) ==
    batch # <<>> /\ (\/ Len(batch) >= MaxRows
                     \/ Bytes(batch) >= MaxBytes
                     \/ a >= MaxFlush
                     \/ shuttingDown)

\* Mutant: drain() leaves #firstAt as it was.
AgeAfter_Kept(flush) == age

\* drain() resets #firstAt.
AgeAfter(flush) == IF flush THEN 0 ELSE age

\* Mutant: the loop condition without the flag.
LeavesLoop_Never == FALSE

\* while (!shuttingDown || !batch.isEmpty)
LeavesLoop == shuttingDown /\ messages = <<>>

\* Where a failing tick leads: out of the loop when the worker is stopping, into
\* backoffSleep otherwise.
AfterFailure == IF shuttingDown THEN "stopped" ELSE "backoff"

\* The trigger is behind the batch while no read is out to decide on it.
PassedOver(a) == late \/ (messages # <<>> /\ a >= MaxFlush)

-----------------------------------------------------------------------------
\* The collector adds an entry to the stream.
Enqueue(size) ==
    /\ Len(queued) < MaxQueued
    /\ queued' = Append(queued, size)
    /\ UNCHANGED <<messages, age, closed, pc, spent, wait, shuttingDown, late>>

\* Time passes, except while a read has something to return.
Tick ==
    /\ age' = IF messages = <<>> \/ age = AgeCap THEN age ELSE age + 1
    /\ \/ /\ \/ pc = "work" /\ spent < MaxWork
             \/ pc = "backoff" /\ spent < MaxBackoff
          /\ spent' = spent + 1
          /\ late' = PassedOver(age')
          /\ UNCHANGED wait
       \/ /\ pc = "read" /\ wait # 0 /\ queued = <<>>
          /\ wait' = IF wait = Forever THEN Forever ELSE wait - 1
          /\ UNCHANGED <<spent, late>>
    /\ UNCHANGED <<queued, messages, closed, pc, shuttingDown>>

\* The head of run()'s loop.
LoopHead ==
    /\ pc = "head"
    /\ pc' = IF LeavesLoop THEN "stopped" ELSE "work"
    /\ spent' = 0
    /\ UNCHANGED <<queued, messages, age, closed, wait, shuttingDown, late>>

\* An error before the read, or the read's own: the batch stays as it is.
TickFails ==
    /\ pc \in {"work", "read"}
    /\ pc' = AfterFailure
    /\ spent' = 0
    /\ wait' = 0
    /\ late' = PassedOver(age)
    /\ UNCHANGED <<queued, messages, age, closed, shuttingDown>>

\* The backoff ends: its time, never none, is up or stop() cuts it short.
WakeUp ==
    /\ pc = "backoff"
    /\ spent > 0 \/ shuttingDown
    /\ pc' = "head"
    /\ UNCHANGED <<queued, messages, age, closed, spent, wait, shuttingDown, late>>

StartRead ==
    /\ pc = "work"
    /\ pc' = "read"
    /\ wait' = IF BlockMsBudget = 0 THEN Forever ELSE BlockMsBudget
    /\ UNCHANGED <<queued, messages, age, closed, spent, shuttingDown, late>>

\* XREADGROUP returns what is there, at most countBudget() entries, or nothing
\* when its time is up; add() and the flush decision follow without an await.  A
\* drained batch is processed, which may fail; nothing else after the read throws.
ReadReturns ==
    /\ pc = "read"
    /\ queued # <<>> \/ wait = 0
    /\ LET count == IF Len(queued) < CountBudget THEN Len(queued) ELSE CountBudget
           batch == messages \o SubSeq(queued, 1, count)
           flush == ShouldFlush(batch, age)
       IN  /\ queued' = SubSeq(queued, count + 1, Len(queued))
           /\ messages' = IF flush THEN <<>> ELSE batch
           /\ age' = AgeAfter(flush)
           /\ closed' = IF flush THEN Len(batch) ELSE closed
           /\ late' = (late /\ ~flush)
           /\ \/ pc' = "head" /\ UNCHANGED spent
              \/ flush /\ pc' = AfterFailure /\ spent' = 0
    /\ wait' = 0
    /\ UNCHANGED shuttingDown

\* stop()
Stop ==
    /\ ~shuttingDown
    /\ shuttingDown' = TRUE
    /\ UNCHANGED <<queued, messages, age, closed, pc, spent, wait, late>>

Arrives == \E size \in Sizes : Enqueue(size)

Next ==
    \/ Arrives \/ Tick \/ LoopHead \/ TickFails \/ WakeUp
    \/ StartRead \/ ReadReturns \/ Stop

Spec == Init /\ [][Next]_vars

\* The clock runs, the loop takes the step it is at, a backoff ends, and the stores
\* do not fail every tick for ever.
FairSpec ==
    /\ Spec
    /\ WF_vars(Tick) /\ WF_vars(LoopHead) /\ WF_vars(WakeUp)
    /\ SF_vars(StartRead) /\ SF_vars(ReadReturns)

-----------------------------------------------------------------------------
(* Properties. *)

\* Every variable holds a value of its kind; the age, which a drain starts over,
\* does not run past what the budgets compare it with.
TypeOK ==
    /\ queued \in Seq(Sizes) /\ Len(queued) <= MaxQueued
    /\ messages \in Seq(Sizes)
    /\ age \in 0 .. AgeCap /\ (messages = <<>> => age = 0)
    /\ closed \in Nat
    /\ pc \in {"head", "work", "read", "backoff", "stopped"}
    /\ spent \in 0 .. MaxWork + MaxBackoff
    /\ wait \in {Forever} \union 0 .. MaxFlush
    /\ shuttingDown \in BOOLEAN
    /\ late \in BOOLEAN /\ (messages = <<>> => ~late)

\* No batch grows past the row limit, and a batch that reached a limit is not
\* kept open.
LimitsClose ==
    /\ closed <= MaxRows
    /\ Len(messages) < MaxRows
    /\ ~(Bytes(messages) >= MaxBytes)

\* A read of a worker that holds messages ends when the age trigger is reached, not
\* later: "how long the next blocking read may wait without overshooting the age
\* trigger".  It blocks without a limit (BLOCK 0) only when the trigger had passed
\* outside a read: while a tick was at work, slept after a failure, or failed in
\* its read.
BlockEndsAtTrigger ==
    pc = "read" /\ messages # <<>> =>
        IF wait = Forever THEN late ELSE age + wait = MaxFlush

\* Messages are not held for ever, even if no entry arrives any more: the batch
\* closes, or the worker stops and leaves the messages to another one.  The one
\* exception is the code's own: a trigger that passed outside a read, where the
\* next read blocks until an entry arrives.
HeldIsClosed ==
    messages # <<>> ~> \/ messages = <<>>
                       \/ pc = "stopped"
                       \/ pc = "read" /\ wait = Forever /\ late

\* A worker that is told to stop while its batch is empty stops, unless it takes
\* in another message first.
EmptyLoopStops == shuttingDown /\ messages = <<>> ~> pc = "stopped" \/ messages # <<>>

=============================================================================
