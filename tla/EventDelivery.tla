---------------------------- MODULE EventDelivery ----------------------------
(***************************************************************************)
(* An event's way from a page to the durable stream: the tracker's buffer  *)
(* and retry queue, the collector's events route, and the enqueue script   *)
(* with its deduplication records.                                         *)
(*                                                                         *)
(* Source: apps/tracker/src/{core,transport,storage}.ts,                   *)
(* apps/collector/src/{events,ingest-gate,limiter}.ts,                     *)
(* packages/domain/src/event-time.ts, packages/redis/src/enqueue.ts.       *)
(*                                                                         *)
(* The pages of one visitor share the retry queue in localStorage; each    *)
(* has a buffer of its own.  A page that may not store anything, or whose  *)
(* store failed the probe, has a queue in memory instead, and localStorage *)
(* may refuse a write at any time.  A handler of the page runs to its end  *)
(* without interleaving, so a flush is one action.  The collector decides a batch, *)
(* awaits the script and answers: one action each.  A page may be closed   *)
(* while its requests are on the way, an answer may be lost after the      *)
(* script ran, and a page that saw a network error sends the events again  *)
(* while the first request is still being served.                          *)
(*                                                                         *)
(* An event is its content: the collector hashes what the client sent, and *)
(* two events with one id and other bytes are two elements of Events that  *)
(* IdOf maps together (another client of the endpoint used the id before;  *)
(* the tracker mints a UUID per event).  Time is the server's; the         *)
(* device's clock may run ahead of it.                                     *)
(***************************************************************************)
EXTENDS Naturals, FiniteSets

CONSTANTS
    Events,     \* events a client may send
    Ids, IdOf,  \* event_id of each
    Earlier,    \* events another client of the endpoint has just had accepted
    Tabs,       \* pages of one visitor
    Device,     \* the place of the queue in localStorage
    Lacking,    \* which pages may be without localStorage
    Gone,       \* reader of a request whose page was closed, or of a beacon
    GaveUp,     \* reader of a request its page saw fail on the network
    Slots,      \* bound: requests under way at one time
    Horizon,    \* MAX_EVENT_AGE_MS and RETRY_TTL_MS, both 24 hours
    Ahead,      \* how far the device's clock may run ahead
    Latency,    \* from a batch's acceptedAt to the script's last execution
    DedupTTL,   \* INGEST_DEDUP_TTL_DAYS
    RetryMax,   \* RETRY_MAX_EVENTS
    MaxFaults   \* bound: failures in one behaviour

ASSUME IdsAssumption ==
    /\ IdOf \in [Events -> Ids]
    /\ Earlier \subseteq Events
    /\ \A e, f \in Earlier : IdOf[e] = IdOf[f] => e = f
ASSUME PlacesAssumption == Device \notin Tabs /\ Lacking \subseteq SUBSET Tabs
ASSUME ReadersAssumption == Gone \notin Tabs /\ GaveUp \notin Tabs /\ Gone # GaveUp
ASSUME TimesAssumption ==
    /\ Horizon \in Nat /\ Ahead \in Nat /\ Latency \in Nat /\ DedupTTL \in Nat
    /\ RetryMax \in Nat /\ MaxFaults \in Nat

\* The policy refuses a deduplication window that does not exceed the lateness
\* horizon.  A clock that runs ahead and a call that is slow add to what an
\* event may be late by, and must fit into the difference.
ASSUME WindowAssumption == DedupTTL > Horizon + Ahead + Latency

VARIABLES
    ahead,     \* the device's clock minus the server's
    unstored,  \* pages whose storage is memory that goes with the page
    minted,    \* the events minted so far
    age,       \* time since each was minted, as far as it matters
    page,      \* "closed", "open" or "left" (the latch of leave())
    buffer,    \* transport's buffer, one per page
    retry,     \* oa.retry: events, how long they have been queued and where
    req,       \* the requests under way
    dedup,     \* ingest_dedup records and the time each has left
    stored,    \* entries of each event XADDed to event_stream
    counted,   \* times an event was counted against the plan's window
    excused,   \* events given up for a stated reason
    faults

tracker == <<minted, age, page, buffer>>
vars == <<ahead, unstored, minted, age, page, buffer, retry, req, dedup, stored,
          counted, excused, faults>>

Readers == Tabs \union {Gone, GaveUp}
Stages == {"idle", "sent", "decided", "written", "answered"}
Replies == {"none", "ok", "filtered", "retry", "refused"}
Requests == [stage : Stages, batch : SUBSET Events, reader : Readers,
             wait : 0 .. Latency, fresh : SUBSET Events, reply : Replies]
Idle == [stage |-> "idle", batch |-> {}, reader |-> Gone, wait |-> 0,
         fresh |-> {}, reply |-> "none"]
NoRecord == [left |-> 0]
Records == [event : Events, left : 1 .. DedupTTL] \union {NoRecord}

\* Older than this an event is refused whatever the device's clock says.
Past == Horizon + Ahead + 1

\* Mutant: a record is written with a life longer than DEDUP_TTL_SECONDS.
Recorded_Longer(records, events) ==
    [i \in Ids |-> IF \E e \in events : IdOf[e] = i
                   THEN [event |-> CHOOSE e \in events : IdOf[e] = i, left |-> DedupTTL + 1]
                   ELSE records[i]]

\* What the script's second pass leaves of the records when it appends events.
Recorded(records, events) ==
    [i \in Ids |-> IF \E e \in events : IdOf[e] = i
                   THEN [event |-> CHOOSE e \in events : IdOf[e] = i, left |-> DedupTTL]
                   ELSE records[i]]

Init ==
    /\ ahead \in 0 .. Ahead
    /\ unstored \in Lacking
    /\ minted = Earlier
    /\ age = [e \in Events |-> 0]
    /\ page = [t \in Tabs |-> "closed"]
    /\ buffer = [t \in Tabs |-> {}]
    /\ retry = {}
    /\ req = [k \in Slots |-> Idle]
    /\ dedup = Recorded([i \in Ids |-> NoRecord], Earlier)
    /\ stored = [e \in Events |-> IF e \in Earlier THEN 1 ELSE 0]
    /\ counted = [e \in Events |-> 0]
    /\ excused = {}
    /\ faults = 0

Fault == faults < MaxFaults /\ faults' = faults + 1

-----------------------------------------------------------------------------
(* The tracker. *)

EventsIn(entries) == {x.event : x \in entries}

\* createTransport's storage: memoryStorage or safeStorage over localStorage.
QueueOf(t) == IF t \in unstored THEN t ELSE Device
In(q) == {x \in retry : x.at = q}
New(q, batch) == {[event |-> e, age |-> 0, at |-> q] : e \in batch}

\* live: what is still inside the retry TTL.
Live(entries) == {x \in entries : x.age < Horizon}

\* Past the cap the oldest are dropped.
Kept(pending) ==
    {kept \in SUBSET pending :
        /\ Cardinality(kept) =
             IF Cardinality(pending) < RetryMax THEN Cardinality(pending) ELSE RetryMax
        /\ \A k \in kept, d \in pending \ kept : d.age >= k.age}

\* createRetryQueue.push: the expired entries go and the new ones start at no
\* age.  When localStorage throws, the write is dropped and nobody is told: the
\* queue stays as it was and the batch is gone.
Push(t, batch) ==
    LET q == QueueOf(t) IN
    \/ \E kept \in Kept(Live(In(q)) \union New(q, batch)) :
        /\ retry' = (retry \ In(q)) \union kept
        /\ excused' = excused \union EventsIn((In(q) \union New(q, batch)) \ kept)
    \/ /\ q = Device
       /\ excused' = excused \union batch
       /\ UNCHANGED retry

\* What take finds: the queue, or nothing when localStorage throws for every
\* call, which leaves the queue where it is.
Takes(q) == {In(q)} \union {none \in {{}} : q = Device}

\* take empties the queue and returns what is live of it.
Take(taken) ==
    /\ retry' = retry \ taken
    /\ excused' = excused \union EventsIn(taken \ Live(taken))

\* Both contract limits split what is pending into batches.
Chunks(events) ==
    {chunks \in SUBSET ((SUBSET events) \ {{}}) :
        /\ UNION chunks = events
        /\ \A x, y \in chunks : x # y => x \cap y = {}}

Free == {k \in Slots : req[k].stage = "idle"}

\* post and sendBeacon: each batch becomes a request.
Send(chunks, reader) ==
    \E slot \in [chunks -> Free] :
        /\ \A x, y \in chunks : x # y => slot[x] # slot[y]
        /\ req' = [k \in Slots |->
                     IF \E x \in chunks : slot[x] = k
                     THEN [Idle EXCEPT !.stage = "sent", !.reader = reader,
                                       !.batch = CHOOSE x \in chunks : slot[x] = k]
                     ELSE req[k]]

\* transport.flush of page t, whose buffer holds events: what is in its retry
\* queue goes out with them.
Flush(t, events) ==
    \E taken \in Takes(QueueOf(t)) :
        /\ \E chunks \in Chunks(EventsIn(Live(taken)) \union events) : Send(chunks, t)
        /\ Take(taken)
        /\ buffer' = [buffer EXCEPT ![t] = {}]

\* start(): what an earlier page stranded goes out with this one.
Open(t) ==
    /\ page[t] = "closed"
    /\ page' = [page EXCEPT ![t] = "open"]
    /\ Flush(t, {})
    /\ UNCHANGED <<ahead, unstored, minted, age, dedup, stored, counted, faults>>

\* emit and transport.enqueue: the id is minted before the first attempt.  A
\* page view leaves at once, anything else waits in the buffer.
Emit(t, e) ==
    /\ page[t] # "closed"
    /\ e \notin minted
    /\ minted' = minted \union {e}
    /\ \/ Flush(t, buffer[t] \union {e})
       \/ /\ buffer' = [buffer EXCEPT ![t] = @ \union {e}]
          /\ UNCHANGED <<req, retry, excused>>
    /\ UNCHANGED <<ahead, unstored, age, page, dedup, stored, counted, faults>>

\* The batch delay has passed, or the site called oa.flush().
FlushTimer(t) ==
    /\ page[t] # "closed"
    /\ buffer[t] # {} \/ In(QueueOf(t)) # {}
    /\ Flush(t, buffer[t])
    /\ UNCHANGED <<ahead, unstored, minted, age, page, dedup, stored, counted, faults>>

\* The batches the browser refused to queue are pushed one by one onto the
\* queue the flush emptied; those in written reach it.
PushRefused(q, taken, refused, written) ==
    LET new == New(q, UNION written) IN
    \E kept \in Kept(new) :
        /\ retry' = (retry \ taken) \union kept
        /\ excused' = excused \union EventsIn((taken \ Live(taken)) \union (new \ kept))
                             \union (UNION (refused \ written))

\* leave(): the first hidden or pagehide flushes by beacon, whose answer nobody
\* reads; the latch keeps every later one from flushing.  A queue kept in memory
\* takes every write, and one that take could not reach takes none.
Leave(t) ==
    LET q == QueueOf(t) IN
    /\ page[t] = "open"
    /\ page' = [page EXCEPT ![t] = "left"]
    /\ \E taken \in Takes(q) :
         \E chunks \in Chunks(EventsIn(Live(taken)) \union buffer[t]) :
           \E refused \in SUBSET chunks :
             \E written \in SUBSET refused :
               /\ q = Device \/ written = refused
               /\ taken = In(q) \/ written = {}
               /\ Send(chunks \ refused, Gone)
               /\ PushRefused(q, taken, refused, written)
    /\ buffer' = [buffer EXCEPT ![t] = {}]
    /\ UNCHANGED <<ahead, unstored, minted, age, dedup, stored, counted, faults>>

\* The page is unloaded, or killed without having been hidden, and its memory
\* goes with it.  Its requests are sent with keepalive and go on; nothing reads
\* their answers.
Close(t) ==
    /\ page[t] # "closed"
    /\ IF page[t] = "left" THEN UNCHANGED faults ELSE Fault
    /\ page' = [page EXCEPT ![t] = "closed"]
    /\ buffer' = [buffer EXCEPT ![t] = {}]
    /\ retry' = retry \ In(t)
    /\ excused' = excused \union buffer[t] \union EventsIn(In(t))
    /\ req' = [k \in Slots |-> IF req[k].reader = t THEN [req[k] EXCEPT !.reader = Gone]
                               ELSE req[k]]
    /\ UNCHANGED <<ahead, unstored, minted, age, dedup, stored, counted>>

-----------------------------------------------------------------------------
(* The collector. *)

Answer(k, reply) ==
    req' = [req EXCEPT ![k] = [@ EXCEPT !.stage = "answered", !.reply = reply, !.wait = 0,
                                      !.fresh = {}]]

\* Mutant: the age is compared with the retry queue's stamp, which every
\* attempt renews, and so never refuses.
TooOld_Renewed(e) == FALSE

\* resolveEventTime: older than the horizon is refused; ahead of the server is
\* clamped and accepted.
TooOld(e) == age[e] > Horizon + ahead

\* parseBatch refuses a batch in which an id appears twice, the route one with an
\* event that is too old.
Malformed(batch) == \E e, f \in batch : e # f /\ IdOf[e] = IdOf[f]
Invalid(batch) == Malformed(batch) \/ \E e \in batch : TooOld(e)

Refuse(k) ==
    /\ req[k].stage = "sent"
    /\ Invalid(req[k].batch)
    /\ Answer(k, "refused")
    /\ UNCHANGED <<ahead, unstored, tracker, retry, dedup, stored, counted, excused, faults>>

\* The gate's final refusals: unknown or deleted site, foreign origin.
Forbid(k) ==
    /\ req[k].stage = "sent"
    /\ Fault
    /\ Answer(k, "refused")
    /\ UNCHANGED <<ahead, unstored, tracker, retry, dedup, stored, counted, excused>>

\* Bot traffic and GPC opt-outs get the success answer and are not collected.
\* The gate decides that before any event's time is looked at.
Filter(k) ==
    /\ req[k].stage = "sent"
    /\ Fault
    /\ ~Malformed(req[k].batch)
    /\ Answer(k, "filtered")
    /\ UNCHANGED <<ahead, unstored, tracker, retry, dedup, stored, counted, excused>>

\* The gate lets the batch pass and every event's time is decided.
Admit(k) ==
    /\ req[k].stage = "sent"
    /\ ~Invalid(req[k].batch)
    /\ req' = [req EXCEPT ![k] = [@ EXCEPT !.stage = "decided"]]
    /\ UNCHANGED <<ahead, unstored, tracker, retry, dedup, stored, counted, excused, faults>>

\* Mutant: the record is found by its id alone.
Conflicts_ByIdOnly(e) == FALSE

Remembered(i) == dedup[i].left > 0
Conflicts(e) == Remembered(IdOf[e]) /\ dedup[IdOf[e]].event # e
FreshIn(batch) == {e \in batch : ~Remembered(IdOf[e])}

AddToStream(events) ==
    /\ stored' = [e \in Events |-> stored[e] + (IF e \in events THEN 1 ELSE 0)]
    /\ dedup' = Recorded(dedup, events)

\* Mutant: one pass, which writes what comes before the conflicting event.
Conflict_OnePass(k) ==
    /\ \E before \in SUBSET FreshIn(req[k].batch) : AddToStream(before)
    /\ Answer(k, "refused")

\* The script's first pass: one conflict answers for the whole batch.
Conflict(k) ==
    /\ Answer(k, "refused")
    /\ UNCHANGED <<dedup, stored>>

\* Its second pass: an event whose record exists is a duplicate, any other is
\* appended to the stream together with its record.
Enqueue(k) ==
    LET fresh == FreshIn(req[k].batch) IN
    /\ AddToStream(fresh)
    /\ req' = [req EXCEPT ![k] = [@ EXCEPT !.stage = "written", !.fresh = fresh, !.wait = 0]]

RunScript(k) ==
    /\ req[k].stage = "decided"
    /\ IF \E e \in req[k].batch : Conflicts(e) THEN Conflict(k) ELSE Enqueue(k)
    /\ UNCHANGED <<ahead, unstored, tracker, retry, counted, excused, faults>>

\* The client's connection drops after the script ran: the client sends it
\* again when it is back.
RunScriptAgain(k) ==
    /\ req[k].stage = "decided"
    /\ Fault
    /\ ~\E e \in req[k].batch : Conflicts(e)
    /\ AddToStream(FreshIn(req[k].batch))
    /\ UNCHANGED <<ahead, unstored, tracker, retry, req, counted, excused>>

\* Mutant: every event of an accepted batch is counted, duplicates too.
NewlyBillable_All(k) == req[k].batch
NewlyBillable(k) == req[k].fresh

\* recordUsage, the live feed and the 202.  The first two may fail without the
\* request failing.
Accept(k) ==
    /\ req[k].stage = "written"
    /\ \/ /\ counted' = [e \in Events |->
                           counted[e] + (IF e \in NewlyBillable(k) THEN 1 ELSE 0)]
          /\ UNCHANGED faults
       \/ Fault /\ UNCHANGED counted
    /\ Answer(k, "ok")
    /\ UNCHANGED <<ahead, unstored, tracker, retry, dedup, stored, excused>>

\* Mutant: a failed write is answered like a success.
FailureReply_Ok == "ok"

FailureReply == "retry"

\* 429 from the limiter, 503 when the queue does not answer, any 5xx of a
\* collector that dies: before the script ran or after it.
Fail(k) ==
    /\ req[k].stage \in {"sent", "decided", "written"}
    /\ Fault
    /\ Answer(k, FailureReply)
    /\ UNCHANGED <<ahead, unstored, tracker, retry, dedup, stored, counted, excused>>

-----------------------------------------------------------------------------
(* The answers. *)

\* Mutant: only a network error is retried, an answered failure is final.
Requeue_OnlyNetwork(t, batch) == UNCHANGED <<retry, excused>>

Requeue(t, batch) == Push(t, batch)

\* post's fetch settles: a success is forgotten, 429 and 5xx are queued again,
\* any other status is final.
Settle(k) ==
    LET r == req[k] IN
    /\ r.stage = "answered"
    /\ r.reader \in Tabs
    /\ CASE r.reply = "ok" -> UNCHANGED <<retry, excused>>
         [] r.reply = "retry" -> Requeue(r.reader, r.batch)
         [] OTHER -> /\ excused' = excused \union r.batch
                     /\ UNCHANGED retry
    /\ req' = [req EXCEPT ![k] = Idle]
    /\ UNCHANGED <<ahead, unstored, tracker, dedup, stored, counted, faults>>

\* Nobody reads the answer: the page is gone, or has given the request up.
Unread(k) ==
    LET r == req[k] IN
    /\ r.stage = "answered"
    /\ r.reader \notin Tabs
    /\ excused' = IF r.reader = Gone /\ r.reply # "ok" THEN excused \union r.batch ELSE excused
    /\ req' = [req EXCEPT ![k] = Idle]
    /\ UNCHANGED <<ahead, unstored, tracker, retry, dedup, stored, counted, faults>>

\* fetch rejects: the request may not have arrived, or only its answer is lost.
NetworkError(k) ==
    /\ req[k].stage # "idle"
    /\ req[k].reader \in Tabs
    /\ Fault
    /\ Push(req[k].reader, req[k].batch)
    /\ req' = [req EXCEPT ![k] = [@ EXCEPT !.reader = GaveUp]]
    /\ UNCHANGED <<ahead, unstored, tracker, dedup, stored, counted>>

-----------------------------------------------------------------------------
\* One unit of time.  A decided batch reaches the script within Latency.
Tick ==
    /\ \A k \in Slots : req[k].stage = "decided" => req[k].wait < Latency
    /\ age' = [e \in Events |-> IF e \in minted /\ age[e] < Past THEN age[e] + 1 ELSE age[e]]
    /\ retry' = {[x EXCEPT !.age = IF @ < Horizon THEN @ + 1 ELSE @] : x \in retry}
    /\ req' = [k \in Slots |-> IF req[k].stage = "decided" THEN [req[k] EXCEPT !.wait = @ + 1]
                               ELSE req[k]]
    /\ dedup' = [i \in Ids |-> IF dedup[i].left > 1 THEN [dedup[i] EXCEPT !.left = @ - 1]
                               ELSE NoRecord]
    /\ UNCHANGED <<ahead, unstored, minted, page, buffer, stored, counted, excused, faults>>

Page(t) == Open(t) \/ FlushTimer(t) \/ Leave(t) \/ Close(t) \/ \E e \in Events : Emit(t, e)

Collector(k) ==
    \/ Refuse(k) \/ Forbid(k) \/ Filter(k) \/ Admit(k) \/ RunScript(k) \/ RunScriptAgain(k)
    \/ Accept(k) \/ Fail(k)

Answers(k) == Settle(k) \/ Unread(k) \/ NetworkError(k)

Next ==
    \/ \E t \in Tabs : Page(t)
    \/ \E k \in Slots : Collector(k) \/ Answers(k)
    \/ Tick

Spec == Init /\ [][Next]_vars

-----------------------------------------------------------------------------
(* Properties. *)

\* Every variable holds a value of its kind, and a request carries only events
\* that were minted.
TypeOK ==
    /\ ahead \in 0 .. Ahead /\ unstored \subseteq Tabs /\ faults \in Nat
    /\ minted \subseteq Events
    /\ age \in [Events -> 0 .. Past]
    /\ page \in [Tabs -> {"closed", "open", "left"}]
    /\ buffer \in [Tabs -> SUBSET Events]
    /\ retry \subseteq [event : Events, age : 0 .. Horizon, at : Tabs \union {Device}]
    /\ req \in [Slots -> Requests]
    /\ dedup \in [Ids -> Records]
    /\ stored \in [Events -> Nat]
    /\ counted \in [Events -> Nat]
    /\ excused \subseteq Events

\* An event is appended to the stream once, however often and from however many
\* pages it is sent, and however late an attempt is executed: when its
\* deduplication record has expired, no attempt of it can be accepted any more.
StoredOnce == \A e \in Events : stored[e] <= 1

\* A 202 that is not a bot's is never given for an event the stream does not
\* hold: not for a write that failed, nor for another event under the same id.
AcceptedIsStored ==
    \A k \in Slots : req[k].reply = "ok" => \A e \in req[k].batch : stored[e] >= 1

\* An event counts against the plan at most once, and only if it is stored: a
\* retry the script recognised, or one whose first answer was lost, adds nothing.
CountedWithinStored == \A e \in Events : counted[e] <= stored[e]

\* A batch the collector refuses leaves nothing in the stream.
RejectedWritesNothing ==
    [][(\E k \in Slots : req[k].reply # "refused" /\ req'[k].reply = "refused")
          => UNCHANGED <<stored, dedup>>]_vars

Waiting(e) ==
    \/ e \in EventsIn(retry)
    \/ \E t \in Tabs : e \in buffer[t]
    \/ \E k \in Slots : e \in req[k].batch /\ req[k].reader # GaveUp

\* An event is in the stream, on its way, in a buffer or a retry queue, or was
\* given up for one of the stated reasons: too old for its queue or beyond the
\* queue's cap, refused or filtered by the collector, a write localStorage threw
\* on, a page closed over its buffer, its memory queue or its requests.  What a
\* failed or lost request carried is queued again whenever the store takes it.
KeptWhilePageLives == \A e \in minted : stored[e] > 0 \/ Waiting(e) \/ e \in excused

=============================================================================
