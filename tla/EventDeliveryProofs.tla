------------------------ MODULE EventDeliveryProofs ------------------------
(***************************************************************************)
(* Proofs about EventDelivery, for any pages, events and limits: the safety *)
(* properties its run checks.                                              *)
(*                                                                         *)
(* An event is stored once because its record outlives every attempt that  *)
(* can still be accepted: from the moment it is written the record's life  *)
(* and the event's age add up to the deduplication window, and what is too *)
(* old for the window to cover is refused when its batch is decided.       *)
(***************************************************************************)
EXTENDS EventDelivery, TLAPS

\* Only minted events travel or are stored.
OnlyMinted ==
    /\ \A t \in Tabs : buffer[t] \subseteq minted
    /\ \A x \in retry : x.event \in minted
    /\ \A k \in Slots : req[k].batch \subseteq minted
    /\ \A e \in Events : stored[e] >= 1 => e \in minted

Has(e) == dedup[IdOf[e]].left > 0 /\ dedup[IdOf[e]].event = e

\* What a request's stage tells.
StageTells(k) ==
    /\ req[k].stage = "idle" => req[k].batch = {}
    /\ req[k].stage = "sent" => req[k].wait = 0
    /\ req[k].stage = "answered" => req[k].reply # "none"
    /\ req[k].stage = "decided" => ~Malformed(req[k].batch)
    /\ req[k].stage = "written" => \A e \in req[k].batch : stored[e] >= 1
    /\ req[k].reply = "ok" => \A e \in req[k].batch : stored[e] >= 1

\* A record is of an event that is stored; one that may still be accepted has its
\* record, and so has one whose batch was accepted, until the script runs.
RecordsTell ==
    \A i \in Ids : Remembered(i) => IdOf[dedup[i].event] = i /\ stored[dedup[i].event] >= 1
YoungIsKnown ==
    \A e \in Events : stored[e] >= 1 /\ age[e] < Past =>
        Has(e) /\ dedup[IdOf[e]].left + age[e] >= DedupTTL
DecidedIsKnown ==
    \A k \in Slots : req[k].stage = "decided" =>
        \A e \in req[k].batch : stored[e] >= 1 =>
            Has(e) /\ dedup[IdOf[e]].left + req[k].wait > Latency

\* What a request is about to count was not counted, and no other will count it.
Uncounted ==
    \A k \in Slots : req[k].stage = "written" =>
        \A e \in req[k].fresh :
            /\ counted[e] = 0 /\ stored[e] >= 1
            /\ \A l \in Slots : l # k /\ req[l].stage = "written" => e \notin req[l].fresh

SafeInv ==
    /\ \A k \in Slots : StageTells(k)
    /\ RecordsTell /\ YoungIsKnown /\ DecidedIsKnown /\ Uncounted
    /\ StoredOnce /\ CountedWithinStored

Entries == [event : Events, age : 0 .. Horizon, at : Tabs \union {Device}]

LEMMA Limits ==
    /\ Horizon \in Nat /\ Ahead \in Nat /\ Latency \in Nat /\ DedupTTL \in Nat
    /\ DedupTTL > Horizon + Ahead + Latency /\ DedupTTL > 0
    /\ Past \in Nat /\ Past = Horizon + Ahead + 1
    /\ IdOf \in [Events -> Ids]
    /\ Gone \notin Tabs /\ GaveUp \notin Tabs /\ Gone # GaveUp /\ Device \notin Tabs
    /\ Lacking \subseteq SUBSET Tabs
  BY PlacesAssumption, TimesAssumption, WindowAssumption, IdsAssumption, ReadersAssumption
  DEF PlacesAssumption, TimesAssumption, WindowAssumption, IdsAssumption, ReadersAssumption, Past

LEMMA RecordTyped ==
  ASSUME NEW r \in Records
  PROVE  r.left \in 0 .. DedupTTL /\ (r.left > 0 => r.event \in Events)
  BY Limits DEF Records, NoRecord

LEMMA IdleTyped == Idle \in Requests
  BY Limits DEF Idle, Requests, Stages, Replies, Readers

-----------------------------------------------------------------------------
(* The helpers of the tracker. *)

LEMMA QueueFacts ==
  ASSUME TypeOK, NEW t \in Tabs
  PROVE  /\ QueueOf(t) \in Tabs \union {Device}
         /\ In(QueueOf(t)) \subseteq retry
         /\ \A taken \in Takes(QueueOf(t)) : taken \subseteq In(QueueOf(t))
  BY DEF QueueOf, In, Takes

\* What a batch becomes in a queue.
LEMMA NewFacts ==
  ASSUME NEW q \in Tabs \union {Device}, NEW batch \in SUBSET Events
  PROVE  /\ New(q, batch) \subseteq Entries
         /\ \A x \in New(q, batch) : x.event \in batch
         /\ batch \subseteq EventsIn(New(q, batch))
<1>1. ASSUME NEW e \in batch
      PROVE  /\ [event |-> e, age |-> 0, at |-> q] \in Entries
             /\ [event |-> e, age |-> 0, at |-> q].event = e
  BY Limits DEF Entries
<1> QED
  BY <1>1 DEF New, EventsIn

\* What push leaves of a batch and the queue: nothing is lost unnoticed.
LEMMA PushFacts ==
  ASSUME TypeOK, NEW t \in Tabs, NEW batch \in SUBSET Events, Push(t, batch)
  PROVE  /\ retry' \subseteq Entries /\ excused' \subseteq Events
         /\ \A x \in retry' : x.event \in EventsIn(retry) \union batch
         /\ \A e \in EventsIn(retry) \union batch : e \in EventsIn(retry') \union excused'
         /\ excused \subseteq excused'
<1> DEFINE q == QueueOf(t)
           old == In(q)
           new == New(q, batch)
<1>1. /\ q \in Tabs \union {Device} /\ old \subseteq retry
      /\ retry \subseteq Entries /\ excused \subseteq Events
  BY QueueFacts DEF TypeOK, Entries
<1>2. new \subseteq Entries /\ (\A x \in new : x.event \in batch) /\ batch \subseteq EventsIn(new)
  BY <1>1, NewFacts
<1>3. CASE q = Device /\ excused' = excused \union batch /\ UNCHANGED retry
  <2>1. \A x \in retry : x.event \in EventsIn(retry)
    BY DEF EventsIn
  <2> QED
    BY <1>1, <1>3, <2>1
<1>4. ASSUME NEW kept \in Kept(Live(old) \union new),
             retry' = (retry \ old) \union kept,
             excused' = excused \union EventsIn((old \union new) \ kept)
      PROVE  /\ retry' \subseteq Entries /\ excused' \subseteq Events
             /\ \A x \in retry' : x.event \in EventsIn(retry) \union batch
             /\ \A e \in EventsIn(retry) \union batch : e \in EventsIn(retry') \union excused'
             /\ excused \subseteq excused'
  <2>1. kept \subseteq old \union new
    BY DEF Kept, Live
  <2> HIDE DEF q, old, new
  <2>2. retry' \subseteq retry \union new /\ retry \union new \subseteq Entries
    BY <1>1, <1>2, <1>4, <2>1
  <2>3. excused' \subseteq Events
    BY <1>1, <1>2, <1>4, <2>2 DEF EventsIn, Entries
  <2>4. \A x \in retry' : x.event \in EventsIn(retry) \union batch
    BY <1>2, <2>2 DEF EventsIn
  <2>5. retry \union new \subseteq retry' \union ((old \union new) \ kept)
    BY <1>4
  <2>6. EventsIn(retry) \union EventsIn(new) \subseteq EventsIn(retry') \union excused'
    BY <1>4, <2>5 DEF EventsIn
  <2> QED
    BY <1>2, <1>4, <2>2, <2>3, <2>4, <2>6
<1> QED
  BY <1>3, <1>4 DEF Push

\* What becomes of a slot a batch is sent from.
Sent(k, events, reader) ==
    /\ req[k].stage = "idle"
    /\ req'[k].stage = "sent" /\ req'[k].wait = 0 /\ req'[k].reply = "none"
    /\ req'[k].batch \subseteq events /\ req'[k].reader = reader

\* A batch is under way, and this reader waits for its answer.
Carried(batch, reader) == \E k \in Slots : req'[k].batch = batch /\ req'[k].reader = reader

LEMMA SendFacts ==
  ASSUME TypeOK, NEW events \in SUBSET Events, NEW chunks \in SUBSET (SUBSET events),
         NEW reader \in Readers, Send(chunks, reader)
  PROVE  /\ req' \in [Slots -> Requests]
         /\ \A k \in Slots : req'[k] = req[k] \/ Sent(k, events, reader)
         /\ \A x \in chunks : Carried(x, reader)
<1>1. PICK slot \in [chunks -> Free] :
        /\ \A x, y \in chunks : x # y => slot[x] # slot[y]
        /\ req' = [k \in Slots |->
                     IF \E x \in chunks : slot[x] = k
                     THEN [Idle EXCEPT !.stage = "sent", !.reader = reader,
                                       !.batch = CHOOSE x \in chunks : slot[x] = k]
                     ELSE req[k]]
  BY DEF Send
<1>2. ASSUME NEW x \in chunks
      PROVE  /\ slot[x] \in Slots /\ req[slot[x]].stage = "idle"
             /\ req'[slot[x]] = [Idle EXCEPT !.stage = "sent", !.reader = reader, !.batch = x]
  <2>1. slot[x] \in Free
    BY <1>1
  <2>2. slot[x] \in Slots /\ req[slot[x]].stage = "idle"
    BY <2>1 DEF Free
  <2>3. (CHOOSE y \in chunks : slot[y] = slot[x]) = x
    BY <1>1
  <2> QED
    BY <1>1, <2>2, <2>3
<1>3. ASSUME NEW k \in Slots, ~\E x \in chunks : slot[x] = k
      PROVE  req'[k] = req[k]
  BY <1>1, <1>3
<1>4. ASSUME NEW x \in chunks
      PROVE  [Idle EXCEPT !.stage = "sent", !.reader = reader, !.batch = x] \in Requests
  BY IdleTyped, Limits DEF Requests, Stages
<1>5. req \in [Slots -> Requests]
  BY DEF TypeOK
<1>6. req' \in [Slots -> Requests]
  <2>1. ASSUME NEW k \in Slots
        PROVE  req'[k] \in Requests
    <3>1. CASE \E x \in chunks : slot[x] = k
      <4>1. PICK x \in chunks : slot[x] = k
        BY <3>1
      <4>2. req'[slot[x]] \in Requests
        BY <1>2, <1>4
      <4> QED
        BY <4>1, <4>2
    <3>2. CASE ~\E x \in chunks : slot[x] = k
      BY <1>3, <1>5, <3>2
    <3> QED
      BY <3>1, <3>2
  <2>2. req' = [k \in Slots |-> req'[k]]
    BY <1>1, Zenon
  <2> QED
    BY <2>1, <2>2, Zenon
<1>7. ASSUME NEW x \in chunks
      PROVE  /\ req'[slot[x]].stage = "sent" /\ req'[slot[x]].wait = 0
             /\ req'[slot[x]].reply = "none" /\ req'[slot[x]].batch = x
             /\ req'[slot[x]].reader = reader
  BY <1>2 DEF Idle
<1>8. ASSUME NEW x \in chunks
      PROVE  Sent(slot[x], events, reader)
  BY <1>2, <1>7 DEF Sent
<1>9. \A k \in Slots : req'[k] = req[k] \/ Sent(k, events, reader)
  <2> SUFFICES ASSUME NEW k \in Slots, NEW x \in chunks, slot[x] = k
               PROVE  Sent(k, events, reader)
    BY <1>3
  <2> QED
    BY <1>8
<1>10. \A x \in chunks : Carried(x, reader)
  <2> SUFFICES ASSUME NEW x \in chunks
               PROVE  Carried(x, reader)
    OBVIOUS
  <2>1. slot[x] \in Slots
    BY <1>2
  <2>2. req'[slot[x]].batch = x /\ req'[slot[x]].reader = reader
    BY <1>7
  <2> QED
    BY <2>1, <2>2 DEF Carried
<1> QED
  BY <1>6, <1>9, <1>10

\* What take returns, leaves, and drops for its age.
LEMMA TakeFacts ==
  ASSUME TypeOK, NEW t \in Tabs, NEW taken \in Takes(QueueOf(t))
  PROVE  /\ taken \subseteq retry /\ taken \subseteq Entries /\ Live(taken) \subseteq taken
         /\ EventsIn(retry) \subseteq Events /\ EventsIn(taken) \subseteq EventsIn(retry)
         /\ EventsIn(Live(taken)) \subseteq EventsIn(retry)
         /\ EventsIn(taken \ Live(taken)) \subseteq Events
         /\ EventsIn(retry) \subseteq EventsIn(retry \ taken) \union EventsIn(Live(taken))
                                       \union EventsIn(taken \ Live(taken))
<1>1. taken \subseteq retry /\ retry \subseteq Entries /\ Live(taken) \subseteq taken
  BY QueueFacts DEF TypeOK, Entries, Live
<1> QED
  BY <1>1 DEF EventsIn, Entries

LEMMA FlushFacts ==
  ASSUME TypeOK, NEW t \in Tabs, NEW added \in SUBSET Events, Flush(t, added)
  PROVE  /\ req' \in [Slots -> Requests]
         /\ \A k \in Slots : req'[k] = req[k] \/ Sent(k, EventsIn(retry) \union added, t)
         /\ \A e \in EventsIn(retry) \union added :
              \/ e \in excused' \union EventsIn(retry')
              \/ \E k \in Slots : e \in req'[k].batch /\ req'[k].reader = t
         /\ buffer' = [buffer EXCEPT ![t] = {}] /\ retry' \subseteq retry
         /\ excused' \subseteq Events /\ excused \subseteq excused'
<1>1. PICK taken \in Takes(QueueOf(t)) :
        /\ \E chunks \in Chunks(EventsIn(Live(taken)) \union added) : Send(chunks, t)
        /\ Take(taken)
        /\ buffer' = [buffer EXCEPT ![t] = {}]
  BY DEF Flush
<1> DEFINE pending == EventsIn(Live(taken)) \union added
<1>2. PICK chunks \in Chunks(pending) : Send(chunks, t)
  BY <1>1
<1>3. chunks \in SUBSET (SUBSET pending) /\ UNION chunks = pending
  BY <1>2 DEF Chunks
<1>4. /\ EventsIn(Live(taken)) \subseteq EventsIn(retry) /\ EventsIn(retry) \subseteq Events
      /\ EventsIn(taken \ Live(taken)) \subseteq Events
      /\ EventsIn(retry) \subseteq EventsIn(retry \ taken) \union EventsIn(Live(taken))
                                    \union EventsIn(taken \ Live(taken))
  BY TakeFacts
<1>5. /\ retry' = retry \ taken
      /\ excused' = excused \union EventsIn(taken \ Live(taken))
      /\ excused \subseteq Events
  BY <1>1 DEF Take, TypeOK
<1>6. pending \in SUBSET Events
  BY <1>4
<1> HIDE DEF pending
<1>7. /\ req' \in [Slots -> Requests]
      /\ \A k \in Slots : req'[k] = req[k] \/ Sent(k, pending, t)
      /\ \A x \in chunks : Carried(x, t)
  <2>1. t \in Readers
    BY DEF Readers
  <2> QED
    BY <1>2, <1>3, <1>6, <2>1, SendFacts
<1>8. pending \subseteq EventsIn(retry) \union added
  BY <1>4 DEF pending
<1>9. \A k \in Slots : req'[k] = req[k] \/ Sent(k, EventsIn(retry) \union added, t)
  BY <1>7, <1>8 DEF Sent
<1>10. ASSUME NEW e \in EventsIn(retry) \union added
       PROVE  \/ e \in excused' \union EventsIn(retry')
              \/ \E k \in Slots : e \in req'[k].batch /\ req'[k].reader = t
  <2>1. e \in excused' \union EventsIn(retry') \/ e \in pending
    BY <1>4, <1>5 DEF pending
  <2>2. ASSUME e \in pending
        PROVE  \E k \in Slots : e \in req'[k].batch /\ req'[k].reader = t
    <3>1. PICK x \in chunks : e \in x
      BY <1>3, <2>2
    <3> QED
      BY <1>7, <3>1 DEF Carried
  <2> QED
    BY <2>1, <2>2
<1>11. buffer' = [buffer EXCEPT ![t] = {}]
  BY <1>1
<1>12. retry' \subseteq retry /\ excused' \subseteq Events /\ excused \subseteq excused'
  BY <1>4, <1>5
<1> QED
  BY <1>7, <1>9, <1>10, <1>11, <1>12

\* What the refused beacons leave: each of their events is back in the queue, or
\* was beyond its cap, or fell to a write that threw.
LEMMA RefusedFacts ==
  ASSUME TypeOK, NEW t \in Tabs, NEW taken \in Takes(QueueOf(t)),
         NEW events \in SUBSET Events, NEW refused \in SUBSET (SUBSET events),
         NEW written \in SUBSET refused,
         PushRefused(QueueOf(t), taken, refused, written)
  PROVE  /\ retry' \subseteq Entries /\ retry \ taken \subseteq retry'
         /\ \A x \in retry' : x.event \in EventsIn(retry) \union events
         /\ UNION refused \subseteq excused' \union EventsIn(retry')
         /\ EventsIn(taken \ Live(taken)) \subseteq excused'
         /\ excused' \subseteq Events /\ excused \subseteq excused'
<1> DEFINE new == New(QueueOf(t), UNION written)
<1>1. PICK kept \in Kept(new) :
        /\ retry' = (retry \ taken) \union kept
        /\ excused' = excused \union EventsIn((taken \ Live(taken)) \union (new \ kept))
                              \union (UNION (refused \ written))
  BY DEF PushRefused
<1>2. UNION written \subseteq events /\ UNION (refused \ written) \subseteq events
  OBVIOUS
<1>3. UNION refused \subseteq (UNION written) \union (UNION (refused \ written))
  OBVIOUS
<1>4. /\ new \subseteq Entries /\ (\A x \in new : x.event \in UNION written)
      /\ UNION written \subseteq EventsIn(new)
  BY <1>2, QueueFacts, NewFacts
<1>5. kept \subseteq new
  BY DEF Kept
<1>6. /\ retry \subseteq Entries /\ taken \subseteq Entries /\ excused \subseteq Events
      /\ EventsIn(retry) \subseteq Events
  BY TakeFacts DEF TypeOK, Entries
<1> HIDE DEF new
<1>7. retry' \subseteq Entries /\ retry \ taken \subseteq retry'
  BY <1>1, <1>4, <1>5, <1>6
<1>8. \A x \in retry' : x.event \in EventsIn(retry) \union events
  <2>1. \A x \in retry : x.event \in EventsIn(retry)
    BY DEF EventsIn
  <2> QED
    BY <1>1, <1>2, <1>4, <1>5, <2>1
<1>9. EventsIn((taken \ Live(taken)) \union (new \ kept)) \subseteq Events
  BY <1>4, <1>6 DEF EventsIn, Entries
<1>10. /\ EventsIn(taken \ Live(taken)) \subseteq excused'
       /\ EventsIn(new \ kept) \subseteq excused'
  BY <1>1 DEF EventsIn
<1>11. EventsIn(new) \subseteq EventsIn(kept) \union EventsIn(new \ kept)
  BY DEF EventsIn
<1>12. EventsIn(kept) \subseteq EventsIn(retry')
  BY <1>1 DEF EventsIn
<1>13. UNION refused \subseteq excused' \union EventsIn(retry')
  BY <1>1, <1>3, <1>4, <1>10, <1>11, <1>12
<1> QED
  BY <1>1, <1>2, <1>6, <1>7, <1>8, <1>9, <1>10, <1>13

LEMMA LeaveFacts ==
  ASSUME TypeOK, NEW t \in Tabs, Leave(t)
  PROVE  /\ req' \in [Slots -> Requests]
         /\ \A k \in Slots :
              req'[k] = req[k] \/ Sent(k, EventsIn(retry) \union buffer[t], Gone)
         /\ \A e \in EventsIn(retry) \union buffer[t] :
              \/ e \in excused' \union EventsIn(retry')
              \/ \E k \in Slots : e \in req'[k].batch /\ req'[k].reader = Gone
         /\ retry' \subseteq Entries
         /\ \A x \in retry' : x.event \in EventsIn(retry) \union buffer[t]
         /\ excused' \subseteq Events /\ excused \subseteq excused'
<1>1. PICK taken \in Takes(QueueOf(t)) :
        \E chunks \in Chunks(EventsIn(Live(taken)) \union buffer[t]) :
          \E refused \in SUBSET chunks :
            \E written \in SUBSET refused :
              /\ Send(chunks \ refused, Gone)
              /\ PushRefused(QueueOf(t), taken, refused, written)
  BY DEF Leave
<1> DEFINE pending == EventsIn(Live(taken)) \union buffer[t]
<1>2. PICK chunks \in Chunks(pending) :
        \E refused \in SUBSET chunks :
          \E written \in SUBSET refused :
            /\ Send(chunks \ refused, Gone)
            /\ PushRefused(QueueOf(t), taken, refused, written)
  BY <1>1
<1>3. PICK refused \in SUBSET chunks :
        \E written \in SUBSET refused :
          /\ Send(chunks \ refused, Gone)
          /\ PushRefused(QueueOf(t), taken, refused, written)
  BY <1>2
<1>4. PICK written \in SUBSET refused :
        /\ Send(chunks \ refused, Gone)
        /\ PushRefused(QueueOf(t), taken, refused, written)
  BY <1>3
<1>5. chunks \in SUBSET (SUBSET pending) /\ UNION chunks = pending
  BY <1>2 DEF Chunks
<1>6. /\ EventsIn(Live(taken)) \subseteq EventsIn(retry) /\ EventsIn(retry) \subseteq Events
      /\ EventsIn(retry) \subseteq EventsIn(retry \ taken) \union EventsIn(Live(taken))
                                    \union EventsIn(taken \ Live(taken))
      /\ buffer[t] \subseteq Events
  BY TakeFacts DEF TypeOK
<1>7. /\ pending \in SUBSET Events /\ pending \subseteq EventsIn(retry) \union buffer[t]
      /\ Gone \in Readers
  BY <1>6 DEF Readers
<1>8. EventsIn(retry) \union buffer[t]
        \subseteq EventsIn(retry \ taken) \union EventsIn(taken \ Live(taken)) \union pending
  BY <1>6
<1> HIDE DEF pending
<1>9. /\ retry' \subseteq Entries /\ retry \ taken \subseteq retry'
      /\ \A x \in retry' : x.event \in EventsIn(retry) \union pending
      /\ UNION refused \subseteq excused' \union EventsIn(retry')
      /\ EventsIn(taken \ Live(taken)) \subseteq excused'
      /\ excused' \subseteq Events /\ excused \subseteq excused'
  <2>1. refused \in SUBSET (SUBSET pending)
    BY <1>5
  <2> QED
    BY <1>4, <1>7, <2>1, RefusedFacts
<1>10. /\ req' \in [Slots -> Requests]
       /\ \A k \in Slots : req'[k] = req[k] \/ Sent(k, pending, Gone)
       /\ \A x \in chunks \ refused : Carried(x, Gone)
  <2>1. chunks \ refused \in SUBSET (SUBSET pending)
    BY <1>5
  <2> QED
    BY <1>4, <1>7, <2>1, SendFacts
<1>11. \A k \in Slots :
         req'[k] = req[k] \/ Sent(k, EventsIn(retry) \union buffer[t], Gone)
  BY <1>7, <1>10 DEF Sent
<1>12. EventsIn(retry \ taken) \subseteq EventsIn(retry')
  BY <1>9 DEF EventsIn
<1>13. ASSUME NEW e \in EventsIn(retry) \union buffer[t]
       PROVE  \/ e \in excused' \union EventsIn(retry')
              \/ \E k \in Slots : e \in req'[k].batch /\ req'[k].reader = Gone
  <2>1. CASE e \in EventsIn(retry \ taken) \union EventsIn(taken \ Live(taken))
    BY <1>9, <1>12, <2>1
  <2>2. CASE e \in pending
    <3>1. PICK x \in chunks : e \in x
      BY <1>5, <2>2
    <3>2. CASE x \in refused
      BY <1>9, <3>1, <3>2
    <3>3. CASE x \notin refused
      BY <1>10, <3>1, <3>3 DEF Carried
    <3> QED
      BY <3>2, <3>3
  <2> QED
    BY <1>8, <2>1, <2>2
<1>14. \A x \in retry' : x.event \in EventsIn(retry) \union buffer[t]
  BY <1>7, <1>9
<1> QED
  BY <1>9, <1>10, <1>11, <1>13, <1>14

\* The record of an answered request.
LEMMA AnswerFacts ==
  ASSUME TypeOK, NEW k \in Slots, NEW reply \in Replies, Answer(k, reply)
  PROVE  /\ req' \in [Slots -> Requests]
         /\ req'[k].stage = "answered" /\ req'[k].reply = reply /\ req'[k].wait = 0
         /\ req'[k].batch = req[k].batch /\ req'[k].fresh = {}
         /\ req'[k].reader = req[k].reader
         /\ \A l \in Slots : l # k => req'[l] = req[l]
<1>1. req \in [Slots -> Requests] /\ req[k] \in Requests
  BY DEF TypeOK
<1> DEFINE r == [req[k] EXCEPT !.stage = "answered", !.reply = reply, !.wait = 0, !.fresh = {}]
<1>2. req' = [req EXCEPT ![k] = r]
  BY <1>1 DEF Answer
<1>3. /\ r \in Requests /\ r.stage = "answered" /\ r.reply = reply /\ r.wait = 0
      /\ r.batch = req[k].batch /\ r.fresh = {} /\ r.reader = req[k].reader
  <2>1. 0 \in 0 .. Latency /\ "answered" \in Stages
    BY Limits DEF Stages
  <2>2. r \in Requests
    BY <1>1, <2>1 DEF Requests
  <2> QED
    BY <1>1, <2>2 DEF Requests
<1> HIDE DEF r
<1> QED
  BY <1>1, <1>2, <1>3

LEMMA SlotFacts ==
  ASSUME TypeOK, NEW k \in Slots, NEW r \in Requests, req' = [req EXCEPT ![k] = r]
  PROVE  /\ req' \in [Slots -> Requests] /\ req'[k] = r
         /\ \A l \in Slots : l # k => req'[l] = req[l]
  BY DEF TypeOK

\* The record of a request whose page saw a network error, or went away.
LEMMA ReaderTyped ==
  ASSUME NEW r \in Requests, NEW reader \in Readers
  PROVE  /\ [r EXCEPT !.reader = reader] \in Requests
         /\ [r EXCEPT !.reader = reader].reader = reader
         /\ [r EXCEPT !.reader = reader].stage = r.stage
         /\ [r EXCEPT !.reader = reader].batch = r.batch
         /\ [r EXCEPT !.reader = reader].wait = r.wait
         /\ [r EXCEPT !.reader = reader].fresh = r.fresh
         /\ [r EXCEPT !.reader = reader].reply = r.reply
  BY DEF Requests

\* The script's records.
LEMMA RecordedFacts ==
  ASSUME NEW records \in [Ids -> Records], NEW events \in SUBSET Events,
         \A e, f \in events : IdOf[e] = IdOf[f] => e = f
  PROVE  /\ Recorded(records, events) \in [Ids -> Records]
         /\ \A e \in events : /\ Recorded(records, events)[IdOf[e]].event = e
                              /\ Recorded(records, events)[IdOf[e]].left = DedupTTL
         /\ \A i \in Ids : (\A e \in events : IdOf[e] # i) =>
                              Recorded(records, events)[i] = records[i]
<1> DEFINE new == Recorded(records, events)
<1>1. ASSUME NEW e \in events
      PROVE  /\ new[IdOf[e]] = [event |-> e, left |-> DedupTTL]
             /\ IdOf[e] \in Ids
  <2>1. IdOf[e] \in Ids
    BY Limits
  <2>2. (CHOOSE f \in events : IdOf[f] = IdOf[e]) = e
    OBVIOUS
  <2> QED
    BY <2>1, <2>2 DEF Recorded
<1>2. ASSUME NEW i \in Ids, \A e \in events : IdOf[e] # i
      PROVE  new[i] = records[i]
  BY <1>2 DEF Recorded
<1>3. ASSUME NEW e \in events
      PROVE  [event |-> e, left |-> DedupTTL] \in Records
  BY Limits DEF Records
<1>4. ASSUME NEW i \in Ids
      PROVE  new[i] \in Records
  <2>1. CASE \E e \in events : IdOf[e] = i
    <3>1. PICK e \in events : IdOf[e] = i
      BY <2>1
    <3> QED
      BY <1>1, <1>3, <3>1
  <2>2. CASE \A e \in events : IdOf[e] # i
    BY <1>2, <2>2
  <2> QED
    BY <2>1, <2>2
<1>5. new = [i \in Ids |-> new[i]]
  BY DEF Recorded
<1>6. ASSUME NEW e \in events
      PROVE  new[IdOf[e]].event = e /\ new[IdOf[e]].left = DedupTTL
  <2> DEFINE r == [event |-> e, left |-> DedupTTL]
  <2>1. r.event = e /\ r.left = DedupTTL
    OBVIOUS
  <2>2. new[IdOf[e]] = r
    BY <1>1
  <2> HIDE DEF new, r
  <2> QED
    BY <2>1, <2>2
<1> HIDE DEF new
<1>7. new \in [Ids -> Records]
  BY <1>4, <1>5
<1> QED
  BY <1>2, <1>6, <1>7 DEF new

-----------------------------------------------------------------------------
(* Types, and what travels was minted. *)

Sound == TypeOK /\ OnlyMinted

LEMMA FlushSound ==
  ASSUME TypeOK, OnlyMinted, NEW t \in Tabs, minted \subseteq minted', minted' \subseteq Events,
         NEW added \in SUBSET minted', stored' = stored, Flush(t, added)
  PROVE  /\ req' \in [Slots -> Requests]
         /\ buffer' \in [Tabs -> SUBSET Events]
         /\ retry' \subseteq Entries
         /\ excused' \subseteq Events
         /\ OnlyMinted'
<1>1. added \in SUBSET Events
  OBVIOUS
<1>2. /\ req' \in [Slots -> Requests]
      /\ \A k \in Slots : req'[k] = req[k] \/ Sent(k, EventsIn(retry) \union added, t)
      /\ buffer' = [buffer EXCEPT ![t] = {}] /\ retry' \subseteq retry
      /\ excused' \subseteq Events
  BY <1>1, FlushFacts
<1>3. EventsIn(retry) \subseteq minted
  BY DEF OnlyMinted, EventsIn
<1>4. \A k \in Slots : req'[k].batch \subseteq minted'
  BY <1>2, <1>3 DEF Sent, OnlyMinted
<1>5. buffer' \in [Tabs -> SUBSET Events] /\ \A u \in Tabs : buffer'[u] \subseteq minted'
  BY <1>2 DEF TypeOK, OnlyMinted
<1>6. \A e \in Events : stored'[e] >= 1 => e \in minted'
  BY DEF OnlyMinted
<1>7. retry' \subseteq Entries /\ \A x \in retry' : x.event \in minted'
  BY <1>2 DEF TypeOK, Entries, OnlyMinted
<1> QED
  BY <1>2, <1>4, <1>5, <1>6, <1>7 DEF OnlyMinted

LEMMA OpenSound ==
  ASSUME Sound, NEW t \in Tabs, Open(t)
  PROVE  Sound'
<1>1. minted' = minted /\ stored' = stored /\ Flush(t, {})
  BY DEF Open
<1>2. minted' \subseteq Events /\ {} \in SUBSET minted'
  BY <1>1 DEF Sound, TypeOK
<1>3. /\ req' \in [Slots -> Requests]
      /\ buffer' \in [Tabs -> SUBSET Events]
      /\ retry' \subseteq Entries
      /\ excused' \subseteq Events
      /\ OnlyMinted'
  BY <1>1, <1>2, FlushSound DEF Sound
<1>4. TypeOK'
  BY <1>3 DEF Sound, TypeOK, Entries, Open
<1> QED
  BY <1>3, <1>4 DEF Sound

LEMMA FlushTimerSound ==
  ASSUME Sound, NEW t \in Tabs, FlushTimer(t)
  PROVE  Sound'
<1>1. minted' = minted /\ stored' = stored /\ Flush(t, buffer[t])
  BY DEF FlushTimer
<1>2. minted' \subseteq Events /\ buffer[t] \in SUBSET minted'
  BY <1>1 DEF Sound, TypeOK, OnlyMinted
<1>3. /\ req' \in [Slots -> Requests]
      /\ buffer' \in [Tabs -> SUBSET Events]
      /\ retry' \subseteq Entries
      /\ excused' \subseteq Events
      /\ OnlyMinted'
  BY <1>1, <1>2, FlushSound DEF Sound
<1>4. TypeOK'
  BY <1>3 DEF Sound, TypeOK, Entries, FlushTimer
<1> QED
  BY <1>3, <1>4 DEF Sound

LEMMA EmitSound ==
  ASSUME Sound, NEW t \in Tabs, NEW e \in Events, Emit(t, e)
  PROVE  Sound'
<1>1. minted' = minted \union {e} /\ stored' = stored
  BY DEF Emit
<1>2. minted' \subseteq Events /\ buffer[t] \union {e} \in SUBSET minted'
  BY <1>1 DEF Sound, TypeOK, OnlyMinted
<1>3. /\ req' \in [Slots -> Requests]
      /\ buffer' \in [Tabs -> SUBSET Events]
      /\ retry' \subseteq Entries
      /\ excused' \subseteq Events
      /\ OnlyMinted'
  <2>1. CASE Flush(t, buffer[t] \union {e})
    BY <1>1, <1>2, <2>1, FlushSound DEF Sound
  <2>2. CASE /\ buffer' = [buffer EXCEPT ![t] = @ \union {e}]
             /\ UNCHANGED <<req, retry, excused>>
    <3>1. buffer' \in [Tabs -> SUBSET Events] /\ \A u \in Tabs : buffer'[u] \subseteq minted'
      BY <1>1, <2>2 DEF Sound, TypeOK, OnlyMinted
    <3> QED
      BY <1>1, <2>2, <3>1 DEF Sound, TypeOK, Entries, OnlyMinted
  <2> QED
    BY <2>1, <2>2 DEF Emit
<1>4. TypeOK'
  BY <1>1, <1>2, <1>3 DEF Sound, TypeOK, Entries, Emit
<1> QED
  BY <1>3, <1>4 DEF Sound

LEMMA LeaveSound ==
  ASSUME Sound, NEW t \in Tabs, Leave(t)
  PROVE  Sound'
<1>1. /\ req' \in [Slots -> Requests]
      /\ \A k \in Slots : req'[k] = req[k] \/ Sent(k, EventsIn(retry) \union buffer[t], Gone)
      /\ retry' \subseteq Entries
      /\ \A x \in retry' : x.event \in EventsIn(retry) \union buffer[t]
      /\ excused' \subseteq Events
  BY LeaveFacts DEF Sound
<1>2. EventsIn(retry) \union buffer[t] \subseteq minted
  BY DEF Sound, OnlyMinted, EventsIn
<1>3. UNCHANGED <<ahead, unstored, minted, age, dedup, stored, counted, faults>>
      /\ buffer' = [buffer EXCEPT ![t] = {}] /\ page' = [page EXCEPT ![t] = "left"]
  BY DEF Leave
<1>4. buffer' \in [Tabs -> SUBSET Events] /\ \A u \in Tabs : buffer'[u] \subseteq minted'
  BY <1>3 DEF Sound, TypeOK, OnlyMinted
<1>5. \A k \in Slots : req'[k].batch \subseteq minted'
  BY <1>1, <1>2, <1>3 DEF Sent, Sound, OnlyMinted
<1>6. \A x \in retry' : x.event \in minted'
  BY <1>1, <1>2, <1>3
<1>7. OnlyMinted'
  BY <1>3, <1>4, <1>5, <1>6 DEF Sound, OnlyMinted
<1>8. TypeOK'
  BY <1>1, <1>3, <1>4 DEF Sound, TypeOK, Entries
<1> QED
  BY <1>7, <1>8 DEF Sound

\* What closing a page does to the requests.
LEMMA CloseFacts ==
  ASSUME TypeOK, NEW t \in Tabs, Close(t), NEW k \in Slots
  PROVE  /\ req' \in [Slots -> Requests]
         /\ req'[k] = req[k] \/ (req[k].reader = t /\ req'[k] = [req[k] EXCEPT !.reader = Gone])
<1>1. req \in [Slots -> Requests] /\ Gone \in Readers
  BY DEF TypeOK, Readers
<1>2. \A l \in Slots : [req[l] EXCEPT !.reader = Gone] \in Requests
  BY <1>1, ReaderTyped
<1>3. req' = [l \in Slots |-> IF req[l].reader = t THEN [req[l] EXCEPT !.reader = Gone]
                              ELSE req[l]]
  BY DEF Close
<1> QED
  BY <1>1, <1>2, <1>3

LEMMA CloseSound ==
  ASSUME Sound, NEW t \in Tabs, Close(t)
  PROVE  Sound'
<1>1. ASSUME NEW k \in Slots
      PROVE  req'[k].batch = req[k].batch
  <2>1. req[k] \in Requests /\ Gone \in Readers
    BY DEF Sound, TypeOK, Readers
  <2>2. [req[k] EXCEPT !.reader = Gone].batch = req[k].batch
    BY <2>1, ReaderTyped
  <2> QED
    BY <2>2, CloseFacts DEF Sound
<1>2. req' \in [Slots -> Requests]
  <2>1. CASE Slots = {}
    BY <2>1 DEF Close
  <2>2. CASE Slots # {}
    BY <2>2, CloseFacts DEF Sound
  <2> QED
    BY <2>1, <2>2
<1>3. /\ buffer' = [buffer EXCEPT ![t] = {}] /\ page' = [page EXCEPT ![t] = "closed"]
      /\ retry' = retry \ In(t)
      /\ excused' = excused \union buffer[t] \union EventsIn(In(t))
      /\ UNCHANGED <<ahead, unstored, minted, age, dedup, stored, counted>>
  BY DEF Close
<1>4. faults' \in Nat
  BY DEF Close, Fault, Sound, TypeOK
<1>5. buffer' \in [Tabs -> SUBSET Events] /\ \A u \in Tabs : buffer'[u] \subseteq minted'
  BY <1>3 DEF Sound, TypeOK, OnlyMinted
<1>6. OnlyMinted'
  BY <1>1, <1>3, <1>5 DEF Sound, OnlyMinted
<1>7. excused' \subseteq Events
  BY <1>3 DEF Sound, TypeOK, EventsIn, In
<1>8. TypeOK'
  BY <1>2, <1>3, <1>4, <1>5, <1>7 DEF Sound, TypeOK
<1> QED
  BY <1>6, <1>8 DEF Sound

\* An answer moves no event.
LEMMA AnswerSound ==
  ASSUME Sound, NEW k \in Slots, NEW reply \in Replies, Answer(k, reply),
         UNCHANGED <<ahead, unstored, tracker, retry, dedup, stored, excused>>,
         counted' \in [Events -> Nat], faults' \in Nat
  PROVE  Sound'
<1>1. /\ req' \in [Slots -> Requests]
      /\ \A l \in Slots : req'[l].batch = req[l].batch
  BY AnswerFacts DEF Sound
<1>2. TypeOK'
  BY <1>1 DEF Sound, TypeOK, tracker
<1>3. OnlyMinted'
  BY <1>1 DEF Sound, OnlyMinted, tracker
<1> QED
  BY <1>2, <1>3 DEF Sound

LEMMA ReplyKinds == {"none", "ok", "filtered", "retry", "refused"} \subseteq Replies
  BY DEF Replies

LEMMA AnsweringSound ==
  ASSUME Sound, NEW k \in Slots, Refuse(k) \/ Forbid(k) \/ Filter(k) \/ Fail(k)
  PROVE  Sound'
<1>1. UNCHANGED <<ahead, unstored, tracker, retry, dedup, stored, counted, excused>>
  BY DEF Refuse, Forbid, Filter, Fail
<1>2. counted' \in [Events -> Nat] /\ faults' \in Nat
  BY <1>1 DEF Sound, TypeOK, Refuse, Forbid, Filter, Fail, Fault
<1>3. Answer(k, "refused") \/ Answer(k, "filtered") \/ Answer(k, "retry")
  BY DEF Refuse, Forbid, Filter, Fail, FailureReply
<1> QED
  BY <1>1, <1>2, <1>3, ReplyKinds, AnswerSound

LEMMA AcceptSound ==
  ASSUME Sound, NEW k \in Slots, Accept(k)
  PROVE  Sound'
<1>1. UNCHANGED <<ahead, unstored, tracker, retry, dedup, stored, excused>> /\ Answer(k, "ok")
  BY DEF Accept
<1>2. counted' \in [Events -> Nat]
  <2>1. counted \in [Events -> Nat]
    BY DEF Sound, TypeOK
  <2>2. CASE counted' = [e \in Events |-> counted[e] + (IF e \in NewlyBillable(k) THEN 1 ELSE 0)]
    BY <2>1, <2>2
  <2>3. CASE counted' = counted
    BY <2>1, <2>3
  <2> QED
    BY <2>2, <2>3 DEF Accept
<1>3. faults' \in Nat
  BY DEF Accept, Fault, Sound, TypeOK
<1> QED
  BY <1>1, <1>2, <1>3, ReplyKinds, AnswerSound

\* The record of a request the gate let pass, and of one the script served.
LEMMA AdmitFacts ==
  ASSUME TypeOK, NEW k \in Slots, Admit(k)
  PROVE  /\ req' \in [Slots -> Requests]
         /\ req'[k].stage = "decided" /\ req'[k].batch = req[k].batch
         /\ req'[k].wait = req[k].wait /\ req'[k].fresh = req[k].fresh
         /\ req'[k].reply = req[k].reply /\ req'[k].reader = req[k].reader
         /\ \A l \in Slots : l # k => req'[l] = req[l]
<1> DEFINE r == [req[k] EXCEPT !.stage = "decided"]
<1>1. req[k] \in Requests /\ req \in [Slots -> Requests]
  BY DEF TypeOK
<1>2. r \in Requests
  BY <1>1 DEF Requests, Stages
<1>3. /\ r.stage = "decided" /\ r.batch = req[k].batch /\ r.wait = req[k].wait
      /\ r.fresh = req[k].fresh /\ r.reply = req[k].reply /\ r.reader = req[k].reader
  BY <1>1 DEF Requests
<1>4. req' = [req EXCEPT ![k] = r]
  BY DEF Admit
<1> HIDE DEF r
<1> QED
  BY <1>2, <1>3, <1>4, SlotFacts

LEMMA AdmitSound ==
  ASSUME Sound, NEW k \in Slots, Admit(k)
  PROVE  Sound'
<1>1. UNCHANGED <<ahead, unstored, tracker, retry, dedup, stored, counted, excused, faults>>
  BY DEF Admit
<1>2. req' \in [Slots -> Requests] /\ \A l \in Slots : req'[l].batch = req[l].batch
  BY AdmitFacts DEF Sound
<1>3. TypeOK'
  BY <1>1, <1>2 DEF Sound, TypeOK, tracker
<1>4. OnlyMinted'
  BY <1>1, <1>2 DEF Sound, OnlyMinted, tracker
<1> QED
  BY <1>3, <1>4 DEF Sound

LEMMA EnqueueFacts ==
  ASSUME TypeOK, NEW k \in Slots, Enqueue(k)
  PROVE  /\ req' \in [Slots -> Requests] /\ AddToStream(FreshIn(req[k].batch))
         /\ req'[k].stage = "written" /\ req'[k].batch = req[k].batch
         /\ req'[k].wait = 0 /\ req'[k].fresh = FreshIn(req[k].batch)
         /\ req'[k].reply = req[k].reply /\ req'[k].reader = req[k].reader
         /\ \A l \in Slots : l # k => req'[l] = req[l]
<1> DEFINE fresh == FreshIn(req[k].batch)
<1> DEFINE r == [req[k] EXCEPT !.stage = "written", !.fresh = fresh, !.wait = 0]
<1>1. req[k] \in Requests /\ req \in [Slots -> Requests]
  BY DEF TypeOK
<1>2. fresh \in SUBSET Events
  BY <1>1 DEF FreshIn, Requests
<1>3. AddToStream(fresh) /\ req' = [req EXCEPT ![k] = r]
  BY DEF Enqueue
<1> HIDE DEF fresh
<1>4. r \in Requests
  <2>1. 0 \in 0 .. Latency /\ "written" \in Stages
    BY Limits DEF Stages
  <2> QED
    BY <1>1, <1>2, <2>1 DEF Requests
<1>5. /\ r.stage = "written" /\ r.batch = req[k].batch /\ r.wait = 0
      /\ r.fresh = fresh /\ r.reply = req[k].reply /\ r.reader = req[k].reader
  BY <1>1 DEF Requests
<1> HIDE DEF r
<1> QED
  BY <1>3, <1>4, <1>5, SlotFacts DEF fresh

LEMMA RecordedTyped ==
  ASSUME NEW records \in [Ids -> Records], NEW events \in SUBSET Events
  PROVE  Recorded(records, events) \in [Ids -> Records]
<1>1. ASSUME NEW i \in Ids, NEW e \in Events
      PROVE  [event |-> e, left |-> DedupTTL] \in Records
  BY Limits DEF Records
<1>2. ASSUME NEW i \in Ids
      PROVE  (IF \E e \in events : IdOf[e] = i
              THEN [event |-> CHOOSE e \in events : IdOf[e] = i, left |-> DedupTTL]
              ELSE records[i]) \in Records
  <2>1. CASE \E e \in events : IdOf[e] = i
    <3>1. (CHOOSE e \in events : IdOf[e] = i) \in Events
      BY <2>1
    <3> QED
      BY <1>1, <2>1, <3>1
  <2>2. CASE ~\E e \in events : IdOf[e] = i
    BY <2>2
  <2> QED
    BY <2>1, <2>2
<1> QED
  BY <1>2 DEF Recorded

\* The stream after an append.
LEMMA AppendFacts ==
  ASSUME TypeOK, NEW events \in SUBSET Events, AddToStream(events)
  PROVE  /\ stored' \in [Events -> Nat] /\ dedup' \in [Ids -> Records]
         /\ \A e \in Events : stored'[e] >= stored[e]
         /\ \A e \in events : stored'[e] = stored[e] + 1
         /\ \A e \in Events \ events : stored'[e] = stored[e]
<1>1. stored \in [Events -> Nat] /\ dedup \in [Ids -> Records]
  BY DEF TypeOK
<1>2. dedup' \in [Ids -> Records]
  BY <1>1, RecordedTyped DEF AddToStream
<1> QED
  BY <1>1, <1>2 DEF AddToStream

LEMMA AppendSound ==
  ASSUME Sound, NEW k \in Slots, AddToStream(FreshIn(req[k].batch)),
         req' \in [Slots -> Requests], \A l \in Slots : req'[l].batch = req[l].batch,
         UNCHANGED <<ahead, unstored, tracker, retry, counted, excused>>, faults' \in Nat
  PROVE  Sound'
<1>1. FreshIn(req[k].batch) \in SUBSET Events /\ FreshIn(req[k].batch) \subseteq minted
  BY DEF Sound, TypeOK, OnlyMinted, FreshIn
<1>2. TypeOK'
  BY <1>1, AppendFacts DEF Sound, TypeOK, tracker
<1>3. \A e \in Events : stored'[e] >= 1 => e \in minted
  <2>1. ASSUME NEW e \in Events, stored'[e] >= 1, e \notin FreshIn(req[k].batch)
        PROVE  e \in minted
    <3>1. stored'[e] = stored[e]
      BY <1>1, <2>1, AppendFacts DEF Sound
    <3> QED
      BY <2>1, <3>1 DEF Sound, OnlyMinted
  <2> QED
    BY <1>1, <2>1
<1>4. OnlyMinted'
  BY <1>3 DEF Sound, OnlyMinted, tracker
<1> QED
  BY <1>2, <1>4 DEF Sound

LEMMA ScriptSound ==
  ASSUME Sound, NEW k \in Slots, RunScript(k) \/ RunScriptAgain(k)
  PROVE  Sound'
<1>1. UNCHANGED <<ahead, unstored, tracker, retry, counted, excused>>
  BY DEF RunScript, RunScriptAgain
<1>2. faults' \in Nat
  BY DEF RunScript, RunScriptAgain, Fault, Sound, TypeOK
<1>3. CASE RunScript(k) /\ Conflict(k)
  <2>1. counted' \in [Events -> Nat]
    BY <1>1 DEF Sound, TypeOK
  <2>2. Answer(k, "refused") /\ UNCHANGED <<dedup, stored>>
    BY <1>3 DEF Conflict
  <2> QED
    BY <1>1, <1>2, <2>1, <2>2, ReplyKinds, AnswerSound
<1>4. CASE RunScript(k) /\ Enqueue(k)
  <2>1. /\ AddToStream(FreshIn(req[k].batch)) /\ req' \in [Slots -> Requests]
        /\ \A l \in Slots : req'[l].batch = req[l].batch
    BY <1>4, EnqueueFacts DEF Sound
  <2> QED
    BY <1>1, <1>2, <2>1, AppendSound
<1>5. CASE RunScriptAgain(k)
  <2>1. AddToStream(FreshIn(req[k].batch)) /\ req' = req
    BY <1>5 DEF RunScriptAgain
  <2>2. req' \in [Slots -> Requests]
    BY <2>1 DEF Sound, TypeOK
  <2> QED
    BY <1>1, <1>2, <2>1, <2>2, AppendSound
<1> QED
  BY <1>3, <1>4, <1>5 DEF RunScript

LEMMA SettleSound ==
  ASSUME Sound, NEW k \in Slots, Settle(k)
  PROVE  Sound'
<1>1. UNCHANGED <<ahead, unstored, tracker, dedup, stored, counted, faults>>
      /\ req' = [req EXCEPT ![k] = Idle]
  BY DEF Settle
<1>2. /\ req' \in [Slots -> Requests] /\ req'[k] = Idle
      /\ \A l \in Slots : l # k => req'[l] = req[l]
  BY <1>1, IdleTyped, SlotFacts DEF Sound
<1>3. req[k].batch \in SUBSET Events /\ req[k].batch \subseteq minted
  BY DEF Sound, TypeOK, OnlyMinted, Requests
<1>4. /\ retry' \subseteq Entries /\ excused' \subseteq Events
      /\ \A x \in retry' : x.event \in minted
  <2>1. CASE Push(req[k].reader, req[k].batch)
    <3>1. EventsIn(retry) \subseteq minted
      BY DEF Sound, OnlyMinted, EventsIn
    <3> QED
      BY <1>3, <2>1, <3>1, PushFacts DEF Sound, Settle
  <2>2. CASE retry' = retry /\ excused' \in {excused, excused \union req[k].batch}
    BY <1>3, <2>2 DEF Sound, TypeOK, Entries, OnlyMinted
  <2> QED
    BY <2>1, <2>2 DEF Settle, Requeue
<1>5. \A l \in Slots : req'[l].batch \subseteq minted
  BY <1>2 DEF Sound, OnlyMinted, Idle
<1>6. TypeOK'
  BY <1>1, <1>2, <1>4 DEF Sound, TypeOK, Entries, tracker
<1>7. OnlyMinted'
  BY <1>1, <1>4, <1>5 DEF Sound, OnlyMinted, tracker
<1> QED
  BY <1>6, <1>7 DEF Sound

LEMMA UnreadSound ==
  ASSUME Sound, NEW k \in Slots, Unread(k)
  PROVE  Sound'
<1>1. UNCHANGED <<ahead, unstored, tracker, retry, dedup, stored, counted, faults>>
      /\ req' = [req EXCEPT ![k] = Idle]
  BY DEF Unread
<1>2. /\ req' \in [Slots -> Requests] /\ req'[k] = Idle
      /\ \A l \in Slots : l # k => req'[l] = req[l]
  BY <1>1, IdleTyped, SlotFacts DEF Sound
<1>3. req[k].batch \in SUBSET Events
  BY DEF Sound, TypeOK, Requests
<1>4. excused' \subseteq Events
  BY <1>3 DEF Unread, Sound, TypeOK
<1>5. \A l \in Slots : req'[l].batch \subseteq minted
  BY <1>2 DEF Sound, OnlyMinted, Idle
<1>6. TypeOK'
  BY <1>1, <1>2, <1>4 DEF Sound, TypeOK, tracker
<1>7. OnlyMinted'
  BY <1>1, <1>5 DEF Sound, OnlyMinted, tracker
<1> QED
  BY <1>6, <1>7 DEF Sound

LEMMA ErrorFacts ==
  ASSUME TypeOK, NEW k \in Slots, NetworkError(k)
  PROVE  /\ req' \in [Slots -> Requests]
         /\ req'[k] = [req[k] EXCEPT !.reader = GaveUp]
         /\ \A l \in Slots : l # k => req'[l] = req[l]
<1> DEFINE r == [req[k] EXCEPT !.reader = GaveUp]
<1>1. req[k] \in Requests /\ GaveUp \in Readers
  BY DEF TypeOK, Readers
<1>2. r \in Requests
  BY <1>1, ReaderTyped
<1>3. req' = [req EXCEPT ![k] = r]
  BY DEF NetworkError
<1> HIDE DEF r
<1>4. /\ req' \in [Slots -> Requests] /\ req'[k] = r
      /\ \A l \in Slots : l # k => req'[l] = req[l]
  BY <1>2, <1>3, SlotFacts
<1> QED
  BY <1>4 DEF r

LEMMA NetworkErrorSound ==
  ASSUME Sound, NEW k \in Slots, NetworkError(k)
  PROVE  Sound'
<1>1. UNCHANGED <<ahead, unstored, tracker, dedup, stored, counted>>
      /\ faults' \in Nat /\ req[k].reader \in Tabs /\ Push(req[k].reader, req[k].batch)
  BY DEF NetworkError, Fault, Sound, TypeOK
<1>2. req[k] \in Requests /\ GaveUp \in Readers
  BY DEF Sound, TypeOK, Readers
<1>3. req[k].batch \in SUBSET Events /\ req[k].batch \subseteq minted
  BY <1>2 DEF Sound, OnlyMinted, Requests
<1>4. req' \in [Slots -> Requests] /\ \A l \in Slots : req'[l].batch = req[l].batch
  <2>1. [req[k] EXCEPT !.reader = GaveUp].batch = req[k].batch
    BY <1>2, ReaderTyped
  <2> QED
    BY <2>1, ErrorFacts DEF Sound
<1>5. /\ retry' \subseteq Entries /\ excused' \subseteq Events
      /\ \A x \in retry' : x.event \in minted
  <2>1. EventsIn(retry) \subseteq minted
    BY DEF Sound, OnlyMinted, EventsIn
  <2> QED
    BY <1>1, <1>3, <2>1, PushFacts DEF Sound
<1>6. TypeOK'
  BY <1>1, <1>4, <1>5 DEF Sound, TypeOK, Entries, tracker
<1>7. OnlyMinted'
  BY <1>1, <1>4, <1>5 DEF Sound, OnlyMinted, tracker
<1> QED
  BY <1>6, <1>7 DEF Sound

\* What a unit of time does.
LEMMA TickRecord ==
  ASSUME NEW r \in Records
  PROVE  /\ (IF r.left > 1 THEN [r EXCEPT !.left = @ - 1] ELSE NoRecord) \in Records
         /\ (IF r.left > 1 THEN [r EXCEPT !.left = @ - 1] ELSE NoRecord).left =
              IF r.left > 1 THEN r.left - 1 ELSE 0
         /\ r.left > 1 =>
              (IF r.left > 1 THEN [r EXCEPT !.left = @ - 1] ELSE NoRecord).event = r.event
<1>1. r.left \in 0 .. DedupTTL
  BY RecordTyped
<1>2. CASE r.left > 1
  <2>1. r \in [event : Events, left : 1 .. DedupTTL]
    BY <1>2 DEF Records, NoRecord
  <2> DEFINE n == [r EXCEPT !.left = @ - 1]
  <2>2. n.left = r.left - 1 /\ n.event = r.event
    BY <2>1
  <2>3. r.left - 1 \in 1 .. DedupTTL
    BY <1>1, <1>2, Limits
  <2>4. n \in [event : Events, left : 1 .. DedupTTL]
    BY <2>1, <2>3
  <2> HIDE DEF n
  <2>5. n \in Records
    BY <2>4 DEF Records
  <2> QED
    BY <1>2, <2>2, <2>5 DEF n
<1>3. CASE ~(r.left > 1)
  BY <1>3 DEF Records, NoRecord
<1> QED
  BY <1>2, <1>3

LEMMA TickRequest ==
  ASSUME NEW r \in Requests, r.wait < Latency
  PROVE  /\ [r EXCEPT !.wait = @ + 1] \in Requests
         /\ [r EXCEPT !.wait = @ + 1].wait = r.wait + 1
         /\ [r EXCEPT !.wait = @ + 1].reader = r.reader
         /\ [r EXCEPT !.wait = @ + 1].stage = r.stage
         /\ [r EXCEPT !.wait = @ + 1].batch = r.batch
         /\ [r EXCEPT !.wait = @ + 1].fresh = r.fresh
         /\ [r EXCEPT !.wait = @ + 1].reply = r.reply
<1>1. r.wait + 1 \in 0 .. Latency
  BY Limits DEF Requests
<1> QED
  BY <1>1 DEF Requests

LEMMA TickFacts ==
  ASSUME TypeOK, Tick
  PROVE  /\ req' \in [Slots -> Requests] /\ dedup' \in [Ids -> Records]
         /\ age' \in [Events -> 0 .. Past]
         /\ retry' \subseteq Entries
         /\ EventsIn(retry') = EventsIn(retry)
         /\ \A e \in Events : /\ age[e] = Past => age'[e] = Past
                              /\ age[e] < Past /\ e \in minted => age'[e] = age[e] + 1
         /\ \A i \in Ids :
              /\ dedup'[i].left = IF dedup[i].left > 1 THEN dedup[i].left - 1 ELSE 0
              /\ dedup[i].left > 1 => dedup'[i].event = dedup[i].event
         /\ \A k \in Slots :
              /\ req'[k].stage = req[k].stage /\ req'[k].batch = req[k].batch
              /\ req'[k].fresh = req[k].fresh /\ req'[k].reply = req[k].reply
              /\ req'[k].reader = req[k].reader
              /\ req[k].stage # "decided" => req'[k] = req[k]
              /\ req[k].stage = "decided" =>
                   req[k].wait < Latency /\ req'[k].wait = req[k].wait + 1
<1>1. /\ req \in [Slots -> Requests] /\ dedup \in [Ids -> Records]
      /\ age \in [Events -> 0 .. Past] /\ retry \subseteq Entries
  BY DEF TypeOK, Entries
<1>2. \A k \in Slots : req[k].stage = "decided" => req[k].wait < Latency
  BY DEF Tick
<1>3. ASSUME NEW k \in Slots
      PROVE  /\ req'[k] \in Requests
             /\ req'[k].stage = req[k].stage /\ req'[k].batch = req[k].batch
             /\ req'[k].fresh = req[k].fresh /\ req'[k].reply = req[k].reply
             /\ req'[k].reader = req[k].reader
             /\ req[k].stage # "decided" => req'[k] = req[k]
             /\ req[k].stage = "decided" => req'[k].wait = req[k].wait + 1
  <2>1. CASE req[k].stage = "decided"
    <3>1. req'[k] = [req[k] EXCEPT !.wait = @ + 1]
      BY <2>1 DEF Tick
    <3> QED
      BY <1>1, <1>2, <2>1, <3>1, TickRequest
  <2>2. CASE req[k].stage # "decided"
    <3>1. req'[k] = req[k]
      BY <2>2 DEF Tick
    <3> QED
      BY <1>1, <2>2, <3>1
  <2> QED
    BY <2>1, <2>2
<1>4. req' \in [Slots -> Requests]
  <2>1. req' = [k \in Slots |-> req'[k]]
    BY DEF Tick
  <2> QED
    BY <1>3, <2>1
<1>5. ASSUME NEW i \in Ids
      PROVE  /\ dedup'[i] \in Records
             /\ dedup'[i].left = IF dedup[i].left > 1 THEN dedup[i].left - 1 ELSE 0
             /\ dedup[i].left > 1 => dedup'[i].event = dedup[i].event
  <2>1. dedup'[i] = IF dedup[i].left > 1 THEN [dedup[i] EXCEPT !.left = @ - 1] ELSE NoRecord
    BY DEF Tick
  <2> QED
    BY <1>1, <2>1, TickRecord
<1>6. dedup' \in [Ids -> Records]
  <2>1. dedup' = [i \in Ids |-> dedup'[i]]
    BY DEF Tick
  <2> QED
    BY <1>5, <2>1
<1>7. ASSUME NEW e \in Events
      PROVE  /\ age'[e] \in 0 .. Past
             /\ age[e] = Past => age'[e] = Past
             /\ age[e] < Past /\ e \in minted => age'[e] = age[e] + 1
  <2>1. age'[e] = IF e \in minted /\ age[e] < Past THEN age[e] + 1 ELSE age[e]
    BY DEF Tick
  <2> QED
    BY <1>1, <2>1, Limits
<1>8. age' \in [Events -> 0 .. Past]
  <2>1. age' = [e \in Events |-> age'[e]]
    BY DEF Tick
  <2> QED
    BY <1>7, <2>1
<1> DEFINE older(x) == [x EXCEPT !.age = IF @ < Horizon THEN @ + 1 ELSE @]
<1>9. ASSUME NEW x \in retry
      PROVE  older(x) \in Entries /\ older(x).event = x.event
  <2>1. x \in Entries
    BY <1>1
  <2>2. (IF x.age < Horizon THEN x.age + 1 ELSE x.age) \in 0 .. Horizon
    BY <2>1, Limits DEF Entries
  <2> QED
    BY <2>1, <2>2 DEF Entries
<1>10. retry' = {older(x) : x \in retry}
  BY DEF Tick
<1> HIDE DEF older
<1>11. EventsIn(retry') = EventsIn(retry)
  BY <1>9, <1>10 DEF EventsIn
<1>12. retry' \subseteq Entries
  BY <1>9, <1>10
<1> QED
  BY <1>2, <1>3, <1>4, <1>5, <1>6, <1>7, <1>8, <1>11, <1>12

LEMMA TickSound ==
  ASSUME Sound, Tick
  PROVE  Sound'
<1>1. UNCHANGED <<ahead, unstored, minted, page, buffer, stored, counted, excused, faults>>
  BY DEF Tick
<1>2. /\ req' \in [Slots -> Requests] /\ dedup' \in [Ids -> Records]
      /\ age' \in [Events -> 0 .. Past]
      /\ retry' \subseteq Entries
      /\ EventsIn(retry') = EventsIn(retry)
      /\ \A k \in Slots : req'[k].batch = req[k].batch
  BY TickFacts DEF Sound
<1>3. \A x \in retry' : x.event \in minted
  <2>1. \A x \in retry' : x.event \in EventsIn(retry)
    BY <1>2 DEF EventsIn
  <2>2. EventsIn(retry) \subseteq minted
    BY DEF Sound, OnlyMinted, EventsIn
  <2> QED
    BY <2>1, <2>2
<1>4. TypeOK'
  BY <1>1, <1>2 DEF Sound, TypeOK, Entries
<1>5. OnlyMinted'
  BY <1>1, <1>2, <1>3 DEF Sound, OnlyMinted
<1> QED
  BY <1>4, <1>5 DEF Sound

LEMMA InitSound == Init => Sound
<1> SUFFICES ASSUME Init PROVE Sound
  OBVIOUS
<1>1. /\ minted = Earlier /\ minted \subseteq Events
      /\ stored = [e \in Events |-> IF e \in Earlier THEN 1 ELSE 0]
      /\ stored \in [Events -> Nat]
  BY IdsAssumption DEF Init, IdsAssumption
<1>2. dedup \in [Ids -> Records]
  <2>1. [i \in Ids |-> NoRecord] \in [Ids -> Records]
    BY DEF Records
  <2> QED
    BY <1>1, <2>1, RecordedTyped DEF Init
<1>3. /\ age \in [Events -> 0 .. Past] /\ counted \in [Events -> Nat]
      /\ ahead \in 0 .. Ahead /\ unstored \subseteq Tabs /\ faults \in Nat
  BY Limits DEF Init
<1>4. /\ buffer = [t \in Tabs |-> {}] /\ retry = {} /\ req = [k \in Slots |-> Idle]
      /\ excused = {} /\ page = [t \in Tabs |-> "closed"]
  BY DEF Init
<1>5. req \in [Slots -> Requests] /\ \A k \in Slots : req[k].batch = {}
  BY <1>4, IdleTyped DEF Idle
<1>6. TypeOK
  BY <1>1, <1>2, <1>3, <1>4, <1>5 DEF TypeOK
<1>7. OnlyMinted
  BY <1>1, <1>4, <1>5 DEF OnlyMinted
<1> QED
  BY <1>6, <1>7 DEF Sound

LEMMA StepSound == Sound /\ [Next]_vars => Sound'
<1> SUFFICES ASSUME Sound, [Next]_vars PROVE Sound'
  OBVIOUS
<1>1. ASSUME NEW t \in Tabs, Page(t) PROVE Sound'
  BY <1>1, OpenSound, FlushTimerSound, LeaveSound, CloseSound, EmitSound DEF Page
<1>2. ASSUME NEW k \in Slots, Collector(k) PROVE Sound'
  BY <1>2, AnsweringSound, AdmitSound, ScriptSound, AcceptSound DEF Collector
<1>3. ASSUME NEW k \in Slots, Answers(k) PROVE Sound'
  BY <1>3, SettleSound, UnreadSound, NetworkErrorSound DEF Answers
<1>4. CASE Tick
  BY <1>4, TickSound
<1>5. CASE UNCHANGED vars
  BY <1>5 DEF vars, Sound, TypeOK, OnlyMinted
<1> QED
  BY <1>1, <1>2, <1>3, <1>4, <1>5 DEF Next

\* Every variable keeps its kind, and what travels or is stored was minted.
THEOREM TypeCorrect == Spec => []TypeOK
<1>1. Sound => TypeOK
  BY DEF Sound
<1> QED
  BY <1>1, InitSound, StepSound, PTL DEF Spec

-----------------------------------------------------------------------------
(* Stored once, counted within what is stored. *)

\* What most actions do to a slot: nothing the invariant looks at, a new request,
\* a reply that is not a success, or its end.
QuietSlot(k) ==
    \/ /\ req'[k].stage = req[k].stage /\ req'[k].batch = req[k].batch
       /\ req'[k].wait = req[k].wait /\ req'[k].fresh = req[k].fresh
       /\ req'[k].reply = req[k].reply
    \/ req'[k].stage = "sent" /\ req'[k].wait = 0 /\ req'[k].reply = "none"
    \/ req'[k].stage = "answered" /\ req'[k].reply \in {"filtered", "retry", "refused"}
    \/ req'[k] = Idle
Quiet == UNCHANGED <<age, dedup, stored, counted>> /\ \A k \in Slots : QuietSlot(k)

LEMMA QuietKept ==
  ASSUME SafeInv, Quiet
  PROVE  SafeInv'
<1>1. age' = age /\ dedup' = dedup /\ stored' = stored /\ counted' = counted
  BY DEF Quiet
<1>2. ASSUME NEW k \in Slots, req'[k].stage \in {"decided", "written"}
      PROVE  /\ req'[k].stage = req[k].stage /\ req'[k].batch = req[k].batch
             /\ req'[k].wait = req[k].wait /\ req'[k].fresh = req[k].fresh
  BY <1>2 DEF Quiet, QuietSlot, Idle
<1>3. ASSUME NEW k \in Slots
      PROVE  StageTells(k)'
  <2>1. StageTells(k) /\ QuietSlot(k)
    BY DEF SafeInv, Quiet
  <2>2. CASE /\ req'[k].stage = req[k].stage /\ req'[k].batch = req[k].batch
             /\ req'[k].wait = req[k].wait /\ req'[k].reply = req[k].reply
    BY <1>1, <2>1, <2>2 DEF StageTells, Malformed
  <2>3. CASE req'[k].stage = "sent" /\ req'[k].wait = 0 /\ req'[k].reply = "none"
    BY <2>3 DEF StageTells
  <2>4. CASE req'[k].stage = "answered" /\ req'[k].reply \in {"filtered", "retry", "refused"}
    BY <2>4 DEF StageTells
  <2>5. CASE req'[k] = Idle
    BY <2>5 DEF StageTells, Idle
  <2> QED
    BY <2>1, <2>2, <2>3, <2>4, <2>5 DEF QuietSlot
<1>4. RecordsTell' /\ YoungIsKnown' /\ StoredOnce' /\ CountedWithinStored'
  BY <1>1 DEF SafeInv, RecordsTell, Remembered, YoungIsKnown, Has, StoredOnce,
              CountedWithinStored
<1>5. DecidedIsKnown'
  BY <1>1, <1>2 DEF SafeInv, DecidedIsKnown, Has
<1>6. Uncounted'
  BY <1>1, <1>2 DEF SafeInv, Uncounted
<1> QED
  BY <1>3, <1>4, <1>5, <1>6 DEF SafeInv

LEMMA TrackerQuiet ==
  ASSUME Sound, NEW t \in Tabs, Page(t)
  PROVE  Quiet
<1>1. CASE Open(t)
  <2>1. \A k \in Slots : req'[k] = req[k] \/ Sent(k, EventsIn(retry) \union {}, t)
    BY <1>1, FlushFacts DEF Open, Sound
  <2> QED
    BY <1>1, <2>1 DEF Open, Quiet, QuietSlot, Sent
<1>2. CASE FlushTimer(t)
  <2>1. buffer[t] \in SUBSET Events
    BY DEF Sound, TypeOK
  <2>2. \A k \in Slots : req'[k] = req[k] \/ Sent(k, EventsIn(retry) \union buffer[t], t)
    BY <1>2, <2>1, FlushFacts DEF FlushTimer, Sound
  <2> QED
    BY <1>2, <2>2 DEF FlushTimer, Quiet, QuietSlot, Sent
<1>3. CASE Leave(t)
  <2>1. \A k \in Slots : req'[k] = req[k] \/ Sent(k, EventsIn(retry) \union buffer[t], Gone)
    BY <1>3, LeaveFacts DEF Sound
  <2> QED
    BY <1>3, <2>1 DEF Leave, Quiet, QuietSlot, Sent
<1>4. CASE Close(t)
  <2>1. ASSUME NEW k \in Slots
        PROVE  QuietSlot(k)
    <3>1. req[k] \in Requests /\ Gone \in Readers
      BY DEF Sound, TypeOK, Readers
    <3>2. req'[k] = req[k] \/ req'[k] = [req[k] EXCEPT !.reader = Gone]
      BY <1>4, CloseFacts DEF Sound
    <3> DEFINE r == [req[k] EXCEPT !.reader = Gone]
    <3>3. /\ r.stage = req[k].stage /\ r.batch = req[k].batch /\ r.wait = req[k].wait
          /\ r.fresh = req[k].fresh /\ r.reply = req[k].reply
      BY <3>1, ReaderTyped
    <3> HIDE DEF r
    <3>4. req'[k] = req[k] \/ req'[k] = r
      BY <3>2 DEF r
    <3> QED
      BY <3>3, <3>4 DEF QuietSlot
  <2> QED
    BY <1>4, <2>1 DEF Close, Quiet
<1>5. ASSUME NEW e \in Events, Emit(t, e)
      PROVE  Quiet
  <2>1. buffer[t] \union {e} \in SUBSET Events
    BY DEF Sound, TypeOK
  <2>2. \A k \in Slots : req'[k] = req[k] \/ Sent(k, EventsIn(retry) \union (buffer[t] \union {e}), t)
    <3>1. CASE Flush(t, buffer[t] \union {e})
      BY <2>1, <3>1, FlushFacts DEF Sound
    <3>2. CASE req' = req
      BY <3>2
    <3> QED
      BY <1>5, <3>1, <3>2 DEF Emit
  <2> QED
    BY <1>5, <2>2 DEF Emit, Quiet, QuietSlot, Sent
<1> QED
  BY <1>1, <1>2, <1>3, <1>4, <1>5 DEF Page

LEMMA RefusalQuiet ==
  ASSUME Sound, NEW k \in Slots, NEW reply \in {"filtered", "retry", "refused"},
         Answer(k, reply), UNCHANGED <<age, dedup, stored, counted>>
  PROVE  Quiet
<1>1. reply \in Replies
  BY DEF Replies
<1>2. /\ req'[k].stage = "answered" /\ req'[k].reply = reply
      /\ \A l \in Slots : l # k => req'[l] = req[l]
  BY <1>1, AnswerFacts DEF Sound
<1> QED
  BY <1>2 DEF Quiet, QuietSlot

LEMMA AnsweringQuiet ==
  ASSUME Sound, NEW k \in Slots, Refuse(k) \/ Forbid(k) \/ Filter(k) \/ Fail(k)
  PROVE  Quiet
<1>1. UNCHANGED <<age, dedup, stored, counted>>
  BY DEF Refuse, Forbid, Filter, Fail, tracker
<1>2. Answer(k, "refused") \/ Answer(k, "filtered") \/ Answer(k, "retry")
  BY DEF Refuse, Forbid, Filter, Fail, FailureReply
<1> QED
  BY <1>1, <1>2, RefusalQuiet

LEMMA AnswersQuiet ==
  ASSUME Sound, NEW k \in Slots, Answers(k)
  PROVE  Quiet
<1>1. CASE Settle(k) \/ Unread(k)
  <2>1. req' = [req EXCEPT ![k] = Idle] /\ UNCHANGED <<age, dedup, stored, counted>>
    BY <1>1 DEF Settle, Unread, tracker
  <2>2. req'[k] = Idle /\ \A l \in Slots : l # k => req'[l] = req[l]
    BY <2>1, IdleTyped, SlotFacts DEF Sound
  <2> QED
    BY <2>1, <2>2 DEF Quiet, QuietSlot
<1>2. CASE NetworkError(k)
  <2>1. req[k] \in Requests /\ GaveUp \in Readers
    BY DEF Sound, TypeOK, Readers
  <2>2. /\ req'[k] = [req[k] EXCEPT !.reader = GaveUp]
        /\ \A l \in Slots : l # k => req'[l] = req[l]
    BY <1>2, ErrorFacts DEF Sound
  <2>3. QuietSlot(k)
    BY <2>1, <2>2, ReaderTyped DEF QuietSlot
  <2>4. UNCHANGED <<age, dedup, stored, counted>>
    BY <1>2 DEF NetworkError, tracker
  <2> QED
    BY <2>2, <2>3, <2>4 DEF Quiet, QuietSlot
<1> QED
  BY <1>1, <1>2 DEF Answers

LEMMA AdmitSafe ==
  ASSUME Sound, SafeInv, NEW k \in Slots, Admit(k)
  PROVE  SafeInv'
<1>1. /\ req'[k].stage = "decided" /\ req'[k].batch = req[k].batch
      /\ req'[k].wait = req[k].wait /\ req'[k].reply = req[k].reply
      /\ \A l \in Slots : l # k => req'[l] = req[l]
  BY AdmitFacts DEF Sound
<1>2. age' = age /\ dedup' = dedup /\ stored' = stored /\ counted' = counted
  BY DEF Admit, tracker
<1>3. /\ req[k].stage = "sent" /\ ~Malformed(req[k].batch)
      /\ \A e \in req[k].batch : ~TooOld(e)
  BY DEF Admit, Invalid
<1>4. req[k].batch \subseteq Events /\ req[k].wait = 0 /\ stored \in [Events -> Nat]
      /\ age \in [Events -> 0 .. Past] /\ ahead \in 0 .. Ahead /\ dedup \in [Ids -> Records]
  BY <1>3 DEF Sound, TypeOK, Requests, SafeInv, StageTells
<1>5. \A l \in Slots : StageTells(l)'
  <2> SUFFICES ASSUME NEW l \in Slots PROVE StageTells(l)'
    OBVIOUS
  <2>1. CASE l = k
    BY <1>1, <1>2, <1>3, <2>1 DEF SafeInv, StageTells, Malformed
  <2>2. CASE l # k
    <3>1. req'[l] = req[l] /\ StageTells(l)
      BY <1>1, <2>2 DEF SafeInv
    <3> QED
      BY <1>2, <3>1 DEF StageTells, Malformed
  <2> QED
    BY <2>1, <2>2
<1>6. RecordsTell' /\ YoungIsKnown' /\ StoredOnce' /\ CountedWithinStored'
  BY <1>2 DEF SafeInv, RecordsTell, Remembered, YoungIsKnown, Has, StoredOnce,
              CountedWithinStored
\* What is not too old yet leaves the record at least Latency to live.
<1>7. ASSUME NEW e \in req[k].batch, stored[e] >= 1
      PROVE  Has(e) /\ dedup[IdOf[e]].left > Latency
  <2>1. e \in Events /\ age[e] \in 0 .. Past
    BY <1>4
  <2>2. age[e] <= Horizon + ahead
    BY <1>3, <1>4, <2>1, Limits DEF TooOld
  <2>3. age[e] < Past
    BY <1>4, <2>1, <2>2, Limits
  <2>4. Has(e) /\ dedup[IdOf[e]].left + age[e] >= DedupTTL
    BY <1>7, <2>1, <2>3 DEF SafeInv, YoungIsKnown
  <2>5. dedup[IdOf[e]].left \in 0 .. DedupTTL
    BY <1>4, <2>1, Limits, RecordTyped
  <2>6. dedup[IdOf[e]].left > Latency
    BY <1>4, <2>1, <2>2, <2>4, <2>5, Limits
  <2> QED
    BY <2>4, <2>6
<1>8. DecidedIsKnown'
  <2> SUFFICES ASSUME NEW l \in Slots, req'[l].stage = "decided",
                      NEW e \in req'[l].batch, stored'[e] >= 1
               PROVE  Has(e)' /\ dedup'[IdOf[e]].left + req'[l].wait > Latency
    BY DEF DecidedIsKnown
  <2>1. CASE l = k
    <3>1. e \in Events /\ Has(e) /\ dedup[IdOf[e]].left > Latency
      BY <1>1, <1>2, <1>4, <1>7, <2>1
    <3>2. dedup[IdOf[e]].left \in 0 .. DedupTTL
      BY <1>4, <3>1, Limits, RecordTyped
    <3> QED
      BY <1>1, <1>2, <1>4, <2>1, <3>1, <3>2, Limits DEF Has
  <2>2. CASE l # k
    BY <1>1, <1>2, <2>2 DEF SafeInv, DecidedIsKnown, Has
  <2> QED
    BY <2>1, <2>2
<1>9. Uncounted'
  BY <1>1, <1>2 DEF SafeInv, Uncounted
<1> QED
  BY <1>5, <1>6, <1>8, <1>9 DEF SafeInv

\* What an append of a decided batch that has no conflict does: nothing in it was
\* stored before, and no record that is still needed is overwritten.
LEMMA AppendSafe ==
  ASSUME Sound, SafeInv, NEW k \in Slots, req[k].stage = "decided",
         ~\E e \in req[k].batch : Conflicts(e),
         AddToStream(FreshIn(req[k].batch)), age' = age, counted' = counted
  PROVE  /\ RecordsTell' /\ YoungIsKnown' /\ StoredOnce' /\ CountedWithinStored'
         /\ \A e \in FreshIn(req[k].batch) : stored[e] = 0 /\ stored'[e] = 1 /\ counted[e] = 0
         /\ \A e \in Events : stored[e] >= 1 => stored'[e] >= 1
         /\ \A e \in req[k].batch : stored'[e] >= 1
         /\ \A e \in Events : stored'[e] >= 1 /\ e \notin FreshIn(req[k].batch) =>
                                stored[e] >= 1
         /\ \A e \in FreshIn(req[k].batch) : Has(e)' /\ dedup'[IdOf[e]].left = DedupTTL
         /\ \A e \in Events : Has(e) => dedup'[IdOf[e]] = dedup[IdOf[e]]
<1> DEFINE fresh == FreshIn(req[k].batch)
<1>1. /\ req[k].batch \subseteq Events /\ stored \in [Events -> Nat]
      /\ age \in [Events -> 0 .. Past] /\ dedup \in [Ids -> Records]
      /\ counted \in [Events -> Nat]
  BY DEF Sound, TypeOK, Requests
<1>2. fresh \subseteq req[k].batch /\ \A e \in fresh : ~Remembered(IdOf[e])
  BY DEF FreshIn
<1>3. ~Malformed(req[k].batch)
  BY DEF SafeInv, StageTells
<1>4. \A e, f \in fresh : IdOf[e] = IdOf[f] => e = f
  BY <1>2, <1>3 DEF Malformed
<1>5. AddToStream(fresh) /\ fresh \in SUBSET Events
  BY <1>1, <1>2
<1>6. ASSUME NEW e \in fresh
      PROVE  stored[e] = 0 /\ counted[e] = 0
  <2>1. e \in Events /\ stored[e] \in Nat /\ counted[e] \in Nat
    BY <1>1, <1>2
  <2>2. ASSUME stored[e] >= 1 PROVE FALSE
    <3>1. Has(e)
      BY <1>2, <2>2 DEF SafeInv, DecidedIsKnown
    <3> QED
      BY <1>2, <3>1 DEF Has, Remembered
  <2>3. counted[e] <= stored[e]
    BY <2>1 DEF SafeInv, CountedWithinStored
  <2> QED
    BY <2>1, <2>2, <2>3
<1>7. /\ dedup' \in [Ids -> Records]
      /\ \A e \in fresh : dedup'[IdOf[e]].event = e /\ dedup'[IdOf[e]].left = DedupTTL
      /\ \A i \in Ids : (\A e \in fresh : IdOf[e] # i) => dedup'[i] = dedup[i]
  BY <1>1, <1>4, <1>5, RecordedFacts DEF AddToStream
<1>8. /\ stored' \in [Events -> Nat]
      /\ \A e \in Events : stored'[e] >= stored[e]
      /\ \A e \in fresh : stored'[e] = stored[e] + 1
      /\ \A e \in Events \ fresh : stored'[e] = stored[e]
  BY <1>5, AppendFacts DEF Sound
<1> HIDE DEF fresh
<1>9. \A e \in fresh : stored[e] = 0 /\ stored'[e] = 1 /\ counted[e] = 0
  BY <1>6, <1>8
<1>10. \A e \in Events : stored[e] >= 1 => stored'[e] >= 1
  BY <1>1, <1>8
<1>11. \A e \in Events : stored'[e] >= 1 /\ e \notin fresh => stored[e] >= 1
  BY <1>8
<1>12. \A e \in fresh : Has(e)' /\ dedup'[IdOf[e]].left = DedupTTL
  BY <1>7, Limits DEF Has
<1>13. ASSUME NEW e \in Events, Has(e)
       PROVE  dedup'[IdOf[e]] = dedup[IdOf[e]]
  <2>1. Remembered(IdOf[e]) /\ IdOf[e] \in Ids
    BY <1>13, Limits DEF Has, Remembered
  <2>2. \A f \in fresh : IdOf[f] # IdOf[e]
    BY <1>2, <2>1
  <2> QED
    BY <1>7, <2>1, <2>2
<1>14. ASSUME NEW e \in req[k].batch
       PROVE  stored'[e] >= 1
  <2>1. CASE e \in fresh
    BY <1>9, <2>1
  <2>2. CASE e \notin fresh
    <3>1. Remembered(IdOf[e]) /\ e \in Events /\ IdOf[e] \in Ids
      BY <1>1, <2>2, Limits DEF FreshIn, fresh
    <3>2. dedup[IdOf[e]].event = e
      BY <3>1 DEF Conflicts
    <3>3. stored[e] >= 1
      BY <3>1, <3>2 DEF SafeInv, RecordsTell
    <3> QED
      BY <1>10, <3>1, <3>3
  <2> QED
    BY <2>1, <2>2
<1>15. RecordsTell'
  <2> SUFFICES ASSUME NEW i \in Ids, dedup'[i].left > 0
               PROVE  IdOf[dedup'[i].event] = i /\ stored'[dedup'[i].event] >= 1
    BY DEF RecordsTell, Remembered
  <2>1. CASE \E e \in fresh : IdOf[e] = i
    <3>1. PICK e \in fresh : IdOf[e] = i
      BY <2>1
    <3>2. dedup'[i].event = e
      BY <1>7, <3>1
    <3> QED
      BY <1>9, <3>1, <3>2
  <2>2. CASE \A e \in fresh : IdOf[e] # i
    <3>1. dedup'[i] = dedup[i]
      BY <1>7, <2>2
    <3>2. IdOf[dedup[i].event] = i /\ stored[dedup[i].event] >= 1
      BY <3>1 DEF SafeInv, RecordsTell, Remembered
    <3>3. dedup[i].event \in Events
      BY <1>1, <3>1, RecordTyped
    <3> QED
      BY <1>10, <3>1, <3>2, <3>3
  <2> QED
    BY <2>1, <2>2
<1>16. YoungIsKnown'
  <2> SUFFICES ASSUME NEW e \in Events, stored'[e] >= 1, age[e] < Past
               PROVE  Has(e)' /\ dedup'[IdOf[e]].left + age[e] >= DedupTTL
    BY DEF YoungIsKnown
  <2>1. CASE e \in fresh
    <3>1. Has(e)' /\ dedup'[IdOf[e]].left = DedupTTL /\ age[e] \in 0 .. Past
      BY <1>1, <1>12, <2>1
    <3> QED
      BY <3>1, Limits
  <2>2. CASE e \notin fresh
    <3>1. Has(e) /\ dedup[IdOf[e]].left + age[e] >= DedupTTL
      BY <1>11, <2>2 DEF SafeInv, YoungIsKnown
    <3> QED
      BY <1>13, <3>1 DEF Has
  <2> QED
    BY <2>1, <2>2
<1>17. StoredOnce'
  <2> SUFFICES ASSUME NEW e \in Events PROVE stored'[e] <= 1
    BY DEF StoredOnce
  <2>1. stored[e] <= 1
    BY DEF SafeInv, StoredOnce
  <2> QED
    BY <1>8, <1>9, <2>1
<1>18. CountedWithinStored'
  <2> SUFFICES ASSUME NEW e \in Events PROVE counted[e] <= stored'[e]
    BY DEF CountedWithinStored
  <2>1. counted[e] <= stored[e]
    BY DEF SafeInv, CountedWithinStored
  <2> QED
    BY <1>1, <1>8, <2>1
<1> QED
  BY <1>9, <1>10, <1>11, <1>12, <1>13, <1>14, <1>15, <1>16, <1>17, <1>18 DEF fresh

\* What DecidedIsKnown needs of the batches an append did not serve.
LEMMA OthersKnown ==
  ASSUME Sound, SafeInv, NEW k \in Slots, req[k].stage = "decided",
         ~\E e \in req[k].batch : Conflicts(e),
         AddToStream(FreshIn(req[k].batch)), age' = age, counted' = counted,
         NEW l \in Slots, req[l].stage = "decided", NEW e \in req[l].batch, stored'[e] >= 1
  PROVE  Has(e)' /\ dedup'[IdOf[e]].left + req[l].wait > Latency
<1>1. e \in Events /\ req[l].wait \in 0 .. Latency
  BY DEF Sound, TypeOK, Requests
<1>2. CASE e \in FreshIn(req[k].batch)
  <2>1. Has(e)' /\ dedup'[IdOf[e]].left = DedupTTL
    BY <1>2, AppendSafe
  <2> QED
    BY <1>1, <2>1, Limits
<1>3. CASE e \notin FreshIn(req[k].batch)
  <2>1. stored[e] >= 1
    BY <1>1, <1>3, AppendSafe
  <2>2. Has(e) /\ dedup[IdOf[e]].left + req[l].wait > Latency
    BY <2>1 DEF SafeInv, DecidedIsKnown
  <2>3. dedup'[IdOf[e]] = dedup[IdOf[e]]
    BY <1>1, <2>2, AppendSafe
  <2> QED
    BY <2>2, <2>3 DEF Has
<1> QED
  BY <1>2, <1>3

\* A slot that an append leaves alone still tells the truth.
LEMMA OthersTell ==
  ASSUME Sound, SafeInv, NEW l \in Slots, req'[l] = req[l],
         \A e \in Events : stored[e] >= 1 => stored'[e] >= 1
  PROVE  StageTells(l)'
<1>1. StageTells(l) /\ req[l].batch \subseteq Events
  BY DEF SafeInv, Sound, TypeOK, Requests
<1> QED
  BY <1>1 DEF StageTells, Malformed

LEMMA EnqueueSafe ==
  ASSUME Sound, SafeInv, NEW k \in Slots, RunScript(k), Enqueue(k),
         ~\E e \in req[k].batch : Conflicts(e)
  PROVE  SafeInv'
<1>1. req[k].stage = "decided" /\ age' = age /\ counted' = counted
  BY DEF RunScript, tracker
<1>2. /\ AddToStream(FreshIn(req[k].batch))
      /\ req'[k].stage = "written" /\ req'[k].batch = req[k].batch
      /\ req'[k].fresh = FreshIn(req[k].batch) /\ req'[k].reply = req[k].reply
      /\ \A l \in Slots : l # k => req'[l] = req[l]
  BY EnqueueFacts DEF Sound
<1>3. /\ RecordsTell' /\ YoungIsKnown' /\ StoredOnce' /\ CountedWithinStored'
      /\ \A e \in FreshIn(req[k].batch) : stored[e] = 0 /\ stored'[e] = 1 /\ counted[e] = 0
      /\ \A e \in Events : stored[e] >= 1 => stored'[e] >= 1
      /\ \A e \in req[k].batch : stored'[e] >= 1
  BY <1>1, <1>2, AppendSafe
<1>4. \A l \in Slots : StageTells(l)'
  <2> SUFFICES ASSUME NEW l \in Slots PROVE StageTells(l)'
    OBVIOUS
  <2>1. CASE l = k
    BY <1>2, <1>3, <2>1 DEF StageTells
  <2>2. CASE l # k
    BY <1>2, <1>3, <2>2, OthersTell
  <2> QED
    BY <2>1, <2>2
<1>5. DecidedIsKnown'
  <2> SUFFICES ASSUME NEW l \in Slots, req'[l].stage = "decided",
                      NEW e \in req'[l].batch, stored'[e] >= 1
               PROVE  Has(e)' /\ dedup'[IdOf[e]].left + req'[l].wait > Latency
    BY DEF DecidedIsKnown
  <2>1. req'[l] = req[l]
    BY <1>2
  <2> QED
    BY <1>1, <1>2, <2>1, OthersKnown
\* What another batch is about to count was stored before this append.
<1>6. Uncounted'
  <2> SUFFICES ASSUME NEW l \in Slots, req'[l].stage = "written", NEW e \in req'[l].fresh
               PROVE  /\ counted'[e] = 0 /\ stored'[e] >= 1
                      /\ \A m \in Slots : m # l /\ req'[m].stage = "written" =>
                                            e \notin req'[m].fresh
    BY DEF Uncounted
  <2>1. ASSUME NEW m \in Slots, m # k, req'[m].stage = "written", NEW f \in req'[m].fresh
        PROVE  /\ counted[f] = 0 /\ stored[f] >= 1 /\ f \in Events
               /\ \A n \in Slots : n # m /\ req[n].stage = "written" => f \notin req[n].fresh
    <3>1. req'[m] = req[m] /\ req[m] \in Requests
      BY <1>2, <2>1 DEF Sound, TypeOK
    <3> QED
      BY <2>1, <3>1 DEF SafeInv, Uncounted, Requests
  <2>2. \A f \in FreshIn(req[k].batch) : ~(stored[f] >= 1)
    BY <1>3
  <2>3. CASE l = k
    <3>1. counted'[e] = 0 /\ stored'[e] >= 1 /\ ~(stored[e] >= 1)
      BY <1>1, <1>2, <1>3, <2>2, <2>3
    <3>2. \A m \in Slots : m # k /\ req'[m].stage = "written" => e \notin req'[m].fresh
      BY <2>1, <3>1
    <3> QED
      BY <2>3, <3>1, <3>2
  <2>4. CASE l # k
    <3>1. /\ counted[e] = 0 /\ stored[e] >= 1 /\ e \in Events
          /\ \A n \in Slots : n # l /\ req[n].stage = "written" => e \notin req[n].fresh
      BY <2>1, <2>4
    <3>2. e \notin req'[k].fresh
      BY <1>2, <2>2, <3>1
    <3>3. \A m \in Slots : m # l /\ req'[m].stage = "written" => e \notin req'[m].fresh
      BY <1>2, <3>1, <3>2
    <3> QED
      BY <1>1, <1>3, <3>1, <3>3
  <2> QED
    BY <2>3, <2>4
<1> QED
  BY <1>3, <1>4, <1>5, <1>6 DEF SafeInv

LEMMA ScriptAgainSafe ==
  ASSUME Sound, SafeInv, NEW k \in Slots, RunScriptAgain(k)
  PROVE  SafeInv'
<1>1. /\ req[k].stage = "decided" /\ age' = age /\ counted' = counted /\ req' = req
      /\ ~\E e \in req[k].batch : Conflicts(e)
      /\ AddToStream(FreshIn(req[k].batch))
  BY DEF RunScriptAgain, tracker
<1>2. /\ RecordsTell' /\ YoungIsKnown' /\ StoredOnce' /\ CountedWithinStored'
      /\ \A e \in Events : stored[e] >= 1 => stored'[e] >= 1
  BY <1>1, AppendSafe
<1>3. \A l \in Slots : StageTells(l)'
  BY <1>1, <1>2, OthersTell
<1>4. DecidedIsKnown'
  <2> SUFFICES ASSUME NEW l \in Slots, req'[l].stage = "decided",
                      NEW e \in req'[l].batch, stored'[e] >= 1
               PROVE  Has(e)' /\ dedup'[IdOf[e]].left + req'[l].wait > Latency
    BY DEF DecidedIsKnown
  <2> QED
    BY <1>1, OthersKnown
<1>5. Uncounted'
  <2>1. \A l \in Slots : req[l].fresh \subseteq Events
    BY DEF Sound, TypeOK, Requests
  <2> QED
    BY <1>1, <1>2, <2>1 DEF SafeInv, Uncounted
<1> QED
  BY <1>2, <1>3, <1>4, <1>5 DEF SafeInv

LEMMA ScriptSafe ==
  ASSUME Sound, SafeInv, NEW k \in Slots, RunScript(k) \/ RunScriptAgain(k)
  PROVE  SafeInv'
<1>1. CASE RunScript(k) /\ \E e \in req[k].batch : Conflicts(e)
  <2>1. Answer(k, "refused") /\ UNCHANGED <<age, dedup, stored, counted>>
    BY <1>1 DEF RunScript, Conflict, tracker
  <2> QED
    BY <2>1, RefusalQuiet, QuietKept
<1>2. CASE RunScript(k) /\ ~\E e \in req[k].batch : Conflicts(e)
  <2>1. Enqueue(k)
    BY <1>2 DEF RunScript
  <2> QED
    BY <1>2, <2>1, EnqueueSafe
<1>3. CASE RunScriptAgain(k)
  BY <1>3, ScriptAgainSafe
<1> QED
  BY <1>1, <1>2, <1>3

LEMMA AcceptSafe ==
  ASSUME Sound, SafeInv, NEW k \in Slots, Accept(k)
  PROVE  SafeInv'
<1>1. /\ age' = age /\ dedup' = dedup /\ stored' = stored /\ req[k].stage = "written"
      /\ Answer(k, "ok")
  BY DEF Accept, tracker
<1>2. /\ req'[k].stage = "answered" /\ req'[k].batch = req[k].batch
      /\ \A l \in Slots : l # k => req'[l] = req[l]
  BY <1>1, ReplyKinds, AnswerFacts DEF Sound
<1>3. /\ req[k].fresh \subseteq Events /\ counted \in [Events -> Nat]
      /\ stored \in [Events -> Nat]
  BY DEF Sound, TypeOK, Requests
<1>4. \A e \in Events : counted'[e] = counted[e] \/ (e \in req[k].fresh /\ counted'[e] = counted[e] + 1)
  BY <1>3 DEF Accept, NewlyBillable
<1>5. \A e \in req[k].fresh : counted[e] = 0 /\ stored[e] >= 1
  BY <1>1 DEF SafeInv, Uncounted
<1>6. \A l \in Slots : StageTells(l)'
  <2> SUFFICES ASSUME NEW l \in Slots PROVE StageTells(l)'
    OBVIOUS
  <2>1. CASE l = k
    <3>1. \A e \in req[k].batch : stored[e] >= 1
      BY <1>1 DEF SafeInv, StageTells
    <3>2. req'[k].reply = "ok"
      BY <1>1, ReplyKinds, AnswerFacts DEF Sound
    <3> QED
      BY <1>1, <1>2, <2>1, <3>1, <3>2 DEF StageTells
  <2>2. CASE l # k
    BY <1>1, <1>2, <2>2, OthersTell
  <2> QED
    BY <2>1, <2>2
<1>7. RecordsTell' /\ YoungIsKnown' /\ StoredOnce'
  BY <1>1 DEF SafeInv, RecordsTell, Remembered, YoungIsKnown, Has, StoredOnce
<1>8. DecidedIsKnown'
  BY <1>1, <1>2 DEF SafeInv, DecidedIsKnown, Has
<1>9. CountedWithinStored'
  <2> SUFFICES ASSUME NEW e \in Events PROVE counted'[e] <= stored[e]
    BY <1>1 DEF CountedWithinStored
  <2>1. counted[e] <= stored[e]
    BY DEF SafeInv, CountedWithinStored
  <2> QED
    BY <1>3, <1>4, <1>5, <2>1
<1>10. Uncounted'
  <2> SUFFICES ASSUME NEW l \in Slots, req'[l].stage = "written", NEW e \in req'[l].fresh
               PROVE  /\ counted'[e] = 0 /\ stored'[e] >= 1
                      /\ \A m \in Slots : m # l /\ req'[m].stage = "written" =>
                                            e \notin req'[m].fresh
    BY DEF Uncounted
  <2>1. l # k /\ req'[l] = req[l]
    BY <1>2
  <2>2. /\ counted[e] = 0 /\ stored[e] >= 1
        /\ \A m \in Slots : m # l /\ req[m].stage = "written" => e \notin req[m].fresh
    BY <2>1 DEF SafeInv, Uncounted
  <2>3. e \in Events
    BY <2>1 DEF Sound, TypeOK, Requests
  <2>4. counted'[e] = 0
    BY <1>1, <1>4, <2>1, <2>2, <2>3
  <2> QED
    BY <1>1, <1>2, <2>2, <2>4
<1> QED
  BY <1>6, <1>7, <1>8, <1>9, <1>10 DEF SafeInv

LEMMA TickSafe ==
  ASSUME Sound, SafeInv, Tick
  PROVE  SafeInv'
<1>1. stored' = stored /\ counted' = counted
  BY DEF Tick
<1>2. /\ stored \in [Events -> Nat] /\ dedup \in [Ids -> Records]
      /\ age \in [Events -> 0 .. Past]
  BY DEF Sound, TypeOK
<1>3. \A e \in Events : /\ age[e] = Past => age'[e] = Past
                        /\ age[e] < Past /\ e \in minted => age'[e] = age[e] + 1
  BY TickFacts DEF Sound
<1>4. \A i \in Ids :
        /\ dedup'[i].left = IF dedup[i].left > 1 THEN dedup[i].left - 1 ELSE 0
        /\ dedup[i].left > 1 => dedup'[i].event = dedup[i].event
  BY TickFacts DEF Sound
<1>5. ASSUME NEW k \in Slots
      PROVE  /\ req'[k].stage = req[k].stage /\ req'[k].batch = req[k].batch
             /\ req'[k].fresh = req[k].fresh /\ req'[k].reply = req[k].reply
             /\ req[k].stage # "decided" => req'[k] = req[k]
             /\ req[k].stage = "decided" =>
                  req[k].wait < Latency /\ req'[k].wait = req[k].wait + 1
  BY TickFacts DEF Sound
<1>6. \A k \in Slots : StageTells(k)'
  <2> SUFFICES ASSUME NEW k \in Slots PROVE StageTells(k)'
    OBVIOUS
  <2>1. StageTells(k)
    BY DEF SafeInv
  <2> QED
    BY <1>1, <1>5, <2>1 DEF StageTells, Malformed
<1>7. RecordsTell'
  <2> SUFFICES ASSUME NEW i \in Ids, dedup'[i].left > 0
               PROVE  IdOf[dedup'[i].event] = i /\ stored[dedup'[i].event] >= 1
    BY <1>1 DEF RecordsTell, Remembered
  <2>1. dedup[i].left \in 0 .. DedupTTL
    BY <1>2, RecordTyped
  <2>2. dedup[i].left > 1
    BY <1>4, <2>1
  <2>3. dedup'[i].event = dedup[i].event /\ dedup[i].left > 0
    BY <1>4, <2>1, <2>2
  <2> QED
    BY <2>3 DEF SafeInv, RecordsTell, Remembered
<1>8. YoungIsKnown'
  <2> SUFFICES ASSUME NEW e \in Events, stored[e] >= 1, age'[e] < Past
               PROVE  Has(e)' /\ dedup'[IdOf[e]].left + age'[e] >= DedupTTL
    BY <1>1 DEF YoungIsKnown
  <2>1. e \in minted /\ age[e] \in 0 .. Past /\ IdOf[e] \in Ids
    BY <1>2, Limits DEF Sound, OnlyMinted
  <2>2. age[e] < Past /\ age'[e] = age[e] + 1
    BY <1>3, <2>1, Limits
  <2>3. Has(e) /\ dedup[IdOf[e]].left + age[e] >= DedupTTL
    BY <2>2 DEF SafeInv, YoungIsKnown
  <2>4. dedup[IdOf[e]].left \in 0 .. DedupTTL
    BY <1>2, <2>1, RecordTyped
  <2>5. dedup[IdOf[e]].left > 1
    BY <2>1, <2>2, <2>3, <2>4, Limits
  <2>6. /\ dedup'[IdOf[e]].left = dedup[IdOf[e]].left - 1
        /\ dedup'[IdOf[e]].event = dedup[IdOf[e]].event
    BY <1>4, <2>1, <2>5
  <2>7. dedup'[IdOf[e]].left + age'[e] >= DedupTTL /\ dedup'[IdOf[e]].left > 0
    BY <2>1, <2>2, <2>3, <2>4, <2>5, <2>6, Limits
  <2> QED
    BY <2>3, <2>6, <2>7 DEF Has
<1>9. DecidedIsKnown'
  <2> SUFFICES ASSUME NEW k \in Slots, req'[k].stage = "decided",
                      NEW e \in req'[k].batch, stored[e] >= 1
               PROVE  Has(e)' /\ dedup'[IdOf[e]].left + req'[k].wait > Latency
    BY <1>1 DEF DecidedIsKnown
  <2>1. req[k].stage = "decided" /\ e \in req[k].batch
        /\ req[k].wait < Latency /\ req'[k].wait = req[k].wait + 1
    BY <1>5
  <2>2. e \in Events /\ IdOf[e] \in Ids /\ req[k].wait \in 0 .. Latency
    BY <2>1, Limits DEF Sound, TypeOK, Requests
  <2>3. Has(e) /\ dedup[IdOf[e]].left + req[k].wait > Latency
    BY <2>1 DEF SafeInv, DecidedIsKnown
  <2>4. dedup[IdOf[e]].left \in 0 .. DedupTTL
    BY <1>2, <2>2, RecordTyped
  <2>5. dedup[IdOf[e]].left > 1
    BY <2>1, <2>2, <2>3, <2>4, Limits
  <2>6. /\ dedup'[IdOf[e]].left = dedup[IdOf[e]].left - 1
        /\ dedup'[IdOf[e]].event = dedup[IdOf[e]].event
    BY <1>4, <2>2, <2>5
  <2>7. dedup'[IdOf[e]].left + req'[k].wait > Latency /\ dedup'[IdOf[e]].left > 0
    BY <2>1, <2>2, <2>3, <2>4, <2>5, <2>6, Limits
  <2> QED
    BY <2>3, <2>6, <2>7 DEF Has
<1>10. Uncounted'
  BY <1>1, <1>5 DEF SafeInv, Uncounted
<1>11. StoredOnce' /\ CountedWithinStored'
  BY <1>1 DEF SafeInv, StoredOnce, CountedWithinStored
<1> QED
  BY <1>6, <1>7, <1>8, <1>9, <1>10, <1>11 DEF SafeInv

LEMMA InitSafe == Init => SafeInv
<1> SUFFICES ASSUME Init PROVE SafeInv
  OBVIOUS
<1>1. /\ Earlier \in SUBSET Events /\ \A e, f \in Earlier : IdOf[e] = IdOf[f] => e = f
      /\ stored = [e \in Events |-> IF e \in Earlier THEN 1 ELSE 0]
      /\ counted = [e \in Events |-> 0] /\ age = [e \in Events |-> 0]
      /\ req = [k \in Slots |-> Idle]
      /\ dedup = Recorded([i \in Ids |-> NoRecord], Earlier)
  BY IdsAssumption DEF Init, IdsAssumption
<1>2. [i \in Ids |-> NoRecord] \in [Ids -> Records]
  BY DEF Records
<1>3. /\ \A e \in Earlier : dedup[IdOf[e]].event = e /\ dedup[IdOf[e]].left = DedupTTL
      /\ \A i \in Ids : (\A e \in Earlier : IdOf[e] # i) => dedup[i] = NoRecord
  BY <1>1, <1>2, RecordedFacts
<1>4. \A k \in Slots : StageTells(k)
  BY <1>1 DEF StageTells, Idle
<1>5. RecordsTell
  <2> SUFFICES ASSUME NEW i \in Ids, dedup[i].left > 0
               PROVE  IdOf[dedup[i].event] = i /\ stored[dedup[i].event] >= 1
    BY DEF RecordsTell, Remembered
  <2>1. CASE \E e \in Earlier : IdOf[e] = i
    <3>1. PICK e \in Earlier : IdOf[e] = i
      BY <2>1
    <3>2. dedup[i].event = e
      BY <1>3, <3>1
    <3> QED
      BY <1>1, <3>1, <3>2
  <2>2. CASE \A e \in Earlier : IdOf[e] # i
    BY <1>3, <2>2 DEF NoRecord
  <2> QED
    BY <2>1, <2>2
<1>6. YoungIsKnown
  <2> SUFFICES ASSUME NEW e \in Events, stored[e] >= 1
               PROVE  Has(e) /\ dedup[IdOf[e]].left + age[e] >= DedupTTL
    BY DEF YoungIsKnown
  <2>1. e \in Earlier /\ age[e] = 0
    BY <1>1
  <2> QED
    BY <1>3, <2>1, Limits DEF Has
<1>7. DecidedIsKnown /\ Uncounted
  BY <1>1 DEF DecidedIsKnown, Uncounted, Idle
<1>8. StoredOnce /\ CountedWithinStored
  BY <1>1 DEF StoredOnce, CountedWithinStored
<1> QED
  BY <1>4, <1>5, <1>6, <1>7, <1>8 DEF SafeInv

LEMMA StepSafe == Sound /\ SafeInv /\ [Next]_vars => SafeInv'
<1> SUFFICES ASSUME Sound, SafeInv, [Next]_vars PROVE SafeInv'
  OBVIOUS
<1>1. ASSUME NEW t \in Tabs, Page(t) PROVE SafeInv'
  BY <1>1, TrackerQuiet, QuietKept
<1>2. ASSUME NEW k \in Slots, Collector(k) PROVE SafeInv'
  BY <1>2, AnsweringQuiet, QuietKept, AdmitSafe, ScriptSafe, AcceptSafe DEF Collector
<1>3. ASSUME NEW k \in Slots, Answers(k) PROVE SafeInv'
  BY <1>3, AnswersQuiet, QuietKept
<1>4. CASE Tick
  BY <1>4, TickSafe
<1>5. CASE UNCHANGED vars
  <2>1. Quiet
    BY <1>5 DEF vars, Quiet, QuietSlot
  <2> QED
    BY <2>1, QuietKept
<1> QED
  BY <1>1, <1>2, <1>3, <1>4, <1>5 DEF Next

LEMMA Safe == Spec => [](Sound /\ SafeInv)
<1>1. Init => Sound /\ SafeInv
  BY InitSound, InitSafe
<1>2. Sound /\ SafeInv /\ [Next]_vars => (Sound /\ SafeInv)'
  BY StepSound, StepSafe
<1> QED
  BY <1>1, <1>2, PTL DEF Spec

\* However often, from however many pages and however late an event is sent, the
\* stream gets it once.
THEOREM Once == Spec => []StoredOnce
<1>1. Sound /\ SafeInv => StoredOnce
  BY DEF SafeInv
<1> QED
  BY <1>1, Safe, PTL

\* A success is never answered for an event the stream does not hold.
THEOREM SuccessMeansStored == Spec => []AcceptedIsStored
<1>1. Sound /\ SafeInv => AcceptedIsStored
  BY DEF SafeInv, StageTells, AcceptedIsStored
<1> QED
  BY <1>1, Safe, PTL

\* Retries and duplicates are not counted against the plan again.
THEOREM CountedOnce == Spec => []CountedWithinStored
<1>1. Sound /\ SafeInv => CountedWithinStored
  BY DEF SafeInv
<1> QED
  BY <1>1, Safe, PTL

\* A refusal changes neither the stream nor a deduplication record.
THEOREM RefusalsWriteNothing == Spec => RejectedWritesNothing
<1> DEFINE Refused == \E k \in Slots : req[k].reply # "refused" /\ req'[k].reply = "refused"
<1>1. Sound /\ [Next]_vars => [Refused => UNCHANGED <<stored, dedup>>]_vars
  <2> SUFFICES ASSUME Sound, Next, NEW k \in Slots,
                      req[k].reply # "refused", req'[k].reply = "refused"
               PROVE  UNCHANGED <<stored, dedup>>
    BY DEF Sound
  <2>1. ASSUME NEW t \in Tabs, Page(t) PROVE UNCHANGED <<stored, dedup>>
    BY <2>1, TrackerQuiet DEF Quiet
  <2>2. ASSUME NEW l \in Slots, Answers(l) PROVE UNCHANGED <<stored, dedup>>
    BY <2>2, AnswersQuiet DEF Quiet
  <2>3. ASSUME NEW l \in Slots, Refuse(l) \/ Forbid(l) \/ Filter(l) \/ Fail(l)
        PROVE  UNCHANGED <<stored, dedup>>
    BY <2>3, AnsweringQuiet DEF Quiet
  <2>4. ASSUME NEW l \in Slots, Admit(l) \/ Accept(l)
        PROVE  UNCHANGED <<stored, dedup>>
    BY <2>4 DEF Admit, Accept
  <2>5. ASSUME NEW l \in Slots, RunScript(l), ~\E e \in req[l].batch : Conflicts(e)
        PROVE  FALSE
    <3>1. Enqueue(l)
      BY <2>5 DEF RunScript
    <3>2. req'[k].reply = req[k].reply
      BY <3>1, EnqueueFacts DEF Sound
    <3> QED
      BY <3>2
  <2>6. ASSUME NEW l \in Slots, RunScript(l), \E e \in req[l].batch : Conflicts(e)
        PROVE  UNCHANGED <<stored, dedup>>
    BY <2>6 DEF RunScript, Conflict
  <2>7. ASSUME NEW l \in Slots, RunScriptAgain(l) PROVE FALSE
    BY <2>7 DEF RunScriptAgain
  <2>8. ASSUME Tick PROVE FALSE
    BY <2>8, TickFacts DEF Sound
  <2> QED
    BY <2>1, <2>2, <2>3, <2>4, <2>5, <2>6, <2>7, <2>8 DEF Next, Collector
<1>2. Spec => []Sound
  BY Safe, PTL
<1>3. Spec => [][Refused => UNCHANGED <<stored, dedup>>]_vars
  BY <1>1, <1>2, PTL DEF Spec
<1> QED
  BY <1>3, Zenon DEF RejectedWritesNothing, Refused

-----------------------------------------------------------------------------
(* Nothing is lost while a page lives. *)

\* A closed page left nothing in its buffer.
ClosedEmpty == \A t \in Tabs : page[t] = "closed" => buffer[t] = {}

Safe1 == Sound /\ SafeInv
KeptInv == ClosedEmpty /\ KeptWhilePageLives

Accounted(e) == stored[e] > 0 \/ Waiting(e) \/ e \in excused

\* Three ways for an event to wait, each enough.
LEMMA WaitingNow ==
  ASSUME NEW e
  PROVE  /\ e \in EventsIn(retry') => Waiting(e)'
         /\ \A t \in Tabs : e \in buffer'[t] => Waiting(e)'
         /\ \A k \in Slots : e \in req'[k].batch /\ req'[k].reader # GaveUp => Waiting(e)'
  BY DEF Waiting, EventsIn

\* An event that waits in a slot the tracker's step did not use is still there.
LEMMA SlotKept ==
  ASSUME SafeInv, NEW events, NEW reader, NEW k \in Slots, NEW e \in req[k].batch,
         req[k].reader # GaveUp, req'[k] = req[k] \/ Sent(k, events, reader)
  PROVE  Waiting(e)'
<1>1. StageTells(k)
  BY DEF SafeInv
<1>2. req'[k] = req[k]
  BY <1>1 DEF StageTells, Sent
<1> QED
  BY <1>2, WaitingNow

LEMMA FlushKept ==
  ASSUME Safe1, NEW t \in Tabs, NEW added \in SUBSET Events, Flush(t, added),
         NEW e \in Events, stored' = stored, buffer[t] \subseteq added, Accounted(e) \/ e \in added
  PROVE  Accounted(e)'
<1>1. /\ \A k \in Slots : req'[k] = req[k] \/ Sent(k, EventsIn(retry) \union added, t)
      /\ \A f \in EventsIn(retry) \union added :
           \/ f \in excused' \union EventsIn(retry')
           \/ \E k \in Slots : f \in req'[k].batch /\ req'[k].reader = t
      /\ buffer' = [buffer EXCEPT ![t] = {}]
      /\ excused \subseteq excused'
  BY FlushFacts DEF Safe1, Sound
<1>2. CASE e \in EventsIn(retry) \union added
  <2>1. CASE e \in excused' \union EventsIn(retry')
    BY <2>1, WaitingNow DEF Accounted
  <2>2. CASE \E k \in Slots : e \in req'[k].batch /\ req'[k].reader = t
    <3>1. t # GaveUp
      BY Limits
    <3>2. Waiting(e)'
      BY <2>2, <3>1, WaitingNow
    <3> QED
      BY <3>2 DEF Accounted
  <2> QED
    BY <1>1, <1>2, <2>1, <2>2
<1>3. CASE \E u \in Tabs : e \in buffer[u] /\ u # t
  <2>1. PICK u \in Tabs : e \in buffer[u] /\ u # t
    BY <1>3
  <2>2. e \in buffer'[u]
    BY <1>1, <2>1 DEF Safe1, Sound, TypeOK
  <2>3. Waiting(e)'
    BY <2>1, <2>2, WaitingNow
  <2> QED
    BY <2>3 DEF Accounted
<1>4. CASE \E k \in Slots : e \in req[k].batch /\ req[k].reader # GaveUp
  <2>1. PICK k \in Slots : e \in req[k].batch /\ req[k].reader # GaveUp
    BY <1>4
  <2>2. Waiting(e)'
    BY <1>1, <2>1, SlotKept DEF Safe1
  <2> QED
    BY <2>2 DEF Accounted
<1>5. CASE stored[e] > 0 \/ e \in excused
  BY <1>1, <1>5 DEF Accounted
<1>6. \/ e \in EventsIn(retry) \union added
      \/ \E u \in Tabs : e \in buffer[u] /\ u # t
      \/ \E k \in Slots : e \in req[k].batch /\ req[k].reader # GaveUp
      \/ stored[e] > 0 \/ e \in excused
  BY DEF Accounted, Waiting
<1> QED
  BY <1>2, <1>3, <1>4, <1>5, <1>6

LEMMA MintedAccounted == KeptWhilePageLives <=> \A e \in minted : Accounted(e)
  BY DEF KeptWhilePageLives, Accounted

LEMMA PageKept ==
  ASSUME Safe1, KeptInv, NEW t \in Tabs, Page(t)
  PROVE  \A e \in minted' : Accounted(e)'
<1>1. minted \subseteq Events /\ \A u \in Tabs : buffer[u] \in SUBSET Events
  BY DEF Safe1, Sound, TypeOK
<1>2. \A e \in minted : Accounted(e)
  BY MintedAccounted DEF KeptInv
<1>3. ASSUME Open(t), NEW e \in minted' PROVE Accounted(e)'
  <2>1. /\ Flush(t, {}) /\ minted' = minted /\ stored' = stored
        /\ page[t] = "closed"
    BY <1>3 DEF Open
  <2>2. buffer[t] = {}
    BY <2>1 DEF KeptInv, ClosedEmpty
  <2> QED
    BY <1>1, <1>2, <1>3, <2>1, <2>2, FlushKept
<1>4. ASSUME FlushTimer(t), NEW e \in minted' PROVE Accounted(e)'
  <2>1. /\ Flush(t, buffer[t]) /\ minted' = minted /\ stored' = stored
    BY <1>4 DEF FlushTimer
  <2> QED
    BY <1>1, <1>2, <1>4, <2>1, FlushKept
<1>5. ASSUME NEW f \in Events, Emit(t, f), NEW e \in minted' PROVE Accounted(e)'
  <2>1. minted' = minted \union {f} /\ stored' = stored
    BY <1>5 DEF Emit
  <2>2. e \in Events /\ (Accounted(e) \/ e = f)
    BY <1>1, <1>2, <1>5, <2>1
  <2>3. CASE Flush(t, buffer[t] \union {f})
    <3>1. /\ buffer[t] \union {f} \in SUBSET Events
          /\ Accounted(e) \/ e \in buffer[t] \union {f}
      BY <1>1, <2>2
    <3> QED
      BY <2>1, <2>2, <2>3, <3>1, FlushKept
  <2>4. CASE /\ buffer' = [buffer EXCEPT ![t] = @ \union {f}]
             /\ UNCHANGED <<req, retry, excused>>
    <3>1. \A u \in Tabs : buffer[u] \subseteq buffer'[u] /\ f \in buffer'[t]
      BY <2>4 DEF Safe1, Sound, TypeOK
    <3>2. CASE e = f
      <4>1. Waiting(e)'
        BY <3>1, <3>2, WaitingNow
      <4> QED
        BY <4>1 DEF Accounted
    <3>3. CASE Accounted(e)
      <4>1. Waiting(e) => Waiting(e)'
        BY <2>4, <3>1 DEF Waiting
      <4> QED
        BY <2>1, <2>4, <3>3, <4>1 DEF Accounted
    <3> QED
      BY <2>2, <3>2, <3>3
  <2> QED
    BY <1>5, <2>3, <2>4 DEF Emit
<1>6. ASSUME Leave(t), NEW e \in minted' PROVE Accounted(e)'
  <2>1. /\ minted' = minted /\ stored' = stored
        /\ buffer' = [buffer EXCEPT ![t] = {}]
    BY <1>6 DEF Leave
  <2>2. /\ \A k \in Slots :
             req'[k] = req[k] \/ Sent(k, EventsIn(retry) \union buffer[t], Gone)
        /\ \A f \in EventsIn(retry) \union buffer[t] :
             \/ f \in excused' \union EventsIn(retry')
             \/ \E k \in Slots : f \in req'[k].batch /\ req'[k].reader = Gone
        /\ excused \subseteq excused'
    BY <1>6, LeaveFacts DEF Safe1, Sound
  <2>3. CASE e \in EventsIn(retry) \union buffer[t]
    <3>1. CASE e \in excused'
      BY <3>1 DEF Accounted
    <3>2. CASE e \in EventsIn(retry')
      BY <3>2, WaitingNow DEF Accounted
    <3>3. CASE \E k \in Slots : e \in req'[k].batch /\ req'[k].reader = Gone
      <4>1. Waiting(e)'
        BY <3>3, Limits, WaitingNow
      <4> QED
        BY <4>1 DEF Accounted
    <3> QED
      BY <2>2, <2>3, <3>1, <3>2, <3>3
  <2>4. CASE \E u \in Tabs : e \in buffer[u] /\ u # t
    <3>1. PICK u \in Tabs : e \in buffer[u] /\ u # t
      BY <2>4
    <3>2. e \in buffer'[u]
      BY <2>1, <3>1 DEF Safe1, Sound, TypeOK
    <3>3. Waiting(e)'
      BY <3>1, <3>2, WaitingNow
    <3> QED
      BY <3>3 DEF Accounted
  <2>5. CASE \E k \in Slots : e \in req[k].batch /\ req[k].reader # GaveUp
    <3>1. PICK k \in Slots : e \in req[k].batch /\ req[k].reader # GaveUp
      BY <2>5
    <3>2. Waiting(e)'
      BY <2>2, <3>1, SlotKept DEF Safe1
    <3> QED
      BY <3>2 DEF Accounted
  <2>6. CASE stored[e] > 0 \/ e \in excused
    BY <2>1, <2>2, <2>6 DEF Accounted
  <2>7. Accounted(e)
    BY <1>2, <1>6, <2>1
  <2> QED
    BY <2>3, <2>4, <2>5, <2>6, <2>7 DEF Accounted, Waiting
<1>7. ASSUME Close(t), NEW e \in minted' PROVE Accounted(e)'
  <2>1. /\ minted' = minted /\ stored' = stored
        /\ buffer' = [buffer EXCEPT ![t] = {}] /\ retry' = retry \ In(t)
        /\ excused' = excused \union buffer[t] \union EventsIn(In(t))
    BY <1>7 DEF Close
  <2>2. CASE \E k \in Slots : e \in req[k].batch /\ req[k].reader # GaveUp
    <3>1. PICK k \in Slots : e \in req[k].batch /\ req[k].reader # GaveUp
      BY <2>2
    <3>2. req[k] \in Requests /\ Gone \in Readers
      BY DEF Safe1, Sound, TypeOK, Readers
    <3>3. CASE req'[k] = req[k]
      BY <3>1, <3>3, WaitingNow DEF Accounted
    <3>4. CASE req'[k] = [req[k] EXCEPT !.reader = Gone]
      <4>1. req'[k].batch = req[k].batch /\ req'[k].reader = Gone
        BY <3>2, <3>4, ReaderTyped
      <4>2. Waiting(e)'
        BY <3>1, <4>1, Limits, WaitingNow
      <4> QED
        BY <4>2 DEF Accounted
    <3> QED
      BY <1>7, <3>3, <3>4, CloseFacts DEF Safe1, Sound
  <2>3. CASE \E u \in Tabs : e \in buffer[u]
    <3>1. PICK u \in Tabs : e \in buffer[u]
      BY <2>3
    <3>2. CASE u = t
      BY <2>1, <3>1, <3>2 DEF Accounted
    <3>3. CASE u # t
      <4>1. e \in buffer'[u]
        BY <2>1, <3>1, <3>3 DEF Safe1, Sound, TypeOK
      <4>2. Waiting(e)'
        BY <4>1, WaitingNow
      <4> QED
        BY <4>2 DEF Accounted
    <3> QED
      BY <3>2, <3>3
  <2>4. CASE e \in EventsIn(retry)
    <3>1. e \in EventsIn(retry') \union excused'
      BY <2>1, <2>4 DEF EventsIn
    <3> QED
      BY <3>1, WaitingNow DEF Accounted
  <2>5. CASE stored[e] > 0 \/ e \in excused
    BY <2>1, <2>5 DEF Accounted
  <2>6. Accounted(e)
    BY <1>2, <1>7, <2>1
  <2> QED
    BY <2>2, <2>3, <2>4, <2>5, <2>6 DEF Accounted, Waiting
<1> QED
  BY <1>3, <1>4, <1>5, <1>6, <1>7 DEF Page

\* Nothing of the visitor's moves, and the stream does not shrink.
LEMMA SteadyKept ==
  ASSUME Safe1, KeptInv, NEW e \in minted,
         UNCHANGED <<buffer, excused>>, EventsIn(retry') = EventsIn(retry),
         \A k \in Slots : req'[k].batch = req[k].batch /\ req'[k].reader = req[k].reader,
         stored[e] > 0 => stored'[e] > 0
  PROVE  Accounted(e)'
<1>1. Accounted(e)
  BY MintedAccounted DEF KeptInv
<1>2. Waiting(e) => Waiting(e)'
  BY DEF Waiting
<1> QED
  BY <1>1, <1>2 DEF Accounted

LEMMA CollectorKept ==
  ASSUME Safe1, KeptInv, NEW k \in Slots, Collector(k)
  PROVE  \A e \in minted' : Accounted(e)'
<1>1. UNCHANGED <<minted, buffer, retry, excused>>
  BY DEF Collector, Refuse, Forbid, Filter, Admit, RunScript, RunScriptAgain, Accept, Fail,
         tracker
<1>2. ASSUME NEW reply \in Replies, Answer(k, reply), stored' = stored
      PROVE  /\ \A l \in Slots : req'[l].batch = req[l].batch /\ req'[l].reader = req[l].reader
             /\ \A e \in Events : stored'[e] >= stored[e]
  <2>1. \A l \in Slots : req'[l].batch = req[l].batch /\ req'[l].reader = req[l].reader
    BY <1>2, AnswerFacts DEF Safe1, Sound
  <2>2. \A e \in Events : stored[e] >= stored[e]
    BY DEF Safe1, Sound, TypeOK
  <2> QED
    BY <1>2, <2>1, <2>2
<1>3. /\ \A l \in Slots : req'[l].batch = req[l].batch /\ req'[l].reader = req[l].reader
      /\ \A e \in Events : stored'[e] >= stored[e]
  <2>1. CASE Refuse(k) \/ Forbid(k) \/ Filter(k) \/ Fail(k) \/ Accept(k)
    <3>1. stored' = stored
      BY <2>1 DEF Refuse, Forbid, Filter, Fail, Accept
    <3>2. Answer(k, "refused") \/ Answer(k, "filtered") \/ Answer(k, "retry") \/ Answer(k, "ok")
      BY <2>1 DEF Refuse, Forbid, Filter, Fail, Accept, FailureReply
    <3> QED
      BY <1>2, <3>1, <3>2, ReplyKinds
  <2>2. CASE Admit(k)
    <3>1. stored' = stored /\ \A e \in Events : stored[e] >= stored[e]
      BY <2>2 DEF Admit, Safe1, Sound, TypeOK
    <3> QED
      BY <2>2, <3>1, AdmitFacts DEF Safe1, Sound
  <2>3. CASE RunScript(k) /\ Conflict(k)
    BY <1>2, <2>3, ReplyKinds DEF Conflict
  <2>4. FreshIn(req[k].batch) \in SUBSET Events
    BY DEF FreshIn, Safe1, Sound, TypeOK, Requests
  <2>5. CASE RunScript(k) /\ Enqueue(k)
    <3>1. /\ AddToStream(FreshIn(req[k].batch))
          /\ \A l \in Slots : req'[l].batch = req[l].batch /\ req'[l].reader = req[l].reader
      BY <2>5, EnqueueFacts DEF Safe1, Sound
    <3> QED
      BY <2>4, <3>1, AppendFacts DEF Safe1, Sound
  <2>6. CASE RunScriptAgain(k)
    <3>1. AddToStream(FreshIn(req[k].batch)) /\ req' = req
      BY <2>6 DEF RunScriptAgain
    <3> QED
      BY <2>4, <3>1, AppendFacts DEF Safe1, Sound
  <2> QED
    BY <2>1, <2>2, <2>3, <2>5, <2>6 DEF Collector, RunScript
<1>4. ASSUME NEW e \in minted
      PROVE  stored[e] > 0 => stored'[e] > 0
  <2>1. e \in Events /\ stored[e] \in Nat /\ stored'[e] >= stored[e]
    BY <1>3 DEF Safe1, Sound, TypeOK
  <2>2. stored' \in [Events -> Nat]
    <3>1. Sound'
      BY StepSound DEF Safe1, Next
    <3> QED
      BY <3>1 DEF Sound, TypeOK
  <2> QED
    BY <2>1, <2>2
<1> QED
  BY <1>1, <1>3, <1>4, SteadyKept

LEMMA SettleKept ==
  ASSUME Safe1, KeptInv, NEW k \in Slots, Settle(k)
  PROVE  \A e \in minted' : Accounted(e)'
<1>1. /\ UNCHANGED <<minted, buffer, stored>>
      /\ req' = [req EXCEPT ![k] = Idle]
  BY DEF Settle, tracker
<1>2. \A l \in Slots : l # k => req'[l] = req[l]
  BY <1>1, IdleTyped, SlotFacts DEF Safe1, Sound
<1>3. req[k].batch \in SUBSET Events
  BY DEF Safe1, Sound, TypeOK, Requests
<1>4. /\ excused \subseteq excused'
      /\ \A e \in EventsIn(retry) : e \in EventsIn(retry') \union excused'
      /\ \A e \in req[k].batch : stored[e] > 0 \/ e \in EventsIn(retry') \union excused'
  <2>1. CASE req[k].reply = "ok"
    <3>1. retry' = retry /\ excused' = excused
      BY <2>1 DEF Settle
    <3>2. \A e \in req[k].batch : stored[e] >= 1
      BY <2>1 DEF Safe1, SafeInv, StageTells
    <3>3. \A e \in req[k].batch : stored[e] > 0
      BY <1>3, <3>2 DEF Safe1, Sound, TypeOK
    <3> QED
      BY <3>1, <3>3
  <2>2. CASE req[k].reply = "retry"
    <3>1. req[k].reader \in Tabs /\ Push(req[k].reader, req[k].batch)
      BY <2>2 DEF Settle, Requeue
    <3> QED
      BY <1>3, <3>1, PushFacts DEF Safe1, Sound
  <2>3. CASE req[k].reply \notin {"ok", "retry"}
    <3>1. retry' = retry /\ excused' = excused \union req[k].batch
      BY <2>3 DEF Settle
    <3> QED
      BY <3>1
  <2> QED
    BY <2>1, <2>2, <2>3
<1> SUFFICES ASSUME NEW e \in minted PROVE Accounted(e)'
  BY <1>1
<1>5. Accounted(e)
  BY MintedAccounted DEF KeptInv
<1>6. CASE e \in EventsIn(retry) \/ e \in req[k].batch
  <2>1. stored[e] > 0 \/ e \in excused' \/ e \in EventsIn(retry')
    BY <1>4, <1>6
  <2>2. e \in EventsIn(retry') => Waiting(e)'
    BY WaitingNow
  <2> QED
    BY <1>1, <2>1, <2>2 DEF Accounted
<1>7. CASE \E t \in Tabs : e \in buffer[t]
  <2>1. Waiting(e)'
    BY <1>1, <1>7 DEF Waiting
  <2> QED
    BY <2>1 DEF Accounted
<1>8. CASE \E l \in Slots : l # k /\ e \in req[l].batch /\ req[l].reader # GaveUp
  <2>1. Waiting(e)'
    BY <1>2, <1>8, WaitingNow
  <2> QED
    BY <2>1 DEF Accounted
<1>9. CASE stored[e] > 0 \/ e \in excused
  BY <1>1, <1>4, <1>9 DEF Accounted
<1> QED
  BY <1>5, <1>6, <1>7, <1>8, <1>9 DEF Accounted, Waiting

LEMMA UnreadKept ==
  ASSUME Safe1, KeptInv, NEW k \in Slots, Unread(k)
  PROVE  \A e \in minted' : Accounted(e)'
<1>1. /\ UNCHANGED <<minted, buffer, retry, stored>>
      /\ req' = [req EXCEPT ![k] = Idle]
      /\ req[k].stage = "answered" /\ req[k].reader \notin Tabs
  BY DEF Unread, tracker
<1>2. \A l \in Slots : l # k => req'[l] = req[l]
  BY <1>1, IdleTyped, SlotFacts DEF Safe1, Sound
<1>3. excused \subseteq excused'
  BY DEF Unread
<1>4. ASSUME NEW e \in req[k].batch, req[k].reader # GaveUp
      PROVE  stored[e] > 0 \/ e \in excused'
  <2>1. /\ req[k].reader = Gone /\ req[k].reply \in {"ok", "filtered", "retry", "refused"}
        /\ e \in Events
    BY <1>1, <1>4 DEF Safe1, Sound, TypeOK, Requests, Readers, Replies, SafeInv, StageTells
  <2>2. CASE req[k].reply = "ok"
    <3>1. stored[e] >= 1 /\ stored[e] \in Nat
      BY <2>1, <2>2 DEF Safe1, SafeInv, StageTells, Sound, TypeOK
    <3> QED
      BY <3>1
  <2>3. CASE req[k].reply # "ok"
    BY <2>1, <2>3 DEF Unread
  <2> QED
    BY <2>2, <2>3
<1> SUFFICES ASSUME NEW e \in minted PROVE Accounted(e)'
  BY <1>1
<1>5. Accounted(e)
  BY MintedAccounted DEF KeptInv
<1>6. CASE e \in req[k].batch /\ req[k].reader # GaveUp
  BY <1>1, <1>4, <1>6 DEF Accounted
<1>7. CASE e \in EventsIn(retry) \/ \E t \in Tabs : e \in buffer[t]
  <2>1. Waiting(e)'
    BY <1>1, <1>7 DEF Waiting
  <2> QED
    BY <2>1 DEF Accounted
<1>8. CASE \E l \in Slots : l # k /\ e \in req[l].batch /\ req[l].reader # GaveUp
  <2>1. Waiting(e)'
    BY <1>2, <1>8, WaitingNow
  <2> QED
    BY <2>1 DEF Accounted
<1>9. CASE stored[e] > 0 \/ e \in excused
  BY <1>1, <1>3, <1>9 DEF Accounted
<1> QED
  BY <1>5, <1>6, <1>7, <1>8, <1>9 DEF Accounted, Waiting

LEMMA NetworkErrorKept ==
  ASSUME Safe1, KeptInv, NEW k \in Slots, NetworkError(k)
  PROVE  \A e \in minted' : Accounted(e)'
<1>1. /\ UNCHANGED <<minted, buffer, stored>>
      /\ req[k].reader \in Tabs /\ Push(req[k].reader, req[k].batch)
  BY DEF NetworkError, tracker
<1>2. \A l \in Slots : l # k => req'[l] = req[l]
  BY ErrorFacts DEF Safe1, Sound
<1>3. req[k].batch \in SUBSET Events
  BY DEF Safe1, Sound, TypeOK, Requests
<1>4. /\ excused \subseteq excused'
      /\ \A e \in EventsIn(retry) \union req[k].batch : e \in EventsIn(retry') \union excused'
  BY <1>1, <1>3, PushFacts DEF Safe1, Sound
<1> SUFFICES ASSUME NEW e \in minted PROVE Accounted(e)'
  BY <1>1
<1>5. Accounted(e)
  BY MintedAccounted DEF KeptInv
<1>6. CASE e \in EventsIn(retry) \/ e \in req[k].batch
  <2>1. e \in excused' \/ e \in EventsIn(retry')
    BY <1>4, <1>6
  <2>2. e \in EventsIn(retry') => Waiting(e)'
    BY WaitingNow
  <2> QED
    BY <2>1, <2>2 DEF Accounted
<1>7. CASE \E t \in Tabs : e \in buffer[t]
  <2>1. Waiting(e)'
    BY <1>1, <1>7 DEF Waiting
  <2> QED
    BY <2>1 DEF Accounted
<1>8. CASE \E l \in Slots : l # k /\ e \in req[l].batch /\ req[l].reader # GaveUp
  <2>1. Waiting(e)'
    BY <1>2, <1>8, WaitingNow
  <2> QED
    BY <2>1 DEF Accounted
<1>9. CASE stored[e] > 0 \/ e \in excused
  BY <1>1, <1>4, <1>9 DEF Accounted
<1> QED
  BY <1>5, <1>6, <1>7, <1>8, <1>9 DEF Accounted, Waiting

LEMMA TickKept ==
  ASSUME Safe1, KeptInv, Tick
  PROVE  \A e \in minted' : Accounted(e)'
<1>1. UNCHANGED <<minted, buffer, stored, excused>>
  BY DEF Tick
<1>2. /\ EventsIn(retry') = EventsIn(retry)
      /\ \A k \in Slots : req'[k].batch = req[k].batch /\ req'[k].reader = req[k].reader
  BY TickFacts DEF Safe1, Sound
<1> QED
  BY <1>1, <1>2, SteadyKept

LEMMA StepKept == Safe1 /\ KeptInv /\ [Next]_vars => KeptInv'
<1> SUFFICES ASSUME Safe1, KeptInv, [Next]_vars PROVE KeptInv'
  OBVIOUS
<1>1. ClosedEmpty'
  <2>1. ASSUME NEW t \in Tabs, Page(t)
        PROVE  /\ page' = page \/ page'[t] # "closed" \/ buffer'[t] = {}
               /\ \A u \in Tabs : u # t => page'[u] = page[u] /\ buffer'[u] = buffer[u]
               /\ page'[t] = "closed" => buffer'[t] = {}
    <3>1. page \in [Tabs -> {"closed", "open", "left"}] /\ buffer \in [Tabs -> SUBSET Events]
      BY DEF Safe1, Sound, TypeOK
    <3>2. CASE Open(t)
      BY <3>1, <3>2 DEF Open, Flush
    <3>3. CASE FlushTimer(t)
      BY <3>1, <3>3 DEF FlushTimer, Flush
    <3>4. CASE Leave(t)
      BY <3>1, <3>4 DEF Leave
    <3>5. CASE Close(t)
      BY <3>1, <3>5 DEF Close
    <3>6. ASSUME NEW e \in Events, Emit(t, e)
          PROVE  /\ page' = page /\ page[t] # "closed"
                 /\ \A u \in Tabs : u # t => buffer'[u] = buffer[u]
      BY <3>1, <3>6 DEF Emit, Flush
    <3> QED
      BY <2>1, <3>2, <3>3, <3>4, <3>5, <3>6 DEF Page
  <2>2. CASE \E t \in Tabs : Page(t)
    BY <2>1, <2>2 DEF KeptInv, ClosedEmpty
  <2>3. CASE UNCHANGED <<page, buffer>>
    BY <2>3 DEF KeptInv, ClosedEmpty
  <2>4. ASSUME NEW k \in Slots, Collector(k) \/ Answers(k) PROVE UNCHANGED <<page, buffer>>
    BY <2>4 DEF Collector, Refuse, Forbid, Filter, Admit, RunScript, RunScriptAgain, Accept,
                Fail, Answers, Settle, Unread, NetworkError, tracker
  <2>5. Tick => UNCHANGED <<page, buffer>>
    BY DEF Tick
  <2>6. UNCHANGED vars => UNCHANGED <<page, buffer>>
    BY DEF vars
  <2> QED
    BY <2>2, <2>3, <2>4, <2>5, <2>6 DEF Next
<1>2. KeptWhilePageLives'
  <2>1. ASSUME \A e \in minted' : Accounted(e)' PROVE KeptWhilePageLives'
    BY <2>1 DEF Accounted, KeptWhilePageLives
  <2>2. CASE UNCHANGED vars
    BY <2>2 DEF vars, KeptInv, KeptWhilePageLives, Waiting
  <2> QED
    BY <2>1, <2>2, PageKept, CollectorKept, SettleKept, UnreadKept, NetworkErrorKept, TickKept
       DEF Next, Answers
<1> QED
  BY <1>1, <1>2 DEF KeptInv

\* An event a page minted is in the stream, waits somewhere, or was given up for a
\* stated reason: no failure, timer or network error loses it while a page lives.
THEOREM NothingLost == Spec => []KeptWhilePageLives
<1>1. Init => KeptInv
  <2> SUFFICES ASSUME Init PROVE KeptInv
    OBVIOUS
  <2>1. ClosedEmpty
    BY DEF Init, ClosedEmpty
  <2>2. \A e \in minted : stored[e] > 0
    BY IdsAssumption DEF Init, IdsAssumption
  <2> QED
    BY <2>1, <2>2 DEF KeptInv, KeptWhilePageLives
<1>2. Safe1 /\ KeptInv /\ [Next]_vars => KeptInv'
  BY StepKept
<1>3. Spec => []Safe1
  BY Safe DEF Safe1
<1>4. KeptInv => KeptWhilePageLives
  BY DEF KeptInv
<1> QED
  BY <1>1, <1>2, <1>3, <1>4, PTL DEF Spec
=============================================================================
