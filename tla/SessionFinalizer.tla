-------------------------- MODULE SessionFinalizer --------------------------
(***************************************************************************)
(* The session finalizer of one site.                                      *)
(*                                                                         *)
(* Events land in events_raw out of order, up to Lateness after they       *)
(* occurred.  A pass claims the site's lease, reads the events from the    *)
(* watermark on, groups them into sessions, writes a higher version of     *)
(* every session whose stored row differs and a tombstone for every stored *)
(* session that is gone, re-aggregates the rollup buckets it touched, and  *)
(* only then moves the watermark up.  Nothing of this is transactional and *)
(* the lease is never renewed, so a pass may fail or die between any two   *)
(* writes and may still be writing when another pass has begun.            *)
(*                                                                         *)
(* Source: apps/worker/src/sessions/{job,finalizer,plan,state}.ts,         *)
(*         packages/domain/src/session.ts,                                 *)
(*         packages/clickhouse/src/session-facts.ts,                       *)
(*         packages/postgres/src/repositories/session-finalizer.ts         *)
(*                                                                         *)
(* An event is a pair <<visitor, time>>: what one visitor sent in one      *)
(* millisecond is one event.  A session's fingerprint is its set of        *)
(* events.  One rollup grain stands for the two the code writes in turn.   *)
(* The bridge over midnight and the identity stitch of the sessionizer are *)
(* left out.                                                               *)
(***************************************************************************)
EXTENDS Integers, FiniteSets

CONSTANTS
  Visitors,    \* resolved identities
  Passes,      \* finalizeSite calls that may be in progress
  Names,       \* claimedBy: one name for each worker process
  NoName,      \* a free lease
  MaxTime,     \* bound: the clock stops here
  LastEvent,   \* bound: no event occurs later, so that what occurs can settle
  MaxEvents,   \* bound: events that ever arrive
  MaxRuns,     \* bound: passes that ever begin, 0 for no bound
  MaxFaults,   \* bound: failed or crashed passes
  Inactivity,  \* SESSION_INACTIVITY_MINUTES
  Cap,         \* SESSION_MAX_LENGTH_HOURS
  Lateness,    \* EVENT_MAX_LATENESS_HOURS, from occurrence to storage
  LeaseTTL,    \* WORKER_LEASE_TTL_MS
  PassTime,    \* assumed: how long a pass may take
  RowCap,      \* MAX_WINDOW_ROWS
  Width        \* UNIT_WIDTH_MS of the rollup grain

ASSUME FinalizerAssumption ==
  /\ {MaxTime, LastEvent, MaxEvents, MaxRuns, MaxFaults, Lateness, LeaseTTL, PassTime} \subseteq Nat
  /\ {Inactivity, RowCap, Width} \subseteq Nat \ {0}
  /\ LastEvent <= MaxTime /\ Cap \in Nat /\ Cap > Inactivity
  /\ NoName \notin Names

Times == 0 .. MaxTime
Events == Visitors \X (0 .. LastEvent)

VARIABLES
  now,         \* the wall clock
  events,      \* events_raw
  lease,       \* session_finalizer_state: claimed_by and lease_expires_at
  watermark,   \* session_finalizer_state.finalized_through
  facts,       \* session_facts_versions: per session the rows of its highest version
  rollups,     \* session_rollups: per bucket the rows of its highest generation
  pass,        \* what each finalizeSite call holds in memory
  runs,        \* passes begun so far
  faults,      \* failed and crashed passes so far
  overlapped,  \* history: two passes were once in progress together
  torn         \* history: buckets whose swap was lost or raced

vars == <<now, events, lease, watermark, facts, rollups, pass, runs, faults,
          overlapped, torn>>

-----------------------------------------------------------------------------
(* The sessionizer. *)

Time(e) == e[2]
MaxOf(S) == CHOOSE x \in S : \A y \in S : x >= y
MinOf(S) == CHOOSE x \in S : \A y \in S : x <= y

\* Of one visitor's event times, the start of the session each belongs to: an event
\* opens a new one after a gap or at the cap.
StartsAt(times) ==
  LET start[t \in Times] ==
        LET earlier == {u \in times : u < t}
            last == MaxOf(earlier)
        IN IF \/ earlier = {}
              \/ t - last > Inactivity
              \/ t - start[last] >= Cap
             THEN t ELSE start[last]
  IN start

SessionOf(E, e) == <<e[1], StartsAt({Time(f) : f \in {g \in E : g[1] = e[1]}})[Time(e)]>>

\* A session is named by its first event.
Sessionize(E) ==
  {[id |-> i, events |-> {e \in E : SessionOf(E, e) = i}] : i \in {SessionOf(E, e) : e \in E}}

Start(s) == s.id[2]
End(s) == MaxOf({Time(e) : e \in s.events})
Bucket(s) == Start(s) \div Width

-----------------------------------------------------------------------------
(* The stores. *)

\* Per key the rows of the highest rank survive a write.
Supersede(old, new, Key(_), Rank(_)) ==
  {r \in old \cup new : \A q \in old \cup new : Key(q) = Key(r) => Rank(q) <= Rank(r)}

\* argMax: one row of each key, whichever the store picks of equal ranks.
Reads(rows, Key(_)) ==
  {R \in SUBSET rows : \A r \in rows : \E q \in R : {x \in R : Key(x) = Key(r)} = {q}}

FactId(r) == r.id
FactVersion(r) == r.version
RollupBucket(r) == r.bucket
RollupGeneration(r) == r.generation

Live(rows) == {r \in rows : ~r.retracted}
HighestOf(S) == IF S = {} THEN 0 ELSE MaxOf(S)

\* What a bucket's rollup row says of its sessions.
Aggregate(rows, b) ==
  LET here == {r \in Live(rows) : Bucket(r) = b}
  IN [sessions |-> Cardinality(here), pageviews |-> Cardinality(UNION {r.events : r \in here})]
NoSessions == [sessions |-> 0, pageviews |-> 0]

-----------------------------------------------------------------------------
(* One pass. *)

Idle == [at |-> "idle", name |-> NoName, from |-> 0, started |-> 0, all |-> {}, to |-> 0,
         rows |-> {}, touched |-> {}, mark |-> 0, swap |-> {}, alone |-> TRUE]

Running(p) == pass[p].at # "idle"

\* The read stops short when it returns RowCap rows: the last millisecond may be incomplete.
ResolveWindow(window, from, nowMs) ==
  LET full == {t \in {Time(e) : e \in window} :
                 Cardinality({e \in window : Time(e) <= t}) >= RowCap}
      boundary == MinOf(full)
  IN IF full = {} THEN nowMs
     ELSE IF boundary <= from THEN from + 1
     ELSE boundary

\* Mutant: what was not read counts as settled.
CompleteThrough_Unread(to, nowMs) == nowMs - Lateness
\* Mutant: what may still arrive counts as settled.
CompleteThrough_NoLateness(to, nowMs) == to
\* How far the past is both settled and read.
CompleteThrough(to, nowMs) == MinOf({to, nowMs - Lateness})
FinalizeHorizon(to, nowMs) == CompleteThrough(to, nowMs) - Inactivity

\* A session is final behind the horizon, or when its cap is.
IsFinal(s, horizon) == End(s) <= horizon \/ Start(s) <= horizon - Cap

\* Mutant: a session that ends on the watermark does not count.
Straddles_EndExclusive(s, t) == Start(s) < t /\ End(s) > t
Straddles(s, t) == Start(s) < t /\ End(s) >= t

\* The horizon, or the earliest session still open, pulled back until no session straddles it.
NewWatermark(sessions, horizon) ==
  LET open == {Start(s) : s \in {x \in sessions : ~IsFinal(x, horizon)}}
      first == MinOf(open \cup {horizon})
      clear == {t \in {first} \cup {Start(s) : s \in sessions} :
                  t <= first /\ \A s \in sessions : ~Straddles(s, t)}
  IN MaxOf(clear)

\* Mutant: a stored session that is gone is left alone.
Vanished_Kept(sessions, stored) == {}
Vanished(sessions, stored) == {r \in Live(stored) : \A s \in sessions : s.id # r.id}

\* planSessionFacts: new versions of what differs, tombstones for what is gone.
PlanRows(sessions, stored, horizon) ==
  LET version == HighestOf({r.version : r \in stored}) + 1
      Row(s, final, gone) ==
        [id |-> s.id, events |-> s.events, final |-> final, retracted |-> gone,
         version |-> version]
      changed == {s \in sessions :
                    ~\E r \in Live(stored) : /\ r.id = s.id /\ r.events = s.events
                                             /\ r.final = IsFinal(s, horizon)}
  IN {Row(s, IsFinal(s, horizon), FALSE) : s \in changed}
       \cup {Row(r, r.final, TRUE) : r \in Vanished(sessions, stored)}

\* Mutant: a bucket left without sessions is not overwritten.
SameTotals_ZeroSkipped(b, current, stored) ==
  \/ \E r \in stored : r.bucket = b /\ r.totals = Aggregate(current, b)
  \/ Aggregate(current, b) = NoSessions
SameTotals(b, current, stored) ==
  \/ \E r \in stored : r.bucket = b /\ r.totals = Aggregate(current, b)
  \/ (\A r \in stored : r.bucket # b) /\ Aggregate(current, b) = NoSessions

\* planRollupSwap: the touched buckets whose aggregate differs, at the next generation.
PlanSwap(touched, current, stored) ==
  LET generation == HighestOf({r.generation : r \in stored}) + 1
  IN {[bucket |-> b, generation |-> generation, totals |-> Aggregate(current, b)] :
        b \in {x \in touched : ~SameTotals(x, current, stored)}}

\* Mutant: the planned watermark is taken as it is.
Clamped_Not(from, mark) == mark
\* The watermark never falls behind the window it was planned from.
Clamped(from, mark) == MaxOf({from, mark})

Within(rows, from, to) == {r \in rows : Start(r) >= from /\ Start(r) < to}

-----------------------------------------------------------------------------
(* Actions. *)

Init ==
  /\ now = 0 /\ events = {}
  /\ lease = [by |-> NoName, until |-> 0] /\ watermark = 0
  /\ facts = {} /\ rollups = {}
  /\ pass = [p \in Passes |-> Idle]
  /\ runs = 0 /\ faults = 0 /\ overlapped = FALSE /\ torn = {}

\* The ingest worker stores an event that occurred at most Lateness ago.
Arrive(e) ==
  /\ e \notin events /\ Cardinality(events) < MaxEvents
  /\ Time(e) <= now /\ Time(e) >= now - Lateness
  /\ events' = events \cup {e}
  /\ UNCHANGED <<now, lease, watermark, facts, rollups, pass, runs, faults, overlapped, torn>>

\* A lease is taken when it is free, expired, or held under the caller's own name.
Takeable(n) == lease.by \in {NoName, n} \/ lease.until < now

Claim(p, n) ==
  /\ ~Running(p) /\ events # {} /\ Takeable(n)
  /\ MaxRuns # 0 => runs < MaxRuns
  /\ runs' = IF MaxRuns = 0 THEN 0 ELSE runs + 1
  /\ lease' = [by |-> n, until |-> now + LeaseTTL]
  /\ LET others == {q \in Passes \ {p} : Running(q)}
     IN /\ pass' = [q \in Passes |->
                      IF q = p
                        THEN [Idle EXCEPT !.at = "claimed", !.name = n, !.from = watermark,
                                          !.started = now, !.alone = others = {}]
                        ELSE [pass[q] EXCEPT !.alone = q \notin others]]
        /\ overlapped' = (overlapped \/ others # {})
  /\ UNCHANGED <<now, events, watermark, facts, rollups, faults, torn>>

\* readWindowEvents and resolveWindow: `all' is what was stored, the pass reads [from, to) of it.
ReadEvents(p) ==
  LET s == pass[p]
      window == {e \in events : Time(e) >= s.from /\ Time(e) < s.started}
  IN /\ s.at = "claimed"
     /\ pass' = [pass EXCEPT ![p] = [@ EXCEPT !.at = "read", !.all = events,
                                             !.to = ResolveWindow(window, s.from, s.started)]]
     /\ UNCHANGED <<now, events, lease, watermark, facts, rollups, runs, faults,
                    overlapped, torn>>

\* sessionize, readStoredFacts with the same bound, planSessionFacts.
Plan(p) ==
  LET s == pass[p]
      sessions == Sessionize({e \in s.all : Time(e) >= s.from /\ Time(e) < s.to})
      horizon == FinalizeHorizon(s.to, s.started)
      mark == NewWatermark(sessions, horizon)
  IN /\ s.at = "read"
     /\ \E stored \in Reads(Within(facts, s.from, s.to), FactId) :
          LET rows == PlanRows(sessions, stored, horizon)
          IN pass' = [pass EXCEPT ![p] = [@ EXCEPT !.at = "planned", !.rows = rows,
                                               !.touched = {Bucket(r) : r \in rows},
                                               !.mark = Clamped(s.from, mark)]]
     /\ UNCHANGED <<now, events, lease, watermark, facts, rollups, runs, faults,
                    overlapped, torn>>

\* insertFactVersions.
WriteFacts(p) ==
  /\ pass[p].at = "planned"
  /\ facts' = Supersede(facts, pass[p].rows, FactId, FactVersion)
  /\ pass' = [pass EXCEPT ![p] = [@ EXCEPT !.at = "written", !.rows = {}]]
  /\ UNCHANGED <<now, events, lease, watermark, rollups, runs, faults, overlapped, torn>>

\* aggregateRollupBuckets and readStoredRollups over the touched range, planRollupSwap.
ReadRollups(p) ==
  LET touched == pass[p].touched
      range == {b \in 0 .. MaxTime : \E x, y \in touched : x <= b /\ b <= y + 1}
  IN /\ pass[p].at = "written"
     /\ \E current \in Reads(facts, FactId),
          stored \in Reads({r \in rollups : r.bucket \in range}, RollupBucket) :
          pass' = [pass EXCEPT ![p] = [@ EXCEPT !.at = "aggregated",
                                               !.swap = PlanSwap(touched, current, stored)]]
     /\ UNCHANGED <<now, events, lease, watermark, facts, rollups, runs, faults,
                    overlapped, torn>>

\* insertRollups.
WriteRollups(p) ==
  /\ pass[p].at = "aggregated"
  /\ rollups' = Supersede(rollups, pass[p].swap, RollupBucket, RollupGeneration)
  /\ torn' = IF pass[p].alone THEN torn \ pass[p].touched ELSE torn \cup pass[p].touched
  /\ pass' = [pass EXCEPT ![p] = [@ EXCEPT !.at = "swapped", !.swap = {}, !.touched = {}]]
  /\ UNCHANGED <<now, events, lease, watermark, facts, runs, faults, overlapped>>

\* advanceFinalizerWatermark: only under the caller's name, and never back.
Advance(p) ==
  /\ pass[p].at = "swapped"
  /\ IF lease.by = pass[p].name
       THEN /\ watermark' = MaxOf({watermark, pass[p].mark})
            /\ lease' = [by |-> NoName, until |-> 0]
       ELSE UNCHANGED <<watermark, lease>>
  /\ pass' = [pass EXCEPT ![p] = Idle]
  /\ UNCHANGED <<now, events, facts, rollups, runs, faults, overlapped, torn>>

\* A pass that ends after its facts were written leaves its buckets behind.
LeftBehind(P) ==
  UNION {pass[p].touched : p \in {q \in P : pass[q].at \in {"written", "aggregated"}}}

\* A read, an insert or the advance throws: the lease is released under the caller's
\* name, unless the release throws as well.
Fail(p) ==
  /\ Running(p) /\ faults < MaxFaults
  /\ faults' = faults + 1
  /\ \/ UNCHANGED lease
     \/ lease.by = pass[p].name /\ lease' = [by |-> NoName, until |-> 0]
  /\ torn' = torn \cup LeftBehind({p})
  /\ pass' = [pass EXCEPT ![p] = Idle]
  /\ UNCHANGED <<now, events, watermark, facts, rollups, runs, overlapped>>

\* A worker process dies with every pass it runs; the lease stays until it expires.
Crash(n) ==
  LET mine == {p \in Passes : Running(p) /\ pass[p].name = n}
  IN /\ mine # {} /\ faults < MaxFaults
     /\ faults' = faults + 1
     /\ torn' = torn \cup LeftBehind(mine)
     /\ pass' = [p \in Passes |-> IF p \in mine THEN Idle ELSE pass[p]]
     /\ UNCHANGED <<now, events, lease, watermark, facts, rollups, runs, overlapped>>

Tick ==
  /\ now < MaxTime
  /\ \A p \in Passes : Running(p) => now < pass[p].started + PassTime
  /\ now' = now + 1
  /\ UNCHANGED <<events, lease, watermark, facts, rollups, pass, runs, faults,
                 overlapped, torn>>

Step(p) ==
  \/ ReadEvents(p) \/ Plan(p) \/ WriteFacts(p) \/ ReadRollups(p) \/ WriteRollups(p) \/ Advance(p)

Next ==
  \/ \E e \in Events : Arrive(e)
  \/ \E p \in Passes : Step(p) \/ Fail(p) \/ \E n \in Names : Claim(p, n)
  \/ \E n \in Names : Crash(n)
  \/ Tick

Spec == Init /\ [][Next]_vars

\* The timer keeps starting passes, a pass that has begun keeps going, time goes on.
Fairness ==
  /\ WF_vars(Tick)
  /\ \A p \in Passes : WF_vars(Step(p)) /\ SF_vars(\E n \in Names : Claim(p, n))

FairSpec == Spec /\ Fairness

-----------------------------------------------------------------------------
(* Properties. *)

\* Every variable holds a value of its kind: the watermark stays on the clock's
\* scale, a stored row has a positive version and is named by one of its own events.
TypeOK ==
  /\ now \in Times /\ events \subseteq Events
  /\ lease.by \in Names \cup {NoName} /\ lease.until \in 0 .. MaxTime + LeaseTTL
  /\ watermark \in Times
  /\ \A r \in facts : r.id \in r.events /\ r.events \subseteq Events /\ r.version > 0
  /\ \A r \in rollups : r.bucket \in Times /\ r.generation > 0
  /\ \A p \in Passes : pass[p].name \in Names \cup {NoName} /\ pass[p].mark \in Times
  /\ runs \in 0 .. MaxRuns /\ faults \in 0 .. MaxFaults
  /\ overlapped \in BOOLEAN /\ torn \subseteq Times

\* Overlapping passes can give two rows of a session the same version.
Tied(r) == \E q \in facts : q.id = r.id /\ q # r

Counted(e) == \E r \in Live(facts) : e \in r.events

\* While passes never overlap no event is in two current sessions.
NoEventTwice ==
  ~overlapped => \A r, q \in Live(facts) : r # q => r.events \cap q.events = {}

\* No two passes were ever in progress together, or no read can have been cut at RowCap and
\* no pass outlasts a session.  Otherwise a pass that read a session in part, or before its
\* last event was stored, may plan after another has finalized it, and replace it.
Undisturbed == overlapped => Cardinality(events) < RowCap /\ PassTime <= Inactivity

\* Every stored event behind the watermark is in a current session.
BehindWatermarkIsCounted ==
  Undisturbed => \A e \in events : Time(e) < watermark => Counted(e)

\* What a reader sees of the sessions behind the watermark.
Content(r) == <<r.id, r.events>>
Final(rows) == {Content(r) : r \in {q \in Live(rows) : Start(q) < watermark}}

\* A session behind the watermark keeps its events and none appears there: what the API
\* reports as finalized through the watermark is not revised.
BehindWatermarkIsFinal ==
  [][Undisturbed' /\ (\A r \in facts : Start(r) < watermark => ~Tied(r))
       => Final(facts') = Final(facts)]_vars

\* After a pass that ran alone over everything, the current facts are what sessionizing
\* all stored events at once gives.
SameAsFromScratch ==
  [][\A p \in Passes :
       Undisturbed /\ Advance(p) /\ pass[p].alone /\ pass[p].to = pass[p].started
         /\ (\A r \in facts : ~Tied(r))
         => {[id |-> r.id, events |-> r.events] : r \in Live(facts)}
              = Sessionize({e \in pass[p].all : Time(e) < pass[p].to})]_vars

\* A bucket's rollup is the aggregate of its current sessions.
RollupsMatch ==
  \A b \in Times \ (torn \cup {Bucket(r) : r \in {q \in facts : Tied(q)}}) :
    (\A p \in Passes : pass[p].at \in {"written", "aggregated"} => b \notin pass[p].touched)
      => \/ \E r \in rollups : r.bucket = b /\ r.totals = Aggregate(facts, b)
         \/ (\A r \in rollups : r.bucket # b) /\ Aggregate(facts, b) = NoSessions

\* Every stored event ends up in a current session.
BacklogDrains == \A e \in Events : e \in events ~> Counted(e)

=============================================================================
