------------------------- MODULE RealtimeSnapshots -------------------------
(***************************************************************************)
(* The shared snapshot of one site in the realtime gateway: SiteHub of     *)
(* apps/realtime/src/hub.ts, with the connections that                     *)
(* apps/realtime/src/stream.ts adds to it and removes.                     *)
(*                                                                         *)
(* One read of the presence store serves every connection.  A read is      *)
(* started by an update on the channel, by the trailing timer that         *)
(* coalesces a burst of them, by the refresh timer, and by a connection    *)
(* that finds the cached snapshot too old.  The first three send what was  *)
(* read to everybody, unless it is what everybody has; the last one sends  *)
(* it to the new connection alone.  A snapshot is represented by the age   *)
(* of its generated_at.                                                    *)
(***************************************************************************)
EXTENDS Integers

CONSTANTS
  Clients,
  CacheTime,     \* REALTIME_SNAPSHOT_CACHE_SECONDS
  RefreshTime,   \* REALTIME_SNAPSHOT_REFRESH_SECONDS
  MaxAge,        \* REALTIME_SNAPSHOT_MAX_AGE_SECONDS
  ReadTime       \* the longest a read of the presence store takes

\* The policy schema refuses a refresh faster than the cache window.  The unit of
\* time is at most half of MaxAge.
ASSUME RealtimeAssumption ==
    /\ CacheTime \in Nat \ {0} /\ RefreshTime \in Nat /\ CacheTime <= RefreshTime
    /\ MaxAge \in Nat \ {0, 1} /\ ReadTime \in Nat

VARIABLES
  client,     \* where each connection is: away, waiting for its first frame, open
  hub,        \* the fields of the SiteHub
  age,        \* age of the snapshot each connection shows
  told,       \* whether its last control message says "degraded"
  bad,        \* reads for everybody that failed since the last one was sent (0, 1, more)
  swallowed,  \* whether a refresh was skipped for a read that was sent to nobody else
  joinRead    \* whether the last read was for new connections only

vars == <<client, hub, age, told, bad, swallowed, joinRead>>
ghosts == <<bad, swallowed, joinRead>>

Off == -1            \* a timer that is not set, a read that does not run
Stale == MaxAge + 1  \* the least age at which the connection calls the stream dead

\* What may pass between two frames when that many reads for everybody fail: an
\* unchanged snapshot is withheld, a refresh finds a read within the window, every
\* failure costs a refresh, and the read takes its time.
Gap(failed) == (MaxAge \div 2) + CacheTime + (failed + 1) * RefreshTime + ReadTime

\* Ages are told apart up to here.
AgeCap == IF Gap(1) > Stale THEN Gap(1) ELSE Stale
NoSnapshot == AgeCap + 1

\* Mutant: withheld for as long as a connection waits.
Floor_Whole == MaxAge

\* SNAPSHOT_RESEND_FLOOR_MS: how long an unchanged snapshot may be withheld.
Floor == MaxAge \div 2

\* A hub before its first connection.  The instants of the last read and of the
\* last frame start at zero, which is long ago.
NewHub ==
    [refresh |-> Off, trailing |-> Off, since |-> CacheTime, reading |-> Off,
     fan |-> FALSE, computed |-> FALSE, cached |-> NoSnapshot, sent |-> Floor,
     degraded |-> FALSE]

\* Every variable holds a value of its kind: a timer is off or due within its
\* interval, a read is off or within the time it may take.
TypeOK ==
    /\ client \in [Clients -> {"away", "waiting", "open"}]
    /\ hub \in [refresh : Off .. RefreshTime, trailing : Off .. CacheTime,
                since : 0 .. CacheTime, reading : Off .. ReadTime, fan : BOOLEAN,
                computed : BOOLEAN, cached : 0 .. NoSnapshot, sent : 0 .. Floor,
                degraded : BOOLEAN]
    /\ age \in [Clients -> 0 .. NoSnapshot] /\ told \in [Clients -> BOOLEAN]
    /\ bad \in 0 .. 2 /\ swallowed \in BOOLEAN /\ joinRead \in BOOLEAN

Init ==
    /\ client = [c \in Clients |-> "away"] /\ hub = NewHub
    /\ age = [c \in Clients |-> NoSnapshot] /\ told = [c \in Clients |-> FALSE]
    /\ bad = 0 /\ swallowed = FALSE /\ joinRead = FALSE

Present == {c \in Clients : client[c] # "away"}

\* runCompute: a read in flight is joined, and no second one is started.
RunCompute(h, fan) ==
    IF h.reading # Off THEN [h EXCEPT !.fan = @ \/ fan]
                       ELSE [h EXCEPT !.reading = 0, !.since = 0, !.fan = fan]

-----------------------------------------------------------------------------
(* Connections. *)

\* startRefresh, at the first connection.
StartRefresh(h) == IF h.refresh = Off THEN [h EXCEPT !.refresh = RefreshTime] ELSE h

\* The cached snapshot answers a new connection: it was read within the window,
\* or the connection holds it already (Last-Event-ID).
Fresh == hub.since < CacheTime

\* Mutant: only Last-Event-ID spares the read.
Served_HeldOnly(holds) == hub.computed /\ holds

Served(holds) == hub.computed /\ (holds \/ Fresh)

\* addClient and sendInitial, answered from the cache.
JoinServed(c) ==
    /\ client[c] = "away"
    /\ \E holds \in BOOLEAN : Served(holds)
    /\ client' = [client EXCEPT ![c] = "open"]
    /\ hub' = StartRefresh(hub)
    /\ age' = [age EXCEPT ![c] = hub.cached]
    /\ UNCHANGED <<told, ghosts>>

\* addClient and sendInitial, which waits for a read.
JoinWaits(c) ==
    /\ client[c] = "away"
    /\ ~Served(FALSE)
    /\ client' = [client EXCEPT ![c] = "waiting"]
    /\ hub' = RunCompute(StartRefresh(hub), FALSE)
    /\ joinRead' = ~hub'.fan
    /\ UNCHANGED <<age, told, bad, swallowed>>

\* removeClient.  The last one out takes the hub with it.
Leave(c) ==
    /\ client[c] = "open"
    /\ client' = [client EXCEPT ![c] = "away"]
    /\ age' = [age EXCEPT ![c] = NoSnapshot] /\ told' = [told EXCEPT ![c] = FALSE]
    /\ IF Present = {c}
       THEN hub' = NewHub /\ bad' = 0 /\ swallowed' = FALSE /\ joinRead' = FALSE
       ELSE UNCHANGED <<hub, ghosts>>

-----------------------------------------------------------------------------
(* What starts a read for everybody. *)

\* onUpdate outside the window.
UpdateReads ==
    /\ Present # {} /\ ~Fresh
    /\ hub' = RunCompute(hub, TRUE) /\ joinRead' = FALSE
    /\ UNCHANGED <<client, age, told, bad, swallowed>>

\* onUpdate inside the window: the trailing timer will read at its end.
UpdateWaits ==
    /\ Present # {} /\ Fresh /\ hub.trailing = Off
    /\ hub' = [hub EXCEPT !.trailing = CacheTime - hub.since]
    /\ UNCHANGED <<client, age, told, ghosts>>

TrailingFires ==
    /\ hub.trailing = 0
    /\ hub' = RunCompute([hub EXCEPT !.trailing = Off], TRUE) /\ joinRead' = FALSE
    /\ UNCHANGED <<client, age, told, bad, swallowed>>

\* The refresh timer leaves the work to the trailing timer, or to a read that
\* started within the window.
Skips == hub.trailing # Off \/ Fresh

RefreshFires ==
    /\ hub.refresh = 0
    /\ LET h == [hub EXCEPT !.refresh = RefreshTime]
       IN  hub' = IF Skips THEN h ELSE RunCompute(h, TRUE)
    /\ joinRead' = (joinRead /\ Skips)
    /\ swallowed' = (swallowed \/ (Skips /\ joinRead))
    /\ UNCHANGED <<client, age, told, bad>>

-----------------------------------------------------------------------------
(* What a read does when it is over. *)

\* A timer that is due runs before the answer to a read started since.
MayEnd == hub.reading # Off /\ (hub.reading = 0 => hub.refresh # 0 /\ hub.trailing # 0)

\* broadcastCurrent: unchanged and recent frames are withheld, except after a
\* recovery.
Sends(same) == hub.fan /\ (hub.degraded \/ ~same \/ hub.sent >= Floor)

Answered == [c \in Clients |-> IF client[c] = "waiting" THEN "open" ELSE client[c]]

ReadReturns ==
    /\ MayEnd
    /\ \E same \in BOOLEAN :
         /\ hub' = [hub EXCEPT !.reading = Off, !.fan = FALSE, !.computed = TRUE,
                               !.cached = 0, !.degraded = @ /\ ~hub.fan,
                               !.sent = IF Sends(same) THEN 0 ELSE @]
         /\ age' = [c \in Clients |->
                     IF client[c] = "waiting" \/ (Sends(same) /\ c \in Present)
                     THEN 0 ELSE age[c]]
         /\ IF Sends(same) THEN bad' = 0 /\ swallowed' = FALSE
                           ELSE UNCHANGED <<bad, swallowed>>
    /\ client' = Answered
    /\ told' = [c \in Clients |-> told[c] /\ ~(hub.fan /\ hub.degraded)]
    /\ UNCHANGED joinRead

\* A new connection gets the old snapshot, or is told there is none.
FailsFirst == {c \in Clients : client[c] = "waiting" /\ ~hub.computed}

\* Mutant: sendInitial does not mark the hub.
Degrades_FanOnly == hub.fan

Degrades == hub.fan \/ FailsFirst # {}

ReadFails ==
    /\ MayEnd
    /\ hub' = [hub EXCEPT !.reading = Off, !.fan = FALSE, !.degraded = @ \/ Degrades]
    /\ told' = [c \in Clients |->
                 \/ told[c] \/ c \in FailsFirst
                 \/ hub.fan /\ ~hub.degraded /\ c \in Present]
    /\ age' = [c \in Clients |->
                IF client[c] = "waiting" /\ hub.computed THEN hub.cached ELSE age[c]]
    /\ bad' = IF hub.fan /\ bad < 2 THEN bad + 1 ELSE bad
    /\ client' = Answered
    /\ UNCHANGED <<swallowed, joinRead>>

-----------------------------------------------------------------------------
(* The clock.  Timers fire on time, and a read ends within ReadTime. *)

\* Mutant: a timer that is not set runs on.
Down_Unset(t) == t - 1

Down(t) == IF t = Off THEN Off ELSE t - 1
Up(t, cap) == IF t < cap THEN t + 1 ELSE t

Tick ==
    /\ Present # {}
    /\ hub.refresh # 0 /\ hub.trailing # 0 /\ hub.reading < ReadTime
    /\ hub' = [hub EXCEPT !.refresh = Down(@), !.trailing = Down(@),
                          !.since = Up(@, CacheTime), !.cached = Up(@, AgeCap),
                          !.sent = Up(@, Floor),
                          !.reading = IF @ = Off THEN Off ELSE @ + 1]
    /\ age' = [c \in Clients |-> Up(age[c], AgeCap)]
    /\ UNCHANGED <<client, told, ghosts>>

-----------------------------------------------------------------------------
Connections == \E c \in Clients : JoinServed(c) \/ JoinWaits(c) \/ Leave(c)

Updates == UpdateReads \/ UpdateWaits

Timers == TrailingFires \/ RefreshFires

Reads == ReadReturns \/ ReadFails

Next == Connections \/ Updates \/ Timers \/ Reads \/ Tick

Spec == Init /\ [][Next]_vars

-----------------------------------------------------------------------------
(* Properties. *)

\* A read is over before the refresh after the one that began it.
ReadsAreShort == ReadTime < RefreshTime

\* However updates, timers and connections meet, the snapshot an open connection
\* shows is younger than the gap that no failed read leaves, or one, as long as no
\* refresh was skipped in favour of a read that went to new connections only.
StaysFresh ==
    ReadsAreShort =>
      \A c \in Clients :
        client[c] = "open" /\ age[c] # NoSnapshot /\ bad < 2 /\ ~swallowed
          => age[c] < Gap(bad)

\* What the contract says: a snapshot that old means that the stream is dead.  An
\* open connection does not show one while every read for everybody succeeds.
OldMeansDead ==
    \A c \in Clients : client[c] = "open" /\ age[c] \in Stale .. AgeCap => bad > 0

\* A connection that was told the data is degraded is one the hub will tell of the
\* recovery: the hub has not announced it yet.
DegradedIsLifted == \A c \in Clients : told[c] => hub.degraded

\* However updates, timers and connections meet, no read starts within the window
\* of another one.  (Until a first read has succeeded every new connection starts
\* one, and the window of such a read is not kept by a trailing timer set before.)
OneReadPerWindow ==
    [][hub.computed /\ hub.reading = Off /\ hub'.reading # Off
         => joinRead \/ hub.since >= CacheTime]_vars

=============================================================================
