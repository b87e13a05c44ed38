----------------------- MODULE RealtimeSnapshotsProofs ----------------------
(***************************************************************************)
(* Proofs about RealtimeSnapshots, for any connections and policy: the     *)
(* shape of its states, that a recovery reaches every connection that was  *)
(* told of the degradation, one read per window, and how old a snapshot    *)
(* gets with at most one failed read.                                      *)
(*                                                                         *)
(* The window needs one fact about a trailing timer that is set: it will   *)
(* not fire before the window of the last read is over, unless that read   *)
(* was for new connections, or is one the timer will join at once.  The    *)
(* age needs a bound on the time until the next read for everybody.        *)
(***************************************************************************)
EXTENDS RealtimeSnapshots, TLAPS

HubType ==
    [refresh : Off .. RefreshTime, trailing : Off .. CacheTime,
     since : 0 .. CacheTime, reading : Off .. ReadTime, fan : BOOLEAN,
     computed : BOOLEAN, cached : 0 .. NoSnapshot, sent : 0 .. Floor,
     degraded : BOOLEAN]

\* A connection that is away was told nothing.
AwayIsUntold == \A c \in Clients : client[c] = "away" => ~told[c]

\* The trailing timer keeps the window of the read before it.
TimerWaits ==
    hub.trailing # Off =>
      /\ hub.since + hub.trailing <= CacheTime
      /\ \/ hub.since + hub.trailing >= CacheTime
         \/ joinRead
         \/ hub.trailing = 0 /\ hub.reading = 0

IInv ==
    /\ TypeOK
    /\ DegradedIsLifted
    /\ AwayIsUntold
    /\ hub.fan => ~joinRead
    /\ TimerWaits

LEMMA PolicyTypes ==
    /\ CacheTime \in Nat /\ RefreshTime \in Nat /\ MaxAge \in Nat /\ ReadTime \in Nat
    /\ CacheTime > 0 /\ CacheTime <= RefreshTime
    /\ Floor \in Nat /\ Floor > 0 /\ Floor <= AgeCap
    /\ Off = -1 /\ AgeCap \in Nat /\ NoSnapshot = AgeCap + 1
    /\ \A failed \in {0, 1} :
         /\ Gap(failed) = Floor + CacheTime + (failed + 1) * RefreshTime + ReadTime
         /\ Gap(failed) <= AgeCap
  BY RealtimeAssumption DEF RealtimeAssumption, Floor, Off, Stale, Gap, AgeCap, NoSnapshot

LEMMA NewHubTyped == NewHub \in HubType
  BY PolicyTypes DEF NewHub, HubType

\* What runCompute makes of a hub.
LEMMA RunComputeTyped ==
  ASSUME NEW h \in HubType, NEW fan \in BOOLEAN
  PROVE  /\ RunCompute(h, fan) \in HubType
         /\ RunCompute(h, fan).trailing = h.trailing
         /\ RunCompute(h, fan).refresh = h.refresh
         /\ RunCompute(h, fan).computed = h.computed
         /\ RunCompute(h, fan).degraded = h.degraded
         /\ RunCompute(h, fan).reading # Off
         /\ h.reading # Off => /\ RunCompute(h, fan).since = h.since
                               /\ RunCompute(h, fan).reading = h.reading
                               /\ RunCompute(h, fan).fan = (h.fan \/ fan)
         /\ h.reading = Off => /\ RunCompute(h, fan).since = 0
                               /\ RunCompute(h, fan).reading = 0
                               /\ RunCompute(h, fan).fan = fan
<1>1. h.fan \in BOOLEAN /\ (h.fan \/ fan) \in BOOLEAN
  BY DEF HubType
<1>2. CASE h.reading # Off
  <2> DEFINE joined == h.fan \/ fan
  <2>1. RunCompute(h, fan) = [h EXCEPT !.fan = joined]
    BY <1>2 DEF RunCompute
  <2>2. joined \in BOOLEAN
    OBVIOUS
  <2> HIDE DEF joined
  <2>3. RunCompute(h, fan) \in HubType
    BY <2>1, <2>2 DEF HubType
  <2>4. /\ RunCompute(h, fan).refresh = h.refresh /\ RunCompute(h, fan).trailing = h.trailing
        /\ RunCompute(h, fan).since = h.since /\ RunCompute(h, fan).reading = h.reading
        /\ RunCompute(h, fan).computed = h.computed
        /\ RunCompute(h, fan).degraded = h.degraded
    BY <2>1 DEF HubType
  <2>5. RunCompute(h, fan).fan = joined
    BY <2>1 DEF HubType
  <2> QED
    BY <1>2, <2>3, <2>4, <2>5 DEF joined
<1>3. CASE h.reading = Off
  <2>1. RunCompute(h, fan) = [h EXCEPT !.reading = 0, !.since = 0, !.fan = fan]
    BY <1>3 DEF RunCompute
  <2>2. RunCompute(h, fan) \in HubType
    <3>1. 0 \in Off .. ReadTime /\ 0 \in 0 .. CacheTime
      BY PolicyTypes
    <3> QED
      BY <2>1, <3>1 DEF HubType
  <2>3. /\ RunCompute(h, fan).refresh = h.refresh /\ RunCompute(h, fan).trailing = h.trailing
        /\ RunCompute(h, fan).since = 0 /\ RunCompute(h, fan).reading = 0
        /\ RunCompute(h, fan).computed = h.computed
        /\ RunCompute(h, fan).degraded = h.degraded
    BY <2>1 DEF HubType
  <2>4. RunCompute(h, fan).fan = fan
    BY <2>1 DEF HubType
  <2>5. Off # 0
    BY PolicyTypes
  <2> QED
    BY <1>3, <2>2, <2>3, <2>4, <2>5
<1> QED
  BY <1>2, <1>3

LEMMA StartRefreshTyped ==
  ASSUME NEW h \in HubType
  PROVE  /\ StartRefresh(h) \in HubType
         /\ StartRefresh(h).trailing = h.trailing /\ StartRefresh(h).since = h.since
         /\ StartRefresh(h).reading = h.reading /\ StartRefresh(h).fan = h.fan
         /\ StartRefresh(h).computed = h.computed
         /\ StartRefresh(h).degraded = h.degraded
  BY PolicyTypes DEF StartRefresh, HubType

LEMMA InitInv == Init => IInv
<1> SUFFICES ASSUME Init PROVE IInv
  OBVIOUS
<1>1. TypeOK
  <2>1. hub \in HubType
    BY NewHubTyped DEF Init
  <2>2. NoSnapshot \in 0 .. NoSnapshot
    BY PolicyTypes
  <2>3. /\ client \in [Clients -> {"away", "waiting", "open"}]
        /\ age \in [Clients -> 0 .. NoSnapshot] /\ told \in [Clients -> BOOLEAN]
    BY <2>2 DEF Init
  <2>4. bad \in 0 .. 2
    BY DEF Init
  <2>5. swallowed \in BOOLEAN /\ joinRead \in BOOLEAN
    BY Zenon DEF Init
  <2> QED
    BY <2>1, <2>3, <2>4, <2>5 DEF TypeOK, HubType
<1>2. DegradedIsLifted /\ AwayIsUntold
  BY DEF Init, DegradedIsLifted, AwayIsUntold
<1>3. ~hub.fan /\ TimerWaits
  BY DEF Init, NewHub, TimerWaits
<1> QED
  BY <1>1, <1>2, <1>3 DEF IInv

-----------------------------------------------------------------------------
(* One lemma per action. *)

LEMMA JoinServedKept ==
  ASSUME IInv, NEW c \in Clients, JoinServed(c) PROVE IInv'
<1>1. hub \in HubType
  BY DEF IInv, TypeOK, HubType
<1>2. /\ hub' \in HubType /\ hub'.trailing = hub.trailing /\ hub'.since = hub.since
      /\ hub'.reading = hub.reading /\ hub'.fan = hub.fan
      /\ hub'.degraded = hub.degraded
  BY <1>1, StartRefreshTyped DEF JoinServed
<1>3. hub.cached \in 0 .. NoSnapshot
  BY <1>1 DEF HubType
<1>4. TypeOK'
  BY <1>2, <1>3 DEF JoinServed, ghosts, IInv, TypeOK, HubType
<1>5. (DegradedIsLifted /\ AwayIsUntold)'
  BY <1>2 DEF JoinServed, ghosts, IInv, TypeOK, DegradedIsLifted, AwayIsUntold
<1> QED
  BY <1>2, <1>4, <1>5 DEF JoinServed, ghosts, IInv, TimerWaits

LEMMA JoinWaitsKept ==
  ASSUME IInv, NEW c \in Clients, JoinWaits(c) PROVE IInv'
<1>1. hub \in HubType
  BY DEF IInv, TypeOK, HubType
<1> DEFINE h == StartRefresh(hub)
<1>2. /\ h \in HubType /\ h.trailing = hub.trailing /\ h.since = hub.since
      /\ h.reading = hub.reading /\ h.fan = hub.fan /\ h.degraded = hub.degraded
  BY <1>1, StartRefreshTyped
<1>3. hub' = RunCompute(h, FALSE) /\ joinRead' = ~hub'.fan
  BY DEF JoinWaits
<1> HIDE DEF h
<1>4. /\ hub' \in HubType /\ hub'.trailing = hub.trailing
      /\ hub'.degraded = hub.degraded
      /\ hub.reading # Off => /\ hub'.since = hub.since /\ hub'.reading = hub.reading
                              /\ hub'.fan = hub.fan
      /\ hub.reading = Off => ~hub'.fan /\ hub'.since = 0
  <2>1. /\ hub' \in HubType /\ hub'.trailing = h.trailing /\ hub'.degraded = h.degraded
        /\ h.reading # Off => /\ hub'.since = h.since /\ hub'.reading = h.reading
                              /\ hub'.fan = (h.fan \/ FALSE)
        /\ h.reading = Off => hub'.fan = FALSE /\ hub'.since = 0
    BY <1>2, <1>3, RunComputeTyped
  <2>2. h.fan \in BOOLEAN
    BY <1>2 DEF HubType
  <2> QED
    BY <1>2, <2>1, <2>2
<1>5. joinRead' \in BOOLEAN
  BY <1>3, <1>4 DEF HubType
<1>6. TypeOK'
  BY <1>4, <1>5 DEF JoinWaits, IInv, TypeOK, HubType
<1>7. (DegradedIsLifted /\ AwayIsUntold)'
  BY <1>4 DEF JoinWaits, IInv, TypeOK, DegradedIsLifted, AwayIsUntold
<1>8. TimerWaits'
  <2>1. CASE hub.reading = Off
    <3>1. joinRead'
      BY <1>3, <1>4, <2>1
    <3>2. hub'.since = 0 /\ hub.since \in Nat
      BY <1>1, <1>4, <2>1, PolicyTypes DEF HubType
    <3>3. hub.trailing \in Int
      BY <1>1, PolicyTypes DEF HubType
    <3> QED
      BY <1>4, <3>1, <3>2, <3>3, PolicyTypes DEF IInv, TimerWaits
  <2>2. CASE hub.reading # Off
    BY <1>3, <1>4, <2>2 DEF IInv, TimerWaits
  <2> QED
    BY <2>1, <2>2
<1> QED
  BY <1>3, <1>6, <1>7, <1>8 DEF IInv

LEMMA LeaveKept ==
  ASSUME IInv, NEW c \in Clients, Leave(c) PROVE IInv'
<1>1. hub' \in HubType /\ bad' \in 0 .. 2 /\ swallowed' \in BOOLEAN /\ joinRead' \in BOOLEAN
  <2>1. /\ hub \in HubType /\ bad \in 0 .. 2
        /\ swallowed \in BOOLEAN /\ joinRead \in BOOLEAN
    BY DEF IInv, TypeOK, HubType
  <2>2. \/ hub' = NewHub /\ bad' = 0 /\ swallowed' = FALSE /\ joinRead' = FALSE
        \/ UNCHANGED <<hub, bad, swallowed, joinRead>>
    BY DEF Leave, ghosts
  <2>3. CASE hub' = NewHub /\ bad' = 0 /\ swallowed' = FALSE /\ joinRead' = FALSE
    <3>1. bad' \in 0 .. 2
      BY <2>3
    <3>2. hub' \in HubType /\ swallowed' \in BOOLEAN /\ joinRead' \in BOOLEAN
      BY <2>3, NewHubTyped, Zenon
    <3> QED
      BY <3>1, <3>2
  <2>4. CASE UNCHANGED <<hub, bad, swallowed, joinRead>>
    BY <2>1, <2>4
  <2> QED
    BY <2>2, <2>3, <2>4
<1>2. TypeOK'
  BY <1>1, PolicyTypes DEF Leave, IInv, TypeOK, HubType
<1>3. AwayIsUntold'
  BY DEF Leave, IInv, TypeOK, AwayIsUntold
<1>4. CASE Present = {c}
  <2>1. hub' = NewHub /\ ~joinRead'
    BY <1>4 DEF Leave
  <2>2. \A d \in Clients : ~told'[d]
    <3> SUFFICES ASSUME NEW d \in Clients PROVE ~told'[d]
      OBVIOUS
    <3>1. CASE d = c
      BY <3>1 DEF Leave, IInv, TypeOK
    <3>2. CASE d # c
      BY <1>4, <3>2 DEF Leave, Present, IInv, TypeOK, AwayIsUntold
    <3> QED
      BY <3>1, <3>2
  <2> QED
    BY <1>2, <1>3, <2>1, <2>2 DEF IInv, DegradedIsLifted, TimerWaits, NewHub
<1>5. CASE Present # {c}
  <2>1. UNCHANGED <<hub, joinRead>>
    BY <1>5 DEF Leave, ghosts
  <2>2. DegradedIsLifted'
    BY <2>1 DEF Leave, IInv, TypeOK, DegradedIsLifted
  <2> QED
    BY <1>2, <1>3, <2>1, <2>2 DEF IInv, TimerWaits
<1> QED
  BY <1>4, <1>5

LEMMA UpdateReadsKept == ASSUME IInv, UpdateReads PROVE IInv'
<1>1. hub \in HubType
  BY DEF IInv, TypeOK, HubType
<1>2. /\ hub' \in HubType /\ hub'.trailing = hub.trailing
      /\ hub'.degraded = hub.degraded
      /\ hub.reading # Off => hub'.since = hub.since
      /\ hub.reading = Off => hub'.reading = 0
  BY <1>1, RunComputeTyped DEF UpdateReads
<1>3. TypeOK' /\ (DegradedIsLifted /\ AwayIsUntold)' /\ ~joinRead'
  BY <1>2 DEF UpdateReads, IInv, TypeOK, HubType, DegradedIsLifted, AwayIsUntold
<1>4. ASSUME hub.trailing # Off
      PROVE  hub.since = CacheTime /\ hub.trailing = 0
  BY <1>1, <1>4, PolicyTypes DEF UpdateReads, Fresh, IInv, TimerWaits, HubType
<1>5. TimerWaits'
  BY <1>1, <1>2, <1>4, PolicyTypes DEF TimerWaits, HubType
<1> QED
  BY <1>3, <1>5 DEF IInv

LEMMA UpdateWaitsKept == ASSUME IInv, UpdateWaits PROVE IInv'
<1>1. hub \in HubType
  BY DEF IInv, TypeOK, HubType
<1>2. CacheTime - hub.since \in 0 .. CacheTime
  BY <1>1, PolicyTypes DEF HubType
<1>3. /\ hub' \in HubType /\ hub'.trailing = CacheTime - hub.since
      /\ hub'.since = hub.since /\ hub'.fan = hub.fan /\ hub'.degraded = hub.degraded
  BY <1>1, <1>2, PolicyTypes DEF UpdateWaits, HubType
<1>4. TypeOK' /\ (DegradedIsLifted /\ AwayIsUntold)'
  BY <1>3 DEF UpdateWaits, ghosts, IInv, TypeOK, HubType, DegradedIsLifted, AwayIsUntold
<1>5. TimerWaits'
  BY <1>1, <1>3, PolicyTypes DEF TimerWaits, HubType
<1> QED
  BY <1>3, <1>4, <1>5 DEF UpdateWaits, ghosts, IInv

LEMMA TrailingFiresKept == ASSUME IInv, TrailingFires PROVE IInv'
<1>1. hub \in HubType
  BY DEF IInv, TypeOK, HubType
<1> DEFINE h == [hub EXCEPT !.trailing = Off]
<1>2. h \in HubType /\ h.trailing = Off /\ h.degraded = hub.degraded
  BY <1>1, PolicyTypes DEF HubType
<1>3. hub' = RunCompute(h, TRUE)
  BY DEF TrailingFires
<1> HIDE DEF h
<1>4. hub' \in HubType /\ hub'.trailing = Off /\ hub'.degraded = hub.degraded
  BY <1>2, <1>3, RunComputeTyped
<1>5. TypeOK' /\ (DegradedIsLifted /\ AwayIsUntold)' /\ ~joinRead'
  BY <1>4 DEF TrailingFires, IInv, TypeOK, HubType, DegradedIsLifted, AwayIsUntold
<1> QED
  BY <1>4, <1>5 DEF IInv, TimerWaits

LEMMA RefreshFiresKept == ASSUME IInv, RefreshFires PROVE IInv'
<1>1. hub \in HubType
  BY DEF IInv, TypeOK, HubType
<1> DEFINE h == [hub EXCEPT !.refresh = RefreshTime]
<1>2. /\ h \in HubType /\ h.trailing = hub.trailing /\ h.degraded = hub.degraded
      /\ h.since = hub.since /\ h.reading = hub.reading /\ h.fan = hub.fan
  BY <1>1, PolicyTypes DEF HubType
<1>3. /\ hub' = IF Skips THEN h ELSE RunCompute(h, TRUE)
      /\ joinRead' = (joinRead /\ Skips)
  BY DEF RefreshFires
<1> HIDE DEF h
<1>4. /\ hub' \in HubType /\ hub'.trailing = hub.trailing /\ hub'.degraded = hub.degraded
      /\ Skips => /\ hub'.since = hub.since /\ hub'.reading = hub.reading
                  /\ hub'.fan = hub.fan
  BY <1>2, <1>3, RunComputeTyped
<1>5. joinRead' \in BOOLEAN /\ swallowed' \in BOOLEAN
  BY DEF RefreshFires
<1>6. TypeOK' /\ (DegradedIsLifted /\ AwayIsUntold)'
  BY <1>4, <1>5 DEF RefreshFires, IInv, TypeOK, HubType, DegradedIsLifted, AwayIsUntold
<1>7. TimerWaits'
  BY <1>3, <1>4 DEF IInv, TimerWaits, Skips
<1> QED
  BY <1>3, <1>4, <1>6, <1>7 DEF IInv

LEMMA ReadReturnsKept == ASSUME IInv, ReadReturns PROVE IInv'
<1>1. hub \in HubType
  BY DEF IInv, TypeOK, HubType
<1>2. /\ hub' \in HubType /\ hub'.trailing = hub.trailing /\ hub'.since = hub.since
      /\ ~hub'.fan /\ hub'.degraded = (hub.degraded /\ ~hub.fan)
  <2> DEFINE calm == hub.degraded /\ ~hub.fan
  <2>1. PICK frame \in 0 .. Floor :
          hub' = [hub EXCEPT !.reading = Off, !.fan = FALSE, !.computed = TRUE,
                             !.cached = 0, !.degraded = calm, !.sent = frame]
    <3>1. \E same \in BOOLEAN :
            hub' = [hub EXCEPT !.reading = Off, !.fan = FALSE, !.computed = TRUE,
                               !.cached = 0, !.degraded = calm,
                               !.sent = IF Sends(same) THEN 0 ELSE hub.sent]
      BY DEF ReadReturns
    <3>2. 0 \in 0 .. Floor /\ hub.sent \in 0 .. Floor
      BY <1>1, PolicyTypes DEF HubType
    <3> QED
      BY <3>1, <3>2
  <2>2. calm \in BOOLEAN
    OBVIOUS
  <2> HIDE DEF calm
  <2>3. Off \in Off .. ReadTime /\ 0 \in 0 .. NoSnapshot
    BY PolicyTypes
  <2>4. hub' \in HubType
    BY <1>1, <2>1, <2>2, <2>3 DEF HubType
  <2>5. hub'.trailing = hub.trailing /\ hub'.since = hub.since /\ ~hub'.fan
    BY <1>1, <2>1 DEF HubType
  <2>6. hub'.degraded = calm
    BY <1>1, <2>1 DEF HubType
  <2> QED
    BY <2>4, <2>5, <2>6 DEF calm
<1>3. age' \in [Clients -> 0 .. NoSnapshot]
  BY PolicyTypes DEF ReadReturns, IInv, TypeOK
<1>4. client' \in [Clients -> {"away", "waiting", "open"}]
  BY DEF ReadReturns, Answered, IInv, TypeOK
<1>5. told' \in [Clients -> BOOLEAN] /\ bad' \in 0 .. 2 /\ swallowed' \in BOOLEAN
  <2>1. told' \in [Clients -> BOOLEAN]
    BY DEF ReadReturns, IInv, TypeOK
  <2>2. \/ bad' = 0 /\ swallowed' = FALSE
        \/ UNCHANGED <<bad, swallowed>>
    BY DEF ReadReturns
  <2>3. bad \in 0 .. 2 /\ swallowed \in BOOLEAN
    BY DEF IInv, TypeOK
  <2>4. CASE bad' = 0 /\ swallowed' = FALSE
    <3>1. bad' \in 0 .. 2
      BY <2>4
    <3>2. swallowed' \in BOOLEAN
      BY <2>4, Zenon
    <3> QED
      BY <2>1, <3>1, <3>2
  <2>5. CASE UNCHANGED <<bad, swallowed>>
    BY <2>1, <2>3, <2>5
  <2> QED
    BY <2>2, <2>4, <2>5
<1>6. TypeOK' /\ joinRead' = joinRead
  BY <1>2, <1>3, <1>4, <1>5 DEF ReadReturns, IInv, TypeOK, HubType
<1>7. (DegradedIsLifted /\ AwayIsUntold)'
  BY <1>2 DEF ReadReturns, Answered, IInv, TypeOK, DegradedIsLifted, AwayIsUntold
<1>8. TimerWaits'
  BY <1>1, <1>2, <1>6, PolicyTypes DEF ReadReturns, MayEnd, IInv, TimerWaits, HubType
<1> QED
  BY <1>2, <1>6, <1>7, <1>8 DEF IInv

LEMMA ReadFailsKept == ASSUME IInv, ReadFails PROVE IInv'
<1>1. hub \in HubType
  BY DEF IInv, TypeOK, HubType
<1>2. Degrades \in BOOLEAN
  BY <1>1 DEF Degrades, HubType
<1>3. /\ hub' \in HubType /\ hub'.trailing = hub.trailing /\ hub'.since = hub.since
      /\ ~hub'.fan /\ hub'.degraded = (hub.degraded \/ Degrades)
  <2> DEFINE worse == hub.degraded \/ Degrades
  <2>1. hub' = [hub EXCEPT !.reading = Off, !.fan = FALSE, !.degraded = worse]
    BY DEF ReadFails
  <2>2. worse \in BOOLEAN
    OBVIOUS
  <2> HIDE DEF worse
  <2>3. Off \in Off .. ReadTime
    BY PolicyTypes
  <2>4. hub' \in HubType
    BY <1>1, <2>1, <2>2, <2>3 DEF HubType
  <2>5. hub'.trailing = hub.trailing /\ hub'.since = hub.since /\ ~hub'.fan
    BY <1>1, <2>1 DEF HubType
  <2>6. hub'.degraded = worse
    BY <1>1, <2>1 DEF HubType
  <2> QED
    BY <2>4, <2>5, <2>6 DEF worse
<1>4. age' \in [Clients -> 0 .. NoSnapshot]
  BY <1>1, PolicyTypes DEF ReadFails, IInv, TypeOK, HubType
<1>5. client' \in [Clients -> {"away", "waiting", "open"}]
  BY DEF ReadFails, Answered, IInv, TypeOK
<1>6. told' \in [Clients -> BOOLEAN]
  BY DEF ReadFails, IInv, TypeOK
<1>7. bad' \in 0 .. 2
  BY DEF ReadFails, IInv, TypeOK
<1>8. TypeOK' /\ joinRead' = joinRead
  BY <1>3, <1>4, <1>5, <1>6, <1>7 DEF ReadFails, IInv, TypeOK, HubType
<1>9. DegradedIsLifted'
  BY <1>3 DEF ReadFails, Degrades, IInv, TypeOK, DegradedIsLifted
<1>10. AwayIsUntold'
  BY DEF ReadFails, Answered, FailsFirst, Present, IInv, TypeOK, AwayIsUntold
<1>11. TimerWaits'
  BY <1>1, <1>3, <1>8, PolicyTypes DEF ReadFails, MayEnd, IInv, TimerWaits, HubType
<1> QED
  BY <1>3, <1>8, <1>9, <1>10, <1>11 DEF IInv

LEMMA TickKept == ASSUME IInv, Tick PROVE IInv'
<1>1. hub \in HubType
  BY DEF IInv, TypeOK, HubType
<1>2. hub' \in HubType
  <2>1. /\ Down(hub.refresh) \in Off .. RefreshTime
        /\ Down(hub.trailing) \in Off .. CacheTime
    BY <1>1, PolicyTypes DEF Tick, Down, HubType
  <2>2. /\ Up(hub.since, CacheTime) \in 0 .. CacheTime
        /\ Up(hub.cached, AgeCap) \in 0 .. NoSnapshot
        /\ Up(hub.sent, Floor) \in 0 .. Floor
    BY <1>1, PolicyTypes DEF Up, HubType
  <2> DEFINE reading == IF hub.reading = Off THEN Off ELSE hub.reading + 1
  <2>3. reading \in Off .. ReadTime
    BY <1>1, PolicyTypes DEF Tick, HubType
  <2>4. hub' = [hub EXCEPT !.refresh = Down(@), !.trailing = Down(@),
                           !.since = Up(@, CacheTime), !.cached = Up(@, AgeCap),
                           !.sent = Up(@, Floor), !.reading = reading]
    BY DEF Tick
  <2> HIDE DEF reading
  <2> QED
    BY <1>1, <2>1, <2>2, <2>3, <2>4 DEF HubType
<1>3. /\ hub'.trailing = Down(hub.trailing) /\ hub'.since = Up(hub.since, CacheTime)
      /\ hub'.fan = hub.fan /\ hub'.degraded = hub.degraded
  BY <1>1 DEF Tick, HubType
<1>4. age' \in [Clients -> 0 .. NoSnapshot]
  BY PolicyTypes DEF Tick, Up, IInv, TypeOK
<1>5. TypeOK' /\ (DegradedIsLifted /\ AwayIsUntold)'
  BY <1>2, <1>3, <1>4
  DEF Tick, ghosts, IInv, TypeOK, HubType, DegradedIsLifted, AwayIsUntold
<1>6. TimerWaits'
  BY <1>1, <1>3, PolicyTypes DEF Tick, ghosts, Up, Down, IInv, TimerWaits, HubType
<1> QED
  BY <1>3, <1>5, <1>6 DEF Tick, ghosts, IInv

LEMMA InvNext == IInv /\ [Next]_vars => IInv'
<1> SUFFICES ASSUME IInv, [Next]_vars PROVE IInv'
  OBVIOUS
<1>1. CASE UNCHANGED vars
  BY <1>1 DEF vars, IInv, TypeOK, DegradedIsLifted, AwayIsUntold, TimerWaits
<1> QED
  BY <1>1, JoinServedKept, JoinWaitsKept, LeaveKept, UpdateReadsKept, UpdateWaitsKept,
     TrailingFiresKept, RefreshFiresKept, ReadReturnsKept, ReadFailsKept, TickKept
  DEF Next, Connections, Updates, Timers, Reads

-----------------------------------------------------------------------------
\* Every reachable state has its shape.
THEOREM TypeCorrect == Spec => []TypeOK
<1>1. IInv => TypeOK
  BY DEF IInv
<1> QED
  BY InitInv, InvNext, <1>1, PTL DEF Spec

\* The hub still owes a recovery to every connection that shows a degradation.
THEOREM RecoveryReachesAll == Spec => []DegradedIsLifted
<1>1. IInv => DegradedIsLifted
  BY DEF IInv
<1> QED
  BY InitInv, InvNext, <1>1, PTL DEF Spec

\* The presence store is read once per window, whatever asks for it.
THEOREM OneRead == Spec => OneReadPerWindow
<1>1. IInv /\ [Next]_vars =>
        [hub.computed /\ hub.reading = Off /\ hub'.reading # Off
           => joinRead \/ hub.since >= CacheTime]_vars
  <2> SUFFICES ASSUME IInv, Next, hub.computed, hub.reading = Off, hub'.reading # Off
               PROVE  joinRead \/ hub.since >= CacheTime
    OBVIOUS
  <2>1. hub \in HubType
    BY DEF IInv, TypeOK, HubType
  <2>2. ~Fresh => hub.since >= CacheTime
    BY <2>1, PolicyTypes DEF Fresh, HubType
  <2>3. ASSUME NEW c \in Clients, JoinServed(c)
        PROVE  FALSE
    BY <2>1, <2>3, StartRefreshTyped DEF JoinServed
  <2>4. ASSUME NEW c \in Clients, JoinWaits(c)
        PROVE  ~Fresh
    BY <2>4 DEF JoinWaits, Served
  <2>5. ASSUME NEW c \in Clients, Leave(c)
        PROVE  FALSE
    BY <2>5 DEF Leave, NewHub
  <2>6. CASE UpdateReads
    BY <2>2, <2>6 DEF UpdateReads
  <2>7. CASE UpdateWaits
    BY <2>1, <2>7 DEF UpdateWaits, HubType
  <2>8. CASE TrailingFires
    BY <2>1, <2>8, PolicyTypes DEF TrailingFires, IInv, TimerWaits, HubType
  <2>9. CASE RefreshFires
    BY <2>1, <2>2, <2>9 DEF RefreshFires, Skips, HubType
  <2>10. CASE Reads \/ Tick
    BY <2>1, <2>10 DEF Reads, ReadReturns, ReadFails, Tick, HubType
  <2> QED
    BY <2>2, <2>3, <2>4, <2>5, <2>6, <2>7, <2>8, <2>9, <2>10
    DEF Next, Connections, Updates, Timers
<1> QED
  BY <1>1, InitInv, InvNext, PTL DEF Spec, OneReadPerWindow

-----------------------------------------------------------------------------
(* How old what is shown can get.  A snapshot is withheld while its frame is     *)
(* younger than the floor; the refresh after it may be skipped for a read within *)
(* the window; one read may fail.  Due bounds an age by what is left of the      *)
(* timers until the next read for everybody.                                     *)

Shown(d) == d # NoSnapshot /\ (d = hub.cached \/ \E c \in Clients : d = age[c])

\* The oldest that a withheld snapshot is when its next refresh is a whole period away.
Base == Floor + CacheTime - 2

\* After a read for everybody, within its window.
DueInWindow(d) ==
    ~hub.fan /\ ~joinRead /\ hub.since < CacheTime =>
      /\ bad = 0 => d <= hub.since + Floor - 1
      /\ bad = 1 => d <= hub.since + Base + RefreshTime

\* During a read for everybody.  If the refresh timer has fired since it began, or began
\* it, the next refresh comes after its end.
DueInRead(d) ==
    hub.fan =>
      /\ bad = 0 => \/ d + hub.refresh <= Base + RefreshTime
                    \/ /\ d + hub.refresh <= Base + 2 * RefreshTime
                       /\ hub.refresh + hub.reading >= RefreshTime
      /\ bad = 1 => d <= Base + 2 * RefreshTime + hub.reading

\* When the trailing timer is due.
DueNow(d) ==
    ~hub.fan /\ hub.trailing = 0 =>
      /\ bad = 0 => \/ d + hub.refresh <= Base + RefreshTime
                    \/ d <= Base + RefreshTime /\ hub.refresh = RefreshTime
      /\ bad = 1 => d <= Base + 2 * RefreshTime

\* While it will be, and refreshes leave the work to it.
DueByTimer(d) ==
    ~hub.fan /\ hub.trailing > 0 /\ ~joinRead /\ bad = 1 =>
      d + hub.trailing <= Base + 2 * RefreshTime

\* Otherwise the refresh timer reads, unless it finds the last read within the window.
DueByRefresh(d) ==
    ~hub.fan /\ hub.trailing # 0 /\ (hub.trailing = Off \/ joinRead) =>
      /\ bad = 0 => d + hub.refresh <= Base + RefreshTime
      /\ bad = 1 => d + hub.refresh <= Base + 2 * RefreshTime
      /\ ~joinRead /\ hub.since + hub.refresh < CacheTime =>
           /\ bad = 0 => d + hub.refresh <= Base
           /\ bad = 1 => d + hub.refresh <= Base + RefreshTime

Due(d) == DueInWindow(d) /\ DueInRead(d) /\ DueNow(d) /\ DueByTimer(d) /\ DueByRefresh(d)

InTime == bad < 2 /\ ~swallowed => \A d \in Nat : Shown(d) => Due(d)

\* The rest: who shows something, what a read in flight is, when a frame was sent.
Frames ==
    /\ \A c \in Clients : client[c] # "open" => age[c] = NoSnapshot
    /\ hub.computed <=> hub.cached # NoSnapshot
    /\ ~hub.computed => \A d \in Nat : ~Shown(d)
    /\ hub.refresh = Off => hub = NewHub /\ Present = {}
    /\ hub.reading = Off => ~hub.fan
    /\ hub.reading # Off => /\ hub.fan \/ joinRead
                            /\ hub.since >= hub.reading \/ hub.since = CacheTime
    /\ hub.sent < Floor => \A d \in Nat : Shown(d) => d <= hub.sent

FreshInv == ReadsAreShort => Frames /\ InTime

LEMMA Room ==
  ASSUME ReadsAreShort
  PROVE  /\ Base \in Nat /\ Floor - 1 <= Base /\ Base - Floor = CacheTime - 2
         /\ ReadTime < RefreshTime /\ Floor > 0 /\ RefreshTime > 0
  BY PolicyTypes DEF ReadsAreShort, Base

LEMMA HubNumbers ==
  ASSUME NEW h \in HubType
  PROVE  /\ h.refresh \in Int /\ -1 <= h.refresh /\ h.refresh <= RefreshTime
         /\ h.trailing \in Int /\ -1 <= h.trailing /\ h.trailing <= CacheTime
         /\ h.since \in Int /\ 0 <= h.since /\ h.since <= CacheTime
         /\ h.reading \in Int /\ -1 <= h.reading /\ h.reading <= ReadTime
         /\ h.sent \in Int /\ 0 <= h.sent /\ h.sent <= Floor
         /\ h.cached \in Nat /\ h.cached <= NoSnapshot
         /\ h.fan \in BOOLEAN /\ h.computed \in BOOLEAN /\ h.degraded \in BOOLEAN
  BY PolicyTypes DEF HubType

\* A snapshot that was just read, or is withheld by a read that just ended.
LEMMA NewIsDue ==
  ASSUME hub' \in HubType, ReadsAreShort, NEW d \in Nat, ~hub'.fan, d < Floor,
         bad' \in 0 .. 2, d <= hub'.since + Floor - 1
  PROVE  Due(d)'
<1> USE HubNumbers, Room, PolicyTypes
<1>1. DueInWindow(d)'
  BY DEF DueInWindow
<1>2. DueInRead(d)'
  BY DEF DueInRead
<1>3. DueNow(d)'
  BY DEF DueNow
<1>4. DueByTimer(d)'
  BY DEF DueByTimer
<1>5. DueByRefresh(d)'
  BY DEF DueByRefresh
<1> QED
  BY <1>1, <1>2, <1>3, <1>4, <1>5 DEF Due

\* Nothing that is due is older than the gap.
LEMMA DueIsFresh ==
  ASSUME hub \in HubType, ReadsAreShort, NEW d \in Nat, Due(d), bad \in 0 .. 1,
         hub.refresh # Off, TimerWaits, hub.reading = Off => ~hub.fan
  PROVE  d <= Base + (bad + 1) * RefreshTime + ReadTime
<1> USE HubNumbers, Room, PolicyTypes
<1>1. CASE hub.fan
  BY <1>1 DEF Due, DueInRead
<1>2. CASE ~hub.fan /\ hub.trailing = 0
  BY <1>2 DEF Due, DueNow
<1>3. CASE ~hub.fan /\ hub.trailing # 0 /\ (hub.trailing = Off \/ joinRead)
  BY <1>3 DEF Due, DueByRefresh
<1>4. CASE ~hub.fan /\ hub.trailing > 0 /\ ~joinRead
  BY <1>4 DEF Due, DueByTimer, DueInWindow, TimerWaits
<1> QED
  BY <1>1, <1>2, <1>3, <1>4

\* A read for everybody begins, or joins the read for new connections: at the refresh,
\* at the trailing timer, at an update.
LEMMA ReadIsDue ==
  ASSUME hub \in HubType, hub' \in HubType, ReadsAreShort, NEW d \in Nat, Due(d),
         ~hub.fan, hub'.fan, bad \in 0 .. 1, bad' = bad, hub'.reading # Off, hub.refresh # Off,
         \/ hub'.refresh = hub.refresh /\ hub.trailing \in {Off, 0}
         \/ hub.refresh = 0 /\ hub'.refresh = RefreshTime /\ hub.trailing = Off
  PROVE  Due(d)'
<1> USE HubNumbers, Room, PolicyTypes
<1>1. DueInRead(d)'
  <2>1. CASE hub.trailing = 0
    BY <2>1 DEF Due, DueNow, DueInRead
  <2>2. CASE hub.trailing = Off
    BY <2>2 DEF Due, DueByRefresh, DueInRead
  <2> QED
    BY <2>1, <2>2
<1>2. (DueInWindow(d) /\ DueNow(d) /\ DueByTimer(d) /\ DueByRefresh(d))'
  BY DEF DueInWindow, DueNow, DueByTimer, DueByRefresh
<1> QED
  BY <1>1, <1>2 DEF Due

\* Nothing changes for an age while the timers and the read do not.
LEMMA DueStays ==
  ASSUME NEW d \in Nat, Due(d), bad' = bad, joinRead' = joinRead, hub'.fan = hub.fan,
         hub'.refresh = hub.refresh, hub'.trailing = hub.trailing, hub'.since = hub.since,
         hub'.reading = hub.reading
  PROVE  Due(d)'
  BY DEF Due, DueInWindow, DueInRead, DueNow, DueByTimer, DueByRefresh

\* Both halves of the invariant, for a step that shows nothing new.
LEMMA NothingNew ==
  ASSUME Frames, hub.computed, hub'.computed, hub'.cached = hub.cached,
         \A c \in Clients : age'[c] = age[c] \/ age'[c] = hub.cached \/ age'[c] = NoSnapshot,
         NEW d \in Nat, Shown(d)'
  PROVE  Shown(d)
  BY DEF Frames, Shown

\* The frames of a step that moves timers and reads only.
LEMMA FramesKept ==
  ASSUME IInv, Frames, hub' \in HubType, UNCHANGED age,
         \A c \in Clients : client'[c] # client[c] => age[c] = NoSnapshot /\ client[c] = "away",
         hub'.computed = hub.computed, hub'.cached = hub.cached, hub'.sent = hub.sent,
         hub'.refresh # Off, hub'.reading = Off => ~hub'.fan,
         hub'.reading # Off => /\ hub'.fan \/ joinRead'
                               /\ hub'.since >= hub'.reading \/ hub'.since = CacheTime
  PROVE  Frames'
<1>1. \A d \in Nat : Shown(d)' => Shown(d)
  BY DEF Shown
<1>2. \A c \in Clients : client'[c] # "open" => age'[c] = NoSnapshot
  BY DEF Frames
<1> QED
  BY <1>1, <1>2 DEF Frames

\* What runCompute makes of Frames' last conjuncts.
LEMMA RunComputeReads ==
  ASSUME NEW h \in HubType, NEW fan \in BOOLEAN,
         h.reading # Off => h.since >= h.reading \/ h.since = CacheTime
  PROVE  /\ RunCompute(h, fan).since >= RunCompute(h, fan).reading
              \/ RunCompute(h, fan).since = CacheTime
         /\ RunCompute(h, fan).cached = h.cached /\ RunCompute(h, fan).sent = h.sent
  BY PolicyTypes DEF RunCompute, HubType

LEMMA JoinServedFresh ==
  ASSUME IInv, ReadsAreShort, Frames, InTime, NEW c \in Clients, JoinServed(c)
  PROVE  (Frames /\ InTime)'
<1>1. hub \in HubType /\ hub.computed /\ hub.refresh # Off
  BY DEF JoinServed, Served, IInv, TypeOK, HubType, Frames, NewHub
<1>2. hub' = hub
  BY <1>1 DEF JoinServed, StartRefresh
<1>3. \A k \in Clients : age'[k] = age[k] \/ age'[k] = hub.cached
  BY DEF JoinServed, IInv, TypeOK
<1>4. \A d \in Nat : Shown(d)' => Shown(d)
  BY <1>1, <1>2, <1>3, NothingNew
<1>5. \A k \in Clients : client'[k] # "open" => age'[k] = NoSnapshot
  BY DEF JoinServed, Frames, IInv, TypeOK
<1>6. Frames'
  BY <1>1, <1>2, <1>4, <1>5 DEF JoinServed, ghosts, Frames
<1>7. InTime'
  <2>1. SUFFICES ASSUME NEW d \in Nat, Shown(d)', bad < 2, ~swallowed
                 PROVE  Due(d)'
    BY DEF InTime, JoinServed, ghosts
  <2>2. Due(d)
    BY <1>4, <2>1 DEF InTime
  <2> QED
    BY <1>2, <2>2, DueStays DEF JoinServed, ghosts
<1> QED
  BY <1>6, <1>7

LEMMA JoinWaitsFresh ==
  ASSUME IInv, IInv', ReadsAreShort, Frames, InTime, NEW c \in Clients, JoinWaits(c)
  PROVE  (Frames /\ InTime)'
<1> DEFINE h == StartRefresh(hub)
<1>1. hub \in HubType /\ hub' \in HubType
  BY DEF IInv, TypeOK, HubType
<1>2. /\ h \in HubType /\ h.trailing = hub.trailing /\ h.since = hub.since
      /\ h.reading = hub.reading /\ h.fan = hub.fan /\ h.computed = hub.computed
      /\ h.cached = hub.cached /\ h.sent = hub.sent
      /\ h.refresh # Off /\ (hub.refresh # Off => h = hub)
  <2>1. /\ h \in HubType /\ h.trailing = hub.trailing /\ h.since = hub.since
        /\ h.reading = hub.reading /\ h.fan = hub.fan /\ h.computed = hub.computed
    BY <1>1, StartRefreshTyped
  <2>2. /\ h.cached = hub.cached /\ h.sent = hub.sent
        /\ h.refresh # Off /\ (hub.refresh # Off => h = hub)
    BY <1>1, PolicyTypes DEF StartRefresh, HubType
  <2> QED
    BY <2>1, <2>2
<1>3. hub' = RunCompute(h, FALSE) /\ joinRead' = ~hub'.fan
  BY DEF JoinWaits
<1> HIDE DEF h
<1>4. /\ hub'.trailing = h.trailing /\ hub'.refresh = h.refresh /\ hub'.computed = h.computed
      /\ hub'.reading # Off
      /\ h.reading # Off => /\ hub'.since = h.since /\ hub'.reading = h.reading
                            /\ hub'.fan = (h.fan \/ FALSE)
      /\ h.reading = Off => hub'.since = 0 /\ hub'.reading = 0 /\ hub'.fan = FALSE
  BY <1>2, <1>3, RunComputeTyped
<1>5. /\ hub'.since >= hub'.reading \/ hub'.since = CacheTime
      /\ hub'.cached = hub.cached /\ hub'.sent = hub.sent
  BY <1>2, <1>3, RunComputeReads DEF Frames
<1>6. Frames'
  BY <1>1, <1>2, <1>3, <1>4, <1>5, FramesKept DEF JoinWaits, IInv, TypeOK, Frames
<1>7. InTime'
  <2>1. SUFFICES ASSUME NEW d \in Nat, Shown(d)', bad < 2, ~swallowed
                 PROVE  Due(d)'
    BY DEF InTime, JoinWaits
  <2>2. Shown(d)
    BY <1>5, <2>1 DEF Shown, JoinWaits
  <2>3. Due(d) /\ hub.computed /\ ~Fresh /\ bad' = bad
    BY <2>1, <2>2 DEF InTime, Frames, JoinWaits, Served
  <2>4. hub.refresh # Off /\ h = hub
    BY <1>2, <2>3, PolicyTypes DEF Frames, NewHub
  <2>5. CASE hub.reading # Off
    <3>1. joinRead' = joinRead /\ hub'.fan = hub.fan
      BY <1>1, <1>3, <1>4, <2>4, <2>5, HubNumbers DEF Frames, IInv, TypeOK
    <3> QED
      BY <1>4, <2>3, <2>4, <2>5, <3>1, DueStays
  <2>6. CASE hub.reading = Off
    <3>1. /\ ~hub.fan /\ ~hub'.fan /\ joinRead' /\ hub.since = CacheTime
          /\ hub'.trailing = hub.trailing /\ hub'.refresh = hub.refresh
      <4>1. ~hub.fan /\ hub'.fan = FALSE
        BY <1>4, <2>4, <2>6 DEF Frames
      <4>2. hub.since = CacheTime
        BY <1>1, <2>3, HubNumbers, PolicyTypes DEF Fresh
      <4>3. joinRead'
        BY <1>3, <4>1
      <4> QED
        BY <1>4, <2>4, <4>1, <4>2, <4>3
    <3>2. hub.trailing \in {Off, 0}
      BY <1>1, <3>1, HubNumbers, PolicyTypes DEF IInv, TimerWaits
    <3>3. (DueInWindow(d) /\ DueInRead(d) /\ DueByTimer(d))'
      BY <3>1 DEF DueInWindow, DueInRead, DueByTimer
    <3>4. DueNow(d)'
      BY <2>3, <3>1 DEF Due, DueNow
    <3>5. DueByRefresh(d)'
      BY <2>3, <3>1, <3>2 DEF Due, DueByRefresh
    <3> QED
      BY <3>3, <3>4, <3>5 DEF Due
  <2> QED
    BY <2>5, <2>6
<1> QED
  BY <1>6, <1>7

LEMMA LeaveFresh ==
  ASSUME IInv, ReadsAreShort, Frames, InTime, NEW c \in Clients, Leave(c)
  PROVE  (Frames /\ InTime)'
<1>1. /\ \A k \in Clients : client'[k] # "open" => age'[k] = NoSnapshot
      /\ \A k \in Clients : age'[k] = age[k] \/ age'[k] = NoSnapshot
  BY DEF Leave, Frames, IInv, TypeOK
<1>2. CASE Present = {c}
  <2>1. hub' = NewHub /\ Present' = {}
    BY <1>2 DEF Leave, Present, IInv, TypeOK
  <2>2. \A d \in Nat : ~Shown(d)'
    BY <1>1, <2>1 DEF Shown, Present, NewHub
  <2> QED
    BY <1>1, <2>1, <2>2, PolicyTypes DEF Frames, InTime, NewHub
<1>3. CASE Present # {c}
  <2>1. hub' = hub /\ bad' = bad /\ swallowed' = swallowed /\ joinRead' = joinRead
    BY <1>3 DEF Leave, ghosts
  <2>2. \A d \in Nat : Shown(d)' => Shown(d)
    BY <1>1, <2>1 DEF Shown
  <2>3. hub.refresh # Off
    BY DEF Frames, Leave, Present
  <2>4. Frames'
    BY <1>1, <2>1, <2>2, <2>3 DEF Frames
  <2>5. InTime'
    BY <2>1, <2>2, DueStays DEF InTime
  <2> QED
    BY <2>4, <2>5
<1> QED
  BY <1>2, <1>3

LEMMA UpdateReadsFresh ==
  ASSUME IInv, IInv', ReadsAreShort, Frames, InTime, UpdateReads
  PROVE  (Frames /\ InTime)'
<1>1. hub \in HubType /\ hub' \in HubType /\ bad \in 0 .. 2
  BY DEF IInv, TypeOK, HubType
<1>2. /\ hub'.trailing = hub.trailing /\ hub'.refresh = hub.refresh
      /\ hub'.computed = hub.computed /\ hub'.reading # Off
      /\ hub.reading # Off => /\ hub'.since = hub.since /\ hub'.reading = hub.reading
                              /\ hub'.fan = (hub.fan \/ TRUE)
      /\ hub.reading = Off => hub'.fan = TRUE
  BY <1>1, RunComputeTyped DEF UpdateReads
<1>3. /\ hub'.since >= hub'.reading \/ hub'.since = CacheTime
      /\ hub'.cached = hub.cached /\ hub'.sent = hub.sent
  BY <1>1, RunComputeReads DEF UpdateReads, Frames
<1>4. hub.refresh # Off /\ hub'.fan
  BY <1>1, <1>2, HubNumbers DEF Frames, UpdateReads
<1>5. Frames'
  BY <1>1, <1>2, <1>3, <1>4, FramesKept DEF UpdateReads
<1>6. InTime'
  <2>1. SUFFICES ASSUME NEW d \in Nat, Shown(d)', bad < 2, ~swallowed
                 PROVE  Due(d)'
    BY DEF InTime, UpdateReads
  <2>2. Due(d) /\ bad \in 0 .. 1 /\ bad' = bad
    <3>1. Shown(d)
      BY <1>3, <2>1 DEF Shown, UpdateReads
    <3>2. bad \in 0 .. 1
      BY <1>1, <2>1
    <3> QED
      BY <2>1, <3>1, <3>2 DEF UpdateReads, InTime
  <2>3. CASE hub.fan
    <3>1. /\ hub.reading # Off /\ ~joinRead /\ ~joinRead'
      BY <2>3 DEF Frames, IInv, UpdateReads
    <3>2. joinRead' = joinRead /\ hub'.fan = hub.fan
      BY <1>4, <2>3, <3>1, <1>1 DEF HubType, IInv, TypeOK, UpdateReads
    <3> QED
      BY <1>2, <2>2, <3>1, <3>2, DueStays
  <2>4. CASE ~hub.fan
    <3>1. hub.since = CacheTime
      BY <1>1, HubNumbers, PolicyTypes DEF UpdateReads, Fresh
    <3>2. hub.trailing \in {Off, 0}
      BY <1>1, <3>1, HubNumbers, PolicyTypes DEF IInv, TimerWaits
    <3> QED
      BY <1>1, <1>2, <1>4, <2>2, <2>4, <3>2, ReadIsDue
  <2> QED
    BY <2>3, <2>4
<1> QED
  BY <1>5, <1>6

LEMMA UpdateWaitsFresh ==
  ASSUME IInv, IInv', ReadsAreShort, Frames, InTime, UpdateWaits
  PROVE  (Frames /\ InTime)'
<1>1. hub \in HubType /\ hub' \in HubType /\ bad \in 0 .. 2
  BY DEF IInv, TypeOK, HubType
<1>2. /\ hub'.trailing = CacheTime - hub.since /\ hub'.refresh = hub.refresh
      /\ hub'.computed = hub.computed /\ hub'.reading = hub.reading
      /\ hub'.since = hub.since /\ hub'.fan = hub.fan
      /\ hub'.cached = hub.cached /\ hub'.sent = hub.sent
      /\ hub.trailing = Off /\ hub.since < CacheTime
  BY <1>1 DEF UpdateWaits, Fresh, HubType
<1>3. hub.refresh # Off
  BY DEF Frames, UpdateWaits
<1>4. Frames'
  BY <1>1, <1>2, <1>3, FramesKept DEF UpdateWaits, ghosts, Frames
<1>5. InTime'
  <2>1. SUFFICES ASSUME NEW d \in Nat, Shown(d)', bad < 2, ~swallowed
                 PROVE  Due(d)'
    BY DEF InTime, UpdateWaits, ghosts
  <2>2. Due(d) /\ bad \in 0 .. 1 /\ bad' = bad /\ joinRead' = joinRead
    BY <1>1, <1>2, <2>1 DEF Shown, UpdateWaits, ghosts, InTime
  <2> USE <1>1, <1>2, <2>2, HubNumbers, Room, PolicyTypes
  <2>3. (DueInWindow(d) /\ DueInRead(d))'
    BY DEF Due, DueInWindow, DueInRead
  <2>4. DueNow(d)'
    BY DEF DueNow
  <2>5. DueByTimer(d)'
    BY DEF Due, DueInWindow, DueByTimer
  <2>6. DueByRefresh(d)'
    BY DEF Due, DueByRefresh
  <2> QED
    BY <2>3, <2>4, <2>5, <2>6 DEF Due
<1> QED
  BY <1>4, <1>5

LEMMA TrailingFiresFresh ==
  ASSUME IInv, IInv', ReadsAreShort, Frames, InTime, TrailingFires
  PROVE  (Frames /\ InTime)'
<1> DEFINE h == [hub EXCEPT !.trailing = Off]
<1>1. hub \in HubType /\ hub' \in HubType /\ bad \in 0 .. 2
  BY DEF IInv, TypeOK, HubType
<1>2. /\ h \in HubType /\ h.trailing = Off /\ h.refresh = hub.refresh /\ h.since = hub.since
      /\ h.reading = hub.reading /\ h.fan = hub.fan /\ h.computed = hub.computed
      /\ h.cached = hub.cached /\ h.sent = hub.sent
  BY <1>1, PolicyTypes DEF HubType
<1>3. hub' = RunCompute(h, TRUE) /\ hub.trailing = 0
  BY DEF TrailingFires
<1> HIDE DEF h
<1>4. /\ hub'.trailing = Off /\ hub'.refresh = hub.refresh
      /\ hub'.computed = hub.computed /\ hub'.reading # Off
      /\ hub.reading # Off => /\ hub'.since = hub.since /\ hub'.reading = hub.reading
                              /\ hub'.fan = (hub.fan \/ TRUE)
      /\ hub.reading = Off => hub'.fan = TRUE
  BY <1>2, <1>3, RunComputeTyped
<1>5. /\ hub'.since >= hub'.reading \/ hub'.since = CacheTime
      /\ hub'.cached = hub.cached /\ hub'.sent = hub.sent
  BY <1>2, <1>3, RunComputeReads DEF Frames
<1>6. hub.refresh # Off /\ hub'.fan
  <2>1. hub.trailing # Off
    BY <1>3, PolicyTypes
  <2>2. hub.refresh # Off
    BY <2>1 DEF Frames, NewHub
  <2> QED
    BY <1>4, <2>2
<1>7. Frames'
  BY <1>1, <1>4, <1>5, <1>6, FramesKept DEF TrailingFires
<1>8. InTime'
  <2>1. SUFFICES ASSUME NEW d \in Nat, Shown(d)', bad < 2, ~swallowed
                 PROVE  Due(d)'
    BY DEF InTime, TrailingFires
  <2>2. Due(d) /\ bad \in 0 .. 1 /\ bad' = bad
    <3>1. Shown(d)
      BY <1>5, <2>1 DEF Shown, TrailingFires
    <3>2. bad \in 0 .. 1
      BY <1>1, <2>1
    <3> QED
      BY <2>1, <3>1, <3>2 DEF TrailingFires, InTime
  <2>3. CASE hub.fan
    <3>1. hub'.reading = hub.reading
      BY <1>4, <2>3 DEF Frames
    <3>2. DueInRead(d)'
      BY <1>4, <1>6, <2>2, <2>3, <3>1 DEF Due, DueInRead
    <3>3. (DueInWindow(d) /\ DueNow(d) /\ DueByTimer(d) /\ DueByRefresh(d))'
      BY <1>6 DEF DueInWindow, DueNow, DueByTimer, DueByRefresh
    <3> QED
      BY <3>2, <3>3 DEF Due
  <2>4. CASE ~hub.fan
    BY <1>1, <1>3, <1>4, <1>6, <2>2, <2>4, ReadIsDue
  <2> QED
    BY <2>3, <2>4
<1> QED
  BY <1>7, <1>8

LEMMA RefreshFiresFresh ==
  ASSUME IInv, IInv', ReadsAreShort, Frames, InTime, RefreshFires
  PROVE  (Frames /\ InTime)'
<1> DEFINE h == [hub EXCEPT !.refresh = RefreshTime]
<1>1. hub \in HubType /\ hub' \in HubType /\ bad \in 0 .. 2
  BY DEF IInv, TypeOK, HubType
<1>2. /\ h \in HubType /\ h.refresh = RefreshTime /\ h.trailing = hub.trailing
      /\ h.since = hub.since /\ h.reading = hub.reading /\ h.fan = hub.fan
      /\ h.computed = hub.computed /\ h.cached = hub.cached /\ h.sent = hub.sent
  BY <1>1, PolicyTypes DEF HubType
<1>3. /\ hub' = IF Skips THEN h ELSE RunCompute(h, TRUE)
      /\ hub.refresh = 0 /\ joinRead' = (joinRead /\ Skips)
      /\ swallowed' = (swallowed \/ (Skips /\ joinRead))
      /\ bad' = bad
  BY DEF RefreshFires
<1> HIDE DEF h
<1>4. CASE Skips
  <2>1. /\ hub'.refresh = RefreshTime /\ hub'.trailing = hub.trailing
        /\ hub'.since = hub.since /\ hub'.reading = hub.reading /\ hub'.fan = hub.fan
        /\ hub'.computed = hub.computed /\ hub'.cached = hub.cached /\ hub'.sent = hub.sent
    BY <1>2, <1>3, <1>4
  <2>2. joinRead' <=> joinRead
    BY <1>3, <1>4
  <2>3. hub'.refresh # Off
    BY <2>1, PolicyTypes
  <2>4. Frames'
    <3>1. hub'.reading # Off => /\ hub'.fan \/ joinRead'
                                /\ hub'.since >= hub'.reading \/ hub'.since = CacheTime
      BY <2>1, <2>2 DEF Frames
    <3>2. hub'.reading = Off => ~hub'.fan
      BY <2>1 DEF Frames
    <3> QED
      BY <1>1, <2>1, <2>3, <3>1, <3>2, FramesKept DEF RefreshFires
  <2>5. InTime'
    <3>1. SUFFICES ASSUME NEW d \in Nat, Shown(d)', bad < 2, ~swallowed, ~joinRead
                   PROVE  Due(d)'
      BY <1>3, <1>4 DEF InTime
    <3>2. Due(d) /\ bad \in 0 .. 1 /\ ~joinRead'
      <4>1. Shown(d)
        BY <2>1, <3>1 DEF Shown, RefreshFires
      <4>2. bad \in 0 .. 1
        BY <1>1, <3>1
      <4> QED
        BY <2>2, <3>1, <4>1, <4>2 DEF InTime
    <3>0. hub.refresh = 0 /\ bad' = bad
      BY <1>3
    <3> USE <1>1, <2>1, <3>0, <3>1, <3>2, HubNumbers, Room, PolicyTypes
    <3>3. DueInWindow(d)'
      BY DEF Due, DueInWindow
    <3>4. DueInRead(d)'
      <4>1. CASE hub.fan /\ bad = 0
        <5>1. hub.reading # Off
          BY <4>1 DEF Frames
        <5>2. d <= Base + RefreshTime
          BY <4>1 DEF Due, DueInRead
        <5> QED
          BY <4>1, <5>1, <5>2 DEF DueInRead
      <4>2. CASE ~(hub.fan /\ bad = 0)
        BY <4>2 DEF Due, DueInRead
      <4> QED
        BY <4>1, <4>2
    <3>5. DueNow(d)'
      <4>1. CASE hub.trailing = 0
        BY <4>1 DEF Due, DueNow
      <4>2. CASE hub.trailing # 0
        BY <4>2 DEF DueNow
      <4> QED
        BY <4>1, <4>2
    <3>6. DueByTimer(d)'
      BY DEF Due, DueByTimer
    <3>7. DueByRefresh(d)'
      <4>1. CASE hub.trailing = Off
        <5>1. hub.since < CacheTime
          BY <1>4, <4>1 DEF Skips, Fresh
        <5> QED
          BY <4>1, <5>1 DEF Due, DueByRefresh
      <4>2. CASE hub.trailing # Off
        BY <4>2 DEF DueByRefresh
      <4> QED
        BY <4>1, <4>2
    <3> QED
      BY <3>3, <3>4, <3>5, <3>6, <3>7 DEF Due
  <2> QED
    BY <2>4, <2>5
<1>5. CASE ~Skips
  <2>0. hub' = RunCompute(h, TRUE)
    BY <1>3, <1>5
  <2>1. /\ hub'.trailing = hub.trailing /\ hub'.refresh = RefreshTime
        /\ hub'.computed = hub.computed /\ hub'.reading # Off
        /\ hub.reading # Off => /\ hub'.since = hub.since /\ hub'.reading = hub.reading
                                /\ hub'.fan = (hub.fan \/ TRUE)
        /\ hub.reading = Off => hub'.fan = TRUE
    BY <1>2, <2>0, RunComputeTyped
  <2>2. /\ hub'.since >= hub'.reading \/ hub'.since = CacheTime
        /\ hub'.cached = hub.cached /\ hub'.sent = hub.sent
    BY <1>2, <2>0, RunComputeReads DEF Frames
  <2>3. hub'.fan /\ hub'.refresh # Off /\ hub.trailing = Off
    <3>1. hub.trailing = Off
      BY <1>5 DEF Skips
    <3>2. hub'.refresh # Off
      BY <2>1, PolicyTypes
    <3> QED
      BY <2>1, <3>1, <3>2
  <2>4. Frames'
    BY <1>1, <2>1, <2>2, <2>3, FramesKept DEF RefreshFires
  <2>5. InTime'
    <3>1. SUFFICES ASSUME NEW d \in Nat, Shown(d)', bad < 2, ~swallowed
                   PROVE  Due(d)'
      BY <1>3, <1>5 DEF InTime
    <3>2. Due(d) /\ bad \in 0 .. 1
      <4>1. Shown(d)
        BY <2>2, <3>1 DEF Shown, RefreshFires
      <4>2. bad \in 0 .. 1
        BY <1>1, <3>1
      <4> QED
        BY <3>1, <4>1, <4>2 DEF InTime
    <3>3. CASE ~hub.fan
      <4>1. hub.refresh # Off
        BY <1>3, PolicyTypes
      <4> QED
        BY <1>1, <1>3, <2>1, <2>3, <3>2, <3>3, <4>1, ReadIsDue
    <3>4. CASE hub.fan
      <4>1. hub.reading # Off /\ hub'.reading = hub.reading
        BY <2>1, <3>4 DEF Frames
      <4>2. bad = 0 => d <= Base + RefreshTime
        BY <1>1, <1>3, <3>2, <3>4, <4>1, HubNumbers, Room, PolicyTypes DEF Due, DueInRead
      <4>3. DueInRead(d)'
        <5>1. bad' = bad /\ hub'.refresh = RefreshTime /\ hub'.reading = hub.reading
          BY <1>3, <2>1, <4>1
        <5>2. hub.reading >= 0
          BY <1>1, <4>1, HubNumbers, PolicyTypes
        <5>3. CASE bad = 0
          BY <1>1, <4>2, <5>1, <5>2, <5>3, HubNumbers, Room, PolicyTypes DEF DueInRead
        <5>4. CASE bad = 1
          BY <3>2, <3>4, <5>1, <5>4 DEF Due, DueInRead
        <5> QED
          BY <3>2, <5>3, <5>4
      <4>4. (DueInWindow(d) /\ DueNow(d) /\ DueByTimer(d) /\ DueByRefresh(d))'
        BY <2>3 DEF DueInWindow, DueNow, DueByTimer, DueByRefresh
      <4> QED
        BY <4>3, <4>4 DEF Due
    <3> QED
      BY <3>3, <3>4
  <2> QED
    BY <2>4, <2>5
<1> QED
  BY <1>4, <1>5

LEMMA ReadReturnsFresh ==
  ASSUME IInv, IInv', ReadsAreShort, Frames, InTime, ReadReturns
  PROVE  (Frames /\ InTime)'
<1>1. hub \in HubType /\ hub' \in HubType /\ bad' \in 0 .. 2
  BY DEF IInv, TypeOK, HubType
<1>2. PICK same \in BOOLEAN :
        /\ hub' = [hub EXCEPT !.reading = Off, !.fan = FALSE, !.computed = TRUE,
                              !.cached = 0, !.degraded = @ /\ ~hub.fan,
                              !.sent = IF Sends(same) THEN 0 ELSE @]
        /\ age' = [c \in Clients |->
                    IF client[c] = "waiting" \/ (Sends(same) /\ c \in Present)
                    THEN 0 ELSE age[c]]
        /\ IF Sends(same) THEN bad' = 0 /\ swallowed' = FALSE
                          ELSE UNCHANGED <<bad, swallowed>>
  BY DEF ReadReturns
<1>3. /\ hub'.refresh = hub.refresh /\ hub'.trailing = hub.trailing
      /\ hub'.since = hub.since /\ hub'.reading = Off /\ ~hub'.fan
      /\ hub'.computed /\ hub'.cached = 0
  BY <1>1, <1>2 DEF HubType
<1>4. /\ Sends(same) => hub'.sent = 0
      /\ ~Sends(same) => hub'.sent = hub.sent
  BY <1>1, <1>2 DEF HubType
<1>5. hub.reading # Off /\ joinRead' = joinRead /\ client' = Answered
  BY DEF ReadReturns, MayEnd
<1>6. hub.refresh # Off
  BY <1>5 DEF Frames, NewHub
<1>7. \A c \in Clients : client'[c] # "open" => age'[c] = NoSnapshot
  <2>1. ASSUME NEW c \in Clients, client'[c] # "open"
        PROVE  age'[c] = NoSnapshot
    <3>1. client[c] = "away"
      BY <1>5, <2>1 DEF Answered, IInv, TypeOK
    <3> QED
      BY <1>2, <3>1 DEF Present, Frames
  <2> QED
    BY <2>1
\* What is shown is new, or nothing was sent.
<1>8. \A d \in Nat : Shown(d)' => d = 0 \/ (Shown(d) /\ ~Sends(same))
  <2>1. ASSUME NEW d \in Nat, Shown(d)', d # 0
        PROVE  Shown(d) /\ ~Sends(same)
    <3>1. PICK c \in Clients : d = age'[c] /\ d # NoSnapshot
      BY <1>3, <2>1 DEF Shown
    <3>2. client[c] # "waiting" /\ ~(Sends(same) /\ c \in Present) /\ d = age[c]
      BY <1>2, <2>1, <3>1
    <3>3. c \in Present
      BY <3>1, <3>2 DEF Frames, Present
    <3> QED
      BY <3>1, <3>2, <3>3 DEF Shown
  <2> QED
    BY <2>1
<1>9. Frames'
  <2>1. 0 # NoSnapshot
    BY PolicyTypes
  <2>2. ASSUME hub'.sent < Floor, NEW d \in Nat, Shown(d)'
        PROVE  d <= hub'.sent
    BY <1>1, <1>4, <1>8, <2>2, HubNumbers DEF Frames
  <2> QED
    BY <1>3, <1>6, <1>7, <2>1, <2>2 DEF Frames
<1>10. InTime'
  <2>1. SUFFICES ASSUME NEW d \in Nat, Shown(d)', bad' < 2, ~swallowed'
                 PROVE  Due(d)'
    BY DEF InTime
  <2>2. CASE d = 0
    <3>1. 0 < Floor /\ 0 <= hub'.since + Floor - 1
      BY <1>1, HubNumbers, Room, PolicyTypes
    <3> QED
      BY <1>1, <1>3, <2>2, <3>1, NewIsDue
  <2>3. CASE d # 0
    <3>1. Shown(d) /\ ~Sends(same)
      BY <1>8, <2>1, <2>3
    <3>2. bad' = bad /\ swallowed' = swallowed
      BY <1>2, <3>1
    <3>3. Due(d)
      BY <2>1, <3>1, <3>2 DEF InTime
    <3>4. CASE hub.fan
      <4>1. d < Floor
        BY <1>1, <3>1, <3>4, HubNumbers, PolicyTypes DEF Sends, Frames
      <4>2. d <= hub'.since + Floor - 1
        BY <1>1, <4>1, HubNumbers, PolicyTypes
      <4> QED
        BY <1>1, <1>3, <4>1, <4>2, NewIsDue
    <3>5. CASE ~hub.fan
      <4>1. joinRead /\ joinRead'
        BY <1>5, <3>5 DEF Frames
      <4>2. (DueInWindow(d) /\ DueInRead(d) /\ DueByTimer(d))'
        BY <1>3, <4>1 DEF DueInWindow, DueInRead, DueByTimer
      <4>3. DueNow(d)'
        BY <1>3, <3>2, <3>3, <3>5 DEF Due, DueNow
      <4>4. DueByRefresh(d)'
        BY <1>3, <3>2, <3>3, <3>5, <4>1 DEF Due, DueByRefresh
      <4> QED
        BY <4>2, <4>3, <4>4 DEF Due
    <3> QED
      BY <3>4, <3>5
  <2> QED
    BY <2>2, <2>3
<1> QED
  BY <1>9, <1>10

LEMMA ReadFailsFresh ==
  ASSUME IInv, IInv', ReadsAreShort, Frames, InTime, ReadFails
  PROVE  (Frames /\ InTime)'
<1>1. hub \in HubType /\ hub' \in HubType /\ bad \in 0 .. 2
  BY DEF IInv, TypeOK, HubType
<1>2. /\ hub'.refresh = hub.refresh /\ hub'.trailing = hub.trailing
      /\ hub'.since = hub.since /\ hub'.reading = Off /\ ~hub'.fan
      /\ hub'.computed = hub.computed /\ hub'.cached = hub.cached /\ hub'.sent = hub.sent
  BY <1>1 DEF ReadFails, HubType
<1>3. hub.reading # Off /\ joinRead' = joinRead /\ swallowed' = swallowed /\ client' = Answered
  BY DEF ReadFails, MayEnd
<1>4. hub.refresh # Off
  BY <1>3 DEF Frames, NewHub
<1>5. \A c \in Clients : client'[c] # "open" => age'[c] = NoSnapshot
  <2>1. ASSUME NEW c \in Clients, client'[c] # "open"
        PROVE  age'[c] = NoSnapshot
    <3>1. client[c] = "away"
      BY <1>3, <2>1 DEF Answered, IInv, TypeOK
    <3> QED
      BY <3>1 DEF ReadFails, Frames
  <2> QED
    BY <2>1
<1>6. \A d \in Nat : Shown(d)' => Shown(d)
  <2>1. \A c \in Clients : age'[c] = age[c] \/ age'[c] = hub.cached
    BY DEF ReadFails
  <2> QED
    BY <1>2, <2>1 DEF Shown
<1>7. Frames'
  BY <1>2, <1>4, <1>5, <1>6 DEF Frames
<1>8. InTime'
  <2>1. SUFFICES ASSUME NEW d \in Nat, Shown(d)', bad' < 2, ~swallowed'
                 PROVE  Due(d)'
    BY DEF InTime
  <2>2. CASE ~hub.fan
    <3>1. bad' = bad /\ joinRead /\ joinRead'
      BY <1>3, <2>2 DEF ReadFails, Frames
    <3>2. Due(d)
      BY <1>3, <1>6, <2>1, <3>1 DEF InTime
    <3>3. (DueInWindow(d) /\ DueInRead(d) /\ DueByTimer(d))'
      BY <1>2, <3>1 DEF DueInWindow, DueInRead, DueByTimer
    <3>4. DueNow(d)'
      BY <1>2, <2>2, <3>1, <3>2 DEF Due, DueNow
    <3>5. DueByRefresh(d)'
      BY <1>2, <2>2, <3>1, <3>2 DEF Due, DueByRefresh
    <3> QED
      BY <3>3, <3>4, <3>5 DEF Due
  <2>3. CASE hub.fan
    <3>1. bad = 0 /\ bad' = 1
      BY <1>1, <2>1, <2>3 DEF ReadFails
    <3>2. Due(d)
      BY <1>3, <1>6, <2>1, <3>1 DEF InTime
    <3>3. \/ d + hub.refresh <= Base + RefreshTime
          \/ /\ d + hub.refresh <= Base + 2 * RefreshTime
             /\ hub.refresh + hub.reading >= RefreshTime
      BY <2>3, <3>1, <3>2 DEF Due, DueInRead
    <3>4. /\ hub.since >= hub.reading \/ hub.since = CacheTime
          /\ hub.refresh >= 0 /\ hub.reading >= 0
          /\ hub.trailing # Off => hub.since + hub.trailing <= CacheTime
      BY <1>1, <1>3, <1>4, HubNumbers, PolicyTypes DEF Frames, IInv, TimerWaits
    <3> USE <1>1, <1>2, <3>1, <3>3, <3>4, HubNumbers, Room, PolicyTypes
    <3>5. DueInWindow(d)'
      BY DEF DueInWindow
    <3>6. DueInRead(d)'
      BY DEF DueInRead
    <3>7. DueNow(d)'
      BY DEF DueNow
    <3>8. DueByTimer(d)'
      BY DEF DueByTimer
    <3>9. DueByRefresh(d)'
      BY DEF DueByRefresh
    <3> QED
      BY <3>5, <3>6, <3>7, <3>8, <3>9 DEF Due
  <2> QED
    BY <2>2, <2>3
<1> QED
  BY <1>7, <1>8

LEMMA TickFresh ==
  ASSUME IInv, IInv', ReadsAreShort, Frames, InTime, Tick
  PROVE  (Frames /\ InTime)'
<1>1. hub \in HubType /\ hub' \in HubType /\ bad \in 0 .. 2
  BY DEF IInv, TypeOK, HubType
<1>2. /\ hub'.refresh = Down(hub.refresh) /\ hub'.trailing = Down(hub.trailing)
      /\ hub'.since = Up(hub.since, CacheTime) /\ hub'.cached = Up(hub.cached, AgeCap)
      /\ hub'.sent = Up(hub.sent, Floor) /\ hub'.fan = hub.fan
      /\ hub'.computed = hub.computed
      /\ hub'.reading = IF hub.reading = Off THEN Off ELSE hub.reading + 1
  BY <1>1 DEF Tick, HubType
<1>3. /\ bad' = bad /\ swallowed' = swallowed /\ joinRead' = joinRead /\ client' = client
      /\ hub.refresh # 0 /\ hub.trailing # 0 /\ hub.reading < ReadTime
      /\ Present # {}
  BY DEF Tick, ghosts
<1>4. hub.refresh # Off
  BY <1>3 DEF Frames
<1>5. /\ hub'.refresh = hub.refresh - 1 /\ hub'.refresh >= 0
      /\ hub.trailing = Off => hub'.trailing = Off
      /\ hub.trailing # Off => hub'.trailing = hub.trailing - 1 /\ hub.trailing > 0
      /\ hub.since < CacheTime => hub'.since = hub.since + 1
      /\ hub.since = CacheTime => hub'.since = CacheTime
  BY <1>1, <1>2, <1>3, <1>4, HubNumbers, PolicyTypes DEF Down, Up
<1>6. /\ \A c \in Clients : age[c] \in Nat /\ age'[c] = Up(age[c], AgeCap)
      /\ hub.cached \in Nat
  BY <1>1, HubNumbers, PolicyTypes DEF Tick, IInv, TypeOK
\* What is shown was shown, and is at most one older.
<1>7. ASSUME NEW d \in Nat, Shown(d)'
      PROVE  \E e \in Nat : Shown(e) /\ d <= e + 1
  <2>1. \A e \in Nat : /\ Up(e, AgeCap) <= e + 1
                       /\ Up(e, AgeCap) # NoSnapshot => e # NoSnapshot
    BY PolicyTypes DEF Up
  <2>2. CASE d = hub'.cached
    <3>1. Shown(hub.cached) /\ d <= hub.cached + 1
      BY <1>2, <1>6, <1>7, <2>1, <2>2 DEF Shown
    <3> QED
      BY <1>6, <3>1
  <2>3. CASE \E c \in Clients : d = age'[c]
    <3>1. PICK c \in Clients : d = age'[c]
      BY <2>3
    <3>2. Shown(age[c]) /\ d <= age[c] + 1
      BY <1>6, <1>7, <2>1, <3>1 DEF Shown
    <3> QED
      BY <1>6, <3>2
  <2> QED
    BY <1>7, <2>2, <2>3 DEF Shown
<1>8. Frames'
  <2>1. \A c \in Clients : client'[c] # "open" => age'[c] = NoSnapshot
    BY <1>3, <1>6, PolicyTypes DEF Frames, Up
  <2>2. hub'.computed <=> hub'.cached # NoSnapshot
    BY <1>2, <1>6, PolicyTypes DEF Frames, Up
  <2>3. ~hub'.computed => \A d \in Nat : ~Shown(d)'
    BY <1>2, <1>7 DEF Frames
  <2>4. hub'.refresh # Off
    BY <1>5, PolicyTypes
  <2>5. hub'.reading = Off => ~hub'.fan
    BY <1>1, <1>2, HubNumbers, PolicyTypes DEF Frames
  <2>6. hub'.reading # Off => /\ hub'.fan \/ joinRead'
                              /\ hub'.since >= hub'.reading \/ hub'.since = CacheTime
    <3>1. ASSUME hub'.reading # Off
          PROVE  hub.reading # Off /\ hub'.reading = hub.reading + 1
      BY <1>2, <3>1
    <3>2. hub'.reading # Off => hub'.fan \/ joinRead'
      BY <1>2, <1>3, <3>1 DEF Frames
    <3>3. hub'.reading # Off => hub'.since >= hub'.reading \/ hub'.since = CacheTime
      BY <1>1, <1>5, <3>1, HubNumbers, PolicyTypes DEF Frames
    <3> QED
      BY <3>2, <3>3
  <2>7. ASSUME hub'.sent < Floor, NEW d \in Nat, Shown(d)'
        PROVE  d <= hub'.sent
    <3>1. PICK e \in Nat : Shown(e) /\ d <= e + 1
      BY <1>7, <2>7
    <3>2. hub.sent < Floor /\ hub'.sent = hub.sent + 1
      BY <1>1, <1>2, <2>7, HubNumbers, PolicyTypes DEF Up
    <3>3. e <= hub.sent
      BY <3>1, <3>2 DEF Frames
    <3> QED
      BY <1>1, <3>1, <3>2, <3>3, HubNumbers
  <2> QED
    BY <2>1, <2>2, <2>3, <2>4, <2>5, <2>6, <2>7 DEF Frames
<1>9. InTime'
  <2>1. SUFFICES ASSUME NEW d \in Nat, Shown(d)', bad < 2, ~swallowed
                 PROVE  Due(d)'
    BY <1>3 DEF InTime
  <2>2. PICK e \in Nat : Shown(e) /\ d <= e + 1
    BY <1>7, <2>1
  <2>3. Due(e) /\ bad \in 0 .. 1
    BY <1>1, <2>1, <2>2 DEF InTime
  <2>4. hub.fan => hub'.reading = hub.reading + 1
    BY <1>2 DEF Frames
  <2> USE <1>1, <1>3, <1>4, <1>5, <2>2, <2>3, <2>4, HubNumbers, Room, PolicyTypes
  <2>5. DueInWindow(d)'
    BY <1>2 DEF Due, DueInWindow
  <2>6. DueInRead(d)'
    BY <1>2 DEF Due, DueInRead
  <2>7. DueNow(d)'
    <3>1. CASE hub'.trailing = 0 /\ ~joinRead
      BY <1>2, <3>1 DEF Due, DueByTimer, DueInWindow, DueNow, IInv, TimerWaits
    <3>2. CASE hub'.trailing = 0 /\ joinRead
      BY <1>2, <3>2 DEF Due, DueByRefresh, DueNow
    <3>3. CASE hub'.trailing # 0
      BY <3>3 DEF DueNow
    <3> QED
      BY <3>1, <3>2, <3>3
  <2>8. DueByTimer(d)'
    BY <1>2 DEF Due, DueByTimer
  <2>9. DueByRefresh(d)'
    BY <1>2 DEF Due, DueByRefresh
  <2> QED
    BY <2>5, <2>6, <2>7, <2>8, <2>9 DEF Due
<1> QED
  BY <1>8, <1>9

LEMMA FreshInit == Init => FreshInv
<1> SUFFICES ASSUME Init, ReadsAreShort PROVE Frames /\ InTime
  BY DEF FreshInv
<1>1. \A d \in Nat : ~Shown(d)
  BY DEF Init, NewHub, Shown
<1>2. hub = NewHub /\ Present = {} /\ \A c \in Clients : age[c] = NoSnapshot
  BY DEF Init, Present
<1> QED
  BY <1>1, <1>2 DEF Frames, InTime, NewHub

LEMMA FreshNext == IInv /\ IInv' /\ FreshInv /\ [Next]_vars => FreshInv'
<1> SUFFICES ASSUME IInv, IInv', ReadsAreShort, Frames, InTime, [Next]_vars
             PROVE  (Frames /\ InTime)'
  BY DEF FreshInv, ReadsAreShort
<1>1. CASE UNCHANGED vars
  <2>1. \A d \in Nat : (Shown(d)' => Shown(d)) /\ (Due(d) => Due(d)')
    BY <1>1, DueStays DEF vars, ghosts, Shown
  <2>2. InTime'
    BY <1>1, <2>1 DEF vars, ghosts, InTime
  <2>3. Frames'
    BY <1>1, <2>1 DEF vars, Frames, Present
  <2> QED
    BY <2>2, <2>3
<1> QED
  BY <1>1, JoinServedFresh, JoinWaitsFresh, LeaveFresh, UpdateReadsFresh, UpdateWaitsFresh,
     TrailingFiresFresh, RefreshFiresFresh, ReadReturnsFresh, ReadFailsFresh, TickFresh
  DEF Next, Connections, Updates, Timers, Reads

\* However updates, joins and slow reads shift the reads for everybody, what an open
\* connection shows is younger than the gap of no failed read, or of one: for every
\* policy, and so on every clock, as long as reads are short.
THEOREM AgeIsBounded == Spec => []StaysFresh
<1>1. IInv /\ FreshInv => StaysFresh
  <2> SUFFICES ASSUME IInv, Frames, InTime, ReadsAreShort, NEW c \in Clients,
                      client[c] = "open", age[c] # NoSnapshot, bad < 2, ~swallowed
               PROVE  age[c] < Gap(bad)
    BY DEF FreshInv, StaysFresh
  <2>1. hub \in HubType /\ bad \in 0 .. 1 /\ TimerWaits
    BY DEF IInv, TypeOK, HubType
  <2>2. age[c] \in Nat
    BY PolicyTypes DEF IInv, TypeOK
  <2>3. Shown(age[c])
    BY DEF Shown
  <2>4. Due(age[c])
    BY <2>2, <2>3 DEF InTime
  <2>5. hub.refresh # Off /\ (hub.reading = Off => ~hub.fan)
    BY DEF Frames, Present
  <2>6. age[c] <= Base + (bad + 1) * RefreshTime + ReadTime
    BY <2>1, <2>2, <2>4, <2>5, DueIsFresh
  <2>7. bad \in {0, 1} /\ Gap(bad) = Floor + CacheTime + (bad + 1) * RefreshTime + ReadTime
    BY <2>1, PolicyTypes
  <2>8. Base + (bad + 1) * RefreshTime + ReadTime = Gap(bad) - 2
    BY <2>7, PolicyTypes DEF Base
  <2>9. Gap(bad) \in Int
    BY <2>7, PolicyTypes
  <2> QED
    BY <2>2, <2>6, <2>8, <2>9
<1> QED
  BY InitInv, InvNext, FreshInit, FreshNext, <1>1, PTL DEF Spec

=============================================================================
