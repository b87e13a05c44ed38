---------------------- MODULE SessionFinalizerProofs ----------------------
(***************************************************************************)
(* The theorems of SessionFinalizer: every reachable state has its shape;  *)
(* rollups follow the facts through overlaps and crashes; while passes     *)
(* never overlap no event is counted twice; and behind the watermark every *)
(* event is counted and nothing is revised, unless a read cut at RowCap or *)
(* a pass longer than a session meets an overlap (Undisturbed).            *)
(*                                                                         *)
(* The sessionizer and the plan are functions of the events read; what the *)
(* argument needs of them comes first: a session is named by its earliest  *)
(* event, sessions are disjoint and cover the window, none straddles the   *)
(* planned watermark, and a plan turns what is stored of the window into   *)
(* those sessions.  Six inductive invariants follow, Inv1 to Inv6.  Before *)
(* Inv4 stands why overlapping passes agree: no session straddles          *)
(* the watermark, so those before it are the same in every set of events   *)
(* that holds all the earlier ones.                                        *)
(***************************************************************************)
EXTENDS SessionFinalizer, FiniteSetTheorems, TLAPS, WellFoundedInduction
-----------------------------------------------------------------------------
(* Bounded sets of integers have a least and a greatest element. *)

LEMMA Constants ==
  /\ MaxTime \in Nat /\ LastEvent \in Nat /\ LastEvent <= MaxTime
  /\ MaxRuns \in Nat /\ MaxFaults \in Nat /\ Lateness \in Nat /\ LeaseTTL \in Nat
  /\ PassTime \in Nat /\ MaxEvents \in Nat
  /\ Inactivity \in Nat \ {0} /\ RowCap \in Nat \ {0} /\ Width \in Nat \ {0}
  /\ Cap \in Nat /\ NoName \notin Names
BY FinalizerAssumption

LEMMA TimesAreNat == Times \subseteq Nat /\ Times \subseteq Int /\ \A t \in Times : t <= MaxTime
BY Constants DEF Times

LEMMA NatMin ==
  ASSUME NEW S \in SUBSET Nat, S # {}
  PROVE  \E x \in S : \A y \in S : x <= y
<1>1. IsWellFoundedOn(OpToRel(<, Nat), Nat)
  BY NatLessThanWellFounded
<1>2. PICK x \in S : \A y \in S : ~(<<y, x>> \in OpToRel(<, Nat))
  BY <1>1, WFMin
<1>3. ASSUME NEW y \in S PROVE x <= y
  <2>1. ~(y < x)
    <3>1. <<y, x>> \notin {ss \in Nat \X Nat : ss[1] < ss[2]}
      BY <1>2 DEF OpToRel
    <3>2. QED
      BY <3>1
  <2>2. QED
    BY <2>1
<1>4. QED
  BY <1>3

LEMMA IntMin ==
  ASSUME NEW S \in SUBSET Int, S # {}, NEW b \in Int, \A x \in S : b <= x
  PROVE  \E x \in S : \A y \in S : x <= y
<1> DEFINE T == {x - b : x \in S}
<1>1. T \subseteq Nat /\ T # {}
  <2>1. PICK z \in S : TRUE
    OBVIOUS
  <2>2. z \in Int /\ T \subseteq Nat
    OBVIOUS
  <2>3. QED
    BY <2>1
<1>2. PICK d \in T : \A y \in T : d <= y
  BY <1>1, NatMin
<1>3. PICK x \in S : d = x - b
  BY <1>2
<1>4. ASSUME NEW y \in S PROVE x <= y
  <2>1. y - b \in T
    OBVIOUS
  <2>2. QED
    BY <2>1, <1>2, <1>3
<1>5. QED
  BY <1>4

LEMMA IntMax ==
  ASSUME NEW S \in SUBSET Int, S # {}, NEW b \in Int, \A x \in S : x <= b
  PROVE  \E x \in S : \A y \in S : x >= y
<1> DEFINE T == {b - x : x \in S}
<1>1. T \subseteq Nat /\ T # {}
  <2>1. PICK z \in S : TRUE
    OBVIOUS
  <2>2. \A v \in S : b - v \in Nat
    OBVIOUS
  <2>3. T \subseteq Nat
    BY <2>2
  <2>4. QED
    BY <2>1, <2>3
<1>2. PICK d \in T : \A y \in T : d <= y
  BY <1>1, NatMin
<1>3. PICK x \in S : d = b - x
  BY <1>2
<1>4. ASSUME NEW y \in S PROVE x >= y
  <2>1. b - y \in T
    OBVIOUS
  <2>2. d <= b - y /\ d = b - x /\ x \in Int /\ y \in Int
    BY <2>1, <1>2, <1>3
  <2> HIDE DEF T
  <2>3. QED
    BY <2>2
<1>5. QED
  BY <1>4

LEMMA MaxOfIs ==
  ASSUME NEW S \in SUBSET Int, S # {}, NEW b \in Int, \A x \in S : x <= b
  PROVE  MaxOf(S) \in S /\ \A y \in S : MaxOf(S) >= y
BY IntMax, Zenon DEF MaxOf

LEMMA MinOfIs ==
  ASSUME NEW S \in SUBSET Int, S # {}, NEW b \in Int, \A x \in S : b <= x
  PROVE  MinOf(S) \in S /\ \A y \in S : MinOf(S) <= y
BY IntMin, Zenon DEF MinOf

LEMMA MaxOfTwo ==
  ASSUME NEW x \in Int, NEW y \in Int
  PROVE  MaxOf({x, y}) = IF x >= y THEN x ELSE y
<1>1. MaxOf({x, y}) \in {x, y} /\ \A z \in {x, y} : MaxOf({x, y}) >= z
  <2>1. CASE x >= y
    BY <2>1, MaxOfIs
  <2>2. CASE ~(x >= y)
    BY <2>2, MaxOfIs
  <2>3. QED
    BY <2>1, <2>2
<1>2. QED
  BY <1>1

LEMMA MinOfTwo ==
  ASSUME NEW x \in Int, NEW y \in Int
  PROVE  MinOf({x, y}) = IF x <= y THEN x ELSE y
<1>1. MinOf({x, y}) \in {x, y} /\ \A z \in {x, y} : MinOf({x, y}) <= z
  <2>1. CASE x <= y
    BY <2>1, MinOfIs
  <2>2. CASE ~(x <= y)
    BY <2>2, MinOfIs
  <2>3. QED
    BY <2>1, <2>2
<1>2. QED
  BY <1>1

-----------------------------------------------------------------------------
(* The sessionizer. *)

\* The body of the recursive function start of StartsAt.
StartOf(times, start, t) ==
  LET earlier == {u \in times : u < t}
      last == MaxOf(earlier)
  IN IF \/ earlier = {}
        \/ t - last > Inactivity
        \/ t - start[last] >= Cap
       THEN t ELSE start[last]

\* The last event before t is one, and is before t.
LEMMA LastEarlier ==
  ASSUME NEW times \in SUBSET Times, NEW t \in Times, {u \in times : u < t} # {}
  PROVE  /\ MaxOf({u \in times : u < t}) \in times
         /\ MaxOf({u \in times : u < t}) \in Times
         /\ MaxOf({u \in times : u < t}) < t
<1> DEFINE S == {u \in times : u < t}
<1>1. S \in SUBSET Int /\ t \in Int /\ \A x \in S : x <= t
  <2>1. t \in Int /\ \A x \in S : x \in Int /\ x < t
    BY TimesAreNat
  <2> HIDE DEF S
  <2>2. QED
    BY <2>1
<1>2. MaxOf(S) \in S
  BY <1>1, MaxOfIs
<1>3. QED
  BY <1>2

\* The start of t depends only on the starts before it.
LEMMA StartDepends ==
  ASSUME NEW times \in SUBSET Times, NEW t \in Times, NEW f, NEW g,
         \A u \in Times : u < t => f[u] = g[u]
  PROVE  StartOf(times, f, t) = StartOf(times, g, t)
<1> DEFINE S == {u \in times : u < t}
<1>1. CASE S = {}
  BY <1>1 DEF StartOf
<1>2. CASE S # {}
  <2>1. MaxOf(S) \in Times /\ MaxOf(S) < t
    BY <1>2, LastEarlier
  <2>2. f[MaxOf(S)] = g[MaxOf(S)]
    BY <2>1
  <2>3. QED
    BY <2>2 DEF StartOf
<1>3. QED
  BY <1>1, <1>2

LEMMA StartsUpTo ==
  ASSUME NEW times \in SUBSET Times, NEW n \in Times
  PROVE  \E f : \A t \in 0 .. n : f[t] = StartOf(times, f, t)
<1> DEFINE Good(m) == \E f : \A t \in 0 .. m : f[t] = StartOf(times, f, t)
           Bad == {m \in Times : ~Good(m)}
<1>1. SUFFICES ASSUME Bad # {} PROVE FALSE
  OBVIOUS
<1>2. Bad \in SUBSET Nat
  BY TimesAreNat
<1>3. PICK m \in Bad : \A k \in Bad : m <= k
  <2> HIDE DEF Bad
  <2>1. QED
    BY <1>1, <1>2, NatMin
<1>4. m \in Times /\ m \in Nat /\ ~Good(m) /\ 0 .. m \subseteq Times
  <2>1. m \in Times /\ m \in Nat /\ ~Good(m)
    BY <1>2
  <2>2. QED
    BY <2>1, Constants DEF Times
<1>5. PICK g : \A t \in 0 .. (m - 1) : g[t] = StartOf(times, g, t)
  <2>1. CASE m = 0
    BY <2>1
  <2>2. CASE m # 0
    <3>1. m - 1 \in Times /\ m - 1 \notin Bad
      <4>1. m - 1 \in Times
        BY <1>4, <2>2, Constants DEF Times
      <4> HIDE DEF Bad
      <4>2. QED
        BY <4>1, <1>3, <1>4
    <3>2. QED
      BY <3>1
  <2>3. QED
    BY <2>1, <2>2
<1> DEFINE f == [t \in Times |-> IF t < m THEN g[t] ELSE StartOf(times, g, t)]
<1>6. ASSUME NEW t \in 0 .. m PROVE f[t] = StartOf(times, f, t)
  <2>1. t \in Times /\ t <= m /\ t \in Int
    BY <1>4
  <2>2. \A u \in Times : u < t => f[u] = g[u]
    BY <2>1, <1>4, TimesAreNat
  <2>3. f[t] = StartOf(times, g, t)
    BY <2>1, <1>4, <1>5
  <2> HIDE DEF f
  <2>4. QED
    BY <2>1, <2>2, <2>3, StartDepends
<1>7. Good(m)
  <2> HIDE DEF f
  <2>1. QED
    BY <1>6
<1>8. QED
  BY <1>7, <1>4

\* StartsAt satisfies its recursive definition.
LEMMA StartsAtIs ==
  ASSUME NEW times \in SUBSET Times, NEW t \in Times
  PROVE  StartsAt(times)[t] = StartOf(times, StartsAt(times), t)
<1>1. MaxTime \in Times /\ Times = 0 .. MaxTime
  BY Constants DEF Times
<1>2. PICK g : \A u \in Times : g[u] = StartOf(times, g, u)
  <2>1. \E g : \A u \in 0 .. MaxTime : g[u] = StartOf(times, g, u)
    BY <1>1, StartsUpTo, Zenon
  <2>2. QED
    BY <2>1, <1>1, Zenon
<1> DEFINE f == [u \in Times |-> g[u]]
<1>3. \A u \in Times : f[u] = StartOf(times, f, u)
  <2>1. ASSUME NEW u \in Times PROVE StartOf(times, f, u) = StartOf(times, g, u)
    BY StartDepends
  <2>2. QED
    BY <2>1, <1>2
<1>4. f = [u \in Times |-> StartOf(times, f, u)]
  BY <1>3
<1>5. \E h : h = [u \in Times |-> StartOf(times, h, u)]
  BY <1>4, Zenon
<1>6. StartsAt(times) = [u \in Times |-> StartOf(times, StartsAt(times), u)]
  BY <1>5, Zenon DEF StartsAt, StartOf
<1>7. QED
  BY <1>6

\* The session of an event starts at an event, not after it, and that event at itself.
LEMMA StartsAtFacts ==
  ASSUME NEW times \in SUBSET Times, NEW t \in times
  PROVE  /\ StartsAt(times)[t] \in times
         /\ StartsAt(times)[t] <= t
         /\ StartsAt(times)[StartsAt(times)[t]] = StartsAt(times)[t]
<1> DEFINE s == StartsAt(times)
           Good(u) == s[u] \in times /\ s[u] <= u /\ s[s[u]] = s[u]
           Bad == {u \in times : ~Good(u)}
<1>1. SUFFICES ASSUME Bad # {} PROVE FALSE
  OBVIOUS
<1>2. times \subseteq Nat
  BY TimesAreNat
<1>3. PICK u \in Bad : \A k \in Bad : u <= k
  <2>1. Bad \in SUBSET Nat
    BY <1>2
  <2> HIDE DEF Bad
  <2>2. QED
    BY <1>1, <2>1, NatMin
<1>4. u \in times /\ u \in Nat /\ ~Good(u) /\ u \in Times
  BY <1>2
<1>5. s[u] = StartOf(times, s, u)
  BY <1>4, StartsAtIs
<1> DEFINE last == MaxOf({v \in times : v < u})
<1>6. s[u] = u \/ (last \in times /\ last < u /\ s[u] = s[last])
  <2>1. CASE {v \in times : v < u} = {}
    BY <2>1, <1>5 DEF StartOf
  <2>2. CASE {v \in times : v < u} # {}
    <3>1. last \in times /\ last < u
      BY <2>2, <1>4, LastEarlier
    <3>2. QED
      BY <3>1, <1>5 DEF StartOf
  <2>3. QED
    BY <2>1, <2>2
<1> HIDE DEF s, last
<1>7. CASE s[u] = u
  BY <1>7, <1>4
<1>8. CASE last \in times /\ last < u /\ s[u] = s[last]
  <2>1. last \in Nat /\ last \notin Bad
    <3> HIDE DEF Bad
    <3>1. QED
      BY <1>8, <1>2, <1>3, <1>4
  <2>2. Good(last)
    BY <2>1, <1>8
  <2>3. Good(u)
    <3>1. s[last] \in Nat
      BY <2>2, <1>2
    <3>2. QED
      BY <2>2, <1>8, <1>4, <2>1, <3>1
  <2>4. QED
    BY <2>3, <1>4
<1>9. QED
  BY <1>6, <1>7, <1>8

LEMMA EventsTyped ==
  ASSUME NEW e \in Events
  PROVE  /\ e = <<e[1], e[2]>> /\ e[1] \in Visitors
         /\ Time(e) = e[2] /\ e[2] \in Times /\ e[2] \in Nat
BY Constants DEF Events, Times, Time

\* An event's session is named by an event of the same visitor, not after it, which
\* belongs to that session itself.
LEMMA SessionOfFacts ==
  ASSUME NEW E \in SUBSET Events, NEW e \in E
  PROVE  /\ SessionOf(E, e) \in E
         /\ SessionOf(E, e)[2] <= Time(e)
         /\ SessionOf(E, SessionOf(E, e)) = SessionOf(E, e)
<1> DEFINE times == {Time(f) : f \in {g \in E : g[1] = e[1]}}
           i == SessionOf(E, e)
<1>1. times \in SUBSET Times /\ Time(e) \in times
  BY EventsTyped
<1>2. /\ StartsAt(times)[Time(e)] \in times
      /\ StartsAt(times)[Time(e)] <= Time(e)
      /\ StartsAt(times)[StartsAt(times)[Time(e)]] = StartsAt(times)[Time(e)]
  BY <1>1, StartsAtFacts, Zenon
<1>3. i = <<e[1], StartsAt(times)[Time(e)]>>
  BY DEF SessionOf
<1>4. PICK f \in E : f[1] = e[1] /\ Time(f) = StartsAt(times)[Time(e)]
  BY <1>2
<1>5. f = i
  BY <1>3, <1>4, EventsTyped
<1>6. i[1] = e[1] /\ Time(i) = StartsAt(times)[Time(e)] /\ i[2] = Time(i)
  BY <1>3 DEF Time
<1>7. SessionOf(E, i) = <<i[1], StartsAt(times)[Time(i)]>>
  BY <1>6 DEF SessionOf
<1>8. SessionOf(E, i) = i
  BY <1>7, <1>6, <1>2, <1>3
<1> HIDE DEF i, times
<1>9. QED
  BY <1>2, <1>4, <1>5, <1>6, <1>8 DEF i

\* The sessions of E are named by their earliest event, of which they hold one visitor's
\* events, and each event is in exactly one of them.
LEMMA SessionsAre ==
  ASSUME NEW E \in SUBSET Events, NEW s \in Sessionize(E)
  PROVE  /\ s.id \in s.events /\ s.events \subseteq E /\ s.id \in E
         /\ \A e \in s.events : SessionOf(E, e) = s.id /\ Start(s) <= Time(e)
<1>1. PICK f \in E : s = [id |-> SessionOf(E, f), events |-> {e \in E : SessionOf(E, e) = SessionOf(E, f)}]
  BY DEF Sessionize
<1>2. s.id = SessionOf(E, f) /\ s.events = {e \in E : SessionOf(E, e) = s.id}
  BY <1>1
<1>3. s.id \in E /\ SessionOf(E, s.id) = s.id
  BY <1>2, SessionOfFacts
<1>4. ASSUME NEW e \in s.events PROVE SessionOf(E, e) = s.id /\ Start(s) <= Time(e)
  <2>1. e \in E /\ SessionOf(E, e) = s.id
    BY <1>2
  <2>2. SessionOf(E, e)[2] <= Time(e)
    BY <2>1, SessionOfFacts
  <2>3. QED
    BY <2>1, <2>2 DEF Start
<1>5. QED
  BY <1>2, <1>3, <1>4

LEMMA SessionsDiffer ==
  ASSUME NEW E \in SUBSET Events, NEW s \in Sessionize(E), NEW q \in Sessionize(E)
  PROVE  /\ s.id = q.id => s = q
         /\ s # q => s.events \cap q.events = {}
<1>1. ASSUME NEW x \in Sessionize(E)
      PROVE  x = [id |-> x.id, events |-> {e \in E : SessionOf(E, e) = x.id}]
  BY DEF Sessionize
<1>2. s.id = q.id => s = q
  BY <1>1
<1>3. s # q => s.events \cap q.events = {}
  BY <1>2, SessionsAre
<1>4. QED
  BY <1>2, <1>3

LEMMA EveryEventHasASession ==
  ASSUME NEW E \in SUBSET Events, NEW e \in E
  PROVE  \E s \in Sessionize(E) : e \in s.events
<1> DEFINE s == [id |-> SessionOf(E, e), events |-> {f \in E : SessionOf(E, f) = SessionOf(E, e)}]
<1>1. s \in Sessionize(E)
  BY DEF Sessionize
<1>2. e \in s.events
  OBVIOUS
<1>3. QED
  BY <1>1, <1>2

LEMMA SessionStart ==
  ASSUME NEW E \in SUBSET Events, NEW s \in Sessionize(E)
  PROVE  Start(s) \in Times /\ Start(s) \in Nat /\ Start(s) = Time(s.id)
<1>1. s.id \in Events
  BY SessionsAre
<1>2. QED
  BY <1>1, EventsTyped DEF Start

-----------------------------------------------------------------------------
(* The plan of a pass. *)

\* A window ends inside the range it was asked for.
LEMMA WindowEnds ==
  ASSUME NEW from \in Times, NEW nowMs \in Times, from <= nowMs,
         NEW W \in SUBSET Events, \A e \in W : Time(e) >= from /\ Time(e) < nowMs
  PROVE  /\ ResolveWindow(W, from, nowMs) \in Times
         /\ ResolveWindow(W, from, nowMs) <= nowMs
<1> DEFINE full == {t \in {Time(e) : e \in W} : Cardinality({e \in W : Time(e) <= t}) >= RowCap}
<1>1. from \in Nat /\ nowMs \in Nat /\ nowMs <= MaxTime /\ MaxTime \in Nat
  BY TimesAreNat, Constants
<1>2. CASE full = {}
  BY <1>1, <1>2 DEF ResolveWindow
<1>3. CASE full # {}
  <2>1. \A t \in full : t \in Nat /\ t >= from /\ t < nowMs
    BY EventsTyped
  <2>2. full \in SUBSET Int /\ \A t \in full : 0 <= t
    <3> HIDE DEF full
    <3>1. QED
      BY <2>1
  <2>3. MinOf(full) \in full
    <3> HIDE DEF full
    <3>1. QED
      BY <1>3, <2>2, MinOfIs
  <2>4. MinOf(full) \in Nat /\ MinOf(full) >= from /\ MinOf(full) < nowMs
    BY <2>1, <2>3
  <2>5. ResolveWindow(W, from, nowMs) = IF MinOf(full) <= from THEN from + 1 ELSE MinOf(full)
    BY <1>3 DEF ResolveWindow
  <2> HIDE DEF full
  <2>6. QED
    BY <1>1, <2>4, <2>5 DEF Times
<1>4. QED
  BY <1>2, <1>3

\* The horizon leaves the inactivity and the lateness open.
LEMMA HorizonIs ==
  ASSUME NEW to \in Times, NEW nowMs \in Times
  PROVE  /\ FinalizeHorizon(to, nowMs) \in Int
         /\ FinalizeHorizon(to, nowMs) <= to - Inactivity
         /\ FinalizeHorizon(to, nowMs) <= nowMs - Lateness - Inactivity
<1>1. to \in Int /\ nowMs - Lateness \in Int /\ nowMs \in Int /\ Lateness \in Int /\ Inactivity \in Int
  BY TimesAreNat, Constants
<1>2. MinOf({to, nowMs - Lateness}) = IF to <= nowMs - Lateness THEN to ELSE nowMs - Lateness
  BY <1>1, MinOfTwo
<1>3. QED
  BY <1>1, <1>2 DEF FinalizeHorizon, CompleteThrough

LEMMA ClampedIs ==
  ASSUME NEW from \in Int, NEW mark \in Int
  PROVE  Clamped(from, mark) = IF from >= mark THEN from ELSE mark
BY MaxOfTwo DEF Clamped

\* The new watermark is not past the horizon, and no session straddles it.
LEMMA NewWatermarkIs ==
  ASSUME NEW S, \A s \in S : Start(s) \in Nat, NEW horizon \in Int
  PROVE  /\ NewWatermark(S, horizon) \in Int
         /\ NewWatermark(S, horizon) <= horizon
         /\ \A s \in S : ~Straddles(s, NewWatermark(S, horizon))
<1> DEFINE open == {Start(s) : s \in {x \in S : ~IsFinal(x, horizon)}}
           first == MinOf(open \cup {horizon})
           starts == {Start(s) : s \in S}
           marks == {first} \cup starts
           clear == {t \in marks : t <= first /\ \A s \in S : ~Straddles(s, t)}
           low == IF horizon <= 0 THEN horizon ELSE 0
<1>1. low \in Int /\ low <= horizon /\ \A n \in Nat : low <= n
  OBVIOUS
<1>2. starts \subseteq Nat /\ open \subseteq Nat
  OBVIOUS
<1>3. first \in Int /\ first <= horizon /\ low <= first
  <2> DEFINE T == open \cup {horizon}
  <2>1. T \in SUBSET Int /\ T # {} /\ horizon \in T /\ \A x \in T : low <= x
    <3> HIDE DEF open, low
    <3>1. QED
      BY <1>1, <1>2
  <2> HIDE DEF T, low
  <2>2. MinOf(T) \in T /\ \A y \in T : MinOf(T) <= y
    BY <2>1, <1>1, MinOfIs
  <2>3. QED
    BY <2>1, <2>2 DEF T
<1> HIDE DEF first, open, low
<1>4. marks \in SUBSET Int /\ marks # {} /\ first \in marks /\ \A x \in marks : low <= x
  <2> HIDE DEF starts
  <2>1. QED
    BY <1>1, <1>2, <1>3
<1>5. PICK m \in marks : \A y \in marks : m <= y
  <2> HIDE DEF marks
  <2>1. QED
    BY <1>1, <1>4, IntMin
<1>6. m \in clear
  <2>1. m <= first
    BY <1>5
  <2>2. ASSUME NEW s \in S PROVE ~Straddles(s, m)
    <3>1. Start(s) \in marks /\ Start(s) \in Int /\ m \in Int
      BY <1>4
    <3>2. m <= Start(s)
      BY <1>5, <3>1
    <3>3. ~(Start(s) < m)
      BY <3>1, <3>2
    <3>4. QED
      BY <3>3 DEF Straddles
  <2>3. QED
    BY <2>1, <2>2
<1>7. clear \in SUBSET Int /\ clear # {} /\ \A x \in clear : x <= first
  <2>1. clear \subseteq marks /\ \A x \in clear : x <= first
    OBVIOUS
  <2> HIDE DEF clear, marks
  <2>2. QED
    BY <1>4, <1>6, <2>1
<1>8. MaxOf(clear) \in clear
  <2> HIDE DEF clear
  <2>1. QED
    BY <1>3, <1>7, MaxOfIs
<1>9. NewWatermark(S, horizon) = MaxOf(clear)
  BY DEF NewWatermark, first, open
<1>10. MaxOf(clear) \in Int /\ MaxOf(clear) <= first /\ \A s \in S : ~Straddles(s, MaxOf(clear))
  <2>1. \A t \in clear : \A s \in S : ~Straddles(s, t)
    OBVIOUS
  <2> HIDE DEF clear
  <2>2. QED
    BY <1>7, <1>8, <2>1
<1> HIDE DEF clear
<1>11. QED
  BY <1>3, <1>9, <1>10

\* A session that does not straddle t and starts before it ends before it.
LEMMA EndsBefore ==
  ASSUME NEW E \in SUBSET Events, NEW s \in Sessionize(E), NEW t \in Int,
         ~Straddles(s, t), Start(s) < t, NEW e \in s.events
  PROVE  Time(e) < t
<1> DEFINE T == {Time(f) : f \in s.events}
<1>1. \A x \in T : x \in Times /\ x <= MaxTime /\ x \in Int
  BY SessionsAre, EventsTyped, TimesAreNat
<1>2. T \in SUBSET Int /\ T # {} /\ Time(e) \in T /\ MaxTime \in Int /\ Time(e) \in Int
  BY <1>1, Constants
<1>3. MaxOf(T) \in T /\ \A y \in T : MaxOf(T) >= y
  <2> HIDE DEF T
  <2>1. QED
    BY <1>1, <1>2, MaxOfIs
<1>4. End(s) >= Time(e) /\ End(s) \in Int
  <2>1. End(s) = MaxOf(T)
    BY DEF End
  <2> HIDE DEF T
  <2>2. QED
    BY <1>2, <1>3, <2>1
<1>5. ~(End(s) >= t)
  BY DEF Straddles
<1>6. QED
  BY <1>2, <1>4, <1>5

LEMMA HighestIs ==
  ASSUME NEW S \in SUBSET Nat, NEW n \in Nat, \A x \in S : x <= n
  PROVE  HighestOf(S) \in Nat /\ \A x \in S : x <= HighestOf(S)
<1>1. CASE S = {}
  BY <1>1 DEF HighestOf
<1>2. CASE S # {}
  <2>1. S \in SUBSET Int /\ n \in Int
    OBVIOUS
  <2>2. MaxOf(S) \in S /\ \A y \in S : MaxOf(S) >= y
    BY <1>2, <2>1, MaxOfIs
  <2>3. HighestOf(S) = MaxOf(S) /\ MaxOf(S) \in Nat
    BY <1>2, <2>2 DEF HighestOf
  <2>4. ASSUME NEW x \in S PROVE x <= MaxOf(S)
    BY <2>2, <2>3
  <2>5. QED
    BY <2>3, <2>4
<1>3. QED
  BY <1>1, <1>2

-----------------------------------------------------------------------------
(* The stores. *)

Facts == [id : Events, events : SUBSET Events, final : BOOLEAN, retracted : BOOLEAN,
          version : Nat \ {0}]
Totals == {Aggregate(rows, b) : rows \in SUBSET Facts, b \in Times}
Rollups == [bucket : Times, generation : Nat \ {0}, totals : Totals]

\* A stored session: named by the earliest of its events.
FactOK(r) ==
  /\ r \in Facts
  /\ r.id \in r.events
  /\ \A e \in r.events : Start(r) <= Time(e)

\* One row of each session.
OneEach(rows) == \A r, q \in rows : r.id = q.id => r = q

LEMMA FactStart ==
  ASSUME NEW r, FactOK(r)
  PROVE  Start(r) \in Times /\ Start(r) \in Nat /\ Start(r) = Time(r.id) /\ Bucket(r) \in Times
<1>1. r.id \in Events
  BY DEF FactOK, Facts
<1>2. Start(r) \in Times /\ Start(r) = Time(r.id) /\ Start(r) \in Nat
  BY <1>1, EventsTyped DEF Start
<1>3. Start(r) \div Width \in 0 .. Start(r)
  BY <1>2, Constants
<1>4. QED
  BY <1>2, <1>3, Constants DEF Bucket, Times

LEMMA ReadFacts ==
  ASSUME NEW rows, NEW R \in Reads(rows, FactId)
  PROVE  R \subseteq rows /\ OneEach(R) /\ \A r \in rows : \E q \in R : q.id = r.id
<1>1. R \subseteq rows /\ \A r \in rows : \E q \in R : {x \in R : x.id = r.id} = {q}
  BY DEF Reads, FactId
<1>2. QED
  BY <1>1 DEF OneEach

LEMMA ReadRollupRows ==
  ASSUME NEW rows, NEW R \in Reads(rows, RollupBucket)
  PROVE  R \subseteq rows /\ \A r \in rows : \E q \in R : q.bucket = r.bucket
<1>1. R \subseteq rows /\ \A r \in rows : \E q \in R : {x \in R : x.bucket = r.bucket} = {q}
  BY DEF Reads, RollupBucket
<1>2. QED
  BY <1>1

\* Where every session has one row, a read returns them all.
LEMMA ReadAll ==
  ASSUME NEW rows, OneEach(rows), NEW R \in Reads(rows, FactId)
  PROVE  R = rows
<1>1. R \subseteq rows /\ \A r \in rows : \E q \in R : q.id = r.id
  BY ReadFacts
<1>2. ASSUME NEW r \in rows PROVE r \in R
  <2>1. PICK q \in R : q.id = r.id
    BY <1>1
  <2>2. q = r
    BY <1>1, <2>1 DEF OneEach
  <2>3. QED
    BY <2>2
<1>3. QED
  BY <1>1, <1>2

\* What survives a write of facts.
LEMMA FactsSupersede ==
  ASSUME NEW old, NEW new,
         \A r \in old \cup new : r.version \in Nat,
         \A r, q \in old : r.id = q.id => r.version = q.version
  PROVE  LET result == Supersede(old, new, FactId, FactVersion)
         IN /\ result \subseteq old \cup new
            /\ \A r, q \in result : r.id = q.id => r.version = q.version
            /\ \A r \in old : (\A q \in new : q.id # r.id) => r \in result
<1> DEFINE result == Supersede(old, new, FactId, FactVersion)
<1>1. \A r : r \in result <=> r \in old \cup new /\ \A q \in old \cup new : q.id = r.id => q.version <= r.version
  BY DEF Supersede, FactId, FactVersion
<1> HIDE DEF result
<1>2. result \subseteq old \cup new
  BY <1>1
<1>3. ASSUME NEW r \in result, NEW q \in result, r.id = q.id PROVE r.version = q.version
  <2>1. r.version \in Nat /\ q.version \in Nat /\ q.version <= r.version /\ r.version <= q.version
    BY <1>1, <1>3
  <2>2. QED
    BY <2>1
<1>4. ASSUME NEW r \in old, \A q \in new : q.id # r.id PROVE r \in result
  <2>1. ASSUME NEW q \in old \cup new, q.id = r.id PROVE q.version <= r.version
    <3>1. q \in old /\ q.version = r.version /\ r.version \in Nat
      BY <1>4, <2>1
    <3>2. QED
      BY <3>1
  <2>2. QED
    BY <1>1, <2>1
<1>5. QED
  BY <1>2, <1>3, <1>4 DEF result

\* Rows above all that is stored of their sessions take the place of what is stored.
LEMMA FactsReplaced ==
  ASSUME NEW old, NEW new, NEW v \in Nat,
         \A r \in old : r.version \in Nat,
         \A r, q \in old : r.id = q.id => r.version = q.version,
         \A r \in new : r.version = v,
         \A r \in old, q \in new : r.id = q.id => r.version < v
  PROVE  Supersede(old, new, FactId, FactVersion)
           = new \cup {r \in old : \A q \in new : q.id # r.id}
<1> DEFINE result == Supersede(old, new, FactId, FactVersion)
<1>1. \A r : r \in result <=> r \in old \cup new /\ \A q \in old \cup new : q.id = r.id => q.version <= r.version
  BY DEF Supersede, FactId, FactVersion
<1> HIDE DEF result
<1>2. ASSUME NEW r \in new PROVE r \in result
  <2>1. ASSUME NEW q \in old \cup new, q.id = r.id PROVE q.version <= r.version
    <3>1. CASE q \in new
      BY <3>1
    <3>2. CASE q \in old
      <4>1. q.version \in Nat /\ q.version < v /\ r.version = v
        BY <3>2, <2>1
      <4>2. QED
        BY <4>1
    <3>3. QED
      BY <3>1, <3>2
  <2>2. QED
    BY <1>1, <2>1
<1>3. ASSUME NEW r \in old, \A q \in new : q.id # r.id PROVE r \in result
  <2>1. ASSUME NEW q \in old \cup new, q.id = r.id PROVE q.version <= r.version
    <3>1. q \in old /\ q.version = r.version /\ r.version \in Nat
      BY <1>3, <2>1
    <3>2. QED
      BY <3>1
  <2>2. QED
    BY <1>1, <2>1
<1>4. ASSUME NEW r \in result, r \notin new, NEW q \in new, q.id = r.id PROVE FALSE
  <2>1. r \in old /\ r.version < v /\ q.version = v /\ q.version <= r.version /\ r.version \in Nat
    BY <1>1, <1>4
  <2>2. QED
    BY <2>1
<1>5. \A r \in result : r \in old \cup new
  BY <1>1
<1>6. QED
  BY <1>2, <1>3, <1>4, <1>5 DEF result

LEMMA RollupsSupersede ==
  ASSUME NEW old, NEW new,
         \A r \in old \cup new : r.generation \in Nat,
         \A r, q \in old : r.bucket = q.bucket => r.generation = q.generation
  PROVE  LET result == Supersede(old, new, RollupBucket, RollupGeneration)
         IN /\ result \subseteq old \cup new
            /\ \A r, q \in result : r.bucket = q.bucket => r.generation = q.generation
            /\ \A r \in old : (\A q \in new : q.bucket # r.bucket) => r \in result
<1> DEFINE result == Supersede(old, new, RollupBucket, RollupGeneration)
<1>1. \A r : r \in result <=> r \in old \cup new /\ \A q \in old \cup new : q.bucket = r.bucket => q.generation <= r.generation
  BY DEF Supersede, RollupBucket, RollupGeneration
<1> HIDE DEF result
<1>2. result \subseteq old \cup new
  BY <1>1
<1>3. ASSUME NEW r \in result, NEW q \in result, r.bucket = q.bucket PROVE r.generation = q.generation
  <2>1. /\ r.generation \in Nat /\ q.generation \in Nat
        /\ q.generation <= r.generation /\ r.generation <= q.generation
    BY <1>1, <1>3
  <2>2. QED
    BY <2>1
<1>4. ASSUME NEW r \in old, \A q \in new : q.bucket # r.bucket PROVE r \in result
  <2>1. ASSUME NEW q \in old \cup new, q.bucket = r.bucket PROVE q.generation <= r.generation
    <3>1. q \in old /\ q.generation = r.generation /\ r.generation \in Nat
      BY <1>4, <2>1
    <3>2. QED
      BY <3>1
  <2>2. QED
    BY <1>1, <2>1
<1>5. QED
  BY <1>2, <1>3, <1>4 DEF result

\* A row above all that is stored of its bucket is read from then on.
LEMMA RollupWins ==
  ASSUME NEW old, NEW new, NEW r \in new,
         \A q \in old \cup new : q.generation \in Nat,
         \A q \in old \cup new : q.bucket = r.bucket => q.generation <= r.generation
  PROVE  r \in Supersede(old, new, RollupBucket, RollupGeneration)
BY DEF Supersede, RollupBucket, RollupGeneration

Higher(stored) == HighestOf({r.version : r \in stored}) + 1

\* What a plan writes: each row is a session or the tombstone of a stored row whose session
\* is gone; afterwards every session is there and nothing is left of those that are gone.
IsPlan(S, stored, rows) ==
  /\ Higher(stored) \in Nat \ {0} /\ \A r \in stored : r.version < Higher(stored)
  /\ OneEach(rows)
  /\ \A r \in rows :
       /\ FactOK(r) /\ r.version = Higher(stored)
       /\ \/ ~r.retracted /\ \E s \in S : r.id = s.id /\ r.events = s.events
          \/ /\ r.retracted /\ (\A s \in S : s.id # r.id)
             /\ \E q \in stored : q.id = r.id
  /\ \A s \in S : \E r \in rows \cup {q \in Live(stored) : \A x \in rows : x.id # q.id} :
       ~r.retracted /\ r.id = s.id /\ r.events = s.events
  /\ \A q \in Live(stored) : (\A s \in S : s.id # q.id) => \E r \in rows : r.id = q.id

LEMMA PlanIs ==
  ASSUME NEW E \in SUBSET Events, NEW stored, \A r \in stored : FactOK(r), OneEach(stored),
         NEW n \in Nat, \A r \in stored : r.version <= n, NEW horizon
  PROVE  IsPlan(Sessionize(E), stored, PlanRows(Sessionize(E), stored, horizon))
<1> DEFINE S == Sessionize(E)
           rows == PlanRows(S, stored, horizon)
           V == {r.version : r \in stored}
           v == Higher(stored)
           Row(s, final, gone) ==
             [id |-> s.id, events |-> s.events, final |-> final, retracted |-> gone, version |-> v]
           changed == {s \in S : ~\E r \in Live(stored) : /\ r.id = s.id /\ r.events = s.events
                                                           /\ r.final = IsFinal(s, horizon)}
           lost == Vanished(S, stored)
<1>1. v \in Nat \ {0} /\ \A r \in stored : r.version < v
  <2>1. V \subseteq Nat /\ \A x \in V : x <= n
    BY DEF FactOK, Facts
  <2>2. \A r \in stored : r.version \in V
    OBVIOUS
  <2> HIDE DEF V
  <2>3. HighestOf(V) \in Nat /\ \A x \in V : x <= HighestOf(V)
    BY <2>1, HighestIs
  <2>4. \A r \in stored : r.version \in Nat /\ r.version <= HighestOf(V)
    BY <2>1, <2>2, <2>3
  <2>5. \A h \in Nat : h + 1 \in Nat \ {0} /\ \A x \in Nat : x <= h => x < h + 1
    OBVIOUS
  <2>6. v = HighestOf(V) + 1
    BY DEF V, Higher
  <2>7. QED
    BY <2>3, <2>4, <2>5, <2>6
<1>2. rows = {Row(s, IsFinal(s, horizon), FALSE) : s \in changed} \cup {Row(r, r.final, TRUE) : r \in lost}
  BY DEF PlanRows, Higher
<1>3. lost = {r \in Live(stored) : \A s \in S : s.id # r.id}
  BY DEF Vanished
<1> HIDE DEF rows, S, v, V, lost
<1>4. \A s \in S : /\ s.id \in s.events /\ s.events \in SUBSET Events /\ s.id \in Events
                   /\ \A e \in s.events : Start(s) <= Time(e)
  BY SessionsAre DEF S
<1>5. \A s, q \in S : s.id = q.id => s = q
  BY SessionsDiffer DEF S
<1>6. ASSUME NEW r \in rows
      PROVE  \/ \E s \in changed : r = Row(s, IsFinal(s, horizon), FALSE)
             \/ \E q \in lost : r = Row(q, q.final, TRUE)
  BY <1>2
<1>7. ASSUME NEW r \in rows
      PROVE  /\ FactOK(r) /\ r.version = v
             /\ \/ ~r.retracted /\ \E s \in S : r.id = s.id /\ r.events = s.events
                \/ /\ r.retracted /\ (\A s \in S : s.id # r.id)
                   /\ \E q \in stored : q.id = r.id
  <2>1. CASE \E s \in changed : r = Row(s, IsFinal(s, horizon), FALSE)
    <3>1. PICK s \in S : r = Row(s, IsFinal(s, horizon), FALSE)
      BY <2>1
    <3>2. Start(r) = Start(s) /\ IsFinal(s, horizon) \in BOOLEAN
      BY <3>1 DEF Start, IsFinal
    <3>3. QED
      BY <3>1, <3>2, <1>1, <1>4 DEF FactOK, Facts
  <2>2. CASE \E q \in lost : r = Row(q, q.final, TRUE)
    <3>1. PICK q \in lost : r = Row(q, q.final, TRUE)
      BY <2>2
    <3>2. q \in stored /\ FactOK(q) /\ \A s \in S : s.id # q.id
      BY <1>3 DEF Live
    <3>3. Start(r) = Start(q)
      BY <3>1 DEF Start
    <3>4. FactOK(r)
      BY <3>1, <3>2, <3>3, <1>1 DEF FactOK, Facts
    <3>5. QED
      BY <3>1, <3>2, <3>4
  <2>3. QED
    BY <1>6, <2>1, <2>2
<1>8. OneEach(rows)
  <2>1. SUFFICES ASSUME NEW r \in rows, NEW q \in rows, r.id = q.id PROVE r = q
    BY DEF OneEach
  <2>2. CASE \E s \in changed : r = Row(s, IsFinal(s, horizon), FALSE)
    <3>1. PICK s \in S : r = Row(s, IsFinal(s, horizon), FALSE)
      BY <2>2
    <3>2. ~\E x \in lost : q = Row(x, x.final, TRUE)
      BY <2>1, <3>1, <1>3
    <3>3. PICK x \in S : q = Row(x, IsFinal(x, horizon), FALSE)
      BY <3>2, <1>6
    <3>4. QED
      BY <2>1, <3>1, <3>3, <1>5
  <2>3. CASE \E x \in lost : r = Row(x, x.final, TRUE)
    <3>1. PICK x \in lost : r = Row(x, x.final, TRUE)
      BY <2>3
    <3>2. ~\E s \in changed : q = Row(s, IsFinal(s, horizon), FALSE)
      BY <2>1, <3>1, <1>3
    <3>3. PICK y \in lost : q = Row(y, y.final, TRUE)
      BY <3>2, <1>6
    <3>4. x \in stored /\ y \in stored /\ x.id = y.id
      BY <2>1, <3>1, <3>3, <1>3 DEF Live
    <3>5. QED
      BY <3>1, <3>3, <3>4 DEF OneEach
  <2>4. QED
    BY <1>6, <2>2, <2>3
<1>9. ASSUME NEW s \in S
      PROVE  \E r \in rows \cup {q \in Live(stored) : \A x \in rows : x.id # q.id} :
               ~r.retracted /\ r.id = s.id /\ r.events = s.events
  <2>1. CASE s \in changed
    <3>1. Row(s, IsFinal(s, horizon), FALSE) \in rows
      BY <2>1, <1>2
    <3>2. QED
      BY <3>1
  <2>2. CASE s \notin changed
    <3>1. PICK q \in Live(stored) : q.id = s.id /\ q.events = s.events
      BY <2>2
    <3>2. ~q.retracted
      BY DEF Live
    <3>3. ASSUME NEW x \in rows, x.id = q.id PROVE FALSE
      <4>1. CASE \E y \in changed : x = Row(y, IsFinal(y, horizon), FALSE)
        <5>1. PICK y \in changed : x = Row(y, IsFinal(y, horizon), FALSE)
          BY <4>1
        <5>2. y = s
          BY <5>1, <3>1, <3>3, <1>5
        <5>3. QED
          BY <5>2, <2>2
      <4>2. CASE \E y \in lost : x = Row(y, y.final, TRUE)
        BY <4>2, <3>1, <3>3, <1>3
      <4>3. QED
        BY <1>6, <4>1, <4>2
    <3>4. QED
      BY <3>1, <3>2, <3>3
  <2>3. QED
    BY <2>1, <2>2
<1>10. ASSUME NEW q \in Live(stored), \A s \in S : s.id # q.id
       PROVE  \E r \in rows : r.id = q.id
  <2>1. Row(q, q.final, TRUE) \in rows
    BY <1>10, <1>2, <1>3
  <2>2. QED
    BY <2>1
<1>11. QED
  BY <1>1, <1>7, <1>8, <1>9, <1>10 DEF IsPlan, rows, S, v

-----------------------------------------------------------------------------
(* Types. *)

Points == {"idle", "claimed", "read", "planned", "written", "aggregated", "swapped"}

PassRecord ==
  [at : Points, name : Names \cup {NoName}, from : Times, started : Times, all : SUBSET Events,
   to : Times, rows : SUBSET Facts, touched : SUBSET Times, mark : Times,
   swap : SUBSET Rollups, alone : BOOLEAN]

Typed ==
  /\ now \in Times /\ events \in SUBSET Events
  /\ lease \in [by : Names \cup {NoName}, until : 0 .. MaxTime + LeaseTTL]
  /\ watermark \in Times
  /\ facts \in SUBSET Facts /\ rollups \in SUBSET Rollups
  /\ pass \in [Passes -> PassRecord]
  /\ runs \in 0 .. MaxRuns /\ faults \in 0 .. MaxFaults
  /\ overlapped \in BOOLEAN /\ torn \in SUBSET Times

\* What the types leave open: the clock is never behind a pass or the watermark, a key has
\* one version, versions are bounded, what a pass carries is of one version.
Stored ==
  /\ \A r \in facts : FactOK(r)
  /\ \A r, q \in facts : r.id = q.id => r.version = q.version
  /\ \E n \in Nat : \A r \in facts : r.version <= n
  /\ \A r, q \in rollups : r.bucket = q.bucket => r.generation = q.generation
  /\ \E n \in Nat : \A r \in rollups : r.generation <= n

PassOK(s) ==
  /\ s.at # "idle" => s.started <= now /\ s.from <= s.started /\ s.mark <= s.started
                      /\ (s.at \notin {"claimed", "idle"} => s.to <= s.started)
  /\ s.at = "planned" => /\ \A r \in s.rows : FactOK(r)
                         /\ \E v \in Nat : \A r \in s.rows : r.version = v
                         /\ s.touched = {Bucket(r) : r \in s.rows}
  /\ s.at = "aggregated" => /\ \A r \in s.swap : r.bucket \in s.touched
                            /\ \E g \in Nat : \A r \in s.swap : r.generation = g

Inv1 ==
  /\ Typed /\ Stored
  /\ watermark <= now
  /\ \A p \in Passes : PassOK(pass[p])

LEMMA IdleTyped == Idle \in PassRecord
BY Constants DEF Idle, PassRecord, Points, Times

LEMMA TypedInit == Init => Inv1
<1> SUFFICES ASSUME Init PROVE Inv1
  OBVIOUS
<1>1. Typed
  <2>1. now \in Times /\ watermark \in Times /\ events \in SUBSET Events
    BY Constants DEF Init, Times
  <2>2. lease \in [by : Names \cup {NoName}, until : 0 .. MaxTime + LeaseTTL]
    BY Constants DEF Init
  <2>3. facts \in SUBSET Facts /\ rollups \in SUBSET Rollups /\ torn \in SUBSET Times
    BY DEF Init
  <2>4. pass \in [Passes -> PassRecord]
    BY IdleTyped DEF Init
  <2>5. runs \in 0 .. MaxRuns /\ faults \in 0 .. MaxFaults
    BY Constants DEF Init
  <2>6. overlapped \in BOOLEAN
    BY DEF Init
  <2>7. QED
    BY <2>1, <2>2, <2>3, <2>4, <2>5, <2>6 DEF Typed
<1>2. Stored /\ watermark <= now
  BY DEF Init, Stored
<1>3. \A p \in Passes : PassOK(pass[p])
  BY DEF Init, PassOK, Idle
<1>4. QED
  BY <1>1, <1>2, <1>3 DEF Inv1

LEMMA TypedArrive ==
  ASSUME Inv1, NEW e \in Events, Arrive(e)
  PROVE  Inv1'
<1>1. Typed'
  BY DEF Inv1, Typed, Arrive
<1>2. Stored'
  BY DEF Inv1, Stored, Arrive
<1>3. \A p \in Passes : PassOK(pass[p])'
  BY DEF Inv1, PassOK, Arrive
<1>4. QED
  BY <1>1, <1>2, <1>3 DEF Inv1, Arrive

Others(p) == {q \in Passes \ {p} : Running(q)}
NoOthers(p) == Others(p) = {}
Apart(p, q) == q \notin Others(p)
Begun(p, n) == [Idle EXCEPT !.at = "claimed", !.name = n, !.from = watermark,
                            !.started = now, !.alone = NoOthers(p)]
Joined(p, q) == [pass[q] EXCEPT !.alone = Apart(p, q)]

\* Claim, conjunct by conjunct.
LEMMA ClaimDoes ==
  ASSUME NEW p, NEW n, Claim(p, n)
  PROVE  /\ ~Running(p)
         /\ (MaxRuns # 0 => runs < MaxRuns) /\ runs' = IF MaxRuns = 0 THEN 0 ELSE runs + 1
         /\ lease' = [by |-> n, until |-> now + LeaseTTL]
         /\ overlapped' = (overlapped \/ Others(p) # {})
         /\ UNCHANGED <<now, events, watermark, facts, rollups, faults, torn>>
BY Zenon DEF Claim, Others

LEMMA ClaimPass ==
  ASSUME NEW p, NEW n, Claim(p, n)
  PROVE  pass' = [q \in Passes |-> IF q = p THEN Begun(p, n) ELSE Joined(p, q)]
BY Zenon DEF Claim, Others, NoOthers, Apart, Begun, Joined

LEMMA ClaimMine ==
  ASSUME NEW p \in Passes, NEW n \in Names, Claim(p, n), watermark \in Times, now \in Times
  PROVE  /\ pass'[p] \in PassRecord
         /\ pass'[p].at = "claimed" /\ pass'[p].name = n /\ pass'[p].from = watermark
         /\ pass'[p].started = now /\ pass'[p].all = {} /\ pass'[p].to = 0
         /\ pass'[p].rows = {} /\ pass'[p].touched = {} /\ pass'[p].mark = 0
         /\ pass'[p].swap = {} /\ pass'[p].alone = NoOthers(p)
<1>1. pass'[p] = Begun(p, n)
  BY ClaimPass
<1>2. NoOthers(p) \in BOOLEAN
  BY Zenon DEF NoOthers
<1>3. pass'[p] \in PassRecord
  BY <1>1, <1>2, IdleTyped DEF PassRecord, Points, Begun
<1>4. /\ pass'[p].at = "claimed" /\ pass'[p].name = n /\ pass'[p].from = watermark
      /\ pass'[p].started = now /\ pass'[p].all = {} /\ pass'[p].to = 0
      /\ pass'[p].rows = {} /\ pass'[p].touched = {} /\ pass'[p].mark = 0
      /\ pass'[p].swap = {}
  BY <1>1, <1>2 DEF Idle, Begun
<1>5. pass'[p].alone = NoOthers(p)
  BY <1>1, <1>2 DEF Idle, Begun
<1>6. QED
  BY <1>3, <1>4, <1>5

LEMMA ClaimTheirs ==
  ASSUME Typed, NEW p, NEW n, Claim(p, n), NEW q \in Passes \ {p}
  PROVE  /\ pass'[q] \in PassRecord
         /\ pass'[q].at = pass[q].at /\ pass'[q].name = pass[q].name
         /\ pass'[q].from = pass[q].from /\ pass'[q].started = pass[q].started
         /\ pass'[q].all = pass[q].all /\ pass'[q].to = pass[q].to
         /\ pass'[q].rows = pass[q].rows /\ pass'[q].touched = pass[q].touched
         /\ pass'[q].mark = pass[q].mark /\ pass'[q].swap = pass[q].swap
         /\ pass'[q].alone = Apart(p, q)
<1>1. pass'[q] = Joined(p, q)
  BY ClaimPass
<1>2. pass[q] \in PassRecord /\ Apart(p, q) \in BOOLEAN
  BY DEF Typed, Apart
<1>3. QED
  BY <1>1, <1>2 DEF PassRecord, Joined

LEMMA TypedClaim ==
  ASSUME Inv1, NEW p \in Passes, NEW n \in Names, Claim(p, n)
  PROVE  Inv1'
<1>1. Typed /\ now \in Nat /\ now <= MaxTime /\ watermark \in Times /\ now \in Times
  BY TimesAreNat DEF Inv1, Typed
<1>2. pass' \in [Passes -> PassRecord]
  <2>1. \A q \in Passes : pass'[q] \in PassRecord
    BY <1>1, ClaimMine, ClaimTheirs
  <2>2. pass' = [q \in Passes |-> pass'[q]]
    BY ClaimPass
  <2>3. QED
    BY <2>1, <2>2
<1>3. Typed'
  <2>1. runs' \in 0 .. MaxRuns
    BY <1>1, ClaimDoes, Constants DEF Typed
  <2>2. lease' \in [by : Names \cup {NoName}, until : 0 .. MaxTime + LeaseTTL]
    BY <1>1, ClaimDoes, Constants
  <2>3. overlapped' \in BOOLEAN
    BY ClaimDoes, Zenon
  <2>4. QED
    BY <1>1, <1>2, <2>1, <2>2, <2>3, ClaimDoes DEF Typed
<1>4. Stored'
  BY ClaimDoes DEF Inv1, Stored
<1>5. ASSUME NEW q \in Passes PROVE PassOK(pass[q])'
  <2>1. UNCHANGED now /\ watermark <= now
    BY ClaimDoes DEF Inv1
  <2>2. CASE q = p
    <3>1. /\ pass'[p].at = "claimed" /\ pass'[p].from = watermark
          /\ pass'[p].started = now /\ pass'[p].mark = 0
      BY <1>1, ClaimMine
    <3>2. QED
      BY <1>1, <2>1, <2>2, <3>1 DEF PassOK
  <2>3. CASE q # p
    <3>1. /\ pass'[q].at = pass[q].at /\ pass'[q].started = pass[q].started
          /\ pass'[q].from = pass[q].from /\ pass'[q].mark = pass[q].mark
          /\ pass'[q].to = pass[q].to /\ pass'[q].rows = pass[q].rows
          /\ pass'[q].touched = pass[q].touched /\ pass'[q].swap = pass[q].swap
      BY <1>1, <2>3, ClaimTheirs
    <3>2. PassOK(pass[q])
      BY DEF Inv1
    <3>3. QED
      BY <3>1, <3>2, <2>1 DEF PassOK
  <2>4. QED
    BY <2>2, <2>3
<1>6. QED
  BY <1>3, <1>4, <1>5, ClaimDoes DEF Inv1

LEMMA PassMoves ==
  ASSUME Typed, NEW p \in Passes, NEW r \in PassRecord, pass' = [pass EXCEPT ![p] = r]
  PROVE  pass' \in [Passes -> PassRecord] /\ pass'[p] = r
BY DEF Typed

\* The record of a pass after each of its steps.
AsRead(s, all, to) == [s EXCEPT !.at = "read", !.all = all, !.to = to]
AsPlanned(s, rows, touched, mark) ==
  [s EXCEPT !.at = "planned", !.rows = rows, !.touched = touched, !.mark = mark]
AsWritten(s) == [s EXCEPT !.at = "written", !.rows = {}]
AsAggregated(s, swap) == [s EXCEPT !.at = "aggregated", !.swap = swap]
AsSwapped(s) == [s EXCEPT !.at = "swapped", !.swap = {}, !.touched = {}]

LEMMA ReadRecord ==
  ASSUME NEW s \in PassRecord, NEW all \in SUBSET Events, NEW to \in Times
  PROVE  LET r == AsRead(s, all, to)
         IN /\ r \in PassRecord /\ r.at = "read" /\ r.all = all /\ r.to = to
            /\ r.from = s.from /\ r.started = s.started /\ r.mark = s.mark
            /\ r.alone = s.alone /\ r.touched = s.touched
BY DEF PassRecord, Points, AsRead

LEMMA PlannedRecord ==
  ASSUME NEW s \in PassRecord, NEW rows \in SUBSET Facts, NEW touched \in SUBSET Times,
         NEW mark \in Times
  PROVE  LET r == AsPlanned(s, rows, touched, mark)
         IN /\ r \in PassRecord /\ r.at = "planned" /\ r.rows = rows /\ r.touched = touched
            /\ r.mark = mark /\ r.from = s.from /\ r.to = s.to /\ r.started = s.started
            /\ r.all = s.all /\ r.alone = s.alone
BY DEF PassRecord, Points, AsPlanned

LEMMA WrittenRecord ==
  ASSUME NEW s \in PassRecord
  PROVE  LET r == AsWritten(s)
         IN /\ r \in PassRecord /\ r.at = "written" /\ r.touched = s.touched
            /\ r.mark = s.mark /\ r.from = s.from /\ r.to = s.to /\ r.started = s.started
            /\ r.all = s.all /\ r.alone = s.alone
BY DEF PassRecord, Points, AsWritten

LEMMA AggregatedRecord ==
  ASSUME NEW s \in PassRecord, NEW swap \in SUBSET Rollups
  PROVE  LET r == AsAggregated(s, swap)
         IN /\ r \in PassRecord /\ r.at = "aggregated" /\ r.swap = swap /\ r.touched = s.touched
            /\ r.mark = s.mark /\ r.from = s.from /\ r.to = s.to /\ r.started = s.started
            /\ r.all = s.all /\ r.alone = s.alone
BY DEF PassRecord, Points, AsAggregated

LEMMA SwappedRecord ==
  ASSUME NEW s \in PassRecord
  PROVE  LET r == AsSwapped(s)
         IN /\ r \in PassRecord /\ r.at = "swapped" /\ r.touched = {}
            /\ r.mark = s.mark /\ r.from = s.from /\ r.to = s.to /\ r.started = s.started
            /\ r.all = s.all /\ r.alone = s.alone
BY DEF PassRecord, Points, AsSwapped

\* Only pass p moves.
LEMMA OtherPasses ==
  ASSUME Inv1, NEW p \in Passes, NEW r, pass' = [pass EXCEPT ![p] = r], now' = now
  PROVE  \A q \in Passes \ {p} : pass'[q] = pass[q] /\ PassOK(pass[q])'
<1>1. ASSUME NEW q \in Passes \ {p} PROVE pass'[q] = pass[q] /\ PassOK(pass[q])'
  <2>1. pass'[q] = pass[q]
    BY DEF Inv1, Typed
  <2>2. PassOK(pass[q])
    BY DEF Inv1
  <2>3. QED
    BY <2>1, <2>2 DEF PassOK
<1>2. QED
  BY <1>1

\* What a pass has read of its window.
Window(s) == {e \in s.all : Time(e) >= s.from /\ Time(e) < s.to}
Horizon(s) == FinalizeHorizon(s.to, s.started)
Sessions(s) == Sessionize(Window(s))
Mark(s) == Clamped(s.from, NewWatermark(Sessions(s), Horizon(s)))
Rows(s, stored) == PlanRows(Sessions(s), stored, Horizon(s))
Planned(s, stored) ==
  AsPlanned(s, Rows(s, stored), {Bucket(r) : r \in Rows(s, stored)}, Mark(s))

LEMMA PlanDoes ==
  ASSUME NEW p, Plan(p)
  PROVE  /\ pass[p].at = "read"
         /\ \E stored \in Reads(Within(facts, pass[p].from, pass[p].to), FactId) :
              pass' = [pass EXCEPT ![p] = Planned(pass[p], stored)]
         /\ UNCHANGED <<now, events, lease, watermark, facts, rollups, runs, faults,
                        overlapped, torn>>
BY Zenon DEF Plan, Planned, AsPlanned, Rows, Mark, Sessions, Horizon, Window

LEMMA MarkIs ==
  ASSUME NEW s \in PassRecord, s.from <= s.started, s.to <= s.started
  PROVE  /\ Mark(s) \in Times /\ Mark(s) >= s.from /\ Mark(s) <= s.started
         /\ \/ Mark(s) = s.from
            \/ /\ Mark(s) <= s.to - Inactivity /\ Mark(s) <= s.started - Lateness - Inactivity
               /\ Mark(s) = NewWatermark(Sessions(s), Horizon(s))
         /\ \A x \in Sessions(s) : Start(x) >= s.from /\ Start(x) < s.to
         /\ \A x \in Sessions(s) : Start(x) < Mark(s) => \A e \in x.events : Time(e) < Mark(s)
<1>1. /\ s.from \in Times /\ s.to \in Times /\ s.started \in Times /\ s.all \in SUBSET Events
      /\ s.from \in Nat /\ s.to \in Nat /\ s.started \in Nat /\ s.started <= MaxTime
  BY TimesAreNat DEF PassRecord
<1>2. Window(s) \in SUBSET Events
  BY <1>1 DEF Window
<1>3. /\ Horizon(s) \in Int /\ Horizon(s) <= s.to - Inactivity
      /\ Horizon(s) <= s.started - Lateness - Inactivity
  BY <1>1, HorizonIs DEF Horizon
<1> DEFINE mark == NewWatermark(Sessions(s), Horizon(s))
<1>4. \A x \in Sessions(s) : Start(x) \in Nat /\ Start(x) >= s.from /\ Start(x) < s.to
  <2>1. SUFFICES ASSUME NEW x \in Sessions(s)
                 PROVE  Start(x) \in Nat /\ Start(x) >= s.from /\ Start(x) < s.to
    OBVIOUS
  <2>2. x.id \in Window(s) /\ Start(x) \in Nat /\ Start(x) = Time(x.id)
    BY <1>2, SessionsAre, SessionStart DEF Sessions
  <2>3. QED
    BY <2>2 DEF Window
<1>5. mark \in Int /\ mark <= Horizon(s) /\ \A x \in Sessions(s) : ~Straddles(x, mark)
  BY <1>3, <1>4, NewWatermarkIs
<1>6. Mark(s) = IF s.from >= mark THEN s.from ELSE mark
  BY <1>1, <1>5, ClampedIs DEF Mark
<1> HIDE DEF mark
<1>7. /\ Mark(s) \in Int /\ Mark(s) >= s.from /\ Mark(s) <= s.started
      /\ \/ Mark(s) = s.from
         \/ Mark(s) <= s.to - Inactivity /\ Mark(s) <= s.started - Lateness - Inactivity /\ Mark(s) = mark
  BY <1>1, <1>3, <1>5, <1>6, Constants
<1>8. Mark(s) \in Times
  BY <1>1, <1>7, Constants DEF Times
<1>9. ASSUME NEW x \in Sessions(s), Start(x) < Mark(s), NEW e \in x.events
      PROVE  Time(e) < Mark(s)
  <2>1. Mark(s) # s.from
    BY <1>1, <1>4, <1>9
  <2>2. Mark(s) = mark /\ ~Straddles(x, Mark(s))
    BY <1>5, <1>7, <2>1
  <2>3. QED
    BY <1>2, <1>7, <1>9, <2>2, EndsBefore DEF Sessions
<1>10. QED
  BY <1>4, <1>7, <1>8, <1>9 DEF mark

\* PlanIs, for a pass.
LEMMA RowsAre ==
  ASSUME Stored, NEW s \in PassRecord, NEW from, NEW to,
         NEW stored \in Reads(Within(facts, from, to), FactId)
  PROVE  IsPlan(Sessions(s), stored, Rows(s, stored))
<1>1. stored \subseteq facts /\ OneEach(stored)
  BY ReadFacts DEF Within
<1>2. \A r \in stored : FactOK(r)
  BY <1>1 DEF Stored
<1>3. PICK n \in Nat : \A r \in stored : r.version <= n
  BY <1>1 DEF Stored
<1>4. Window(s) \in SUBSET Events
  BY DEF Window, PassRecord
<1>5. QED
  BY <1>1, <1>2, <1>3, <1>4, PlanIs DEF Rows, Sessions

LEMMA TypedReadEvents ==
  ASSUME Inv1, NEW p \in Passes, ReadEvents(p)
  PROVE  Inv1'
<1> DEFINE s == pass[p]
           W == {e \in events : Time(e) >= s.from /\ Time(e) < s.started}
           to == ResolveWindow(W, s.from, s.started)
<1>1. s \in PassRecord /\ s.from <= s.started /\ s.started <= now /\ s.at = "claimed" /\ PassOK(s)
  BY DEF Inv1, Typed, PassOK, ReadEvents
<1>2. /\ pass' = [pass EXCEPT ![p] = [@ EXCEPT !.at = "read", !.all = events, !.to = to]]
      /\ UNCHANGED <<now, events, lease, watermark, facts, rollups, runs, faults, overlapped, torn>>
  BY DEF ReadEvents
<1>3. to \in Times /\ to <= s.started
  <2>1. W \in SUBSET Events /\ s.from \in Times /\ s.started \in Times
    BY <1>1 DEF Inv1, Typed, PassRecord
  <2>2. \A e \in W : Time(e) >= s.from /\ Time(e) < s.started
    OBVIOUS
  <2> HIDE DEF W, s
  <2>3. QED
    BY <1>1, <2>1, <2>2, WindowEnds
<1> HIDE DEF to
<1> DEFINE r == AsRead(s, events, to)
<1>4. /\ r \in PassRecord /\ r.at = "read" /\ r.to = to
      /\ r.from = s.from /\ r.started = s.started /\ r.mark = s.mark
  <2>1. events \in SUBSET Events
    BY DEF Inv1, Typed
  <2> HIDE DEF s
  <2>2. QED
    BY <1>1, <1>3, <2>1, ReadRecord
<1>5. pass' = [pass EXCEPT ![p] = r] /\ Typed
  BY <1>2 DEF Inv1, AsRead
<1> HIDE DEF r
<1>6. Typed' /\ pass'[p] = r
  <2>1. pass' \in [Passes -> PassRecord] /\ pass'[p] = r
    BY <1>4, <1>5, PassMoves
  <2>2. QED
    BY <1>2, <2>1 DEF Inv1, Typed
<1>7. Stored' /\ (watermark <= now)'
  BY <1>2 DEF Inv1, Stored
<1>8. PassOK(pass[p])'
  BY <1>1, <1>2, <1>3, <1>4, <1>6 DEF PassOK
<1>9. QED
  BY <1>2, <1>5, <1>6, <1>7, <1>8, OtherPasses DEF Inv1

LEMMA TypedPlan ==
  ASSUME Inv1, NEW p \in Passes, Plan(p)
  PROVE  Inv1'
<1> DEFINE s == pass[p]
<1>1. /\ s \in PassRecord /\ s.from <= s.started /\ s.to <= s.started /\ s.started <= now
      /\ s.at = "read"
  BY PlanDoes DEF Inv1, Typed, PassOK
<1>2. PICK stored \in Reads(Within(facts, s.from, s.to), FactId) :
        pass' = [pass EXCEPT ![p] = Planned(pass[p], stored)]
  BY PlanDoes
<1>3. UNCHANGED <<now, events, lease, watermark, facts, rollups, runs, faults, overlapped, torn>>
  BY PlanDoes
<1> DEFINE rows == Rows(s, stored)
           touched == {Bucket(r) : r \in rows}
           v == Higher(stored)
<1>4. v \in Nat /\ \A r \in rows : FactOK(r) /\ r.version = v
  <2>1. IsPlan(Sessions(s), stored, rows)
    BY <1>1, RowsAre DEF Inv1
  <2> HIDE DEF rows
  <2>2. QED
    BY <2>1 DEF IsPlan
<1> HIDE DEF v
<1>5. rows \in SUBSET Facts /\ touched \in SUBSET Times
  <2>1. rows \in SUBSET Facts
    BY <1>4 DEF FactOK
  <2> HIDE DEF rows
  <2>2. QED
    BY <1>4, <2>1, FactStart
<1>6. Mark(s) \in Times /\ Mark(s) <= s.started
  BY <1>1, MarkIs
<1> DEFINE r == Planned(s, stored)
<1>7. /\ r \in PassRecord
      /\ r.at = "planned" /\ r.rows = rows /\ r.touched = touched
      /\ r.mark = Mark(s) /\ r.from = s.from /\ r.to = s.to
      /\ r.started = s.started
  <2>1. r = AsPlanned(s, rows, touched, Mark(s))
    BY Zenon DEF Planned
  <2> HIDE DEF rows, touched, s, r
  <2>2. QED
    BY <1>1, <1>5, <1>6, <2>1, PlannedRecord
<1> HIDE DEF r
<1>8. Typed' /\ pass'[p] = r
  <2>1. pass' \in [Passes -> PassRecord] /\ pass'[p] = r
    BY <1>2, <1>7, PassMoves DEF r, Inv1
  <2>2. QED
    BY <1>3, <2>1 DEF Inv1, Typed
<1>9. Stored' /\ (watermark <= now)'
  BY <1>3 DEF Inv1, Stored
<1>10. PassOK(pass[p])'
  <2> HIDE DEF rows
  <2>1. QED
    BY <1>1, <1>3, <1>4, <1>6, <1>7, <1>8 DEF PassOK
<1>11. QED
  BY <1>2, <1>3, <1>8, <1>9, <1>10, OtherPasses DEF Inv1

NextGeneration(stored) == HighestOf({r.generation : r \in stored}) + 1

\* What a swap writes: of the touched buckets those whose totals differ, at the next generation.
IsSwap(touched, current, stored, swap) ==
  /\ NextGeneration(stored) \in Nat \ {0}
  /\ \A q \in stored : q.generation < NextGeneration(stored)
  /\ \A r \in swap : /\ r \in Rollups /\ r.bucket \in touched
                     /\ r.generation = NextGeneration(stored)
                     /\ r.totals = Aggregate(current, r.bucket)
  /\ \A b \in touched : \/ SameTotals(b, current, stored)
                        \/ \E r \in swap : r.bucket = b

LEMMA SwapIs ==
  ASSUME NEW touched \in SUBSET Times, NEW current \in SUBSET Facts,
         NEW stored \in SUBSET Rollups, NEW n \in Nat, \A r \in stored : r.generation <= n
  PROVE  IsSwap(touched, current, stored, PlanSwap(touched, current, stored))
<1> DEFINE G == {r.generation : r \in stored}
           g == NextGeneration(stored)
           swap == PlanSwap(touched, current, stored)
           Row(b) == [bucket |-> b, generation |-> g, totals |-> Aggregate(current, b)]
<1>1. g \in Nat \ {0} /\ \A q \in stored : q.generation < g
  <2>1. G \subseteq Nat /\ \A x \in G : x <= n
    BY DEF Rollups
  <2>2. \A r \in stored : r.generation \in G
    OBVIOUS
  <2> HIDE DEF G
  <2>3. HighestOf(G) \in Nat /\ \A x \in G : x <= HighestOf(G)
    BY <2>1, HighestIs
  <2>4. \A r \in stored : r.generation \in Nat /\ r.generation <= HighestOf(G)
    BY <2>1, <2>2, <2>3
  <2>5. \A h \in Nat : h + 1 \in Nat \ {0} /\ \A x \in Nat : x <= h => x < h + 1
    OBVIOUS
  <2>6. g = HighestOf(G) + 1
    BY DEF G, NextGeneration
  <2>7. QED
    BY <2>3, <2>4, <2>5, <2>6
<1>2. swap = {Row(b) : b \in {x \in touched : ~SameTotals(x, current, stored)}}
  BY DEF PlanSwap, NextGeneration
<1> HIDE DEF swap, g
<1>3. ASSUME NEW r \in swap
      PROVE  /\ r \in Rollups /\ r.bucket \in touched /\ r.generation = g
             /\ r.totals = Aggregate(current, r.bucket)
  <2>1. PICK b \in touched : r = Row(b)
    BY <1>2
  <2>2. Aggregate(current, b) \in Totals /\ b \in Times
    BY DEF Totals
  <2>3. QED
    BY <2>1, <2>2, <1>1 DEF Rollups
<1>4. ASSUME NEW b \in touched, ~SameTotals(b, current, stored)
      PROVE  \E r \in swap : r.bucket = b
  <2>1. Row(b) \in swap
    BY <1>2, <1>4
  <2>2. QED
    BY <2>1
<1>5. QED
  BY <1>1, <1>3, <1>4 DEF IsSwap, swap, g

RollupRange(touched) == {b \in 0 .. MaxTime : \E x, y \in touched : x <= b /\ b <= y + 1}
RollupsRead(touched) == {r \in rollups : r.bucket \in RollupRange(touched)}

LEMMA ReadRollupsDoes ==
  ASSUME NEW p, ReadRollups(p)
  PROVE  /\ pass[p].at = "written"
         /\ \E current \in Reads(facts, FactId),
               stored \in Reads(RollupsRead(pass[p].touched), RollupBucket) :
              pass' = [pass EXCEPT ![p] = AsAggregated(pass[p], PlanSwap(pass[p].touched, current, stored))]
         /\ UNCHANGED <<now, events, lease, watermark, facts, rollups, runs, faults,
                        overlapped, torn>>
BY Zenon DEF ReadRollups, RollupsRead, RollupRange, AsAggregated

\* SwapIs, for a pass.
LEMMA SwapOf ==
  ASSUME Typed, Stored, NEW touched \in SUBSET Times, NEW current \in Reads(facts, FactId),
         NEW stored \in Reads(RollupsRead(touched), RollupBucket)
  PROVE  IsSwap(touched, current, stored, PlanSwap(touched, current, stored))
<1>1. current \in SUBSET Facts
  BY ReadFacts DEF Typed
<1>2. stored \subseteq rollups
  BY ReadRollupRows DEF RollupsRead
<1>3. PICK n \in Nat : \A r \in stored : r.generation <= n
  BY <1>2 DEF Stored
<1>4. stored \in SUBSET Rollups
  BY <1>2 DEF Typed
<1>5. QED
  BY <1>1, <1>3, <1>4, SwapIs

LEMMA TypedWriteFacts ==
  ASSUME Inv1, NEW p \in Passes, WriteFacts(p)
  PROVE  Inv1'
<1> DEFINE s == pass[p]
           rows == s.rows
           r == AsWritten(s)
<1>1. /\ s.at = "planned" /\ s \in PassRecord /\ PassOK(s) /\ Typed /\ Stored
      /\ facts' = Supersede(facts, rows, FactId, FactVersion)
      /\ pass' = [pass EXCEPT ![p] = r]
      /\ UNCHANGED <<now, events, lease, watermark, rollups, runs, faults, overlapped, torn>>
  BY DEF WriteFacts, Inv1, Typed, AsWritten
<1>2. PICK v \in Nat : \A x \in rows : FactOK(x) /\ x.version = v
  BY <1>1 DEF PassOK
<1>3. rows \in SUBSET Facts
  BY <1>1 DEF PassRecord
<1>4. /\ \A x \in facts \cup rows : x.version \in Nat
      /\ \A x, y \in facts : x.id = y.id => x.version = y.version
  BY <1>1, <1>3 DEF Typed, Facts, Stored
<1> HIDE DEF rows
<1>5. /\ facts' \subseteq facts \cup rows
      /\ \A x, y \in facts' : x.id = y.id => x.version = y.version
  BY <1>1, <1>4, FactsSupersede
<1>6. Stored'
  <2>1. PICK n \in Nat : \A x \in facts : x.version <= n
    BY <1>1 DEF Stored
  <2>2. n + v \in Nat /\ \A x \in facts' : x.version <= n + v
    BY <1>2, <1>4, <1>5, <2>1
  <2>3. \E m \in Nat : \A x \in facts' : x.version <= m
    BY <2>2
  <2>4. \A x \in facts' : FactOK(x)
    BY <1>1, <1>2, <1>5 DEF Stored
  <2>5. QED
    BY <1>1, <1>5, <2>3, <2>4 DEF Stored
<1>7. /\ r \in PassRecord /\ r.at = "written" /\ r.mark = s.mark /\ r.from = s.from
      /\ r.to = s.to /\ r.started = s.started
  BY <1>1, WrittenRecord
<1> HIDE DEF r
<1>8. Typed' /\ pass'[p] = r
  <2>1. pass' \in [Passes -> PassRecord] /\ pass'[p] = r
    BY <1>1, <1>7, PassMoves
  <2>2. facts' \in SUBSET Facts
    BY <1>1, <1>3, <1>5 DEF Typed
  <2>3. QED
    BY <1>1, <2>1, <2>2 DEF Typed
<1>9. PassOK(pass[p])' /\ (watermark <= now)'
  BY <1>1, <1>7, <1>8 DEF PassOK, Inv1
<1>10. QED
  BY <1>1, <1>6, <1>8, <1>9, OtherPasses DEF Inv1

LEMMA TypedReadRollups ==
  ASSUME Inv1, NEW p \in Passes, ReadRollups(p)
  PROVE  Inv1'
<1> DEFINE s == pass[p]
<1>1. /\ s.at = "written" /\ s \in PassRecord /\ PassOK(s) /\ Typed /\ Stored
      /\ UNCHANGED <<now, events, lease, watermark, facts, rollups, runs, faults, overlapped, torn>>
  BY ReadRollupsDoes DEF Inv1, Typed
<1>2. PICK current \in Reads(facts, FactId), stored \in Reads(RollupsRead(s.touched), RollupBucket) :
        pass' = [pass EXCEPT ![p] = AsAggregated(s, PlanSwap(s.touched, current, stored))]
  BY ReadRollupsDoes
<1> DEFINE swap == PlanSwap(s.touched, current, stored)
           r == AsAggregated(s, swap)
<1>3. IsSwap(s.touched, current, stored, swap)
  <2>1. s.touched \in SUBSET Times
    BY <1>1 DEF PassRecord
  <2>2. QED
    BY <1>1, <2>1, SwapOf
<1> HIDE DEF swap
<1>4. /\ swap \in SUBSET Rollups /\ \A x \in swap : x.bucket \in s.touched
      /\ \E g \in Nat : \A x \in swap : x.generation = g
  BY <1>3 DEF IsSwap
<1>5. /\ r \in PassRecord /\ r.at = "aggregated" /\ r.mark = s.mark /\ r.from = s.from
      /\ r.to = s.to /\ r.started = s.started /\ r.swap = swap /\ r.touched = s.touched
  BY <1>1, <1>4, AggregatedRecord
<1>6. pass' = [pass EXCEPT ![p] = r]
  BY <1>2 DEF swap
<1> HIDE DEF r
<1>7. Typed' /\ pass'[p] = r
  <2>1. pass' \in [Passes -> PassRecord] /\ pass'[p] = r
    BY <1>1, <1>5, <1>6, PassMoves
  <2>2. QED
    BY <1>1, <2>1 DEF Typed
<1>8. Stored' /\ (watermark <= now)'
  BY <1>1 DEF Stored, Inv1
<1>9. PassOK(pass[p])'
  BY <1>1, <1>4, <1>5, <1>7 DEF PassOK
<1>10. QED
  BY <1>1, <1>6, <1>7, <1>8, <1>9, OtherPasses DEF Inv1

LEMMA TypedWriteRollups ==
  ASSUME Inv1, NEW p \in Passes, WriteRollups(p)
  PROVE  Inv1'
<1> DEFINE s == pass[p]
           swap == s.swap
           r == AsSwapped(s)
<1>1. /\ s.at = "aggregated" /\ s \in PassRecord /\ PassOK(s) /\ Typed /\ Stored
      /\ rollups' = Supersede(rollups, swap, RollupBucket, RollupGeneration)
      /\ pass' = [pass EXCEPT ![p] = r]
      /\ UNCHANGED <<now, events, lease, watermark, facts, runs, faults, overlapped>>
  BY DEF WriteRollups, Inv1, Typed, AsSwapped
<1>2. torn' \in SUBSET Times
  BY <1>1 DEF WriteRollups, Typed, PassRecord
<1>3. swap \in SUBSET Rollups
  BY <1>1 DEF PassRecord
<1>4. PICK g \in Nat : \A x \in swap : x.generation = g
  BY <1>1 DEF PassOK
<1>5. /\ \A x \in rollups \cup swap : x.generation \in Nat
      /\ \A x, y \in rollups : x.bucket = y.bucket => x.generation = y.generation
  BY <1>1, <1>3 DEF Typed, Rollups, Stored
<1> HIDE DEF swap
<1>6. /\ rollups' \subseteq rollups \cup swap
      /\ \A x, y \in rollups' : x.bucket = y.bucket => x.generation = y.generation
  BY <1>1, <1>5, RollupsSupersede
<1>7. Stored'
  <2>1. PICK n \in Nat : \A x \in rollups : x.generation <= n
    BY <1>1 DEF Stored
  <2>2. n + g \in Nat /\ \A x \in rollups' : x.generation <= n + g
    BY <1>4, <1>5, <1>6, <2>1
  <2>3. \E m \in Nat : \A x \in rollups' : x.generation <= m
    BY <2>2
  <2>4. QED
    BY <1>1, <1>6, <2>3 DEF Stored
<1>8. /\ r \in PassRecord /\ r.at = "swapped" /\ r.mark = s.mark /\ r.from = s.from
      /\ r.to = s.to /\ r.started = s.started
  BY <1>1, SwappedRecord
<1> HIDE DEF r
<1>9. Typed' /\ pass'[p] = r
  <2>1. pass' \in [Passes -> PassRecord] /\ pass'[p] = r
    BY <1>1, <1>8, PassMoves
  <2>2. rollups' \in SUBSET Rollups
    BY <1>1, <1>3, <1>6 DEF Typed
  <2>3. QED
    BY <1>1, <1>2, <2>1, <2>2 DEF Typed
<1>10. PassOK(pass[p])' /\ (watermark <= now)'
  BY <1>1, <1>8, <1>9 DEF PassOK, Inv1
<1>11. QED
  BY <1>1, <1>7, <1>9, <1>10, OtherPasses DEF Inv1

LEMMA TypedAdvance ==
  ASSUME Inv1, NEW p \in Passes, Advance(p)
  PROVE  Inv1'
<1> DEFINE s == pass[p]
<1>1. /\ s.at = "swapped" /\ s \in PassRecord /\ PassOK(s) /\ Typed /\ Stored
      /\ pass' = [pass EXCEPT ![p] = Idle]
      /\ \/ watermark' = MaxOf({watermark, s.mark}) /\ lease' = [by |-> NoName, until |-> 0]
         \/ UNCHANGED <<watermark, lease>>
      /\ UNCHANGED <<now, events, facts, rollups, runs, faults, overlapped, torn>>
  BY DEF Advance, Inv1, Typed
<1>2. watermark' \in Times /\ watermark' <= now
  <2>1. /\ watermark \in Times /\ watermark \in Int /\ watermark <= now
        /\ s.mark \in Times /\ s.mark \in Int /\ s.mark <= now
    <3>1. watermark \in Times /\ watermark <= now /\ s.mark \in Times
      BY <1>1 DEF Inv1, Typed, PassRecord
    <3>2. s.mark <= s.started /\ s.started <= now /\ s.started \in Times /\ now \in Times
      BY <1>1 DEF PassOK, Typed, PassRecord
    <3>3. watermark \in Int /\ s.mark \in Int /\ s.started \in Int /\ now \in Int
      BY <3>1, <3>2, TimesAreNat
    <3> HIDE DEF s
    <3>4. s.mark <= now
      BY <3>2, <3>3
    <3>5. QED
      BY <3>1, <3>3, <3>4
  <2>2. MaxOf({watermark, s.mark}) = IF watermark >= s.mark THEN watermark ELSE s.mark
    BY <2>1, MaxOfTwo
  <2>3. QED
    BY <1>1, <2>1, <2>2
<1>3. lease' \in [by : Names \cup {NoName}, until : 0 .. MaxTime + LeaseTTL]
  <2>1. CASE lease' = [by |-> NoName, until |-> 0]
    BY <2>1, Constants
  <2>2. CASE UNCHANGED lease
    BY <1>1, <2>2 DEF Typed
  <2>3. QED
    BY <1>1, <2>1, <2>2
<1>4. Typed' /\ pass'[p] = Idle
  <2>1. pass' \in [Passes -> PassRecord] /\ pass'[p] = Idle
    BY <1>1, IdleTyped, PassMoves
  <2>2. QED
    BY <1>1, <1>2, <1>3, <2>1 DEF Typed
<1>5. Stored' /\ PassOK(pass[p])'
  <2>1. Stored'
    BY <1>1 DEF Stored
  <2>2. PassOK(pass[p])'
    BY <1>4 DEF PassOK, Idle
  <2>3. QED
    BY <2>1, <2>2
<1>6. QED
  BY <1>1, <1>2, <1>4, <1>5, OtherPasses DEF Inv1

LEMMA LeftBehindTyped ==
  ASSUME Typed, NEW P \in SUBSET Passes
  PROVE  LeftBehind(P) \in SUBSET Times
BY DEF Typed, LeftBehind, PassRecord

LEMMA TypedFail ==
  ASSUME Inv1, NEW p \in Passes, Fail(p)
  PROVE  Inv1'
<1>1. /\ Typed /\ Stored /\ pass' = [pass EXCEPT ![p] = Idle]
      /\ faults < MaxFaults /\ faults' = faults + 1
      /\ lease' = [by |-> NoName, until |-> 0] \/ lease' = lease
      /\ torn' = torn \cup LeftBehind({p})
      /\ UNCHANGED <<now, events, watermark, facts, rollups, runs, overlapped>>
  BY DEF Fail, Inv1
<1>2. lease' \in [by : Names \cup {NoName}, until : 0 .. MaxTime + LeaseTTL]
  <2>1. CASE lease' = [by |-> NoName, until |-> 0]
    BY <2>1, Constants
  <2>2. CASE lease' = lease
    BY <1>1, <2>2 DEF Typed
  <2>3. QED
    BY <1>1, <2>1, <2>2
<1>3. faults' \in 0 .. MaxFaults
  BY <1>1, Constants DEF Typed
<1>4. torn' \in SUBSET Times
  BY <1>1, LeftBehindTyped DEF Typed
<1>5. Typed' /\ pass'[p] = Idle
  <2>1. pass' \in [Passes -> PassRecord] /\ pass'[p] = Idle
    BY <1>1, IdleTyped, PassMoves
  <2>2. QED
    BY <1>1, <1>2, <1>3, <1>4, <2>1 DEF Typed
<1>6. Stored' /\ (watermark <= now)'
  BY <1>1 DEF Stored, Inv1
<1>7. PassOK(pass[p])'
  BY <1>5 DEF PassOK, Idle
<1>8. QED
  BY <1>1, <1>5, <1>6, <1>7, OtherPasses DEF Inv1

Mine(n) == {p \in Passes : Running(p) /\ pass[p].name = n}

LEMMA CrashDoes ==
  ASSUME NEW n, Crash(n)
  PROVE  /\ Mine(n) # {} /\ faults < MaxFaults /\ faults' = faults + 1
         /\ torn' = torn \cup LeftBehind(Mine(n))
         /\ pass' = [p \in Passes |-> IF p \in Mine(n) THEN Idle ELSE pass[p]]
         /\ UNCHANGED <<now, events, lease, watermark, facts, rollups, runs, overlapped>>
BY Zenon DEF Crash, Mine

LEMMA TypedCrash ==
  ASSUME Inv1, NEW n \in Names, Crash(n)
  PROVE  Inv1'
<1>1. /\ Typed /\ Stored /\ faults < MaxFaults /\ faults' = faults + 1
      /\ torn' = torn \cup LeftBehind(Mine(n))
      /\ pass' = [p \in Passes |-> IF p \in Mine(n) THEN Idle ELSE pass[p]]
      /\ UNCHANGED <<now, events, lease, watermark, facts, rollups, runs, overlapped>>
  BY CrashDoes DEF Inv1
<1>2. faults' \in 0 .. MaxFaults
  BY <1>1, Constants DEF Typed
<1>3. torn' \in SUBSET Times
  BY <1>1, LeftBehindTyped DEF Typed, Mine
<1>4. pass' \in [Passes -> PassRecord]
  BY <1>1, IdleTyped DEF Typed
<1>5. Typed'
  BY <1>1, <1>2, <1>3, <1>4 DEF Typed
<1>6. Stored' /\ (watermark <= now)'
  BY <1>1 DEF Stored, Inv1
<1>7. ASSUME NEW p \in Passes PROVE PassOK(pass[p])'
  <2>1. CASE p \in Mine(n)
    <3>1. pass'[p] = Idle
      BY <1>1, <2>1
    <3>2. QED
      BY <3>1 DEF PassOK, Idle
  <2>2. CASE p \notin Mine(n)
    <3>1. pass'[p] = pass[p] /\ PassOK(pass[p])
      BY <1>1, <2>2 DEF Inv1
    <3>2. QED
      BY <1>1, <3>1 DEF PassOK
  <2>3. QED
    BY <2>1, <2>2
<1>8. QED
  BY <1>5, <1>6, <1>7 DEF Inv1

LEMMA TypedTick ==
  ASSUME Inv1, Tick
  PROVE  Inv1'
<1>1. /\ Typed /\ Stored /\ now < MaxTime /\ now' = now + 1 /\ now \in Nat
      /\ UNCHANGED <<events, lease, watermark, facts, rollups, pass, runs, faults, overlapped, torn>>
  BY TimesAreNat DEF Tick, Inv1, Typed
<1>2. Typed'
  BY <1>1, Constants DEF Typed, Times
<1>3. Stored'
  BY <1>1 DEF Stored
<1>4. (watermark <= now)'
  BY <1>1, TimesAreNat DEF Inv1, Typed
<1>5. ASSUME NEW p \in Passes PROVE PassOK(pass[p])'
  <2>1. PassOK(pass[p]) /\ pass[p].started \in Nat
    BY TimesAreNat DEF Inv1, Typed, PassRecord
  <2>2. pass[p].started <= now => pass[p].started <= now'
    BY <1>1, <2>1
  <2>3. QED
    BY <1>1, <2>1, <2>2 DEF PassOK
<1>6. QED
  BY <1>2, <1>3, <1>4, <1>5 DEF Inv1

LEMMA TypedNext == Inv1 /\ [Next]_vars => Inv1'
<1> SUFFICES ASSUME Inv1, [Next]_vars PROVE Inv1'
  OBVIOUS
<1>1. CASE \E e \in Events : Arrive(e)
  BY <1>1, TypedArrive
<1>2. ASSUME NEW p \in Passes, Step(p) PROVE Inv1'
  BY <1>2, TypedReadEvents, TypedPlan, TypedWriteFacts, TypedReadRollups, TypedWriteRollups,
     TypedAdvance DEF Step
<1>3. ASSUME NEW p \in Passes, Fail(p) PROVE Inv1'
  BY <1>3, TypedFail
<1>4. ASSUME NEW p \in Passes, NEW n \in Names, Claim(p, n) PROVE Inv1'
  BY <1>4, TypedClaim
<1>5. CASE \E n \in Names : Crash(n)
  BY <1>5, TypedCrash
<1>6. CASE Tick
  BY <1>6, TypedTick
<1>7. CASE UNCHANGED vars
  <2>1. Typed' /\ Stored' /\ (watermark <= now)'
    BY <1>7 DEF vars, Inv1, Typed, Stored
  <2>2. \A p \in Passes : PassOK(pass[p])'
    BY <1>7 DEF vars, Inv1, PassOK
  <2>3. QED
    BY <2>1, <2>2 DEF Inv1
<1>8. QED
  BY <1>1, <1>2, <1>3, <1>4, <1>5, <1>6, <1>7 DEF Next

LEMMA TypedAlways == Spec => []Inv1
BY TypedInit, TypedNext, PTL DEF Spec

\* Every variable of the finalizer holds a value of its kind: in particular the watermark
\* an Advance writes is on the clock's scale, and every row is named by one of its events.
THEOREM TypeCorrect == Spec => []TypeOK
<1>1. Inv1 => TypeOK
  <2> SUFFICES ASSUME Inv1 PROVE TypeOK
    OBVIOUS
  <2>1. \A r \in facts : r.id \in r.events /\ r.events \subseteq Events /\ r.version > 0
    BY DEF Inv1, Stored, FactOK, Facts
  <2>2. \A r \in rollups : r.bucket \in Times /\ r.generation > 0
    BY DEF Inv1, Typed, Rollups
  <2>3. \A p \in Passes : pass[p].name \in Names \cup {NoName} /\ pass[p].mark \in Times
    BY DEF Inv1, Typed, PassRecord
  <2>4. lease.by \in Names \cup {NoName} /\ lease.until \in 0 .. MaxTime + LeaseTTL
    BY DEF Inv1, Typed
  <2>5. QED
    BY <2>1, <2>2, <2>3, <2>4 DEF Inv1, Typed, TypeOK
<1>2. QED
  BY <1>1, TypedAlways, PTL

-----------------------------------------------------------------------------
(* The rollups. *)

\* A pass that still counts as alone has been the only one since it began.
AloneIsAlone ==
  \A p, q \in Passes : p # q /\ Running(p) /\ pass[p].alone => ~Running(q)

\* What such a pass aggregated is still what the stores say.
Fresh(p) ==
  pass[p].at = "aggregated" /\ pass[p].alone =>
    \E current \in Reads(facts, FactId),
       stored \in Reads(RollupsRead(pass[p].touched), RollupBucket) :
      pass[p].swap = PlanSwap(pass[p].touched, current, stored)

Open(b) == \E p \in Passes : pass[p].at \in {"written", "aggregated"} /\ b \in pass[p].touched
TiedAt(b) == \E r \in facts : Tied(r) /\ Bucket(r) = b
Match(b) ==
  \/ \E r \in rollups : r.bucket = b /\ r.totals = Aggregate(facts, b)
  \/ (\A r \in rollups : r.bucket # b) /\ Aggregate(facts, b) = NoSessions
AllMatch == \A b \in Times : b \notin torn /\ ~TiedAt(b) /\ ~Open(b) => Match(b)

Inv2 == AloneIsAlone /\ (\A p \in Passes : Fresh(p)) /\ AllMatch

LEMMA MatchIsMatch == AllMatch <=> RollupsMatch
<1>1. ASSUME NEW b \in Times
      PROVE  b \in {Bucket(r) : r \in {q \in facts : Tied(q)}} <=> TiedAt(b)
  BY DEF TiedAt
<1>2. ASSUME NEW b \in Times
      PROVE  (\A p \in Passes : pass[p].at \in {"written", "aggregated"} => b \notin pass[p].touched)
                <=> ~Open(b)
  BY DEF Open
<1>3. QED
  BY <1>1, <1>2 DEF AllMatch, RollupsMatch, Match

\* An aggregate depends on the rows of its bucket alone.
LEMMA AggregateSame ==
  ASSUME NEW R, NEW Q, NEW b, \A r : Bucket(r) = b => (r \in R <=> r \in Q)
  PROVE  Aggregate(R, b) = Aggregate(Q, b)
<1>1. {r \in Live(R) : Bucket(r) = b} = {r \in Live(Q) : Bucket(r) = b}
  BY DEF Live
<1>2. QED
  BY <1>1 DEF Aggregate

LEMMA AggregateCurrent ==
  ASSUME NEW current \in Reads(facts, FactId), NEW b, ~TiedAt(b)
  PROVE  Aggregate(current, b) = Aggregate(facts, b)
<1>1. ASSUME NEW r, Bucket(r) = b PROVE r \in current <=> r \in facts
  <2>1. r \in current => r \in facts
    BY ReadFacts
  <2>2. ASSUME r \in facts PROVE r \in current
    <3>1. PICK q \in current : q.id = r.id
      BY <2>2, ReadFacts
    <3>2. q \in facts
      BY ReadFacts
    <3>3. q = r
      BY <1>1, <2>2, <3>1, <3>2 DEF TiedAt, Tied
    <3>4. QED
      BY <3>3
  <2>3. QED
    BY <2>1, <2>2
<1>2. QED
  BY <1>1, AggregateSame

\* Steps that leave the stores alone and only close buckets by tearing them.
LEMMA MatchKept ==
  ASSUME AllMatch, facts' = facts, rollups' = rollups, torn \subseteq torn',
         \A b \in Times : Open(b) => Open(b)' \/ b \in torn'
  PROVE  AllMatch'
BY DEF AllMatch, Match, TiedAt, Tied

\* Steps of a pass that leave the stores alone.
LEMMA FreshKept ==
  ASSUME facts' = facts, rollups' = rollups, NEW q, Fresh(q), pass'[q] = pass[q]
  PROVE  Fresh(q)'
BY DEF Fresh, RollupsRead

LEMMA RollInit == Init => Inv2
<1> SUFFICES ASSUME Init PROVE Inv2
  OBVIOUS
<1>1. AloneIsAlone
  BY DEF Init, AloneIsAlone, Running, Idle
<1>2. \A p \in Passes : Fresh(p)
  BY DEF Init, Fresh, Idle
<1>3. AllMatch
  <2>1. facts = {} /\ rollups = {}
    BY DEF Init
  <2>2. ASSUME NEW b PROVE Aggregate({}, b) = NoSessions
    <3>1. {r \in Live({}) : Bucket(r) = b} = {} /\ Cardinality({}) = 0
      BY FS_EmptySet DEF Live
    <3>2. UNION {r.events : r \in {x \in Live({}) : Bucket(x) = b}} = {}
      BY <3>1
    <3>3. QED
      BY <3>1, <3>2 DEF Aggregate, NoSessions
  <2>3. QED
    BY <2>1, <2>2 DEF AllMatch, Match
<1>4. QED
  BY <1>1, <1>2, <1>3 DEF Inv2

\* A pass takes a step of its own and goes on.
LEMMA AloneStep ==
  ASSUME AloneIsAlone, NEW p \in Passes, Running(p), NEW r, r.alone = pass[p].alone,
         Typed, pass' = [pass EXCEPT ![p] = r]
  PROVE  AloneIsAlone'
<1>1. pass'[p] = r /\ \A q \in Passes \ {p} : pass'[q] = pass[q]
  BY DEF Typed
<1>2. QED
  BY <1>1 DEF AloneIsAlone, Running

\* While one pass is running, no other that is running counts as alone.
LEMMA OthersNotAlone ==
  ASSUME AloneIsAlone, NEW p \in Passes, Running(p), NEW q \in Passes \ {p}, pass[q].at # "idle"
  PROVE  ~pass[q].alone
BY DEF AloneIsAlone, Running

LEMMA RollArrive ==
  ASSUME Inv2, NEW e \in Events, Arrive(e)
  PROVE  Inv2'
<1>1. UNCHANGED <<facts, rollups, pass, torn>>
  BY DEF Arrive
<1>2. AllMatch'
  BY <1>1, MatchKept DEF Inv2, Open
<1>3. AloneIsAlone' /\ \A p \in Passes : Fresh(p)'
  BY <1>1, FreshKept DEF Inv2, AloneIsAlone, Running
<1>4. QED
  BY <1>2, <1>3 DEF Inv2

LEMMA RollTick ==
  ASSUME Inv2, Tick
  PROVE  Inv2'
<1>1. UNCHANGED <<facts, rollups, pass, torn>>
  BY DEF Tick
<1>2. AllMatch'
  BY <1>1, MatchKept DEF Inv2, Open
<1>3. AloneIsAlone' /\ \A p \in Passes : Fresh(p)'
  BY <1>1, FreshKept DEF Inv2, AloneIsAlone, Running
<1>4. QED
  BY <1>2, <1>3 DEF Inv2

LEMMA RollClaim ==
  ASSUME Inv1, Inv2, NEW p \in Passes, NEW n \in Names, Claim(p, n)
  PROVE  Inv2'
<1>1. Typed /\ UNCHANGED <<facts, rollups, torn>> /\ ~Running(p)
  BY ClaimDoes DEF Inv1
<1>2. pass'[p].at = "claimed" /\ pass'[p].alone = NoOthers(p)
  BY <1>1, ClaimMine DEF Typed
<1>3. \A q \in Passes \ {p} :
        /\ pass'[q].at = pass[q].at /\ pass'[q].touched = pass[q].touched
        /\ pass'[q].alone = Apart(p, q)
  BY <1>1, ClaimTheirs
<1>4. AloneIsAlone'
  <2>1. SUFFICES ASSUME NEW q \in Passes, NEW x \in Passes, q # x, Running(q)', Running(x)'
                 PROVE  ~(pass'[q].alone)
    BY DEF AloneIsAlone
  <2>2. CASE q = p
    <3>1. x \in Others(p)
      BY <1>3, <2>1, <2>2 DEF Others, Running
    <3>2. QED
      BY <1>2, <2>2, <3>1 DEF NoOthers
  <2>3. CASE q # p
    <3>1. q \in Others(p)
      BY <1>3, <2>1, <2>3 DEF Others, Running
    <3>2. QED
      BY <1>3, <2>3, <3>1 DEF Apart
  <2>4. QED
    BY <2>2, <2>3
<1>5. ASSUME NEW q \in Passes PROVE Fresh(q)'
  <2>1. CASE q = p
    BY <1>2, <2>1 DEF Fresh
  <2>2. CASE q # p
    <3>1. pass'[q].at = "aggregated" => ~pass'[q].alone
      BY <1>3, <2>2 DEF Apart, Others, Running
    <3>2. QED
      BY <3>1 DEF Fresh
  <2>3. QED
    BY <2>1, <2>2
<1>6. AllMatch'
  <2>1. \A b : Open(b) => Open(b)'
    BY <1>1, <1>3 DEF Open, Running
  <2>2. QED
    BY <1>1, <2>1, MatchKept DEF Inv2
<1>7. QED
  BY <1>4, <1>5, <1>6 DEF Inv2

\* A step of p that leaves the stores alone, before its facts are written.
LEMMA RollEarlyStep ==
  ASSUME Inv2, Typed, NEW p \in Passes, Running(p), NEW r, r.alone = pass[p].alone,
         pass' = [pass EXCEPT ![p] = r], r.at # "aggregated",
         pass[p].at \notin {"written", "aggregated"},
         UNCHANGED <<facts, rollups, torn>>
  PROVE  Inv2'
<1>1. pass'[p] = r /\ \A q \in Passes \ {p} : pass'[q] = pass[q]
  BY DEF Typed
<1>2. AloneIsAlone'
  BY AloneStep DEF Inv2
<1>3. ASSUME NEW q \in Passes PROVE Fresh(q)'
  <2>1. CASE q = p
    BY <1>1, <2>1 DEF Fresh
  <2>2. CASE q # p
    BY <1>1, <2>2, FreshKept DEF Inv2
  <2>3. QED
    BY <2>1, <2>2
<1>4. AllMatch'
  <2>1. \A b : Open(b) => Open(b)'
    BY <1>1 DEF Open
  <2>2. QED
    BY <2>1, MatchKept DEF Inv2
<1>5. QED
  BY <1>2, <1>3, <1>4 DEF Inv2

LEMMA RollReadEvents ==
  ASSUME Inv1, Inv2, NEW p \in Passes, ReadEvents(p)
  PROVE  Inv2'
<1> DEFINE s == pass[p]
           W == {e \in events : Time(e) >= s.from /\ Time(e) < s.started}
           to == ResolveWindow(W, s.from, s.started)
           r == AsRead(s, events, to)
<1>1. /\ s \in PassRecord /\ s.at = "claimed" /\ Typed /\ events \in SUBSET Events
      /\ s.from <= s.started /\ s.from \in Times /\ s.started \in Times
  BY DEF Inv1, Typed, PassOK, ReadEvents, PassRecord
<1>2. pass' = [pass EXCEPT ![p] = r] /\ UNCHANGED <<facts, rollups, torn>>
  BY DEF ReadEvents, AsRead
<1>3. to \in Times
  <2>1. W \in SUBSET Events /\ \A e \in W : Time(e) >= s.from /\ Time(e) < s.started
    BY <1>1
  <2> HIDE DEF W, s
  <2>2. QED
    BY <1>1, <2>1, WindowEnds
<1> HIDE DEF to
<1>4. r.at = "read" /\ r.alone = s.alone
  BY <1>1, <1>3, ReadRecord
<1> HIDE DEF r
<1>5. QED
  BY <1>1, <1>2, <1>4, RollEarlyStep DEF Running

LEMMA RollPlan ==
  ASSUME Inv1, Inv2, NEW p \in Passes, Plan(p)
  PROVE  Inv2'
<1> DEFINE s == pass[p]
<1>1. s \in PassRecord /\ s.at = "read" /\ Typed /\ UNCHANGED <<facts, rollups, torn>>
  BY PlanDoes DEF Inv1, Typed
<1>2. PICK r : pass' = [pass EXCEPT ![p] = r] /\ r.at = "planned" /\ r.alone = s.alone
  <2>1. PICK stored : pass' = [pass EXCEPT ![p] = Planned(s, stored)]
    BY PlanDoes
  <2>2. Planned(s, stored).at = "planned" /\ Planned(s, stored).alone = s.alone
    BY <1>1 DEF Planned, AsPlanned, PassRecord
  <2>3. QED
    BY <2>1, <2>2
<1>3. QED
  BY <1>1, <1>2, RollEarlyStep DEF Running

LEMMA RollWriteFacts ==
  ASSUME Inv1, Inv2, NEW p \in Passes, WriteFacts(p)
  PROVE  Inv2'
<1> DEFINE s == pass[p]
           rows == s.rows
           r == AsWritten(s)
<1>1. /\ s \in PassRecord /\ s.at = "planned" /\ Typed /\ PassOK(s) /\ Stored
      /\ facts' = Supersede(facts, rows, FactId, FactVersion)
      /\ pass' = [pass EXCEPT ![p] = r]
      /\ UNCHANGED <<rollups, torn>>
  BY DEF Inv1, Typed, WriteFacts, AsWritten
<1>2. r.at = "written" /\ r.alone = s.alone /\ r.touched = s.touched
  BY <1>1, WrittenRecord
<1> HIDE DEF r
<1>3. pass'[p] = r /\ \A q \in Passes \ {p} : pass'[q] = pass[q]
  BY <1>1 DEF Typed
<1>4. AloneIsAlone'
  BY <1>1, <1>2, AloneStep DEF Inv2, Running
<1>5. ASSUME NEW q \in Passes PROVE Fresh(q)'
  <2>1. CASE q = p
    BY <1>2, <1>3, <2>1 DEF Fresh
  <2>2. CASE q # p
    <3>1. pass[q].at = "aggregated" => ~pass[q].alone
      BY <1>1, <2>2, OthersNotAlone DEF Inv2, Running
    <3>2. QED
      BY <1>3, <2>2, <3>1 DEF Fresh
  <2>3. QED
    BY <2>1, <2>2
<1>6. /\ facts' \subseteq facts \cup rows
      /\ \A x \in facts : (\A y \in rows : y.id # x.id) => x \in facts'
  <2>1. rows \in SUBSET Facts
    BY <1>1 DEF PassRecord
  <2>2. /\ \A x \in facts \cup rows : x.version \in Nat
        /\ \A x, y \in facts : x.id = y.id => x.version = y.version
    BY <1>1, <2>1 DEF Typed, Facts, Stored
  <2> HIDE DEF rows
  <2>3. QED
    BY <1>1, <2>2, FactsSupersede
<1>7. ASSUME NEW b, b \notin s.touched, NEW x, Bucket(x) = b PROVE x \in facts' <=> x \in facts
  <2>1. \A y \in rows : Bucket(y) # b
    BY <1>1, <1>7 DEF PassOK
  <2>2. \A y \in rows : y.id # x.id
    BY <2>1, <1>7 DEF Bucket, Start
  <2>3. QED
    BY <1>6, <2>1, <2>2, <1>7
<1>8. AllMatch'
  <2>1. SUFFICES ASSUME NEW b \in Times, b \notin torn, ~TiedAt(b)', ~Open(b)'
                 PROVE  Match(b)'
    BY <1>1 DEF AllMatch
  <2>2. b \notin s.touched
    BY <1>2, <1>3, <2>1 DEF Open
  <2>3. ~Open(b)
    BY <1>1, <1>3, <2>1 DEF Open
  <2>4. ~TiedAt(b)
    <3>1. SUFFICES ASSUME NEW x \in facts, NEW y \in facts, y.id = x.id, y # x, Bucket(x) = b
                   PROVE  FALSE
      BY DEF TiedAt, Tied
    <3>2. Bucket(y) = b
      BY <3>1 DEF Bucket, Start
    <3>3. x \in facts' /\ y \in facts'
      BY <1>7, <2>2, <3>1, <3>2
    <3>4. QED
      BY <2>1, <3>1, <3>3 DEF TiedAt, Tied
  <2>5. Match(b)
    BY <2>1, <2>3, <2>4 DEF Inv2, AllMatch
  <2>6. PICK f : f = facts'
    OBVIOUS
  <2>7. Aggregate(f, b) = Aggregate(facts, b)
    BY <1>7, <2>2, <2>6, AggregateSame
  <2>8. QED
    BY <1>1, <2>5, <2>6, <2>7 DEF Match
<1>9. QED
  BY <1>4, <1>5, <1>8 DEF Inv2

LEMMA RollReadRollups ==
  ASSUME Inv1, Inv2, NEW p \in Passes, ReadRollups(p)
  PROVE  Inv2'
<1> DEFINE s == pass[p]
<1>1. /\ s.at = "written" /\ s \in PassRecord /\ Typed /\ Stored
      /\ UNCHANGED <<facts, rollups, torn>>
  BY ReadRollupsDoes DEF Inv1, Typed
<1>2. PICK current \in Reads(facts, FactId), stored \in Reads(RollupsRead(s.touched), RollupBucket) :
        pass' = [pass EXCEPT ![p] = AsAggregated(s, PlanSwap(s.touched, current, stored))]
  BY ReadRollupsDoes
<1> DEFINE swap == PlanSwap(s.touched, current, stored)
           r == AsAggregated(s, swap)
<1>3. swap \in SUBSET Rollups
  <2>1. s.touched \in SUBSET Times
    BY <1>1 DEF PassRecord
  <2>2. IsSwap(s.touched, current, stored, swap)
    BY <1>1, <2>1, SwapOf
  <2> HIDE DEF swap
  <2>3. QED
    BY <2>2 DEF IsSwap
<1> HIDE DEF swap
<1>4. r.at = "aggregated" /\ r.alone = s.alone /\ r.touched = s.touched /\ r.swap = swap
  BY <1>1, <1>3, AggregatedRecord
<1>5. pass' = [pass EXCEPT ![p] = r]
  BY <1>2 DEF swap
<1> HIDE DEF r
<1>6. pass'[p] = r /\ \A q \in Passes \ {p} : pass'[q] = pass[q]
  BY <1>1, <1>5 DEF Typed
<1>7. AloneIsAlone'
  BY <1>1, <1>4, <1>5, AloneStep DEF Inv2, Running
<1>8. ASSUME NEW q \in Passes PROVE Fresh(q)'
  <2>1. CASE q = p
    <3>1. PICK t : t = s.touched
      OBVIOUS
    <3>2. RollupsRead(t)' = RollupsRead(t)
      BY <1>1 DEF RollupsRead
    <3>3. pass'[p].touched = t /\ pass'[p].swap = PlanSwap(t, current, stored)
      BY <1>4, <1>6, <3>1 DEF swap
    <3>4. current \in Reads(facts', FactId) /\ stored \in Reads(RollupsRead(t)', RollupBucket)
      BY <1>1, <1>2, <3>1, <3>2
    <3>5. QED
      BY <2>1, <3>3, <3>4 DEF Fresh, RollupsRead
  <2>2. CASE q # p
    BY <1>1, <1>6, <2>2, FreshKept DEF Inv2
  <2>3. QED
    BY <2>1, <2>2
<1>9. AllMatch'
  <2>1. \A b : Open(b) => Open(b)'
    BY <1>4, <1>6 DEF Open
  <2>2. QED
    BY <1>1, <2>1, MatchKept DEF Inv2
<1>10. QED
  BY <1>7, <1>8, <1>9 DEF Inv2

\* The totals a lone pass writes, or finds written, are those of the current facts.
LEMMA SwapMatches ==
  ASSUME Typed, Stored, NEW touched \in SUBSET Times, NEW b \in touched, ~TiedAt(b),
         NEW current \in Reads(facts, FactId),
         NEW stored \in Reads(RollupsRead(touched), RollupBucket),
         NEW swap, swap = PlanSwap(touched, current, stored),
         NEW after, after = Supersede(rollups, swap, RollupBucket, RollupGeneration)
  PROVE  \/ \E r \in after : r.bucket = b /\ r.totals = Aggregate(facts, b)
         \/ (\A r \in after : r.bucket # b) /\ Aggregate(facts, b) = NoSessions
<1>1. IsSwap(touched, current, stored, swap)
  BY SwapOf
<1>2. Aggregate(current, b) = Aggregate(facts, b)
  BY AggregateCurrent
<1>3. /\ stored \subseteq rollups /\ b \in RollupRange(touched)
      /\ \A r \in rollups : r.bucket = b => \E q \in stored : q.bucket = b
  <2>1. stored \subseteq RollupsRead(touched)
        /\ \A r \in RollupsRead(touched) : \E q \in stored : q.bucket = r.bucket
    BY ReadRollupRows
  <2>2. b \in RollupRange(touched)
    <3>1. b \in Nat /\ b \in 0 .. MaxTime /\ b <= b + 1
      BY Constants DEF Times
    <3>2. QED
      BY <3>1 DEF RollupRange
  <2>3. QED
    BY <2>1, <2>2 DEF RollupsRead
<1>4. \A r, q \in rollups : r.bucket = q.bucket => r.generation = q.generation
  BY DEF Stored
<1>5. \A r \in rollups \cup swap : r.generation \in Nat
  BY <1>1 DEF IsSwap, Typed, Rollups
<1>6. after \subseteq rollups \cup swap
      /\ \A r \in rollups : (\A q \in swap : q.bucket # r.bucket) => r \in after
  BY <1>4, <1>5, RollupsSupersede
<1>7. CASE \E r \in swap : r.bucket = b
  <2>1. PICK r \in swap : r.bucket = b
    BY <1>7
  <2>2. r.generation = NextGeneration(stored) /\ r.totals = Aggregate(current, b)
    BY <1>1, <2>1 DEF IsSwap
  <2>3. ASSUME NEW q \in rollups \cup swap, q.bucket = r.bucket
        PROVE  q.generation <= r.generation
    <3>1. CASE q \in swap
      <4>1. q.generation = r.generation /\ r.generation \in Nat
        BY <1>1, <1>5, <3>1, <2>2 DEF IsSwap
      <4>2. QED
        BY <4>1
    <3>2. CASE q \in rollups
      <4>1. PICK x \in stored : x.bucket = b
        BY <1>3, <2>1, <2>3, <3>2
      <4>2. x.generation = q.generation /\ x.generation < r.generation
        BY <1>1, <1>3, <1>4, <2>1, <2>2, <2>3, <3>2, <4>1 DEF IsSwap
      <4>3. q.generation \in Nat /\ r.generation \in Nat
        BY <1>5
      <4>4. QED
        BY <4>2, <4>3
    <3>3. QED
      BY <3>1, <3>2
  <2>4. r \in after
    BY <1>5, <2>3, RollupWins
  <2>5. QED
    BY <1>2, <2>1, <2>2, <2>4
<1>8. CASE ~\E r \in swap : r.bucket = b
  <2>1. SameTotals(b, current, stored)
    BY <1>1, <1>8 DEF IsSwap
  <2>2. \A r \in rollups : r.bucket = b => r \in after
    BY <1>6, <1>8
  <2>3. CASE \E r \in stored : r.bucket = b /\ r.totals = Aggregate(current, b)
    BY <2>3, <2>2, <1>2, <1>3
  <2>4. CASE (\A r \in stored : r.bucket # b) /\ Aggregate(current, b) = NoSessions
    <3>1. \A r \in rollups : r.bucket # b
      BY <2>4, <1>3
    <3>2. \A r \in after : r.bucket # b
      BY <3>1, <1>6, <1>8
    <3>3. QED
      BY <3>2, <2>4, <1>2
  <2>5. QED
    BY <2>1, <2>3, <2>4 DEF SameTotals
<1>9. QED
  BY <1>7, <1>8

LEMMA RollWriteRollups ==
  ASSUME Inv1, Inv2, NEW p \in Passes, WriteRollups(p)
  PROVE  Inv2'
<1> DEFINE s == pass[p]
           swap == s.swap
           r == AsSwapped(s)
<1>1. /\ s.at = "aggregated" /\ s \in PassRecord /\ PassOK(s) /\ Typed /\ Stored
      /\ rollups' = Supersede(rollups, swap, RollupBucket, RollupGeneration)
      /\ pass' = [pass EXCEPT ![p] = r] /\ facts' = facts
  BY DEF WriteRollups, Inv1, Typed, AsSwapped
<1>2. torn' = IF s.alone THEN torn \ s.touched ELSE torn \cup s.touched
  BY DEF WriteRollups
<1>3. r.at = "swapped" /\ r.alone = s.alone
  BY <1>1, SwappedRecord
<1> HIDE DEF r
<1>4. pass'[p] = r /\ \A q \in Passes \ {p} : pass'[q] = pass[q]
  BY <1>1 DEF Typed
<1>5. AloneIsAlone'
  BY <1>1, <1>3, AloneStep DEF Inv2, Running
<1>6. ASSUME NEW q \in Passes PROVE Fresh(q)'
  <2>1. CASE q = p
    BY <1>3, <1>4, <2>1 DEF Fresh
  <2>2. CASE q # p
    <3>1. pass[q].at = "aggregated" => ~pass[q].alone
      BY <1>1, <2>2, OthersNotAlone DEF Inv2, Running
    <3>2. QED
      BY <1>4, <2>2, <3>1 DEF Fresh
  <2>3. QED
    BY <2>1, <2>2
<1>7. /\ swap \in SUBSET Rollups /\ \A x \in swap : x.bucket \in s.touched
      /\ s.touched \in SUBSET Times
  BY <1>1 DEF PassOK, PassRecord
<1>8. AllMatch'
  <2>1. SUFFICES ASSUME NEW b \in Times, b \notin torn', ~TiedAt(b)', ~Open(b)'
                 PROVE  Match(b)'
    BY DEF AllMatch
  <2>2. ~TiedAt(b)
    BY <1>1, <2>1 DEF TiedAt, Tied
  <2>3. CASE b \in s.touched
    <3>1. s.alone
      BY <1>2, <2>1, <2>3
    <3>2. PICK current \in Reads(facts, FactId), stored \in Reads(RollupsRead(s.touched), RollupBucket) :
            swap = PlanSwap(s.touched, current, stored)
      BY <1>1, <3>1 DEF Inv2, Fresh
    <3>3. PICK after : after = rollups'
      OBVIOUS
    <3> HIDE DEF swap, s
    <3>4. \/ \E x \in after : x.bucket = b /\ x.totals = Aggregate(facts, b)
          \/ (\A x \in after : x.bucket # b) /\ Aggregate(facts, b) = NoSessions
      BY <1>1, <1>7, <2>2, <2>3, <3>2, <3>3, SwapMatches
    <3>5. QED
      BY <1>1, <3>3, <3>4 DEF Match
  <2>4. CASE b \notin s.touched
    <3>1. ~Open(b)
      BY <1>4, <2>1, <2>4 DEF Open
    <3>2. b \notin torn
      BY <1>2, <2>1, <2>4
    <3>3. Match(b)
      BY <2>1, <2>2, <3>1, <3>2 DEF Inv2, AllMatch
    <3>4. /\ \A x \in rollups \cup swap : x.generation \in Nat
          /\ \A x, y \in rollups : x.bucket = y.bucket => x.generation = y.generation
      BY <1>1, <1>7 DEF Typed, Rollups, Stored
    <3> HIDE DEF swap
    <3>5. rollups' \subseteq rollups \cup swap
          /\ \A x \in rollups : (\A y \in swap : y.bucket # x.bucket) => x \in rollups'
      BY <1>1, <3>4, RollupsSupersede
    <3>6. \A x : x.bucket = b => (x \in rollups' <=> x \in rollups)
      BY <1>7, <2>4, <3>5
    <3>7. QED
      BY <1>1, <3>3, <3>6 DEF Match
  <2>5. QED
    BY <2>3, <2>4
<1>9. QED
  BY <1>5, <1>6, <1>8 DEF Inv2

LEMMA RollAdvance ==
  ASSUME Inv1, Inv2, NEW p \in Passes, Advance(p)
  PROVE  Inv2'
<1>1. /\ pass[p].at = "swapped" /\ Typed /\ pass' = [pass EXCEPT ![p] = Idle]
      /\ UNCHANGED <<facts, rollups, torn>>
  BY DEF Advance, Inv1
<1>2. pass'[p] = Idle /\ \A q \in Passes \ {p} : pass'[q] = pass[q]
  BY <1>1 DEF Typed
<1>3. AloneIsAlone'
  BY <1>2 DEF Inv2, AloneIsAlone, Running, Idle
<1>4. ASSUME NEW q \in Passes PROVE Fresh(q)'
  <2>1. CASE q = p
    BY <1>2, <2>1 DEF Fresh, Idle
  <2>2. CASE q # p
    BY <1>1, <1>2, <2>2, FreshKept DEF Inv2
  <2>3. QED
    BY <2>1, <2>2
<1>5. AllMatch'
  <2>1. \A b : Open(b) => Open(b)'
    BY <1>1, <1>2 DEF Open
  <2>2. QED
    BY <1>1, <2>1, MatchKept DEF Inv2
<1>6. QED
  BY <1>3, <1>4, <1>5 DEF Inv2

\* Passes that end early tear the buckets they leave open.
LEMMA RollEnds ==
  ASSUME Typed, Inv2, NEW P \in SUBSET Passes,
         pass' = [p \in Passes |-> IF p \in P THEN Idle ELSE pass[p]],
         torn' = torn \cup LeftBehind(P), UNCHANGED <<facts, rollups>>
  PROVE  Inv2'
<1>1. /\ \A q \in P : pass'[q] = Idle
      /\ \A q \in Passes \ P : pass'[q] = pass[q]
  OBVIOUS
<1>2. AloneIsAlone'
  <2>1. \A q \in Passes : Running(q)' => Running(q) /\ pass'[q] = pass[q]
    BY <1>1 DEF Running, Idle
  <2>2. QED
    BY <2>1 DEF Inv2, AloneIsAlone
<1>3. ASSUME NEW q \in Passes PROVE Fresh(q)'
  <2>1. CASE q \in P
    BY <1>1, <2>1 DEF Fresh, Idle
  <2>2. CASE q \notin P
    BY <1>1, <2>2, FreshKept DEF Inv2
  <2>3. QED
    BY <2>1, <2>2
<1>4. AllMatch'
  <2>1. ASSUME NEW b, Open(b) PROVE Open(b)' \/ b \in torn'
    <3>1. PICK q \in Passes : pass[q].at \in {"written", "aggregated"} /\ b \in pass[q].touched
      BY <2>1 DEF Open
    <3>2. CASE q \in P
      BY <3>1, <3>2 DEF LeftBehind
    <3>3. CASE q \notin P
      BY <1>1, <3>1, <3>3 DEF Open
    <3>4. QED
      BY <3>2, <3>3
  <2>2. QED
    BY <2>1, MatchKept DEF Inv2
<1>5. QED
  BY <1>2, <1>3, <1>4 DEF Inv2

LEMMA RollNext == Inv1 /\ Inv2 /\ [Next]_vars => Inv2'
<1> SUFFICES ASSUME Inv1, Inv2, [Next]_vars PROVE Inv2'
  OBVIOUS
<1>1. CASE \E e \in Events : Arrive(e)
  BY <1>1, RollArrive
<1>2. ASSUME NEW p \in Passes, Step(p) PROVE Inv2'
  BY <1>2, RollReadEvents, RollPlan, RollWriteFacts, RollReadRollups, RollWriteRollups,
     RollAdvance DEF Step
<1>3. ASSUME NEW p \in Passes, Fail(p) PROVE Inv2'
  <2>1. /\ Typed /\ pass' = [pass EXCEPT ![p] = Idle] /\ torn' = torn \cup LeftBehind({p})
        /\ UNCHANGED <<facts, rollups>>
    BY <1>3 DEF Fail, Inv1
  <2>2. pass' = [q \in Passes |-> IF q \in {p} THEN Idle ELSE pass[q]]
    BY <2>1 DEF Typed
  <2>3. QED
    BY <2>1, <2>2, RollEnds
<1>4. ASSUME NEW p \in Passes, NEW n \in Names, Claim(p, n) PROVE Inv2'
  BY <1>4, RollClaim
<1>5. ASSUME NEW n \in Names, Crash(n) PROVE Inv2'
  <2>1. Mine(n) \in SUBSET Passes /\ Typed
    BY DEF Mine, Inv1
  <2>2. QED
    BY <1>5, <2>1, CrashDoes, RollEnds
<1>6. CASE Tick
  BY <1>6, RollTick
<1>7. CASE UNCHANGED vars
  <2>1. UNCHANGED <<facts, rollups, pass, torn>>
    BY <1>7 DEF vars
  <2>2. AllMatch'
    BY <2>1, MatchKept DEF Inv2, Open
  <2>3. AloneIsAlone' /\ \A p \in Passes : Fresh(p)'
    BY <2>1, FreshKept DEF Inv2, AloneIsAlone, Running
  <2>4. QED
    BY <2>2, <2>3 DEF Inv2
<1>8. QED
  BY <1>1, <1>2, <1>3, <1>4, <1>5, <1>6, <1>7 DEF Next

LEMMA RollAlways == Spec => []Inv2
BY RollInit, TypedAlways, RollNext, PTL DEF Spec

\* For any passes, overlapping, failing and crashing: outside the buckets whose swap was
\* lost or raced, and those of tied sessions, the rollup of a bucket is the aggregate of
\* its current sessions whenever no pass is between its facts and its rollups there.
THEOREM RollupsFollowFacts == Spec => []RollupsMatch
<1>1. Inv2 => RollupsMatch
  BY MatchIsMatch DEF Inv2
<1>2. QED
  BY <1>1, RollAlways, PTL


-----------------------------------------------------------------------------
(* While passes never overlap. *)

Single == \A p, q \in Passes : Running(p) /\ Running(q) => p = q
Apiece == \A r, q \in Live(facts) : r # q => r.events \cap q.events = {}

\* The current sessions that start before t are over by t.
Behind(t) == \A r \in Live(facts) : Start(r) < t => \A e \in r.events : Time(e) < t

\* A pass plans from the watermark; what it planned is still a plan of what is stored; once
\* that is written no session straddles its mark.
PassGoesOn(s) ==
  /\ s.at # "idle" => s.from = watermark
  /\ s.at = "planned" => /\ s.mark = Mark(s)
                         /\ IsPlan(Sessions(s), Within(facts, s.from, s.to), s.rows)
  /\ s.at \in {"written", "aggregated", "swapped"} => s.mark >= s.from /\ Behind(s.mark)

Orderly ==
  /\ Single /\ OneEach(facts) /\ Apiece /\ Behind(watermark)
  /\ \A p \in Passes : PassGoesOn(pass[p])
Inv3 == ~overlapped => Orderly

\* The facts after a plan for [from, to) is written: outside the window what was there,
\* inside it the sessions.
Rewritten(S, from, to, old, new) ==
  /\ OneEach(new)
  /\ \A r \in old : Start(r) < from \/ Start(r) >= to => r \in new
  /\ \A r \in Live(new) :
       \/ r \in old /\ (Start(r) < from \/ Start(r) >= to)
       \/ \E x \in S : r.id = x.id /\ r.events = x.events
  /\ \A x \in S : \E r \in Live(new) : r.id = x.id /\ r.events = x.events

LEMMA WriteEffect ==
  ASSUME Stored, OneEach(facts), NEW S, NEW from \in Int, NEW to \in Int, NEW rows,
         \A x \in S : Start(x) >= from /\ Start(x) < to,
         IsPlan(S, Within(facts, from, to), rows)
  PROVE  Rewritten(S, from, to, facts, Supersede(facts, rows, FactId, FactVersion))
<1> DEFINE stored == Within(facts, from, to)
           new == Supersede(facts, rows, FactId, FactVersion)
<1>1. PICK v \in Nat : /\ \A r \in rows : r.version = v
                       /\ \A r \in stored : r.version < v
  BY DEF IsPlan
<1>2. \A r \in rows : Start(r) >= from /\ Start(r) < to
  <2>1. SUFFICES ASSUME NEW r \in rows PROVE Start(r) >= from /\ Start(r) < to
    OBVIOUS
  <2>2. CASE \E x \in S : r.id = x.id
    BY <2>2 DEF Start
  <2>3. CASE \E q \in stored : q.id = r.id
    BY <2>3 DEF Start, Within
  <2>4. QED
    BY <2>2, <2>3 DEF IsPlan
<1>3. \A r \in facts, q \in rows : r.id = q.id => r \in stored
  BY <1>2 DEF Within, Start
<1>4. new = rows \cup {r \in facts : \A q \in rows : q.id # r.id}
  <2>1. \A r \in facts : r.version \in Nat
    BY DEF Stored, FactOK, Facts
  <2>2. \A r, q \in facts : r.id = q.id => r.version = q.version
    BY DEF Stored
  <2>3. \A r \in facts, q \in rows : r.id = q.id => r.version < v
    BY <1>1, <1>3
  <2> HIDE DEF stored
  <2>4. QED
    BY <1>1, <2>1, <2>2, <2>3, FactsReplaced
<1> HIDE DEF new
<1>5. OneEach(new)
  BY <1>4 DEF IsPlan, OneEach
<1>6. \A r \in facts : Start(r) < from \/ Start(r) >= to => r \in new
  <2>1. SUFFICES ASSUME NEW r \in facts, Start(r) < from \/ Start(r) >= to PROVE r \in new
    OBVIOUS
  <2>2. r \notin stored
    <3>1. Start(r) \in Int
      BY FactStart DEF Stored
    <3>2. QED
      BY <2>1, <3>1 DEF Within
  <2>3. QED
    BY <2>2, <1>3, <1>4
<1>7. ASSUME NEW r \in Live(new)
      PROVE  \/ r \in facts /\ (Start(r) < from \/ Start(r) >= to)
             \/ \E x \in S : r.id = x.id /\ r.events = x.events
  <2>1. r \in new /\ ~r.retracted
    BY DEF Live
  <2>2. CASE r \in rows
    BY <2>1, <2>2 DEF IsPlan
  <2>3. CASE r \in facts /\ \A q \in rows : q.id # r.id
    <3>1. CASE r \in stored
      <4>1. r \in Live(stored)
        BY <2>1, <3>1 DEF Live
      <4>2. PICK x \in S : x.id = r.id
        BY <2>3, <4>1 DEF IsPlan
      <4>3. PICK q \in rows \cup {y \in Live(stored) : \A z \in rows : z.id # y.id} :
              ~q.retracted /\ q.id = x.id /\ q.events = x.events
        BY DEF IsPlan
      <4>4. q \in stored
        BY <2>3, <4>2, <4>3 DEF Live
      <4>5. q = r
        BY <2>3, <4>2, <4>3, <4>4 DEF OneEach, Within
      <4>6. QED
        BY <4>2, <4>3, <4>5
    <3>2. CASE r \notin stored
      <4>1. Start(r) \in Int
        BY <2>3, FactStart DEF Stored
      <4>2. QED
        BY <2>3, <3>2, <4>1 DEF Within
    <3>3. QED
      BY <3>1, <3>2
  <2>4. QED
    BY <1>4, <2>1, <2>2, <2>3
<1>8. ASSUME NEW x \in S PROVE \E r \in Live(new) : r.id = x.id /\ r.events = x.events
  <2>1. PICK q \in rows \cup {y \in Live(stored) : \A z \in rows : z.id # y.id} :
          ~q.retracted /\ q.id = x.id /\ q.events = x.events
    BY DEF IsPlan
  <2>2. q \in new
    BY <2>1, <1>4 DEF Live, Within
  <2>3. QED
    BY <2>1, <2>2 DEF Live
<1>9. Rewritten(S, from, to, facts, new)
  BY <1>5, <1>6, <1>7, <1>8, Zenon DEF Rewritten
<1>10. QED
  BY <1>9 DEF new

\* The facts and the watermark stay; passes other than those of P keep what they hold;
\* those of P have ended or moved on.
Onward == facts' = facts /\ watermark' = watermark

LEMMA OrderlyStep ==
  ASSUME Orderly, Onward, NEW P \in SUBSET Passes,
         \A q \in Passes \ P : pass'[q] = pass[q],
         \A q \in P : PassGoesOn(pass[q])', \A q \in P : Running(q)' => Running(q)
  PROVE  Orderly'
<1>1. Single'
  BY DEF Orderly, Single, Running
<1>2. OneEach(facts') /\ Apiece' /\ Behind(watermark)'
  BY DEF Orderly, Onward, Apiece, Behind
<1>3. ASSUME NEW q \in Passes PROVE PassGoesOn(pass[q])'
  <2>1. CASE q \in P
    BY <2>1
  <2>2. CASE q \notin P
    <3>1. PICK s : s = pass[q]
      OBVIOUS
    <3>2. PassGoesOn(s)
      BY <3>1 DEF Orderly
    <3>3. PassGoesOn(s)'
      BY <3>2 DEF Onward, PassGoesOn, Behind
    <3>4. s = pass'[q]
      BY <2>2, <3>1
    <3>5. QED
      BY <3>3, <3>4 DEF PassGoesOn
  <2>3. QED
    BY <2>1, <2>2
<1>4. QED
  BY <1>1, <1>2, <1>3 DEF Orderly

LEMMA OrderlyInit == Init => Inv3
<1> SUFFICES ASSUME Init PROVE Orderly
  BY DEF Inv3
<1>1. /\ facts = {} /\ events = {} /\ watermark = 0 /\ \A p \in Passes : pass[p] = Idle
  BY DEF Init
<1>2. Single /\ \A p \in Passes : PassGoesOn(pass[p])
  BY <1>1 DEF Single, Running, PassGoesOn, Idle
<1>3. OneEach(facts) /\ Apiece /\ Behind(watermark)
  BY <1>1 DEF OneEach, Apiece, Live, Behind
<1>4. QED
  BY <1>2, <1>3 DEF Orderly

LEMMA OrderlyStands ==
  ASSUME Orderly, Onward, pass' = pass
  PROVE  Orderly'
<1>1. /\ {} \in SUBSET Passes /\ \A q \in Passes \ {} : pass'[q] = pass[q]
      /\ \A q \in {} : PassGoesOn(pass[q])'
      /\ \A q \in {} : Running(q)' => Running(q)
  OBVIOUS
<1>2. QED
  BY <1>1, OrderlyStep

LEMMA OrderlyClaim ==
  ASSUME Inv1, Inv3, NEW p \in Passes, NEW n \in Names, Claim(p, n), ~overlapped'
  PROVE  Orderly'
<1>1. Orderly /\ Others(p) = {}
  BY ClaimDoes DEF Inv3
<1>2. \A q \in Passes \ {p} : ~Running(q)
  BY <1>1 DEF Others
<1>3. Onward
  BY ClaimDoes DEF Onward
<1>4. pass'[p].at = "claimed" /\ pass'[p].from = watermark'
  <2>1. watermark \in Times /\ now \in Times /\ watermark' = watermark
    BY ClaimDoes DEF Inv1, Typed
  <2>2. QED
    BY <2>1, ClaimMine
<1>5. \A q \in Passes \ {p} : pass'[q].at = "idle"
  BY <1>2, ClaimTheirs DEF Inv1, Running
<1>6. PassGoesOn(pass[p])' /\ \A q \in Passes \ {p} : PassGoesOn(pass[q])'
  BY <1>4, <1>5 DEF PassGoesOn
<1>7. Single'
  BY <1>5 DEF Single, Running
<1>8. OneEach(facts') /\ Apiece' /\ Behind(watermark)'
  BY <1>1, <1>3 DEF Orderly, Onward, Apiece, Behind
<1>9. QED
  BY <1>6, <1>7, <1>8 DEF Orderly

\* A step of pass p alone, which leaves the facts and the watermark as they are.
LEMMA OrderlyOwnStep ==
  ASSUME Inv1, Orderly, NEW p \in Passes, Running(p), NEW r,
         pass' = [pass EXCEPT ![p] = r], PassGoesOn(r), Onward
  PROVE  Orderly'
<1>1. pass'[p] = r /\ \A q \in Passes \ {p} : pass'[q] = pass[q]
  BY DEF Inv1, Typed
<1>2. PassGoesOn(r)'
  BY DEF PassGoesOn, Behind, Onward
<1>3. PassGoesOn(pass[p])'
  BY <1>1, <1>2 DEF PassGoesOn
<1>4. /\ {p} \in SUBSET Passes
      /\ \A q \in {p} : PassGoesOn(pass[q])'
      /\ \A q \in {p} : Running(q)' => Running(q)
  BY <1>3
<1>5. QED
  BY <1>1, <1>4, OrderlyStep

LEMMA OrderlyReadEvents ==
  ASSUME Inv1, Orderly, NEW p \in Passes, ReadEvents(p)
  PROVE  Orderly'
<1> DEFINE s == pass[p]
           window == {e \in events : Time(e) >= s.from /\ Time(e) < s.started}
           r == AsRead(s, events, ResolveWindow(window, s.from, s.started))
<1>1. /\ s.at = "claimed" /\ pass' = [pass EXCEPT ![p] = r]
      /\ Onward
  BY Zenon DEF ReadEvents, AsRead, Onward
<1>2. s.from = watermark /\ s \in PassRecord
  BY <1>1 DEF Orderly, PassGoesOn, Inv1, Typed
<1>3. r.at = "read" /\ r.from = s.from
  BY <1>2 DEF AsRead, PassRecord
<1> HIDE DEF r
<1>4. PassGoesOn(r)
  BY <1>2, <1>3 DEF PassGoesOn
<1>5. Running(p)
  BY <1>1 DEF Running
<1>6. QED
  BY <1>1, <1>4, <1>5, OrderlyOwnStep

LEMMA OrderlyPlan ==
  ASSUME Inv1, Orderly, NEW p \in Passes, Plan(p)
  PROVE  Orderly'
<1> DEFINE s == pass[p]
<1>1. /\ s.at = "read" /\ s \in PassRecord
      /\ Onward
  BY PlanDoes DEF Inv1, Typed, Onward
<1>2. PICK stored \in Reads(Within(facts, s.from, s.to), FactId) :
        pass' = [pass EXCEPT ![p] = Planned(s, stored)]
  BY PlanDoes
<1>3. OneEach(Within(facts, s.from, s.to))
  BY DEF Orderly, OneEach, Within
<1>4. stored = Within(facts, s.from, s.to)
  BY <1>2, <1>3, ReadAll
<1>5. IsPlan(Sessions(s), stored, Rows(s, stored))
  BY <1>1, <1>2, RowsAre DEF Inv1
<1> DEFINE r == Planned(s, stored)
<1>6. /\ r.at = "planned" /\ r.rows = Rows(s, stored) /\ r.mark = Mark(s)
      /\ r.from = s.from /\ r.to = s.to /\ r.started = s.started /\ r.all = s.all
  BY <1>1 DEF Planned, AsPlanned, PassRecord
<1>7. Mark(r) = Mark(s) /\ Sessions(r) = Sessions(s)
  BY <1>6 DEF Mark, Sessions, Window, Horizon
<1> HIDE DEF r
<1>8. PassGoesOn(s)
  BY DEF Orderly
<1>9. PassGoesOn(r)
  BY <1>1, <1>4, <1>5, <1>6, <1>7, <1>8 DEF PassGoesOn
<1>10. Running(p)
  BY <1>1 DEF Running
<1>11. pass' = [pass EXCEPT ![p] = r]
  BY <1>2 DEF r
<1>12. QED
  BY <1>1, <1>9, <1>10, <1>11, OrderlyOwnStep

LEMMA OrderlyReadRollups ==
  ASSUME Inv1, Orderly, NEW p \in Passes, ReadRollups(p)
  PROVE  Orderly'
<1> DEFINE s == pass[p]
<1>1. /\ s.at = "written" /\ s \in PassRecord
      /\ Onward
  BY ReadRollupsDoes DEF Inv1, Typed, Onward
<1>2. PICK swap : pass' = [pass EXCEPT ![p] = AsAggregated(s, swap)]
  BY ReadRollupsDoes
<1> DEFINE r == AsAggregated(s, swap)
<1>3. r.at = "aggregated" /\ r.mark = s.mark /\ r.from = s.from
  BY <1>1 DEF AsAggregated, PassRecord
<1> HIDE DEF r
<1>4. PassGoesOn(r)
  BY <1>1, <1>3 DEF Orderly, PassGoesOn
<1>5. Running(p) /\ pass' = [pass EXCEPT ![p] = r]
  BY <1>1, <1>2 DEF Running, r
<1>6. QED
  BY <1>1, <1>4, <1>5, OrderlyOwnStep

LEMMA OrderlyWriteRollups ==
  ASSUME Inv1, Orderly, NEW p \in Passes, WriteRollups(p)
  PROVE  Orderly'
<1> DEFINE s == pass[p]
           r == AsSwapped(s)
<1>1. /\ s.at = "aggregated" /\ s \in PassRecord /\ pass' = [pass EXCEPT ![p] = r]
      /\ Onward
  BY DEF WriteRollups, Inv1, Typed, AsSwapped, Onward
<1>2. r.at = "swapped" /\ r.mark = s.mark /\ r.from = s.from
  BY <1>1, SwappedRecord
<1> HIDE DEF r
<1>3. PassGoesOn(r)
  BY <1>1, <1>2 DEF Orderly, PassGoesOn
<1>4. Running(p)
  BY <1>1 DEF Running
<1>5. QED
  BY <1>1, <1>3, <1>4, OrderlyOwnStep

LEMMA SessionsOfWindow ==
  ASSUME NEW s \in PassRecord
  PROVE  /\ Window(s) \in SUBSET Events
         /\ \A x \in Sessions(s) : \A e \in x.events : Time(e) >= s.from /\ Time(e) < s.to
         /\ \A x, y \in Sessions(s) : x.id # y.id => x.events \cap y.events = {}
         /\ \A e \in Window(s) : \E x \in Sessions(s) : e \in x.events
<1>1. Window(s) \in SUBSET Events
  BY DEF Window, PassRecord
<1>2. \A x \in Sessions(s) : x.events \subseteq Window(s)
  BY <1>1, SessionsAre DEF Sessions
<1>3. \A x, y \in Sessions(s) : x.id # y.id => x.events \cap y.events = {}
  BY <1>1, SessionsDiffer DEF Sessions
<1>4. \A e \in Window(s) : \E x \in Sessions(s) : e \in x.events
  BY <1>1, EveryEventHasASession DEF Sessions
<1>5. QED
  BY <1>1, <1>2, <1>3, <1>4 DEF Window

\* Rewriting a window keeps the sessions before it and after it apart from those inside.
LEMMA RewrittenApiece ==
  ASSUME NEW S, NEW from \in Int, NEW to \in Int, NEW old, NEW new,
         Rewritten(S, from, to, old, new), \A r \in old : FactOK(r),
         \A x \in S : \A e \in x.events : Time(e) >= from /\ Time(e) < to,
         \A x, y \in S : x.id # y.id => x.events \cap y.events = {},
         \A r, q \in Live(old) : r # q => r.events \cap q.events = {},
         \A r \in Live(old) : Start(r) < from => \A e \in r.events : Time(e) < from
  PROVE  \A r, q \in Live(new) : r # q => r.events \cap q.events = {}
<1> DEFINE Before(r) == r \in Live(old) /\ (Start(r) < from \/ Start(r) >= to)
           Inside(r) == \E x \in S : r.id = x.id /\ r.events = x.events
<1>1. \A r \in Live(new) : Before(r) \/ Inside(r)
  BY DEF Rewritten, Live
<1>2. ASSUME NEW r, Before(r), NEW e \in r.events
      PROVE  e[2] = Time(e) /\ (Time(e) < from \/ ~(Time(e) < to))
  <2>1. FactOK(r) /\ e \in Events
    BY <1>2 DEF Live, FactOK, Facts
  <2>2. Time(e) \in Int /\ Start(r) \in Int /\ Start(r) <= Time(e)
    BY <2>1, EventsTyped, FactStart DEF FactOK
  <2>3. QED
    BY <1>2, <2>1, <2>2, EventsTyped
<1>3. ASSUME NEW r, NEW q, Before(r), Inside(q) PROVE r.events \cap q.events = {}
  <2>1. SUFFICES ASSUME NEW e \in r.events, e \in q.events PROVE FALSE
    OBVIOUS
  <2>2. Time(e) >= from /\ Time(e) < to
    BY <1>3, <2>1
  <2>3. Time(e) < from \/ ~(Time(e) < to)
    BY <1>2, <1>3, <2>1
  <2>4. Time(e) \in Int
    BY <1>3, <2>1, EventsTyped DEF Live, FactOK, Facts
  <2>5. QED
    BY <2>2, <2>3, <2>4
<1>4. ASSUME NEW r \in Live(new), NEW q \in Live(new), r # q
      PROVE  r.events \cap q.events = {}
  <2>1. r.id # q.id
    BY <1>4 DEF Rewritten, OneEach, Live
  <2>2. CASE Before(r) /\ Before(q)
    BY <2>2, <1>4
  <2>3. CASE Before(r) /\ Inside(q)
    BY <2>3, <1>3
  <2>4. CASE Inside(r) /\ Before(q)
    BY <2>4, <1>3
  <2>5. CASE Inside(r) /\ Inside(q)
    BY <2>1, <2>5
  <2>6. QED
    BY <1>1, <1>4, <2>2, <2>3, <2>4, <2>5
<1>5. QED
  BY <1>4

LEMMA WriteFactsRewrites ==
  ASSUME Inv1, Orderly, NEW p \in Passes, WriteFacts(p)
  PROVE  LET s == pass[p]
         IN /\ s.at = "planned" /\ s \in PassRecord /\ s.from = watermark /\ s.mark = Mark(s)
            /\ s.from \in Int /\ s.to \in Int
            /\ \A x \in Sessions(s) : Start(x) >= s.from /\ Start(x) < s.to
            /\ Rewritten(Sessions(s), s.from, s.to, facts, facts')
            /\ pass' = [pass EXCEPT ![p] = AsWritten(s)]
            /\ UNCHANGED <<now, events, watermark>>
<1> DEFINE s == pass[p]
<1>1. /\ s.at = "planned" /\ s \in PassRecord /\ pass' = [pass EXCEPT ![p] = AsWritten(s)]
      /\ facts' = Supersede(facts, s.rows, FactId, FactVersion)
      /\ UNCHANGED <<now, events, watermark>>
  BY DEF WriteFacts, Inv1, Typed, AsWritten
<1>2. /\ s.from = watermark /\ s.mark = Mark(s)
      /\ IsPlan(Sessions(s), Within(facts, s.from, s.to), s.rows)
  BY <1>1 DEF Orderly, PassGoesOn
<1>3. s.from \in Times /\ s.to \in Times
  BY <1>1 DEF PassRecord
<1>4. s.from \in Int /\ s.to \in Int
  BY <1>3, TimesAreNat, Zenon
<1>5. s.from <= s.started /\ s.to <= s.started
  BY <1>1 DEF Inv1, PassOK
<1>6. \A x \in Sessions(s) : Start(x) >= s.from /\ Start(x) < s.to
  BY <1>1, <1>5, MarkIs
<1> HIDE DEF s
<1>7. Rewritten(Sessions(s), s.from, s.to, facts, facts')
  <2>1. Stored /\ OneEach(facts)
    BY DEF Inv1, Orderly
  <2>2. QED
    BY <1>1, <1>2, <1>4, <1>6, <2>1, WriteEffect
<1>8. QED
  BY <1>1, <1>2, <1>4, <1>6, <1>7 DEF s

\* No rewritten session straddles where the pass plans the watermark next.
LEMMA RewrittenBehind ==
  ASSUME Inv1, Orderly, NEW p \in Passes, WriteFacts(p), NEW t,
         t = pass[p].from \/ t = Mark(pass[p])
  PROVE  Behind(t)'
<1> DEFINE s == pass[p]
<1>1. /\ s.at = "planned" /\ s \in PassRecord /\ s.from = watermark /\ s.from \in Int /\ s.to \in Int
      /\ \A x \in Sessions(s) : Start(x) >= s.from /\ Start(x) < s.to
      /\ Rewritten(Sessions(s), s.from, s.to, facts, facts')
      /\ UNCHANGED <<now, events, watermark>>
  BY WriteFactsRewrites
<1>2. s.started \in Int /\ s.started <= now /\ now \in Int /\ s.from <= s.started /\ s.to <= s.started
  <2>1. s.started \in Times /\ now \in Times
    BY <1>1 DEF PassRecord, Inv1, Typed
  <2>2. s.started \in Int /\ now \in Int
    BY <2>1, TimesAreNat, Zenon
  <2>3. QED
    BY <1>1, <2>2 DEF Inv1, PassOK
<1>3. Lateness \in Nat /\ Inactivity \in Nat /\ Inactivity > 0
  BY Constants
<1>4. /\ t \in Int /\ t >= s.from
      /\ t = s.from \/ (t <= s.to - Inactivity /\ t <= s.started - Lateness - Inactivity)
      /\ \A x \in Sessions(s) : Start(x) < t => \A e \in x.events : Time(e) < t
  <2>1. CASE t = s.from
    <3>1. \A x \in Sessions(s) : ~(Start(x) < t)
      <4>1. \A x \in Sessions(s) : Start(x) \in Int
        BY <1>1, SessionsOfWindow, SessionStart DEF Sessions
      <4>2. QED
        BY <1>1, <2>1, <4>1
    <3>2. QED
      BY <1>1, <2>1, <3>1
  <2>2. CASE t = Mark(s)
    <3>1. /\ Mark(s) \in Times /\ Mark(s) >= s.from
          /\ Mark(s) = s.from \/ (Mark(s) <= s.to - Inactivity /\ Mark(s) <= s.started - Lateness - Inactivity)
          /\ \A x \in Sessions(s) : Start(x) < Mark(s) => \A e \in x.events : Time(e) < Mark(s)
      BY <1>1, <1>2, MarkIs
    <3>2. QED
      BY <2>2, <3>1, TimesAreNat
  <2>3. QED
    BY <2>1, <2>2
<1>5. \A r \in Live(facts) : Start(r) \in Int /\ r.events \subseteq Events
                             /\ \A e \in r.events : Start(r) <= Time(e) /\ Time(e) \in Int
  <2>1. SUFFICES ASSUME NEW r \in Live(facts)
                 PROVE  Start(r) \in Int /\ r.events \subseteq Events
                        /\ \A e \in r.events : Start(r) <= Time(e) /\ Time(e) \in Int
    OBVIOUS
  <2>2. FactOK(r)
    BY DEF Live, Inv1, Stored
  <2>3. r.events \subseteq Events /\ \A e \in r.events : Start(r) <= Time(e)
    BY <2>2 DEF FactOK, Facts
  <2>4. QED
    BY <2>2, <2>3, FactStart, EventsTyped
<1>6. \A r \in Live(facts) : Start(r) < s.from => \A e \in r.events : Time(e) < s.from
  BY <1>1 DEF Orderly, Behind
<1>8. Behind(t)'
  <2>1. SUFFICES ASSUME NEW r \in Live(facts'), Start(r) < t, NEW e \in r.events
                 PROVE  Time(e) < t
    BY DEF Behind
  <2>2. CASE \E x \in Sessions(s) : r.id = x.id /\ r.events = x.events
    <3>1. PICK x \in Sessions(s) : r.id = x.id /\ r.events = x.events
      BY <2>2
    <3>2. Start(x) = Start(r)
      BY <3>1 DEF Start
    <3> HIDE DEF s
    <3>3. QED
      BY <1>4, <2>1, <3>1, <3>2
  <2>3. CASE r \in facts /\ (Start(r) < s.from \/ Start(r) >= s.to)
    <3>1. r \in Live(facts)
      BY <2>3 DEF Live
    <3>2. Start(r) \in Int /\ Time(e) \in Int
      BY <1>5, <2>1, <3>1
    <3> HIDE DEF s
    <3>3. Start(r) < s.from
      BY <1>1, <1>3, <1>4, <2>1, <2>3, <3>2
    <3>4. Time(e) < s.from
      BY <1>6, <2>1, <3>1, <3>3
    <3>5. QED
      BY <1>1, <1>4, <3>2, <3>4
  <2>4. QED
    BY <1>1, <2>2, <2>3 DEF Rewritten
<1>9. QED
  BY <1>8

LEMMA OrderlyWriteFacts ==
  ASSUME Inv1, Orderly, NEW p \in Passes, WriteFacts(p)
  PROVE  Orderly'
<1> DEFINE s == pass[p]
           r == AsWritten(s)
<1>1. /\ s.at = "planned" /\ s \in PassRecord /\ s.from = watermark /\ s.mark = Mark(s)
      /\ s.from \in Int /\ s.to \in Int
      /\ Rewritten(Sessions(s), s.from, s.to, facts, facts')
      /\ pass' = [pass EXCEPT ![p] = r]
      /\ UNCHANGED <<now, events, watermark>>
  BY WriteFactsRewrites
<1>2. r.at = "written" /\ r.mark = s.mark /\ r.from = s.from
  BY <1>1, WrittenRecord
<1> HIDE DEF r
<1>3. pass'[p] = r /\ \A q \in Passes \ {p} : pass'[q] = pass[q]
  BY <1>1 DEF Inv1, Typed
<1>4. \A q \in Passes \ {p} : pass[q].at = "idle"
  BY <1>1 DEF Orderly, Single, Running
<1>5. Single'
  BY <1>3, <1>4 DEF Single, Running
<1>6. OneEach(facts')
  BY <1>1 DEF Rewritten
<1>7. Apiece'
  <2>1. \A x \in facts : FactOK(x)
    BY DEF Inv1, Stored
  <2>2. \A x, y \in Live(facts) : x # y => x.events \cap y.events = {}
    BY DEF Orderly, Apiece
  <2>3. \A x \in Live(facts) : Start(x) < s.from => \A e \in x.events : Time(e) < s.from
    BY <1>1 DEF Orderly, Behind
  <2>4. /\ \A x \in Sessions(s) : \A e \in x.events : Time(e) >= s.from /\ Time(e) < s.to
        /\ \A x, y \in Sessions(s) : x.id # y.id => x.events \cap y.events = {}
    BY <1>1, SessionsOfWindow
  <2>5. PICK new : new = facts'
    OBVIOUS
  <2> HIDE DEF s
  <2>6. \A x, y \in Live(new) : x # y => x.events \cap y.events = {}
    BY <1>1, <2>1, <2>2, <2>3, <2>4, <2>5, RewrittenApiece
  <2>7. QED
    BY <2>5, <2>6 DEF Apiece
<1>8. Behind(watermark)'
  <2>1. PICK t : t = s.from
    OBVIOUS
  <2>2. Behind(t)'
    BY <2>1, RewrittenBehind
  <2>3. t = watermark'
    BY <1>1, <2>1
  <2>4. QED
    BY <2>2, <2>3 DEF Behind
<1>9. PassGoesOn(pass[p])'
  <2>1. PICK t : t = Mark(s)
    OBVIOUS
  <2>2. Behind(t)'
    BY <2>1, RewrittenBehind
  <2>3. pass'[p].mark = t /\ pass'[p].at = "written" /\ pass'[p].from = watermark'
    BY <1>1, <1>2, <1>3, <2>1
  <2>4. t >= s.from
    BY <1>1, <2>1, MarkIs DEF Inv1, PassOK
  <2>5. pass'[p].mark >= pass'[p].from
    BY <1>2, <1>3, <2>3, <2>4
  <2>6. QED
    BY <2>2, <2>3, <2>5 DEF PassGoesOn, Behind
<1>10. \A q \in Passes \ {p} : PassGoesOn(pass[q])'
  BY <1>3, <1>4 DEF PassGoesOn
<1>11. QED
  BY <1>5, <1>6, <1>7, <1>8, <1>9, <1>10 DEF Orderly

\* The pass ends: what it wrote is behind the watermark, which moves up to its mark.
LEMMA OrderlyAdvance ==
  ASSUME Inv1, Orderly, NEW p \in Passes, Advance(p)
  PROVE  Orderly'
<1> DEFINE s == pass[p]
<1>1. /\ s.at = "swapped" /\ pass' = [pass EXCEPT ![p] = Idle]
      /\ UNCHANGED <<now, events, facts>>
      /\ watermark' = MaxOf({watermark, s.mark}) \/ watermark' = watermark
  BY DEF Advance
<1>2. pass'[p] = Idle /\ \A q \in Passes \ {p} : pass'[q] = pass[q]
  BY <1>1 DEF Inv1, Typed
<1>3. \A q \in Passes \ {p} : pass[q].at = "idle"
  BY <1>1 DEF Orderly, Single, Running
<1>4. \A q \in Passes : pass'[q].at = "idle"
  BY <1>2, <1>3 DEF Idle
<1>5. Single' /\ \A q \in Passes : PassGoesOn(pass[q])'
  BY <1>4 DEF Single, Running, PassGoesOn
<1>6. OneEach(facts') /\ Apiece'
  BY <1>1 DEF Orderly, Apiece
<1>7. Behind(watermark')
  <2>1. CASE watermark' = watermark
    BY <2>1 DEF Orderly
  <2>2. CASE watermark' = MaxOf({watermark, s.mark})
    <3>1. s.mark >= s.from /\ s.from = watermark /\ Behind(s.mark)
      BY <1>1 DEF Orderly, PassGoesOn
    <3>2. s.mark \in Times /\ watermark \in Times
      BY DEF Inv1, Typed, PassRecord
    <3>3. s.mark \in Int /\ watermark \in Int
      BY <3>2, TimesAreNat, Zenon
    <3>4. MaxOf({watermark, s.mark}) = IF watermark >= s.mark THEN watermark ELSE s.mark
      BY <3>3, MaxOfTwo
    <3> HIDE DEF s
    <3>5. watermark' = s.mark
      BY <2>2, <3>1, <3>3, <3>4
    <3>6. QED
      BY <3>1, <3>5
  <2>3. QED
    BY <1>1, <2>1, <2>2
<1>8. Behind(watermark)'
  BY <1>1, <1>7 DEF Behind
<1>9. QED
  BY <1>5, <1>6, <1>8 DEF Orderly

\* Passes that end early leave what they wrote.
LEMMA OrderlyEnds ==
  ASSUME Inv1, Orderly, NEW P \in SUBSET Passes,
         pass' = [p \in Passes |-> IF p \in P THEN Idle ELSE pass[p]],
         Onward
  PROVE  Orderly'
<1>1. /\ \A q \in Passes \ P : pass'[q] = pass[q]
      /\ \A q \in P : pass'[q].at = "idle"
  BY DEF Idle
<1>2. \A q \in P : PassGoesOn(pass[q])' /\ ~Running(q)'
  BY <1>1 DEF PassGoesOn, Running
<1>3. QED
  BY <1>1, <1>2, OrderlyStep

LEMMA OrderlyNext == Inv1 /\ Inv3 /\ [Next]_vars => Inv3'
<1> SUFFICES ASSUME Inv1, Inv3, [Next]_vars, ~overlapped' PROVE Orderly'
  BY DEF Inv3
<1>1. ASSUME NEW p \in Passes, NEW n \in Names, Claim(p, n) PROVE Orderly'
  BY <1>1, OrderlyClaim
<1>2. ASSUME NEW p \in Passes, Step(p) PROVE Orderly'
  <2>1. Orderly
    BY <1>2 DEF Inv3, Step, ReadEvents, Plan, WriteFacts, ReadRollups, WriteRollups, Advance
  <2>2. QED
    BY <1>2, <2>1, OrderlyReadEvents, OrderlyPlan, OrderlyWriteFacts, OrderlyReadRollups,
       OrderlyWriteRollups, OrderlyAdvance DEF Step
<1>3. ASSUME NEW p \in Passes, Fail(p) PROVE Orderly'
  <2>1. Orderly /\ pass' = [pass EXCEPT ![p] = Idle] /\ Onward
    BY <1>3 DEF Inv3, Fail, Onward
  <2>2. pass' = [q \in Passes |-> IF q \in {p} THEN Idle ELSE pass[q]]
    BY <2>1 DEF Inv1, Typed
  <2>3. QED
    BY <2>1, <2>2, OrderlyEnds
<1>4. ASSUME NEW n \in Names, Crash(n) PROVE Orderly'
  <2>1. Orderly /\ Mine(n) \in SUBSET Passes /\ Onward
    BY <1>4, CrashDoes DEF Inv3, Mine, Onward
  <2>2. QED
    BY <1>4, <2>1, CrashDoes, OrderlyEnds
<1>5. CASE (\E e \in Events : Arrive(e)) \/ Tick \/ UNCHANGED vars
  <2>1. Orderly /\ Onward /\ pass' = pass
    BY <1>5 DEF Inv3, Arrive, Tick, vars, Onward
  <2>2. QED
    BY <2>1, OrderlyStands
<1>6. QED
  BY <1>1, <1>2, <1>3, <1>4, <1>5 DEF Next

LEMMA OrderlyAlways == Spec => []Inv3
BY OrderlyInit, TypedAlways, OrderlyNext, PTL DEF Spec

\* While passes never overlap no event is in two current sessions: what a pass writes over
\* its window stays clear of the sessions before the watermark and after the window, for
\* whatever events arrive late, wherever the read is cut and wherever a pass fails.
THEOREM EventsCountOnce == Spec => []NoEventTwice
<1>1. Inv3 => NoEventTwice
  BY DEF Inv3, Orderly, Apiece, NoEventTwice
<1>2. QED
  BY <1>1, OrderlyAlways, PTL

-----------------------------------------------------------------------------
(* Sessions are local: those over by t do not depend on the events from t on, and a        *)
(* window that begins where no session straddles has the sessions that all events have.    *)

LEMMA StartFirst ==
  ASSUME NEW T \in SUBSET Times, NEW t \in T, \A v \in T : ~(v < t)
  PROVE  StartsAt(T)[t] = t
<1>1. StartsAt(T)[t] = StartOf(T, StartsAt(T), t)
  BY StartsAtIs
<1>2. {u \in T : u < t} = {}
  OBVIOUS
<1>3. QED
  BY <1>1, <1>2 DEF StartOf

LEMMA StartNext ==
  ASSUME NEW T \in SUBSET Times, NEW t \in T, NEW l \in T, l < t, \A v \in T : v < t => v <= l
  PROVE  StartsAt(T)[t] = IF t - l > Inactivity \/ t - StartsAt(T)[l] >= Cap
                            THEN t ELSE StartsAt(T)[l]
<1>1. StartsAt(T)[t] = StartOf(T, StartsAt(T), t)
  BY StartsAtIs
<1> DEFINE S == {u \in T : u < t}
           m == MaxOf(S)
<1>2. S # {} /\ l \in S
  OBVIOUS
<1>3. m = l
  <2>1. S \in SUBSET Int /\ t \in Int /\ l \in Int /\ \A x \in S : x <= l
    BY TimesAreNat
  <2> HIDE DEF S
  <2>2. MaxOf(S) \in S /\ \A y \in S : MaxOf(S) >= y
    BY <1>2, <2>1, MaxOfIs
  <2>3. MaxOf(S) >= l /\ MaxOf(S) <= l /\ MaxOf(S) \in Int
    BY <1>2, <2>1, <2>2
  <2>4. QED
    BY <2>1, <2>3
<1>4. StartOf(T, StartsAt(T), t)
        = IF t - m > Inactivity \/ t - StartsAt(T)[m] >= Cap THEN t ELSE StartsAt(T)[m]
  <2> HIDE DEF m
  <2>1. QED
    BY <1>2 DEF StartOf, m
<1>5. QED
  BY <1>1, <1>3, <1>4

LEMMA HasLast ==
  ASSUME NEW T \in SUBSET Times, NEW t \in T, NEW v \in T, v < t
  PROVE  \E l \in T : l < t /\ \A u \in T : u < t => u <= l
<1> DEFINE S == {u \in T : u < t}
<1>1. S \in SUBSET Int /\ t \in Int /\ (\A x \in S : x <= t) /\ S # {}
  <2>1. t \in Int /\ v \in S /\ \A x \in S : x \in Int /\ x < t
    BY TimesAreNat
  <2> HIDE DEF S
  <2>2. QED
    BY <2>1
<1> HIDE DEF S
<1>2. PICK l \in S : \A y \in S : l >= y
  BY <1>1, IntMax
<1>3. \A y \in S : y <= l
  BY <1>1, <1>2
<1>4. QED
  BY <1>2, <1>3 DEF S

\* An event opens a session or joins that of the event before it.
LEMMA StartJoins ==
  ASSUME NEW T \in SUBSET Times, NEW t \in T, StartsAt(T)[t] # t
  PROVE  \E l \in T : /\ l < t /\ \A u \in T : u < t => u <= l
                      /\ t - l <= Inactivity /\ t - StartsAt(T)[l] < Cap
                      /\ StartsAt(T)[t] = StartsAt(T)[l]
<1>1. PICK v \in T : v < t
  BY StartFirst
<1>2. PICK l \in T : l < t /\ \A u \in T : u < t => u <= l
  BY <1>1, HasLast
<1>3. StartsAt(T)[t] = IF t - l > Inactivity \/ t - StartsAt(T)[l] >= Cap
                         THEN t ELSE StartsAt(T)[l]
  BY <1>2, StartNext
<1>4. ~(t - l > Inactivity) /\ ~(t - StartsAt(T)[l] >= Cap) /\ StartsAt(T)[t] = StartsAt(T)[l]
  BY <1>3
<1>5. t \in Int /\ l \in Int /\ StartsAt(T)[l] \in Int /\ Inactivity \in Int /\ Cap \in Int
  <2>1. StartsAt(T)[l] \in T
    BY StartsAtFacts
  <2>2. T \subseteq Int
    BY TimesAreNat
  <2>3. t \in Int /\ l \in Int /\ StartsAt(T)[l] \in Int
    BY <2>1, <2>2
  <2>4. Inactivity \in Int /\ Cap \in Int
    BY Constants
  <2>5. QED
    BY <2>3, <2>4
<1>6. QED
  BY <1>2, <1>4, <1>5

\* No session that starts before t goes on from t.
CleanTimes(T, t) == \A u \in T : u >= t => StartsAt(T)[u] >= t

LEMMA StartsSame ==
  ASSUME NEW T1 \in SUBSET Times, NEW T2 \in SUBSET Times, NEW a \in Int, NEW b \in Int,
         \A u \in Times : u >= a /\ u < b => (u \in T1 <=> u \in T2),
         CleanTimes(T1, a), CleanTimes(T2, a),
         NEW t \in T1, t >= a, t < b
  PROVE  StartsAt(T1)[t] = StartsAt(T2)[t]
<1> DEFINE Bad == {u \in T1 : u >= a /\ u < b /\ StartsAt(T1)[u] # StartsAt(T2)[u]}
<1>1. SUFFICES ASSUME Bad # {} PROVE FALSE
  OBVIOUS
<1>2. PICK u \in Bad : \A k \in Bad : u <= k
  <2>1. Bad \in SUBSET Nat
    BY TimesAreNat
  <2> HIDE DEF Bad
  <2>2. QED
    BY <1>1, <2>1, NatMin
<1>3. /\ u \in T1 /\ u \in T2 /\ u \in Int /\ u >= a /\ u < b
      /\ StartsAt(T1)[u] # StartsAt(T2)[u]
  BY TimesAreNat
<1>4. CASE \E v \in T1 : v < u /\ v >= a
  <2>1. PICK v \in T1 : v < u /\ v >= a
    BY <1>4
  <2>2. PICK l \in T1 : l < u /\ \A w \in T1 : w < u => w <= l
    BY <1>3, <2>1, HasLast
  <2>3. l \in Int /\ l >= a /\ l < b /\ l \in T2
    <3>1. l \in Int /\ v \in Int /\ v <= l
      BY <2>1, <2>2, TimesAreNat
    <3>2. l >= a /\ l < b
      BY <1>3, <2>1, <2>2, <3>1
    <3>3. QED
      BY <3>1, <3>2
  <2>4. \A w \in T2 : w < u => w <= l
    <3>1. SUFFICES ASSUME NEW w \in T2, w < u PROVE w <= l
      OBVIOUS
    <3>2. w \in Int /\ w \in Times
      BY TimesAreNat
    <3>3. CASE w >= a
      <4>1. w < b
        BY <1>3, <3>1, <3>2
      <4>2. w \in T1
        BY <3>2, <3>3, <4>1
      <4>3. QED
        BY <2>2, <3>1, <4>2
    <3>4. CASE ~(w >= a)
      BY <2>3, <3>2, <3>4
    <3>5. QED
      BY <3>3, <3>4
  <2>5. StartsAt(T1)[l] = StartsAt(T2)[l]
    <3>1. l \notin Bad
      <4> HIDE DEF Bad
      <4>1. QED
        BY <1>2, <1>3, <2>2, <2>3
    <3>2. QED
      BY <2>2, <2>3, <3>1
  <2>6. StartsAt(T1)[u] = IF u - l > Inactivity \/ u - StartsAt(T1)[l] >= Cap
                            THEN u ELSE StartsAt(T1)[l]
    BY <1>3, <2>2, StartNext
  <2>7. StartsAt(T2)[u] = IF u - l > Inactivity \/ u - StartsAt(T2)[l] >= Cap
                            THEN u ELSE StartsAt(T2)[l]
    BY <1>3, <2>2, <2>3, <2>4, StartNext
  <2>8. QED
    BY <1>3, <2>5, <2>6, <2>7
<1>5. CASE ~\E v \in T1 : v < u /\ v >= a
  <2>1. ASSUME NEW T \in SUBSET Times, u \in T, CleanTimes(T, a), ~\E v \in T : v < u /\ v >= a
        PROVE  StartsAt(T)[u] = u
    <3>1. StartsAt(T)[u] \in T /\ StartsAt(T)[u] <= u
      BY <2>1, StartsAtFacts
    <3>2. StartsAt(T)[u] >= a
      BY <1>3, <2>1 DEF CleanTimes
    <3>3. StartsAt(T)[u] \in Int
      BY <3>1, TimesAreNat
    <3>4. QED
      BY <1>3, <2>1, <3>1, <3>2, <3>3
  <2>2. ~\E v \in T2 : v < u /\ v >= a
    <3>1. SUFFICES ASSUME NEW v \in T2, v < u, v >= a PROVE FALSE
      OBVIOUS
    <3>2. v \in Int /\ v \in Times
      BY TimesAreNat
    <3>3. v < b
      BY <1>3, <3>1, <3>2
    <3>4. QED
      BY <1>5, <3>1, <3>2, <3>3
  <2>3. QED
    BY <1>3, <1>5, <2>1, <2>2
<1>6. QED
  BY <1>4, <1>5

\* Later events leave a cut clean: one that is near enough to join is there already.
LEMMA CleanExtends ==
  ASSUME NEW T1 \in SUBSET Times, NEW T2 \in SUBSET Times, NEW a \in Int, NEW t \in Int, a <= t,
         \A u \in Times : u >= a /\ u < t + Inactivity => (u \in T1 <=> u \in T2),
         CleanTimes(T1, a), CleanTimes(T2, a), CleanTimes(T1, t)
  PROVE  CleanTimes(T2, t)
<1> DEFINE Bad == {u \in T2 : u >= t /\ StartsAt(T2)[u] < t}
<1>1. ASSUME Bad # {} PROVE FALSE
  <2>1. PICK u \in Bad : \A k \in Bad : u <= k
    <3>1. Bad \in SUBSET Nat
      BY TimesAreNat
    <3> HIDE DEF Bad
    <3>2. QED
      BY <1>1, <3>1, NatMin
  <2>2. u \in T2 /\ u \in Int /\ u \in Times /\ u >= t /\ StartsAt(T2)[u] < t
    BY TimesAreNat
  <2>3. PICK l \in T2 : l < u /\ u - l <= Inactivity /\ StartsAt(T2)[u] = StartsAt(T2)[l]
    <3>1. StartsAt(T2)[u] # u
      BY <2>2
    <3>2. QED
      BY <2>2, <3>1, StartJoins
  <2>4. l \in Int /\ Inactivity \in Int
    BY TimesAreNat, Constants
  <2>5. l < t
    <3>1. l \notin Bad
      <4> HIDE DEF Bad
      <4>1. QED
        BY <2>1, <2>2, <2>3, <2>4
    <3>2. ~(l >= t)
      BY <2>2, <2>3, <3>1
    <3>3. QED
      BY <2>4, <3>2
  <2>6. u < t + Inactivity /\ u >= a
    BY <2>2, <2>3, <2>4, <2>5
  <2>7. u \in T1
    BY <2>2, <2>6
  <2>8. StartsAt(T1)[u] = StartsAt(T2)[u]
    <3>1. t + Inactivity \in Int
      BY <2>4
    <3>2. QED
      BY <2>6, <2>7, <3>1, StartsSame
  <2>9. StartsAt(T1)[u] >= t
    BY <2>2, <2>7 DEF CleanTimes
  <2>10. StartsAt(T1)[u] \in Int
    BY <2>7, StartsAtFacts, TimesAreNat
  <2>11. QED
    BY <2>2, <2>8, <2>9, <2>10
<1>2. ASSUME NEW u \in T2, u >= t PROVE StartsAt(T2)[u] >= t
  <2>1. ~(StartsAt(T2)[u] < t)
    BY <1>1, <1>2
  <2>2. StartsAt(T2)[u] \in Int
    BY StartsAtFacts, TimesAreNat
  <2>3. QED
    BY <2>1, <2>2
<1>3. QED
  BY <1>2 DEF CleanTimes

\* So do fewer events: what joins across a gap also joins across part of it.
LEMMA CleanRestricts ==
  ASSUME NEW T1 \in SUBSET Times, NEW T2 \in SUBSET T1, NEW a \in Int, NEW t \in Int, a <= t,
         \A u \in Times : u >= a /\ u < t => (u \in T1 <=> u \in T2),
         CleanTimes(T1, a), CleanTimes(T2, a), CleanTimes(T1, t)
  PROVE  CleanTimes(T2, t)
<1>0. T2 \in SUBSET Times
  OBVIOUS
<1> DEFINE Bad == {u \in T2 : u >= t /\ StartsAt(T2)[u] < t}
<1>1. ASSUME Bad # {} PROVE FALSE
  <2>1. PICK u \in Bad : \A k \in Bad : u <= k
    <3>1. Bad \in SUBSET Nat
      BY TimesAreNat
    <3> HIDE DEF Bad
    <3>2. QED
      BY <1>1, <3>1, NatMin
  <2>2. u \in T2 /\ u \in T1 /\ u \in Int /\ u >= t /\ StartsAt(T2)[u] < t
    BY TimesAreNat
  <2>3. PICK l \in T2 : /\ l < u /\ \A v \in T2 : v < u => v <= l
                        /\ u - l <= Inactivity /\ u - StartsAt(T2)[l] < Cap
                        /\ StartsAt(T2)[u] = StartsAt(T2)[l]
    <3>1. StartsAt(T2)[u] # u
      BY <2>2
    <3>2. QED
      BY <1>0, <2>2, <3>1, StartJoins
  <2>4. l \in Int /\ l \in T1 /\ l \in Times /\ Inactivity \in Int /\ Cap \in Int
    BY TimesAreNat, Constants
  <2>5. l < t
    <3>1. l \notin Bad
      <4> HIDE DEF Bad
      <4>1. QED
        BY <2>1, <2>2, <2>3, <2>4
    <3>2. ~(l >= t)
      BY <2>2, <2>3, <3>1
    <3>3. QED
      BY <2>4, <3>2
  <2>6. StartsAt(T2)[l] \in Int /\ StartsAt(T2)[l] <= l /\ StartsAt(T2)[l] >= a
    <3>1. StartsAt(T2)[l] \in T2 /\ StartsAt(T2)[l] <= l
      BY <1>0, StartsAtFacts
    <3>2. u >= a
      BY <2>2
    <3>3. StartsAt(T2)[u] >= a
      BY <2>2, <3>2 DEF CleanTimes
    <3>4. QED
      BY <2>3, <3>1, <3>3, TimesAreNat
  <2>7. l >= a
    BY <2>4, <2>6
  <2>8. StartsAt(T1)[l] = StartsAt(T2)[l]
    BY <1>0, <2>4, <2>5, <2>7, StartsSame
  <2>9. PICK w \in {v \in T1 : v >= t} : \A k \in {v \in T1 : v >= t} : w <= k
    <3>1. {v \in T1 : v >= t} \in SUBSET Nat /\ {v \in T1 : v >= t} # {}
      BY <2>2, TimesAreNat
    <3>2. QED
      BY <3>1, NatMin
  <2>10. w \in T1 /\ w >= t /\ w <= u /\ w \in Int
    BY <2>2, <2>9, TimesAreNat
  <2>11. l < w
    BY <2>4, <2>5, <2>10
  <2>12. \A v \in T1 : v < w => v <= l
    <3>1. SUFFICES ASSUME NEW v \in T1, v < w PROVE v <= l
      OBVIOUS
    <3>2. v \in Int /\ v \in Times
      BY TimesAreNat
    <3>3. v < t
      <4>1. ~(v >= t)
        BY <2>9, <2>10, <3>1, <3>2
      <4>2. QED
        BY <3>2, <4>1
    <3>4. CASE v >= a
      <4>1. v \in T2 /\ v < u
        BY <2>2, <2>10, <3>2, <3>3, <3>4
      <4>2. QED
        BY <2>3, <4>1
    <3>5. CASE ~(v >= a)
      BY <2>4, <2>7, <3>2, <3>5
    <3>6. QED
      BY <3>4, <3>5
  <2>13. StartsAt(T1)[w] = IF w - l > Inactivity \/ w - StartsAt(T1)[l] >= Cap
                             THEN w ELSE StartsAt(T1)[l]
    BY <2>4, <2>10, <2>11, <2>12, StartNext
  <2>14. ~(w - l > Inactivity) /\ ~(w - StartsAt(T1)[l] >= Cap)
    BY <2>2, <2>3, <2>4, <2>6, <2>8, <2>10
  <2>15. StartsAt(T1)[w] = StartsAt(T1)[l]
    BY <2>13, <2>14
  <2>16. StartsAt(T1)[w] >= t
    BY <2>10 DEF CleanTimes
  <2>17. QED
    BY <2>4, <2>5, <2>6, <2>8, <2>15, <2>16
<1>2. ASSUME NEW u \in T2, u >= t PROVE StartsAt(T2)[u] >= t
  <2>1. ~(StartsAt(T2)[u] < t)
    BY <1>1, <1>2
  <2>2. StartsAt(T2)[u] \in Int
    BY <1>0, StartsAtFacts, TimesAreNat
  <2>3. QED
    BY <2>1, <2>2
<1>3. QED
  BY <1>2 DEF CleanTimes

TimesOf(E, v) == {Time(f) : f \in {g \in E : g[1] = v}}

\* No session of the events E goes on from t.
Clean(E, t) == \A e \in E : Time(e) >= t => SessionOf(E, e)[2] >= t

\* E and F hold the same events from a on, before b.
Agree(E, F, a, b) == \A e \in Events : Time(e) >= a /\ Time(e) < b => (e \in E <=> e \in F)

LEMMA TimesOfEvents ==
  ASSUME NEW E \in SUBSET Events, NEW v
  PROVE  /\ TimesOf(E, v) \in SUBSET Times
         /\ \A e \in E : e[1] = v => Time(e) \in TimesOf(E, v)
                                     /\ SessionOf(E, e) = <<v, StartsAt(TimesOf(E, v))[Time(e)]>>
         /\ \A t \in TimesOf(E, v) : <<v, t>> \in E /\ Time(<<v, t>>) = t
<1>1. TimesOf(E, v) \in SUBSET Times
  BY EventsTyped DEF TimesOf
<1>2. \A e \in E : e[1] = v => Time(e) \in TimesOf(E, v)
                               /\ SessionOf(E, e) = <<v, StartsAt(TimesOf(E, v))[Time(e)]>>
  BY DEF TimesOf, SessionOf
<1>3. ASSUME NEW t \in TimesOf(E, v) PROVE <<v, t>> \in E /\ Time(<<v, t>>) = t
  <2>1. PICK e \in E : e[1] = v /\ t = Time(e)
    BY DEF TimesOf
  <2>2. e = <<v, t>>
    BY <2>1, EventsTyped
  <2>3. QED
    BY <2>1, <2>2
<1>4. QED
  BY <1>1, <1>2, <1>3

LEMMA CleanIs ==
  ASSUME NEW E \in SUBSET Events, NEW t
  PROVE  Clean(E, t) <=> \A v \in Visitors : CleanTimes(TimesOf(E, v), t)
<1>1. ASSUME Clean(E, t), NEW v \in Visitors, NEW u \in TimesOf(E, v), u >= t
      PROVE  StartsAt(TimesOf(E, v))[u] >= t
  <2> DEFINE e == <<v, u>>
  <2>1. e \in E /\ Time(e) = u /\ e[1] = v
    BY <1>1, TimesOfEvents
  <2>2. SessionOf(E, e) = <<v, StartsAt(TimesOf(E, v))[u]>>
    BY <2>1, TimesOfEvents
  <2>3. SessionOf(E, e)[2] >= t
    BY <1>1, <2>1 DEF Clean
  <2>4. QED
    BY <2>2, <2>3
<1>2. ASSUME \A v \in Visitors : CleanTimes(TimesOf(E, v), t), NEW e \in E, Time(e) >= t
      PROVE  SessionOf(E, e)[2] >= t
  <2>1. e[1] \in Visitors
    BY EventsTyped
  <2>2. /\ Time(e) \in TimesOf(E, e[1])
        /\ SessionOf(E, e) = <<e[1], StartsAt(TimesOf(E, e[1]))[Time(e)]>>
    BY DEF TimesOf, SessionOf
  <2>3. StartsAt(TimesOf(E, e[1]))[Time(e)] >= t
    BY <1>2, <2>1, <2>2 DEF CleanTimes
  <2>4. QED
    BY <2>2, <2>3
<1>3. QED
  BY <1>1, <1>2 DEF Clean, CleanTimes

LEMMA TimesAgree ==
  ASSUME NEW E \in SUBSET Events, NEW F \in SUBSET Events, NEW a, NEW b, Agree(E, F, a, b), NEW v
  PROVE  \A u \in Times : u >= a /\ u < b => (u \in TimesOf(E, v) <=> u \in TimesOf(F, v))
<1>1. ASSUME NEW X \in SUBSET Events, NEW Y \in SUBSET Events, Agree(X, Y, a, b),
             NEW u \in TimesOf(X, v), u >= a, u < b
      PROVE  u \in TimesOf(Y, v)
  <2> DEFINE e == <<v, u>>
  <2>1. e \in X /\ Time(e) = u /\ e[1] = v
    BY <1>1, TimesOfEvents
  <2>2. e \in Y
    BY <1>1, <2>1 DEF Agree
  <2>3. QED
    BY <2>1, <2>2, TimesOfEvents
<1>2. Agree(F, E, a, b)
  BY DEF Agree
<1>3. QED
  BY <1>1, <1>2

\* Between clean cuts an event's session depends on the events between them alone.
LEMMA SessionSame ==
  ASSUME NEW E \in SUBSET Events, NEW F \in SUBSET Events, NEW a \in Int, NEW b \in Int,
         Agree(E, F, a, b), Clean(E, a), Clean(F, a), NEW e \in E, Time(e) >= a, Time(e) < b
  PROVE  SessionOf(E, e) = SessionOf(F, e)
<1> DEFINE v == e[1]
<1>1. v \in Visitors /\ e \in F
  BY EventsTyped DEF Agree
<1>2. /\ TimesOf(E, v) \in SUBSET Times /\ TimesOf(F, v) \in SUBSET Times
      /\ Time(e) \in TimesOf(E, v)
      /\ SessionOf(E, e) = <<v, StartsAt(TimesOf(E, v))[Time(e)]>>
      /\ SessionOf(F, e) = <<v, StartsAt(TimesOf(F, v))[Time(e)]>>
  <2>1. TimesOf(E, v) \in SUBSET Times /\ TimesOf(F, v) \in SUBSET Times
    BY TimesOfEvents
  <2>2. QED
    BY <2>1 DEF TimesOf, SessionOf
<1>3. CleanTimes(TimesOf(E, v), a) /\ CleanTimes(TimesOf(F, v), a)
  BY <1>1, CleanIs
<1>4. \A u \in Times : u >= a /\ u < b => (u \in TimesOf(E, v) <=> u \in TimesOf(F, v))
  BY TimesAgree
<1>5. StartsAt(TimesOf(E, v))[Time(e)] = StartsAt(TimesOf(F, v))[Time(e)]
  BY <1>2, <1>3, <1>4, StartsSame
<1>6. QED
  BY <1>2, <1>5

LEMMA CleanLater ==
  ASSUME NEW E \in SUBSET Events, NEW F \in SUBSET Events, NEW a \in Int, NEW t \in Int, a <= t,
         Agree(E, F, a, t + Inactivity), Clean(E, a), Clean(F, a), Clean(E, t)
  PROVE  Clean(F, t)
<1>1. ASSUME NEW v \in Visitors PROVE CleanTimes(TimesOf(F, v), t)
  <2>1. TimesOf(E, v) \in SUBSET Times /\ TimesOf(F, v) \in SUBSET Times
    BY TimesOfEvents
  <2>2. /\ CleanTimes(TimesOf(E, v), a) /\ CleanTimes(TimesOf(F, v), a)
        /\ CleanTimes(TimesOf(E, v), t)
    BY CleanIs
  <2>3. \A u \in Times : u >= a /\ u < t + Inactivity => (u \in TimesOf(E, v) <=> u \in TimesOf(F, v))
    BY TimesAgree
  <2>4. QED
    BY <2>1, <2>2, <2>3, CleanExtends
<1>2. QED
  BY <1>1, CleanIs

LEMMA CleanWithin ==
  ASSUME NEW E \in SUBSET Events, NEW F \in SUBSET E, NEW a \in Int, NEW t \in Int, a <= t,
         Agree(E, F, a, t), Clean(E, a), Clean(F, a), Clean(E, t)
  PROVE  Clean(F, t)
<1>1. F \in SUBSET Events
  OBVIOUS
<1>2. ASSUME NEW v \in Visitors PROVE CleanTimes(TimesOf(F, v), t)
  <2>1. TimesOf(E, v) \in SUBSET Times /\ TimesOf(F, v) \in SUBSET TimesOf(E, v)
    BY TimesOfEvents DEF TimesOf
  <2>2. /\ CleanTimes(TimesOf(E, v), a) /\ CleanTimes(TimesOf(F, v), a)
        /\ CleanTimes(TimesOf(E, v), t)
    BY <1>1, CleanIs
  <2>3. \A u \in Times : u >= a /\ u < t => (u \in TimesOf(E, v) <=> u \in TimesOf(F, v))
    BY <1>1, TimesAgree
  <2>4. QED
    BY <2>1, <2>2, <2>3, CleanRestricts
<1>3. QED
  BY <1>1, <1>2, CleanIs

\* Between clean cuts the sessions are those of the events between them.
LEMMA SessionsSame ==
  ASSUME NEW E \in SUBSET Events, NEW F \in SUBSET Events, NEW a \in Int, NEW b \in Int,
         Agree(E, F, a, b), Clean(E, a), Clean(F, a), Clean(E, b), Clean(F, b),
         NEW x \in Sessionize(E), Start(x) >= a, Start(x) < b
  PROVE  x \in Sessionize(F)
<1>1. PICK f \in E : x = [id |-> SessionOf(E, f), events |-> {e \in E : SessionOf(E, e) = SessionOf(E, f)}]
  BY DEF Sessionize
<1>2. x.id \in E /\ SessionOf(E, x.id) = x.id /\ Start(x) = Time(x.id) /\ x.id[2] = Start(x)
  <2>1. x.id = SessionOf(E, f)
    BY <1>1
  <2>2. QED
    BY <2>1, SessionOfFacts, SessionStart DEF Start
<1>3. x.id \in F /\ SessionOf(F, x.id) = x.id
  <2>1. SessionOf(E, x.id) = SessionOf(F, x.id)
    BY <1>2, SessionSame
  <2>2. QED
    BY <1>2, <2>1 DEF Agree
<1>4. ASSUME NEW X \in SUBSET Events, NEW Y \in SUBSET Events, Agree(X, Y, a, b),
             Clean(X, a), Clean(Y, a), Clean(X, b),
             NEW e \in X, SessionOf(X, e) = x.id
      PROVE  e \in Y /\ SessionOf(Y, e) = x.id
  <2>1. Time(e) \in Int /\ SessionOf(X, e)[2] <= Time(e)
    BY SessionOfFacts, EventsTyped
  <2>2. Time(e) >= a
    BY <1>2, <1>4, <2>1, SessionStart
  <2>3. Time(e) < b
    <3>1. ~(Start(x) >= b)
      BY SessionStart
    <3>2. ~(Time(e) >= b)
      BY <1>2, <1>4, <3>1 DEF Clean
    <3>3. QED
      BY <2>1, <3>2
  <2>4. SessionOf(X, e) = SessionOf(Y, e)
    BY <1>4, <2>2, <2>3, SessionSame
  <2>5. QED
    BY <1>4, <2>2, <2>3, <2>4 DEF Agree
<1>5. Agree(F, E, a, b)
  BY DEF Agree
<1>6. {e \in E : SessionOf(E, e) = x.id} = {e \in F : SessionOf(F, e) = x.id}
  BY <1>4, <1>5
<1>7. x = [id |-> x.id, events |-> {e \in F : SessionOf(F, e) = x.id}]
  BY <1>1, <1>6
<1>8. QED
  BY <1>3, <1>7 DEF Sessionize

LEMMA CleanAtStart ==
  ASSUME NEW E \in SUBSET Events, NEW a \in Int, \A e \in E : Time(e) >= a
  PROVE  Clean(E, a)
<1>1. ASSUME NEW e \in E PROVE SessionOf(E, e)[2] >= a
  <2>1. SessionOf(E, e) \in E
    BY SessionOfFacts
  <2>2. SessionOf(E, e)[2] = Time(SessionOf(E, e))
    BY <2>1, EventsTyped
  <2>3. QED
    BY <2>1, <2>2
<1>2. QED
  BY <1>1 DEF Clean

LEMMA CleanAtZero ==
  ASSUME NEW E \in SUBSET Events
  PROVE  Clean(E, 0)
<1>1. \A e \in E : Time(e) >= 0
  BY EventsTyped
<1>2. QED
  BY <1>1, CleanAtStart

-----------------------------------------------------------------------------
(* What a pass knows, whether or not passes overlap. *)

\* A pass has read whatever can no longer arrive, and everything if the read cannot be cut.
Informed(s) ==
  /\ s.all \subseteq events
  /\ \A e \in events \ s.all : Time(e) >= s.started - Lateness
  /\ Cardinality(events) < RowCap => s.to = s.started

OnTime(s) ==
  s.at # "idle" => /\ now <= s.started + PassTime /\ s.from <= watermark
                   /\ s.at # "claimed" => Informed(s)

Inv4 == IsFiniteSet(events) /\ \A p \in Passes : OnTime(pass[p])

\* The later steps of a pass keep what it read.
LEMMA LaterSteps ==
  ASSUME Inv1, NEW p \in Passes,
         Plan(p) \/ WriteFacts(p) \/ ReadRollups(p) \/ WriteRollups(p)
  PROVE  /\ pass[p].at \notin {"idle", "claimed"} /\ pass'[p].at \notin {"idle", "claimed"}
         /\ pass'[p].from = pass[p].from /\ pass'[p].started = pass[p].started
         /\ pass'[p].all = pass[p].all /\ pass'[p].to = pass[p].to
         /\ pass'[p].alone = pass[p].alone
         /\ \A q \in Passes \ {p} : pass'[q] = pass[q]
         /\ UNCHANGED <<now, events, lease, watermark, overlapped>>
<1> DEFINE s == pass[p]
<1>1. s \in PassRecord /\ Typed
  BY DEF Inv1, Typed
<1>2. ASSUME NEW r, pass' = [pass EXCEPT ![p] = r]
      PROVE  pass'[p] = r /\ \A q \in Passes \ {p} : pass'[q] = pass[q]
  BY <1>1, <1>2 DEF Typed
<1>3. CASE Plan(p)
  <2>1. PICK stored : pass' = [pass EXCEPT ![p] = Planned(s, stored)]
    BY <1>3, PlanDoes
  <2> DEFINE r == Planned(s, stored)
  <2>2. /\ r.at = "planned" /\ r.from = s.from /\ r.to = s.to /\ r.started = s.started
        /\ r.all = s.all /\ r.alone = s.alone
    BY <1>1 DEF Planned, AsPlanned, PassRecord
  <2>3. s.at = "read" /\ UNCHANGED <<now, events, lease, watermark, overlapped>>
    BY <1>3, PlanDoes
  <2> HIDE DEF r
  <2>4. pass'[p] = r /\ \A q \in Passes \ {p} : pass'[q] = pass[q]
    BY <1>2, <2>1 DEF r
  <2>5. QED
    BY <2>2, <2>3, <2>4
<1>4. CASE WriteFacts(p)
  <2> DEFINE r == AsWritten(s)
  <2>1. /\ s.at = "planned" /\ pass' = [pass EXCEPT ![p] = r]
        /\ UNCHANGED <<now, events, lease, watermark, overlapped>>
    BY <1>1, <1>4 DEF WriteFacts, AsWritten, Typed
  <2>2. /\ r.at = "written" /\ r.from = s.from /\ r.to = s.to /\ r.started = s.started
        /\ r.all = s.all /\ r.alone = s.alone
    BY <1>1, WrittenRecord
  <2> HIDE DEF r
  <2>3. pass'[p] = r /\ \A q \in Passes \ {p} : pass'[q] = pass[q]
    BY <1>2, <2>1
  <2>4. QED
    BY <2>1, <2>2, <2>3
<1>5. CASE ReadRollups(p)
  <2>1. PICK swap : pass' = [pass EXCEPT ![p] = AsAggregated(s, swap)]
    BY <1>5, ReadRollupsDoes
  <2> DEFINE r == AsAggregated(s, swap)
  <2>2. /\ r.at = "aggregated" /\ r.from = s.from /\ r.to = s.to /\ r.started = s.started
        /\ r.all = s.all /\ r.alone = s.alone
    BY <1>1 DEF AsAggregated, PassRecord
  <2>3. s.at = "written" /\ UNCHANGED <<now, events, lease, watermark, overlapped>>
    BY <1>5, ReadRollupsDoes
  <2> HIDE DEF r
  <2>4. pass'[p] = r /\ \A q \in Passes \ {p} : pass'[q] = pass[q]
    BY <1>2, <2>1 DEF r
  <2>5. QED
    BY <2>2, <2>3, <2>4
<1>6. CASE WriteRollups(p)
  <2> DEFINE r == AsSwapped(s)
  <2>1. /\ s.at = "aggregated" /\ pass' = [pass EXCEPT ![p] = r]
        /\ UNCHANGED <<now, events, lease, watermark, overlapped>>
    BY <1>1, <1>6 DEF WriteRollups, AsSwapped, Typed
  <2>2. /\ r.at = "swapped" /\ r.from = s.from /\ r.to = s.to /\ r.started = s.started
        /\ r.all = s.all /\ r.alone = s.alone
    BY <1>1, SwappedRecord
  <2> HIDE DEF r
  <2>3. pass'[p] = r /\ \A q \in Passes \ {p} : pass'[q] = pass[q]
    BY <1>2, <2>1
  <2>4. QED
    BY <2>1, <2>2, <2>3
<1>7. QED
  BY <1>3, <1>4, <1>5, <1>6

\* What a step may add to the events, for a pass that began before it.
Arrived ==
  /\ events \subseteq events' /\ IsFiniteSet(events')
  /\ \A e \in events' \ events : Time(e) >= now - Lateness

LEMMA InformedKept ==
  ASSUME Inv1, Inv1', Arrived, NEW s \in PassRecord, s.started <= now, Informed(s)
  PROVE  Informed(s)'
<1>1. s.all \subseteq events'
  BY DEF Arrived, Informed
<1>2. s.started \in Int /\ now \in Int /\ Lateness \in Int
  <2>1. s.started \in Times /\ now \in Times
    BY DEF Inv1, Typed, PassRecord
  <2>2. s.started \in Int /\ now \in Int
    BY <2>1, TimesAreNat, Zenon
  <2>3. QED
    BY <2>2, Constants
<1>3. ASSUME NEW e \in events' \ s.all PROVE Time(e) >= s.started - Lateness
  <2>1. Time(e) \in Int
    BY EventsTyped DEF Inv1, Typed
  <2>2. CASE e \in events
    BY <2>2, <1>3 DEF Informed
  <2>3. CASE e \notin events
    <3>1. Time(e) >= now - Lateness
      BY <1>3, <2>3 DEF Arrived
    <3>2. QED
      BY <1>2, <2>1, <3>1
  <2>4. QED
    BY <2>2, <2>3
<1>4. Cardinality(events') < RowCap => Cardinality(events) < RowCap
  <2>1. IsFiniteSet(events') /\ events \in SUBSET events'
    BY DEF Arrived
  <2>2. Cardinality(events) <= Cardinality(events') /\ IsFiniteSet(events)
    BY <2>1, FS_Subset
  <2>3. Cardinality(events) \in Int /\ Cardinality(events') \in Int /\ RowCap \in Int
    BY <2>1, <2>2, FS_CardinalityType, Constants
  <2>4. QED
    BY <2>2, <2>3
<1>5. QED
  BY <1>1, <1>3, <1>4 DEF Informed

LEMMA OnTimeInit == Init => Inv4
BY FS_EmptySet DEF Init, Inv4, OnTime, Idle

LEMMA ArrivedNext ==
  ASSUME Inv1, IsFiniteSet(events), [Next]_vars
  PROVE  Arrived
<1>1. CASE \E e \in Events : Arrive(e)
  <2>1. PICK e \in Events : events' = events \cup {e} /\ Time(e) >= now - Lateness
    BY <1>1 DEF Arrive
  <2>2. IsFiniteSet(events')
    BY <2>1, FS_AddElement
  <2>3. QED
    BY <2>1, <2>2 DEF Arrived
<1>2. CASE events' = events
  BY <1>2 DEF Arrived
<1>3. (\E n \in Names : Crash(n)) \/ (\E p \in Passes, n \in Names : Claim(p, n))
        => events' = events
  BY CrashDoes, ClaimDoes
<1>4. QED
  BY <1>1, <1>2, <1>3 DEF Next, Step, ReadEvents, Plan, WriteFacts, ReadRollups, WriteRollups,
     Advance, Fail, Tick, vars

\* The watermark only moves up.
LEMMA WatermarkMoves ==
  ASSUME Inv1, [Next]_vars
  PROVE  watermark <= watermark' /\ watermark \in Int /\ watermark' \in Int
<1>1. watermark \in Times /\ watermark' \in Times
  BY TypedNext DEF Inv1, Typed
<1>2. watermark \in Int /\ watermark' \in Int
  BY <1>1, TimesAreNat, Zenon
<1>3. CASE watermark' = watermark
  BY <1>2, <1>3
<1>4. CASE \E p \in Passes : Advance(p)
  <2>1. PICK p \in Passes : watermark' = watermark \/ watermark' = MaxOf({watermark, pass[p].mark})
    BY <1>4 DEF Advance
  <2>2. pass[p].mark \in Times
    BY DEF Inv1, Typed, PassRecord
  <2>3. pass[p].mark \in Int
    BY <2>2, TimesAreNat, Zenon
  <2>4. QED
    BY <1>2, <2>1, <2>3, MaxOfTwo
<1>5. (\E n \in Names : Crash(n)) \/ (\E p \in Passes, n \in Names : Claim(p, n))
        => watermark' = watermark
  BY CrashDoes, ClaimDoes
<1>6. watermark' = watermark \/ \E p \in Passes : Advance(p)
  BY <1>5 DEF Next, Step, Arrive, ReadEvents, Plan, WriteFacts, ReadRollups, WriteRollups,
     Fail, Tick, vars
<1>7. QED
  BY <1>2, <1>3, <1>4, <1>6

\* Two records of one pass that agree on what it has read and from when.
SameRead(s, r) ==
  r.at # "idle" =>
    /\ s.at # "idle" /\ (r.at = "claimed" <=> s.at = "claimed")
    /\ r.from = s.from /\ r.started = s.started /\ r.all = s.all /\ r.to = s.to

LEMMA OnTimeKept ==
  ASSUME Inv1, Inv1', Arrived, watermark <= watermark', watermark \in Int, watermark' \in Int,
         NEW s \in PassRecord, NEW r, OnTime(s), SameRead(s, r),
         s.at # "idle" => s.started <= now /\ now' <= s.started + PassTime
  PROVE  OnTime(r)'
<1> SUFFICES ASSUME r.at # "idle"
             PROVE  /\ now' <= r.started + PassTime /\ r.from <= watermark'
                    /\ r.at # "claimed" => Informed(r)'
  BY DEF OnTime
<1>1. s.at # "idle" /\ r.from = s.from /\ r.started = s.started /\ r.all = s.all /\ r.to = s.to
  BY DEF SameRead
<1>2. now' <= r.started + PassTime
  BY <1>1
<1>3. r.from <= watermark'
  <2>1. s.from \in Times
    BY DEF PassRecord
  <2>2. s.from \in Int
    BY <2>1, TimesAreNat, Zenon
  <2>3. s.from <= watermark
    BY <1>1 DEF OnTime
  <2>4. QED
    BY <1>1, <2>2, <2>3
<1>4. ASSUME r.at # "claimed" PROVE Informed(r)'
  <2>1. Informed(s)
    BY <1>1, <1>4 DEF OnTime, SameRead
  <2>2. Informed(s)'
    BY <1>1, <2>1, InformedKept
  <2>3. QED
    BY <1>1, <2>2 DEF Informed
<1>5. QED
  BY <1>2, <1>3, <1>4

LEMMA ReadsWhole ==
  ASSUME Inv1, NEW p \in Passes, ReadEvents(p), IsFiniteSet(events)
  PROVE  /\ pass[p].at = "claimed" /\ pass'[p].at = "read"
         /\ pass'[p].from = pass[p].from /\ pass'[p].started = pass[p].started
         /\ pass'[p].alone = pass[p].alone
         /\ pass'[p].all = events
         /\ Cardinality(events) < RowCap => pass'[p].to = pass'[p].started
         /\ \A q \in Passes \ {p} : pass'[q] = pass[q]
         /\ UNCHANGED <<now, events, lease, watermark, facts, overlapped>>
<1> DEFINE s == pass[p]
           window == {e \in events : Time(e) >= s.from /\ Time(e) < s.started}
           to == ResolveWindow(window, s.from, s.started)
           r == AsRead(s, events, to)
<1>1. /\ s.at = "claimed" /\ pass' = [pass EXCEPT ![p] = r]
      /\ UNCHANGED <<now, events, lease, watermark, facts, overlapped>>
  BY Zenon DEF ReadEvents, AsRead
<1>2. s \in PassRecord /\ Typed
  BY DEF Inv1, Typed
<1>3. /\ r.at = "read" /\ r.all = events /\ r.from = s.from /\ r.started = s.started
      /\ r.to = to /\ r.alone = s.alone
  BY <1>2 DEF AsRead, PassRecord
<1>4. ASSUME Cardinality(events) < RowCap PROVE to = s.started
  <2> DEFINE full == {t \in {Time(e) : e \in window} :
                        Cardinality({e \in window : Time(e) <= t}) >= RowCap}
  <2>1. ASSUME NEW t PROVE ~(Cardinality({e \in window : Time(e) <= t}) >= RowCap)
    <3> DEFINE part == {e \in window : Time(e) <= t}
    <3>1. part \in SUBSET events
      OBVIOUS
    <3> HIDE DEF part
    <3>2. IsFiniteSet(part) /\ Cardinality(part) <= Cardinality(events)
      BY <3>1, FS_Subset
    <3>3. Cardinality(part) \in Int /\ Cardinality(events) \in Int /\ RowCap \in Int
      BY <3>2, FS_CardinalityType, Constants
    <3>4. ~(Cardinality(part) >= RowCap)
      BY <1>4, <3>2, <3>3
    <3>5. QED
      BY <3>4 DEF part
  <2>2. full = {}
    BY <2>1
  <2>3. QED
    BY <2>2 DEF ResolveWindow
<1> HIDE DEF r, to
<1>5. pass'[p] = r /\ \A q \in Passes \ {p} : pass'[q] = pass[q]
  BY <1>1, <1>2 DEF Typed
<1>6. QED
  BY <1>1, <1>3, <1>4, <1>5

LEMMA OnTimeNext == Inv1 /\ Inv4 /\ [Next]_vars => Inv4'
<1> SUFFICES ASSUME Inv1, Inv4, [Next]_vars PROVE Inv4'
  OBVIOUS
<1>1. Inv1' /\ Arrived /\ IsFiniteSet(events')
  BY TypedNext, ArrivedNext DEF Inv4, Arrived
<1>2. watermark <= watermark' /\ watermark \in Int /\ watermark' \in Int
  BY WatermarkMoves
<1>3. ASSUME NEW q \in Passes, SameRead(pass[q], pass'[q]),
             pass[q].at # "idle" => now' <= pass[q].started + PassTime
      PROVE  OnTime(pass[q])'
  <2>1. PICK r : r = pass'[q]
    OBVIOUS
  <2>2. pass[q] \in PassRecord /\ OnTime(pass[q]) /\ (pass[q].at # "idle" => pass[q].started <= now)
    BY DEF Inv1, Typed, PassOK, Inv4
  <2>3. OnTime(r)'
    BY <1>1, <1>2, <1>3, <2>1, <2>2, OnTimeKept
  <2>4. QED
    BY <2>1, <2>3 DEF OnTime, Informed
<1>4. ASSUME now' = now, NEW q \in Passes, SameRead(pass[q], pass'[q])
      PROVE  OnTime(pass[q])'
  BY <1>3, <1>4 DEF Inv4, OnTime
<1>5. \A q \in Passes : pass'[q] = pass[q] \/ pass'[q].at = "idle" => SameRead(pass[q], pass'[q])
  BY DEF SameRead
<1>6. CASE Tick
  <2>1. pass' = pass /\ now' = now + 1 /\ \A q \in Passes : Running(q) => now < pass[q].started + PassTime
    BY <1>6 DEF Tick
  <2>2. ASSUME NEW q \in Passes, pass[q].at # "idle" PROVE now' <= pass[q].started + PassTime
    <3>1. now \in Times /\ pass[q].started \in Times
      BY DEF Inv1, Typed, PassRecord
    <3>2. now \in Int /\ pass[q].started \in Int
      BY <3>1, TimesAreNat, Zenon
    <3>3. PassTime \in Int
      BY Constants
    <3>4. QED
      BY <2>1, <2>2, <3>2, <3>3 DEF Running
  <2>3. QED
    BY <1>1, <1>3, <1>5, <2>1, <2>2 DEF Inv4
<1>7. CASE \E e \in Events : Arrive(e)
  BY <1>1, <1>4, <1>5, <1>7 DEF Inv4, Arrive
<1>8. ASSUME NEW p \in Passes, Plan(p) \/ WriteFacts(p) \/ ReadRollups(p) \/ WriteRollups(p)
      PROVE  Inv4'
  <2>1. SameRead(pass[p], pass'[p]) /\ now' = now /\ \A q \in Passes \ {p} : pass'[q] = pass[q]
    BY <1>8, LaterSteps DEF SameRead
  <2>2. QED
    BY <1>1, <1>4, <1>5, <2>1 DEF Inv4
<1>9. ASSUME NEW p \in Passes, ReadEvents(p) PROVE Inv4'
  <2>1. /\ pass[p].at = "claimed" /\ pass'[p].at = "read"
        /\ pass'[p].from = pass[p].from /\ pass'[p].started = pass[p].started
        /\ pass'[p].all = events'
        /\ Cardinality(events') < RowCap => pass'[p].to = pass'[p].started
        /\ \A q \in Passes \ {p} : pass'[q] = pass[q]
        /\ now' = now /\ watermark' = watermark
    BY <1>9, ReadsWhole DEF Inv4
  <2>2. OnTime(pass[p])'
    BY <2>1 DEF OnTime, Informed, Inv4
  <2>3. QED
    BY <1>1, <1>4, <1>5, <2>1, <2>2 DEF Inv4
<1>10. ASSUME NEW p \in Passes, Advance(p) \/ Fail(p) PROVE Inv4'
  <2>1. pass'[p].at = "idle" /\ now' = now /\ \A q \in Passes \ {p} : pass'[q] = pass[q]
    BY <1>10 DEF Advance, Fail, Inv1, Typed, Idle
  <2>2. QED
    BY <1>1, <1>4, <1>5, <2>1 DEF Inv4
<1>11. ASSUME NEW n \in Names, Crash(n) PROVE Inv4'
  <2>1. now' = now /\ \A q \in Passes : pass'[q] = pass[q] \/ pass'[q].at = "idle"
    BY <1>11, CrashDoes DEF Idle
  <2>2. QED
    BY <1>1, <1>4, <1>5, <2>1 DEF Inv4
<1>12. ASSUME NEW p \in Passes, NEW n \in Names, Claim(p, n) PROVE Inv4'
  <2>1. now' = now /\ watermark' = watermark
    BY <1>12, ClaimDoes
  <2>2. now \in Times /\ watermark \in Times
    BY DEF Inv1, Typed
  <2>3. pass'[p].at = "claimed" /\ pass'[p].from = watermark /\ pass'[p].started = now
    BY <1>12, <2>2, ClaimMine
  <2>4. OnTime(pass[p])'
    <3>1. now \in Int /\ PassTime \in Nat
      BY <2>2, TimesAreNat, Constants
    <3>2. QED
      BY <1>2, <2>1, <2>3, <3>1 DEF OnTime
  <2>5. ASSUME NEW q \in Passes \ {p} PROVE SameRead(pass[q], pass'[q])
    BY <1>12, ClaimTheirs DEF Inv1, SameRead
  <2>6. QED
    BY <1>1, <1>4, <2>1, <2>4, <2>5 DEF Inv4
<1>13. CASE UNCHANGED vars
  BY <1>1, <1>4, <1>5, <1>13 DEF vars, Inv4
<1>14. QED
  BY <1>6, <1>7, <1>8, <1>9, <1>10, <1>11, <1>12, <1>13 DEF Next, Step

LEMMA OnTimeAlways == Spec => []Inv4
BY OnTimeInit, TypedAlways, OnTimeNext, PTL DEF Spec

-----------------------------------------------------------------------------
(* Behind the watermark the facts are the sessions of all events, also while passes *)
(* overlap, as long as Undisturbed.                                                 *)

Canon == Sessionize(events)
TiedIn(F, r) == \E q \in F : q.id = r.id /\ q # r

\* Of the sessions C that start before t each is in F, and no other that has one row.
AllThere(C, F, t) == \A x \in C : Start(x) < t => \E r \in Live(F) : Content(r) = Content(x)
NoneElse(C, F, t) ==
  \A r \in Live(F) : Start(r) < t /\ ~TiedIn(F, r) => \E x \in C : Content(x) = Content(r)

\* A row that says of its session what C says.
RowTrue(C, r) ==
  \/ ~r.retracted /\ \E x \in C : Content(x) = Content(r)
  \/ r.retracted /\ \A x \in C : x.id # r.id

\* The rows a pass has planned are about its window and are true of its sessions.
RowsPlanned(s) ==
  /\ OneEach(s.rows)
  /\ \A r \in s.rows : Start(r) >= s.from /\ Start(r) < s.to /\ RowTrue(Sessions(s), r)

\* Once they are written, all sessions before the mark are there, and nothing else.
WillBe(C, F, s) ==
  \A x \in C : Start(x) >= s.from /\ Start(x) < s.mark =>
    \/ \E r \in Live(F) : Content(r) = Content(x)
    \/ \E r \in s.rows : r.id = x.id /\ \A q \in F : q.id = r.id => q.version <= r.version
WillGo(C, F, s) ==
  \A r \in Live(F) : Start(r) >= s.from /\ Start(r) < s.mark /\ ~TiedIn(F, r) =>
    \/ \E x \in C : Content(x) = Content(r)
    \/ \E n \in s.rows : n.id = r.id /\ r.version <= n.version

LEMMA CanonIds ==
  ASSUME NEW E \in SUBSET Events, NEW x \in Sessionize(E), NEW y \in Sessionize(E), x.id = y.id
  PROVE  Content(x) = Content(y)
BY SessionsDiffer DEF Content

LEMMA SupersedeIs ==
  ASSUME NEW old, NEW rows, NEW new, new = Supersede(old, rows, FactId, FactVersion),
         \A r \in old \cup rows : r.version \in Nat,
         \A r, q \in old : r.id = q.id => r.version = q.version, OneEach(rows)
  PROVE  /\ new \subseteq old \cup rows
         /\ \A r \in old : (\A q \in rows : q.id = r.id => q.version <= r.version) => r \in new
         /\ \A n \in rows : (\A q \in old : q.id = n.id => q.version <= n.version) => n \in new
         /\ \A r \in new, q \in old \cup rows : r.id = q.id =>
              q.version <= r.version /\ (q.version = r.version => q \in new)
<1>1. new = {r \in old \cup rows : \A q \in old \cup rows : q.id = r.id => q.version <= r.version}
  BY DEF Supersede, FactId, FactVersion
<1>2. \A r \in old \cup rows : r.version <= r.version
  OBVIOUS
<1>3. ASSUME NEW r \in old, \A q \in rows : q.id = r.id => q.version <= r.version
      PROVE  r \in new
  <2>1. \A q \in old : q.id = r.id => q.version <= r.version
    BY <1>2
  <2>2. QED
    BY <1>1, <1>3, <2>1
<1>4. ASSUME NEW n \in rows, \A q \in old : q.id = n.id => q.version <= n.version
      PROVE  n \in new
  <2>1. \A q \in rows : q.id = n.id => q.version <= n.version
    BY <1>2 DEF OneEach
  <2>2. QED
    BY <1>1, <1>4, <2>1
<1>5. ASSUME NEW r \in new, NEW q \in old \cup rows, r.id = q.id
      PROVE  q.version <= r.version /\ (q.version = r.version => q \in new)
  <2>1. q.version <= r.version
    BY <1>1, <1>5
  <2>2. ASSUME q.version = r.version PROVE q \in new
    <3>1. \A y \in old \cup rows : y.id = q.id => y.version <= q.version
      BY <1>1, <1>5, <2>2
    <3>2. QED
      BY <1>1, <3>1
  <2>3. QED
    BY <2>1, <2>2
<1>6. QED
  BY <1>1, <1>3, <1>4, <1>5

\* What is written of a session says the same of it.
LEMMA StaysThere ==
  ASSUME NEW E \in SUBSET Events, NEW old, NEW rows, NEW new,
         new = Supersede(old, rows, FactId, FactVersion),
         \A r \in old \cup rows : r.version \in Nat,
         \A r, q \in old : r.id = q.id => r.version = q.version, OneEach(rows),
         NEW t, \A r \in rows : Start(r) < t => RowTrue(Sessionize(E), r),
         NEW x \in Sessionize(E), Start(x) < t, NEW r \in Live(old), Content(r) = Content(x)
  PROVE  \E q \in Live(new) : Content(q) = Content(x)
<1>1. r \in old /\ ~r.retracted /\ r.id = x.id
  BY DEF Live, Content
<1>2. CASE \A n \in rows : n.id = r.id => n.version <= r.version
  <2>1. r \in new
    BY <1>1, <1>2, SupersedeIs
  <2>2. QED
    BY <1>1, <2>1 DEF Live
<1>3. ASSUME NEW n \in rows, n.id = r.id, ~(n.version <= r.version)
      PROVE  \E q \in Live(new) : Content(q) = Content(x)
  <2>1. n.version \in Nat /\ r.version \in Nat /\ r.version <= n.version
    BY <1>1, <1>3
  <2>2. \A q \in old : q.id = n.id => q.version <= n.version
    BY <1>1, <1>3, <2>1
  <2>3. n \in new
    BY <2>2, SupersedeIs
  <2>4. RowTrue(Sessionize(E), n)
    BY <1>1, <1>3 DEF Start
  <2>5. ~n.retracted /\ \E y \in Sessionize(E) : Content(y) = Content(n)
    BY <1>1, <1>3, <2>4 DEF RowTrue
  <2>6. PICK y \in Sessionize(E) : Content(y) = Content(n)
    BY <2>5
  <2>7. y.id = x.id
    BY <1>1, <1>3, <2>6 DEF Content
  <2>8. Content(n) = Content(x)
    BY <2>6, <2>7, CanonIds
  <2>9. QED
    BY <2>3, <2>5, <2>8 DEF Live
<1>4. QED
  BY <1>2, <1>3

\* A row that nobody ties was not tied before, unless it was written just now.
LEMMA Untied ==
  ASSUME NEW old, NEW rows, NEW new, new = Supersede(old, rows, FactId, FactVersion),
         \A r \in old \cup rows : r.version \in Nat,
         \A r, q \in old : r.id = q.id => r.version = q.version, OneEach(rows),
         NEW r \in Live(new), ~TiedIn(new, r), r \notin rows
  PROVE  r \in Live(old) /\ ~TiedIn(old, r)
<1>1. r \in new /\ r \in old /\ ~r.retracted
  BY SupersedeIs DEF Live
<1>2. ASSUME NEW q \in old, q.id = r.id, q # r PROVE FALSE
  <2>1. q.version = r.version
    BY <1>1, <1>2
  <2>2. q \in new
    BY <1>1, <1>2, <2>1, SupersedeIs
  <2>3. QED
    BY <1>2, <2>2 DEF TiedIn
<1>3. QED
  BY <1>1, <1>2 DEF TiedIn, Live

\* A write of rows that are true keeps what is there before t, and keeps the rest out.
LEMMA WriteKeeps ==
  ASSUME NEW E \in SUBSET Events, NEW old, NEW rows, NEW new,
         new = Supersede(old, rows, FactId, FactVersion),
         \A r \in old \cup rows : r.version \in Nat,
         \A r, q \in old : r.id = q.id => r.version = q.version, OneEach(rows),
         NEW t, \A r \in rows : Start(r) < t => RowTrue(Sessionize(E), r),
         AllThere(Sessionize(E), old, t), NoneElse(Sessionize(E), old, t)
  PROVE  AllThere(Sessionize(E), new, t) /\ NoneElse(Sessionize(E), new, t)
<1>1. ASSUME NEW x \in Sessionize(E), Start(x) < t
      PROVE  \E r \in Live(new) : Content(r) = Content(x)
  <2>1. PICK r \in Live(old) : Content(r) = Content(x)
    BY <1>1 DEF AllThere
  <2>2. QED
    BY <1>1, <2>1, StaysThere
<1>2. ASSUME NEW r \in Live(new), Start(r) < t, ~TiedIn(new, r)
      PROVE  \E x \in Sessionize(E) : Content(x) = Content(r)
  <2>1. CASE r \in rows
    BY <1>2, <2>1 DEF RowTrue, Live
  <2>2. CASE r \notin rows
    <3>1. r \in Live(old) /\ ~TiedIn(old, r)
      BY <1>2, <2>2, Untied
    <3>2. QED
      BY <1>2, <3>1 DEF NoneElse
  <2>3. QED
    BY <2>1, <2>2
<1>3. QED
  BY <1>1, <1>2 DEF AllThere, NoneElse

\* The write of a plan does what it will do.
LEMMA WriteDoes ==
  ASSUME NEW E \in SUBSET Events, NEW s, NEW old, NEW rows, NEW new, rows = s.rows,
         new = Supersede(old, rows, FactId, FactVersion),
         \A r \in old \cup rows : r.version \in Nat /\ Start(r) \in Int,
         \A r, q \in old : r.id = q.id => r.version = q.version, OneEach(rows),
         \A r \in rows : Start(r) >= s.from, s.from \in Int,
         \A r \in rows : Start(r) < s.mark => RowTrue(Sessionize(E), r),
         AllThere(Sessionize(E), old, s.from), NoneElse(Sessionize(E), old, s.from),
         WillBe(Sessionize(E), old, s), WillGo(Sessionize(E), old, s)
  PROVE  AllThere(Sessionize(E), new, s.mark) /\ NoneElse(Sessionize(E), new, s.mark)
<1>0. \A r \in old \cup rows : r.version \in Nat
  OBVIOUS
<1>1. ASSUME NEW x \in Sessionize(E), Start(x) < s.mark
      PROVE  \E r \in Live(new) : Content(r) = Content(x)
  <2>1. CASE \E r \in Live(old) : Content(r) = Content(x)
    BY <1>0, <1>1, <2>1, StaysThere
  <2>2. CASE ~\E r \in Live(old) : Content(r) = Content(x)
    <3>1. ~(Start(x) < s.from)
      BY <2>2 DEF AllThere
    <3>2. Start(x) \in Int
      BY SessionStart
    <3>3. PICK r \in rows : r.id = x.id /\ \A q \in old : q.id = r.id => q.version <= r.version
      BY <1>1, <2>2, <3>1, <3>2 DEF WillBe
    <3>4. r \in new
      BY <1>0, <3>3, SupersedeIs
    <3>5. RowTrue(Sessionize(E), r)
      BY <1>1, <3>3 DEF Start
    <3>6. ~r.retracted /\ \E y \in Sessionize(E) : Content(y) = Content(r)
      BY <3>3, <3>5 DEF RowTrue
    <3>7. PICK y \in Sessionize(E) : Content(y) = Content(r)
      BY <3>6
    <3>8. y.id = x.id
      BY <3>3, <3>7 DEF Content
    <3>9. Content(r) = Content(x)
      BY <3>7, <3>8, CanonIds
    <3>10. QED
      BY <3>4, <3>6, <3>9 DEF Live
  <2>3. QED
    BY <2>1, <2>2
<1>2. ASSUME NEW r \in Live(new), Start(r) < s.mark, ~TiedIn(new, r)
      PROVE  \E x \in Sessionize(E) : Content(x) = Content(r)
  <2>1. CASE r \in rows
    BY <1>2, <2>1 DEF RowTrue, Live
  <2>2. CASE r \notin rows
    <3>1. r \in Live(old) /\ ~TiedIn(old, r)
      BY <1>0, <1>2, <2>2, Untied
    <3>2. CASE Start(r) < s.from
      BY <3>1, <3>2 DEF NoneElse
    <3>3. CASE ~(Start(r) < s.from)
      <4>1. Start(r) >= s.from
        BY <3>1, <3>3 DEF Live
      <4>2. CASE \E n \in rows : n.id = r.id /\ r.version <= n.version
        <5>1. PICK n \in rows : n.id = r.id /\ r.version <= n.version
          BY <4>2
        <5>2. r \in new /\ r \in old /\ n \in old \cup rows
          BY <1>2, <3>1 DEF Live
        <5>3. n.version <= r.version /\ (n.version = r.version => n \in new)
          BY <1>0, <5>1, <5>2, SupersedeIs
        <5>4. n.version \in Nat /\ r.version \in Nat
          BY <5>2
        <5>5. n \in new
          BY <5>1, <5>3, <5>4
        <5>6. QED
          BY <1>2, <2>2, <5>1, <5>5 DEF TiedIn
      <4>3. QED
        BY <1>2, <3>1, <4>1, <4>2 DEF WillGo
    <3>4. QED
      BY <3>2, <3>3
  <2>3. QED
    BY <2>1, <2>2
<1>3. QED
  BY <1>1, <1>2 DEF AllThere, NoneElse

\* The write of another pass, true before the mark, keeps what a plan will do.
LEMMA WriteLeaves ==
  ASSUME NEW E \in SUBSET Events, NEW s, NEW old, NEW rows, NEW new,
         new = Supersede(old, rows, FactId, FactVersion),
         \A r \in old \cup rows : r.version \in Nat, \A r \in s.rows : r.version \in Nat,
         \A r, q \in old : r.id = q.id => r.version = q.version, OneEach(rows),
         \A r \in rows : Start(r) < s.mark => RowTrue(Sessionize(E), r),
         WillBe(Sessionize(E), old, s), WillGo(Sessionize(E), old, s)
  PROVE  WillBe(Sessionize(E), new, s) /\ WillGo(Sessionize(E), new, s)
<1>1. ASSUME NEW x \in Sessionize(E), Start(x) >= s.from, Start(x) < s.mark
      PROVE  \/ \E r \in Live(new) : Content(r) = Content(x)
             \/ \E r \in s.rows : r.id = x.id /\ \A q \in new : q.id = r.id => q.version <= r.version
  <2>1. CASE \E r \in Live(old) : Content(r) = Content(x)
    BY <1>1, <2>1, StaysThere
  <2>2. ASSUME NEW r \in s.rows, r.id = x.id, \A q \in old : q.id = r.id => q.version <= r.version
        PROVE  \/ \E q \in Live(new) : Content(q) = Content(x)
               \/ \A q \in new : q.id = r.id => q.version <= r.version
    <3>1. CASE \A n \in rows : n.id = r.id => n.version <= r.version
      <4>1. new \subseteq old \cup rows
        BY SupersedeIs
      <4>2. QED
        BY <2>2, <3>1, <4>1
    <3>2. ASSUME NEW n \in rows, n.id = r.id, ~(n.version <= r.version)
          PROVE  \E q \in Live(new) : Content(q) = Content(x)
      <4>1. n.version \in Nat /\ r.version \in Nat /\ r.version <= n.version
        BY <3>2
      <4>2. \A q \in old : q.id = n.id => q.version <= n.version
        BY <2>2, <3>2, <4>1
      <4>3. n \in new
        BY <4>2, SupersedeIs
      <4>4. RowTrue(Sessionize(E), n)
        BY <1>1, <2>2, <3>2 DEF Start
      <4>5. ~n.retracted /\ \E y \in Sessionize(E) : Content(y) = Content(n)
        BY <2>2, <3>2, <4>4 DEF RowTrue
      <4>6. PICK y \in Sessionize(E) : Content(y) = Content(n)
        BY <4>5
      <4>7. y.id = x.id
        BY <2>2, <3>2, <4>6 DEF Content
      <4>8. Content(n) = Content(x)
        BY <4>6, <4>7, CanonIds
      <4>9. QED
        BY <4>3, <4>5, <4>8 DEF Live
    <3>3. QED
      BY <3>1, <3>2
  <2>3. QED
    BY <1>1, <2>1, <2>2 DEF WillBe
<1>2. ASSUME NEW r \in Live(new), Start(r) >= s.from, Start(r) < s.mark, ~TiedIn(new, r)
      PROVE  \/ \E x \in Sessionize(E) : Content(x) = Content(r)
             \/ \E n \in s.rows : n.id = r.id /\ r.version <= n.version
  <2>1. CASE r \in rows
    BY <1>2, <2>1 DEF RowTrue, Live
  <2>2. CASE r \notin rows
    <3>1. r \in Live(old) /\ ~TiedIn(old, r)
      BY <1>2, <2>2, Untied
    <3>2. QED
      BY <1>2, <3>1 DEF WillGo
  <2>3. QED
    BY <2>1, <2>2
<1>3. QED
  BY <1>1, <1>2 DEF WillBe, WillGo

-----------------------------------------------------------------------------
(* Sessions behind a clean cut do not change while events arrive after it. *)

\* C and D hold the same sessions before t.
SameBefore(C, D, t) == \A x : Start(x) < t => (x \in C <=> x \in D)

LEMMA SameUpTo ==
  ASSUME NEW E \in SUBSET Events, NEW F \in SUBSET Events, NEW t \in Int,
         0 <= t, t = 0 \/ Agree(E, F, 0, t + Inactivity), Clean(E, t)
  PROVE  Clean(F, t) /\ SameBefore(Sessionize(E), Sessionize(F), t)
<1>1. Clean(E, 0) /\ Clean(F, 0)
  BY CleanAtZero
<1>2. CASE t = 0
  <2>1. \A x : x \in Sessionize(E) \/ x \in Sessionize(F) => ~(Start(x) < 0)
    BY SessionStart
  <2>2. QED
    BY <1>1, <1>2, <2>1 DEF SameBefore
<1>3. CASE Agree(E, F, 0, t + Inactivity)
  <2>1. t + Inactivity \in Int /\ t <= t + Inactivity
    BY Constants
  <2>2. Agree(E, F, 0, t) /\ Agree(F, E, 0, t)
    <3>1. ASSUME NEW e \in Events, Time(e) < t PROVE Time(e) < t + Inactivity
      <4>1. Time(e) \in Int
        BY EventsTyped
      <4>2. QED
        BY <2>1, <3>1, <4>1
    <3>2. QED
      BY <1>3, <3>1 DEF Agree
  <2>3. Clean(F, t)
    BY <1>1, <1>3, CleanLater
  <2>4. ASSUME NEW x, Start(x) < t PROVE x \in Sessionize(E) <=> x \in Sessionize(F)
    <3>1. ASSUME x \in Sessionize(E) PROVE x \in Sessionize(F)
      <4>1. Start(x) >= 0
        BY <3>1, SessionStart
      <4>2. QED
        BY <1>1, <2>2, <2>3, <2>4, <3>1, <4>1, SessionsSame
    <3>2. ASSUME x \in Sessionize(F) PROVE x \in Sessionize(E)
      <4>1. Start(x) >= 0
        BY <3>2, SessionStart
      <4>2. QED
        BY <1>1, <2>2, <2>3, <2>4, <3>2, <4>1, SessionsSame
    <3>3. QED
      BY <3>1, <3>2
  <2>5. QED
    BY <2>3, <2>4 DEF SameBefore
<1>4. QED
  BY <1>2, <1>3

LEMMA CanonGrows ==
  ASSUME NEW E \in SUBSET Events, NEW F \in SUBSET Events, E \subseteq F, NEW t \in Int,
         0 <= t, t = 0 \/ \A e \in F \ E : Time(e) >= t + Inactivity, Clean(E, t)
  PROVE  Clean(F, t) /\ SameBefore(Sessionize(E), Sessionize(F), t)
<1>1. ASSUME \A e \in F \ E : Time(e) >= t + Inactivity
      PROVE  Agree(E, F, 0, t + Inactivity)
  <2>1. t + Inactivity \in Int
    BY Constants
  <2>2. ASSUME NEW e \in F, Time(e) < t + Inactivity PROVE e \in E
    <3>1. Time(e) \in Int
      BY EventsTyped
    <3>2. QED
      BY <1>1, <2>1, <2>2, <3>1
  <2>3. QED
    BY <2>2 DEF Agree
<1>2. QED
  BY <1>1, SameUpTo

LEMMA ThereMoves ==
  ASSUME NEW C, NEW D, NEW F, NEW t, SameBefore(C, D, t), AllThere(C, F, t), NoneElse(C, F, t)
  PROVE  AllThere(D, F, t) /\ NoneElse(D, F, t)
<1>1. AllThere(D, F, t)
  BY DEF SameBefore, AllThere
<1>2. ASSUME NEW r \in Live(F), Start(r) < t, ~TiedIn(F, r)
      PROVE  \E x \in D : Content(x) = Content(r)
  <2>1. PICK x \in C : Content(x) = Content(r)
    BY <1>2 DEF NoneElse
  <2>2. Start(x) < t
    BY <1>2, <2>1 DEF Content, Start
  <2>3. QED
    BY <2>1, <2>2 DEF SameBefore
<1>3. QED
  BY <1>1, <1>2 DEF NoneElse

LEMMA WillMoves ==
  ASSUME NEW C, NEW D, NEW F, NEW s, SameBefore(C, D, s.mark), WillBe(C, F, s), WillGo(C, F, s)
  PROVE  WillBe(D, F, s) /\ WillGo(D, F, s)
<1>1. WillBe(D, F, s)
  BY DEF SameBefore, WillBe
<1>2. ASSUME NEW r \in Live(F), Start(r) >= s.from, Start(r) < s.mark, ~TiedIn(F, r),
             NEW x \in C, Content(x) = Content(r)
      PROVE  \E y \in D : Content(y) = Content(r)
  <2>1. Start(x) < s.mark
    BY <1>2 DEF Content, Start
  <2>2. QED
    BY <1>2, <2>1 DEF SameBefore
<1>3. QED
  BY <1>1, <1>2 DEF WillGo

\* No event before t can still arrive, nor one that joins a session that starts before it.
Settled(t) == t = 0 \/ t <= now - Lateness - Inactivity

\* Sessions that start before t are over and stored, and nothing else is.
Sound(t) ==
  /\ Settled(t) /\ Clean(events, t)
  /\ AllThere(Canon, facts, t) /\ NoneElse(Canon, facts, t)

\* A pass starts from a settled, clean cut; what it planned is true of all events up to its
\* mark; once that is written, the facts before the mark are sound.
PassSound(s) ==
  s.at # "idle" =>
    /\ s.from = 0 \/ s.from <= s.started - Lateness - Inactivity
    /\ Clean(events, s.from)
    /\ s.at = "planned" => /\ s.mark = Mark(s) /\ Clean(events, s.mark) /\ RowsPlanned(s)
                           /\ WillBe(Canon, facts, s) /\ WillGo(Canon, facts, s)
    /\ s.at \in {"written", "aggregated", "swapped"} => Sound(s.mark)

Inv5 == Undisturbed => Sound(watermark) /\ \A p \in Passes : PassSound(pass[p])

\* A mark is settled.
LEMMA MarkSettled ==
  ASSUME Inv1, NEW s \in PassRecord, s.from <= s.started, s.to <= s.started, s.started <= now,
         s.from = 0 \/ s.from <= s.started - Lateness - Inactivity
  PROVE  /\ Mark(s) \in Times /\ Mark(s) >= s.from /\ Settled(Mark(s))
         /\ \/ Mark(s) = s.from
            \/ /\ Mark(s) <= s.to - Inactivity /\ Mark(s) <= s.started - Lateness - Inactivity
               /\ Mark(s) = NewWatermark(Sessions(s), Horizon(s))
<1>1. /\ Mark(s) \in Times /\ Mark(s) >= s.from
      /\ \/ Mark(s) = s.from
         \/ /\ Mark(s) <= s.to - Inactivity /\ Mark(s) <= s.started - Lateness - Inactivity
            /\ Mark(s) = NewWatermark(Sessions(s), Horizon(s))
  BY MarkIs
<1>2. s.started \in Times /\ now \in Times
  BY DEF Inv1, Typed, PassRecord
<1>3. s.started \in Int /\ now \in Int /\ Mark(s) \in Int
  BY <1>1, <1>2, TimesAreNat, Zenon
<1>4. Lateness \in Int /\ Inactivity \in Int
  BY Constants
<1>5. Mark(s) = 0 \/ Mark(s) <= s.started - Lateness - Inactivity
  BY <1>1
<1>6. PICK m : m = Mark(s)
  OBVIOUS
<1>7. m = 0 \/ m <= now - Lateness - Inactivity
  BY <1>3, <1>4, <1>5, <1>6
<1>8. QED
  BY <1>1, <1>6, <1>7 DEF Settled

\* Steps that leave the facts alone.
Elsewhere == Arrived /\ now <= now' /\ facts' = facts

LEMMA SettledKept ==
  ASSUME Inv1, Inv1', Elsewhere, NEW t \in Times, Settled(t), Clean(events, t)
  PROVE  /\ Settled(t)' /\ Clean(events, t)'
         /\ SameBefore(Sessionize(events), Sessionize(events'), t)
<1>1. t \in Int /\ 0 <= t
  BY TimesAreNat
<1>2. now \in Times /\ now' \in Times /\ events \in SUBSET Events /\ events' \in SUBSET Events
  BY DEF Inv1, Typed
<1>3. now \in Int /\ now' \in Int
  BY <1>2, TimesAreNat, Zenon
<1>4. Lateness \in Int /\ Inactivity \in Int
  BY Constants
<1>5. now <= now' /\ events \subseteq events' /\ \A e \in events' \ events : Time(e) >= now - Lateness
  BY DEF Elsewhere, Arrived
<1>6. PICK n \in Int : n = now'
  BY <1>3
<1>7. t = 0 \/ t <= n - Lateness - Inactivity
  <2>1. now <= n /\ (t = 0 \/ t <= now - Lateness - Inactivity)
    BY <1>5, <1>6 DEF Settled
  <2>2. QED
    BY <1>1, <1>3, <1>4, <2>1
<1>8. Settled(t)'
  BY <1>6, <1>7 DEF Settled
<1>9. t = 0 \/ \A e \in events' \ events : Time(e) >= t + Inactivity
  <2>1. ASSUME t <= now - Lateness - Inactivity, NEW e \in events' \ events
        PROVE  Time(e) >= t + Inactivity
    <3>1. Time(e) \in Int
      BY <1>2, EventsTyped
    <3>2. QED
      BY <1>1, <1>3, <1>4, <1>5, <2>1, <3>1
  <2>2. QED
    BY <2>1 DEF Settled
<1>10. PICK F \in SUBSET Events : F = events'
  BY <1>2
<1>11. Clean(F, t) /\ SameBefore(Sessionize(events), Sessionize(F), t)
  BY <1>1, <1>2, <1>5, <1>9, <1>10, CanonGrows
<1>12. QED
  BY <1>8, <1>10, <1>11 DEF Clean

LEMMA SoundKept ==
  ASSUME Inv1, Inv1', Elsewhere, NEW t \in Times, Sound(t)
  PROVE  Sound(t)'
<1>1. /\ Settled(t)' /\ Clean(events, t)'
      /\ SameBefore(Sessionize(events), Sessionize(events'), t)
  BY SettledKept DEF Sound
<1>2. AllThere(Sessionize(events'), facts, t) /\ NoneElse(Sessionize(events'), facts, t)
  BY <1>1, ThereMoves DEF Sound, Canon
<1>3. AllThere(Canon, facts, t)' /\ NoneElse(Canon, facts, t)'
  BY <1>2 DEF Elsewhere, Canon, AllThere, NoneElse
<1>4. QED
  BY <1>1, <1>3 DEF Sound

LEMMA PassSoundKept ==
  ASSUME Inv1, Inv1', Elsewhere, NEW s \in PassRecord, PassSound(s),
         s.at # "idle" => s.started <= now /\ s.from <= s.started,
         s.at \notin {"claimed", "idle"} => s.to <= s.started
  PROVE  PassSound(s)'
<1> SUFFICES ASSUME s.at # "idle"
             PROVE  PassSound(s)'
  BY DEF PassSound
<1>1. s.from = 0 \/ s.from <= s.started - Lateness - Inactivity
  BY DEF PassSound
<1>2. s.from \in Times /\ s.mark \in Times /\ s.started \in Times /\ now \in Times
  BY DEF PassRecord, Inv1, Typed
<1>3. Settled(s.from)
  <2>1. s.from \in Int /\ s.started \in Int /\ now \in Int
    BY <1>2, TimesAreNat, Zenon
  <2>2. Lateness \in Int /\ Inactivity \in Int
    BY Constants
  <2>3. QED
    BY <1>1, <2>1, <2>2 DEF Settled
<1>4. Clean(events, s.from)'
  BY <1>2, <1>3, SettledKept DEF PassSound
<1>5. ASSUME s.at = "planned"
      PROVE  /\ s.mark = Mark(s) /\ Clean(events, s.mark)' /\ RowsPlanned(s)
             /\ WillBe(Canon, facts, s)' /\ WillGo(Canon, facts, s)'
  <2>1. /\ s.mark = Mark(s) /\ Clean(events, s.mark) /\ RowsPlanned(s)
        /\ WillBe(Canon, facts, s) /\ WillGo(Canon, facts, s)
    BY <1>5 DEF PassSound
  <2>2. Settled(s.mark)
    BY <1>1, <1>5, <2>1, MarkSettled
  <2>3. Clean(events, s.mark)' /\ SameBefore(Sessionize(events), Sessionize(events'), s.mark)
    BY <1>2, <2>1, <2>2, SettledKept
  <2>4. WillBe(Sessionize(events'), facts, s) /\ WillGo(Sessionize(events'), facts, s)
    BY <2>1, <2>3, WillMoves DEF Canon
  <2>5. WillBe(Canon, facts, s)' /\ WillGo(Canon, facts, s)'
    BY <2>4 DEF Elsewhere, Canon, WillBe, WillGo
  <2>6. QED
    BY <2>1, <2>3, <2>5
<1>6. ASSUME s.at \in {"written", "aggregated", "swapped"} PROVE Sound(s.mark)'
  BY <1>2, <1>6, SoundKept DEF PassSound
<1>7. QED
  BY <1>1, <1>4, <1>5, <1>6 DEF PassSound

-----------------------------------------------------------------------------
(* What a pass has read is the truth up to where it looked. *)

\* Up to t the pass misses nothing of its window.
Sees(s, t) == t <= s.from \/ (t <= s.to /\ t <= s.started - Lateness)

\* Between its start and a clean cut the pass sees, its sessions are those of all events.
LEMMA WindowCanon ==
  ASSUME NEW E \in SUBSET Events, NEW s \in PassRecord, s.all \subseteq E,
         \A e \in E \ s.all : Time(e) >= s.started - Lateness,
         Clean(E, s.from), NEW t \in Times, Sees(s, t), Clean(E, t)
  PROVE  \A x : Start(x) >= s.from /\ Start(x) < t => (x \in Sessionize(E) <=> x \in Sessions(s))
<1> DEFINE W == Window(s)
<1>1. s.from \in Times /\ s.to \in Times /\ s.started \in Times
  BY DEF PassRecord
<1>2. s.from \in Int /\ s.to \in Int /\ s.started \in Int /\ t \in Int
  BY <1>1, TimesAreNat, Zenon
<1>3. Lateness \in Int
  BY Constants
<1>4. W \in SUBSET Events /\ W \subseteq E /\ \A e \in W : Time(e) >= s.from
  BY DEF Window
<1>5. CASE t <= s.from
  <2>1. SUFFICES ASSUME NEW x, Start(x) >= s.from, Start(x) < t,
                        x \in Sessionize(E) \/ x \in Sessionize(W)
                 PROVE  FALSE
    BY DEF Sessions
  <2>2. Start(x) \in Int
    BY <1>4, <2>1, SessionStart
  <2>3. QED
    BY <1>2, <1>5, <2>1, <2>2
<1>6. CASE ~(t <= s.from)
  <2>1. s.from <= t /\ t <= s.to /\ t <= s.started - Lateness
    BY <1>2, <1>6 DEF Sees
  <2>2. Agree(E, W, s.from, t) /\ Agree(W, E, s.from, t)
    <3>1. ASSUME NEW e \in E, Time(e) >= s.from, Time(e) < t PROVE e \in W
      <4>1. Time(e) \in Int
        BY EventsTyped
      <4>2. Time(e) < s.to /\ ~(Time(e) >= s.started - Lateness)
        BY <1>2, <1>3, <2>1, <3>1, <4>1
      <4>3. QED
        BY <3>1, <4>2 DEF Window
    <3>2. QED
      BY <1>4, <3>1 DEF Agree
  <2>3. Clean(W, s.from)
    BY <1>2, <1>4, CleanAtStart
  <2>4. Clean(W, t)
    BY <1>2, <1>4, <2>1, <2>2, <2>3, CleanWithin
  <2>5. ASSUME NEW x, Start(x) >= s.from, Start(x) < t
        PROVE  x \in Sessionize(E) <=> x \in Sessionize(W)
    BY <1>2, <1>4, <2>2, <2>3, <2>4, <2>5, SessionsSame
  <2>6. QED
    BY <2>5 DEF Sessions
<1>7. QED
  BY <1>5, <1>6

\* So what it planned is true of all events, up to there.
LEMMA RowsTrue ==
  ASSUME NEW E \in SUBSET Events, NEW s \in PassRecord, s.all \subseteq E,
         \A e \in E \ s.all : Time(e) >= s.started - Lateness,
         Clean(E, s.from), NEW t \in Times, Sees(s, t), Clean(E, t), RowsPlanned(s)
  PROVE  \A r \in s.rows : Start(r) < t => RowTrue(Sessionize(E), r)
<1>1. ASSUME NEW r \in s.rows, Start(r) < t PROVE RowTrue(Sessionize(E), r)
  <2>1. Start(r) >= s.from /\ RowTrue(Sessions(s), r)
    BY <1>1 DEF RowsPlanned
  <2>2. \A x : x.id = r.id => (x \in Sessionize(E) <=> x \in Sessions(s))
    BY <1>1, <2>1, WindowCanon DEF Start
  <2>3. \A x : Content(x) = Content(r) => x.id = r.id
    BY DEF Content
  <2>4. QED
    BY <2>1, <2>2, <2>3 DEF RowTrue
<1>2. QED
  BY <1>1

\* Whatever is settled and sound, a pass that overlaps sees it: it has read everything, and
\* what occurred after it looked is too young.
LEMMA SeesMarks ==
  ASSUME Inv1, Inv4, Undisturbed, NEW p \in Passes, pass[p].at \notin {"idle", "claimed"},
         NEW t \in Times, Settled(t), ~overlapped => t <= pass[p].from
  PROVE  Sees(pass[p], t)
<1>1. PICK s \in PassRecord : s = pass[p]
  BY DEF Inv1, Typed
<1>2. s.from \in Times /\ s.to \in Times /\ s.started \in Times /\ now \in Times
  BY DEF PassRecord, Inv1, Typed
<1>3. s.from \in Nat /\ s.to \in Int /\ s.started \in Int /\ now \in Int /\ t \in Int
  BY <1>2, TimesAreNat, Zenon
<1>4. CASE ~overlapped
  BY <1>1, <1>4 DEF Sees
<1>5. CASE t = 0
  BY <1>1, <1>3, <1>5 DEF Sees
<1>6. CASE overlapped /\ t <= now - Lateness - Inactivity
  <2>1. Cardinality(events) < RowCap /\ PassTime <= Inactivity
    BY <1>6 DEF Undisturbed
  <2>2. now <= s.started + PassTime /\ s.to = s.started
    BY <1>1, <2>1 DEF Inv4, OnTime, Informed
  <2>3. Lateness \in Nat /\ Inactivity \in Int /\ PassTime \in Int
    BY Constants
  <2>4. t <= s.started /\ t <= s.started - Lateness
    BY <1>3, <1>6, <2>1, <2>2, <2>3
  <2>5. QED
    BY <1>1, <2>2, <2>4 DEF Sees
<1>7. QED
  BY <1>4, <1>5, <1>6 DEF Settled

\* The mark of a plan is a clean cut of all events.
LEMMA MarkClean ==
  ASSUME Inv1, NEW s \in PassRecord, s.from <= s.started, s.to <= s.started, s.started <= now,
         Informed(s), Clean(events, s.from),
         s.from = 0 \/ s.from <= s.started - Lateness - Inactivity
  PROVE  Clean(events, Mark(s)) /\ Sees(s, Mark(s))
<1> DEFINE W == Window(s)
           m == Mark(s)
<1>1. /\ m \in Times /\ m >= s.from
      /\ \/ m = s.from
         \/ /\ m <= s.to - Inactivity /\ m <= s.started - Lateness - Inactivity
            /\ m = NewWatermark(Sessions(s), Horizon(s))
  BY MarkSettled
<1>2. s.from \in Times /\ s.to \in Times /\ s.started \in Times
  BY DEF PassRecord
<1>3. s.from \in Int /\ s.to \in Int /\ s.started \in Int /\ m \in Int
  BY <1>1, <1>2, TimesAreNat, Zenon
<1>4. Lateness \in Int /\ Inactivity \in Nat
  BY Constants
<1>5. W \in SUBSET Events /\ W \subseteq s.all /\ \A e \in W : Time(e) >= s.from
  BY DEF Window, PassRecord
<1>6. events \in SUBSET Events /\ s.all \subseteq events
      /\ \A e \in events \ s.all : Time(e) >= s.started - Lateness
  BY DEF Inv1, Typed, Informed
<1>7. \A x \in Sessionize(W) : Start(x) < m => \A e \in x.events : Time(e) < m
  BY MarkIs DEF Sessions
<1> HIDE DEF m, W
<1>8. CASE m = s.from
  BY <1>3, <1>8 DEF Sees, m
<1>9. CASE m <= s.to - Inactivity /\ m <= s.started - Lateness - Inactivity
  <2>1. m + Inactivity \in Int /\ m + Inactivity <= s.to /\ m + Inactivity <= s.started - Lateness
        /\ m <= s.to /\ m <= s.started - Lateness /\ s.from <= m
    BY <1>1, <1>3, <1>4, <1>9
  <2>2. Agree(W, events, s.from, m + Inactivity)
    <3>1. ASSUME NEW e \in events, Time(e) >= s.from, Time(e) < m + Inactivity PROVE e \in W
      <4>1. Time(e) \in Int
        BY <1>6, EventsTyped
      <4>2. Time(e) < s.to /\ ~(Time(e) >= s.started - Lateness)
        BY <1>3, <1>4, <2>1, <3>1, <4>1
      <4>3. QED
        BY <1>6, <3>1, <4>2 DEF Window, W
    <3>2. QED
      BY <1>5, <1>6, <3>1 DEF Agree
  <2>3. Clean(W, s.from)
    BY <1>3, <1>5, CleanAtStart
  <2>4. Clean(W, m)
    <3>1. ASSUME NEW e \in W, Time(e) >= m PROVE SessionOf(W, e)[2] >= m
      <4>1. PICK x \in Sessionize(W) : e \in x.events
        BY <1>5, EveryEventHasASession
      <4>2. SessionOf(W, e) = x.id
        BY <1>5, <4>1, SessionsAre
      <4>3. Start(x) \in Int /\ Time(e) \in Int
        BY <1>5, <4>1, SessionStart, EventsTyped
      <4>4. ~(Start(x) < m)
        BY <1>3, <1>7, <3>1, <4>1, <4>3
      <4>5. QED
        BY <1>3, <4>2, <4>3, <4>4 DEF Start
    <3>2. QED
      BY <3>1 DEF Clean
  <2>5. Clean(events, m)
    BY <1>3, <1>5, <1>6, <2>1, <2>2, <2>3, <2>4, CleanLater
  <2>6. QED
    BY <2>1, <2>5 DEF Sees, m
<1>10. QED
  BY <1>1, <1>8, <1>9

\* A plan is true of its sessions, and writing it makes the facts before its mark those of
\* all events.
LEMMA PlanIsSound ==
  ASSUME Inv1, NEW s \in PassRecord, s.from <= s.started, s.to <= s.started, s.started <= now,
         Informed(s), Clean(events, s.from),
         s.from = 0 \/ s.from <= s.started - Lateness - Inactivity,
         NEW stored \in Reads(Within(facts, s.from, s.to), FactId),
         NEW r, r = Planned(s, stored)
  PROVE  /\ Clean(events, r.mark) /\ RowsPlanned(r)
         /\ WillBe(Canon, facts, r) /\ WillGo(Canon, facts, r)
<1> DEFINE S == Sessions(s)
           rows == Rows(s, stored)
           m == Mark(s)
           C == Sessionize(events)
<1>1. /\ r.rows = rows /\ r.mark = m /\ r.from = s.from /\ r.to = s.to /\ r.all = s.all
  BY DEF Planned, AsPlanned, PassRecord
<1>2. Sessions(r) = S
  BY <1>1 DEF Sessions, Window
<1>3. Clean(events, m) /\ Sees(s, m)
  BY MarkClean
<1>4. /\ m \in Times /\ m >= s.from
      /\ \/ m = s.from
         \/ m <= s.to - Inactivity
  BY MarkSettled
<1>5. s.from \in Times /\ s.to \in Times
  BY DEF PassRecord
<1>6. s.from \in Int /\ s.to \in Int /\ m \in Int
  BY <1>4, <1>5, TimesAreNat, Zenon
<1>7. Inactivity \in Nat
  BY Constants
<1>8. \A x : Start(x) >= s.from /\ Start(x) < m => (x \in C <=> x \in S)
  BY <1>3, <1>4, WindowCanon DEF Informed, Inv1, Typed
<1>9. \A x \in S : Start(x) >= s.from /\ Start(x) < s.to
  BY MarkIs
<1>10. IsPlan(S, stored, rows)
  BY RowsAre DEF Inv1
<1>11. /\ stored \subseteq Within(facts, s.from, s.to) /\ OneEach(stored)
       /\ \A q \in Within(facts, s.from, s.to) : \E x \in stored : x.id = q.id
  BY ReadFacts
<1> HIDE DEF S, rows, m, C
<1>12. \A x \in facts : Start(x) >= s.from /\ Start(x) < s.to => \E q \in stored : q.id = x.id
  BY <1>11 DEF Within
<1>13. stored \subseteq facts /\ \A x \in stored : Start(x) >= s.from /\ Start(x) < s.to
  BY <1>11 DEF Within
<1>14. \A x, y \in facts : x.id = y.id => x.version = y.version
  BY DEF Inv1, Stored
<1>15. \A n \in rows, q \in facts :
         q.id = n.id /\ Start(q) >= s.from /\ Start(q) < s.to => q.version < n.version
  <2>1. SUFFICES ASSUME NEW n \in rows, NEW q \in facts, q.id = n.id,
                        Start(q) >= s.from, Start(q) < s.to
                 PROVE  q.version < n.version
    OBVIOUS
  <2>2. PICK x \in stored : x.id = q.id
    BY <1>12, <2>1
  <2>3. x.version < Higher(stored) /\ n.version = Higher(stored)
    BY <1>10, <2>2 DEF IsPlan
  <2>4. q.version = x.version
    BY <1>13, <1>14, <2>2
  <2>5. QED
    BY <2>3, <2>4
<1>16. RowsPlanned(r)
  <2>1. OneEach(rows)
    BY <1>10 DEF IsPlan
  <2>2. ASSUME NEW n \in rows PROVE Start(n) >= s.from /\ Start(n) < s.to /\ RowTrue(S, n)
    <3>1. CASE ~n.retracted /\ \E x \in S : n.id = x.id /\ n.events = x.events
      <4>1. PICK x \in S : n.id = x.id /\ n.events = x.events
        BY <3>1
      <4>2. Start(n) = Start(x) /\ Content(x) = Content(n)
        BY <4>1 DEF Start, Content
      <4>3. QED
        BY <1>9, <3>1, <4>2 DEF RowTrue
    <3>2. CASE n.retracted /\ (\A x \in S : x.id # n.id) /\ \E q \in stored : q.id = n.id
      <4>1. PICK q \in stored : q.id = n.id
        BY <3>2
      <4>2. Start(n) = Start(q)
        BY <4>1 DEF Start
      <4>3. QED
        BY <1>13, <3>2, <4>2 DEF RowTrue
    <3>3. QED
      BY <1>10, <3>1, <3>2 DEF IsPlan
  <2>3. QED
    BY <1>1, <1>2, <2>1, <2>2 DEF RowsPlanned
<1>17. \A x : Start(x) \in Int /\ Start(x) >= s.from /\ Start(x) < m => Start(x) < s.to
  BY <1>4, <1>6, <1>7
<1>18. WillBe(C, facts, r)
  <2>1. SUFFICES ASSUME NEW x \in C, Start(x) >= s.from, Start(x) < m
                 PROVE  \/ \E q \in Live(facts) : Content(q) = Content(x)
                        \/ \E n \in rows : n.id = x.id /\ \A q \in facts : q.id = n.id => q.version <= n.version
    BY <1>1 DEF WillBe
  <2>2. x \in S
    BY <1>8, <2>1
  <2>3. PICK n \in rows \cup Live(stored) : ~n.retracted /\ n.id = x.id /\ n.events = x.events
    BY <1>10, <2>2 DEF IsPlan
  <2>4. CASE n \in Live(stored)
    BY <1>13, <2>3, <2>4 DEF Live, Content
  <2>5. CASE n \in rows
    <3>1. ASSUME NEW q \in facts, q.id = n.id PROVE q.version <= n.version
      <4>1. Start(q) = Start(x)
        BY <2>3, <3>1 DEF Start
      <4>2. q.version < n.version
        BY <1>9, <1>15, <2>2, <2>5, <3>1, <4>1
      <4>3. q.version \in Nat /\ n.version \in Nat
        <5>1. q.version \in Nat
          BY DEF Inv1, Typed, Facts
        <5>2. n.version \in Nat
          BY <1>10, <2>5 DEF IsPlan, FactOK, Facts
        <5>3. QED
          BY <5>1, <5>2
      <4>4. QED
        BY <4>2, <4>3
    <3>2. QED
      BY <2>3, <2>5, <3>1
  <2>6. QED
    BY <2>3, <2>4, <2>5
<1>19. WillGo(C, facts, r)
  <2>1. SUFFICES ASSUME NEW q \in Live(facts), Start(q) >= s.from, Start(q) < m, ~TiedIn(facts, q),
                        ~\E n \in rows : n.id = q.id /\ q.version <= n.version
                 PROVE  \E x \in C : Content(x) = Content(q)
    BY <1>1 DEF WillGo
  <2>2. q \in facts /\ q.version \in Nat /\ Start(q) \in Int
    BY FactStart DEF Inv1, Typed, Stored, Facts, Live
  <2>3. Start(q) < s.to
    BY <1>17, <2>1, <2>2
  <2>4. \A n \in rows : n.id # q.id
    <3>1. SUFFICES ASSUME NEW n \in rows, n.id = q.id PROVE FALSE
      OBVIOUS
    <3>2. q.version < n.version
      BY <1>15, <2>1, <2>2, <2>3, <3>1
    <3>3. n.version \in Nat
      BY <1>10, <3>1 DEF IsPlan, FactOK, Facts
    <3>4. QED
      BY <2>1, <2>2, <3>1, <3>2, <3>3
  <2>5. q \in Live(stored)
    <3>1. PICK x \in stored : x.id = q.id
      BY <1>12, <2>1, <2>2, <2>3
    <3>2. x = q
      BY <1>13, <2>1, <3>1 DEF TiedIn
    <3>3. QED
      BY <2>1, <3>2 DEF Live
  <2>6. PICK x \in S : x.id = q.id
    BY <1>10, <2>4, <2>5 DEF IsPlan
  <2>7. PICK n \in rows \cup Live(stored) : n.id = x.id /\ n.events = x.events
    BY <1>10 DEF IsPlan
  <2>8. n = q
    BY <1>11, <2>4, <2>5, <2>6, <2>7 DEF OneEach, Live
  <2>9. Content(x) = Content(q) /\ Start(x) = Start(q)
    BY <2>6, <2>7, <2>8 DEF Content, Start
  <2>10. QED
    BY <1>8, <2>1, <2>9
<1>20. QED
  BY <1>1, <1>3, <1>16, <1>18, <1>19 DEF Canon, C

-----------------------------------------------------------------------------
(* The steps. *)

LEMMA UndisturbedBefore ==
  ASSUME Inv1, Inv4, [Next]_vars, Undisturbed'
  PROVE  Undisturbed
<1>1. Arrived
  BY ArrivedNext DEF Inv4
<1>2. overlapped => overlapped'
  <2>1. (\E n \in Names : Crash(n)) \/ (\E p \in Passes, n \in Names : Claim(p, n))
          => (overlapped => overlapped')
    BY CrashDoes, ClaimDoes
  <2>2. QED
    BY <2>1 DEF Next, Step, Arrive, ReadEvents, Plan, WriteFacts, ReadRollups, WriteRollups,
       Advance, Fail, Tick, vars
<1>3. Cardinality(events') < RowCap => Cardinality(events) < RowCap
  <2>1. IsFiniteSet(events') /\ events \in SUBSET events'
    BY <1>1 DEF Arrived
  <2>2. Cardinality(events) <= Cardinality(events') /\ IsFiniteSet(events)
    BY <2>1, FS_Subset
  <2>3. Cardinality(events) \in Int /\ Cardinality(events') \in Int /\ RowCap \in Int
    BY <2>1, <2>2, FS_CardinalityType, Constants
  <2>4. QED
    BY <2>2, <2>3
<1>4. QED
  BY <1>2, <1>3 DEF Undisturbed

\* Two records of one pass that differ in nothing PassSound looks at.
SameSound(s, r) ==
  /\ r.at = s.at /\ r.from = s.from /\ r.started = s.started /\ r.mark = s.mark
  /\ r.all = s.all /\ r.to = s.to /\ r.rows = s.rows

LEMMA SameIsSound ==
  ASSUME NEW s, NEW r, SameSound(s, r), PassSound(s)'
  PROVE  PassSound(r)'
<1>1. Sessions(r) = Sessions(s) /\ Mark(r) = Mark(s)
  BY DEF SameSound, Sessions, Window, Mark, Horizon
<1>2. RowsPlanned(s) => RowsPlanned(r)
  BY <1>1 DEF SameSound, RowsPlanned
<1>3. /\ WillBe(Canon, facts, s)' => WillBe(Canon, facts, r)'
      /\ WillGo(Canon, facts, s)' => WillGo(Canon, facts, r)'
  BY DEF SameSound, WillBe, WillGo
<1>4. Sound(s.mark)' => Sound(r.mark)'
  BY DEF SameSound
<1>5. QED
  BY <1>1, <1>2, <1>3, <1>4 DEF PassSound, SameSound

\* What the passes left alone keep, in any step that does not write facts.
LEMMA OthersSound ==
  ASSUME Inv1, Inv1', Elsewhere, NEW q \in Passes, PassSound(pass[q]), SameSound(pass[q], pass'[q])
  PROVE  PassSound(pass[q])'
<1>1. PICK s \in PassRecord : s = pass[q]
  BY DEF Inv1, Typed
<1>2. PassOK(s)
  BY <1>1 DEF Inv1
<1>3. PassSound(s)'
  <2>1. s.at # "idle" => s.started <= now /\ s.from <= s.started
    BY <1>2 DEF PassOK
  <2>2. s.at \notin {"claimed", "idle"} => s.to <= s.started
    BY <1>2 DEF PassOK
  <2>3. QED
    BY <1>1, <2>1, <2>2, PassSoundKept
<1>4. PICK r : r = pass'[q]
  OBVIOUS
<1>5. SameSound(s, r)
  BY <1>1, <1>4
<1>6. PassSound(r)'
  BY <1>3, <1>5, SameIsSound
<1>7. QED
  BY <1>4, <1>6 DEF PassSound

SoundAll == Sound(watermark) /\ \A p \in Passes : PassSound(pass[p])

\* Only pass p moves, the facts and the watermark stay.
LEMMA SoundOwnStep ==
  ASSUME Inv1, Inv1', Elsewhere, SoundAll, watermark' = watermark,
         NEW p \in Passes, \A q \in Passes \ {p} : SameSound(pass[q], pass'[q]),
         PassSound(pass[p])'
  PROVE  SoundAll'
<1>1. watermark \in Times
  BY DEF Inv1, Typed
<1>2. PICK w \in Times : w = watermark
  BY <1>1
<1>3. Sound(w)'
  BY <1>2, SoundKept DEF SoundAll
<1>4. Sound(watermark)'
  BY <1>2, <1>3
<1>5. \A q \in Passes \ {p} : PassSound(pass[q])'
  BY OthersSound DEF SoundAll
<1>6. QED
  BY <1>4, <1>5 DEF SoundAll

LEMMA SoundClaim ==
  ASSUME Inv1, Inv1', Elsewhere, SoundAll, NEW p \in Passes, NEW n \in Names, Claim(p, n)
  PROVE  SoundAll'
<1>1. /\ pass'[p].at = "claimed" /\ pass'[p].from = watermark /\ pass'[p].started = now
      /\ watermark' = watermark /\ events' = events
  BY ClaimMine, ClaimDoes DEF Inv1, Typed
<1>2. PICK r : r = pass'[p]
  OBVIOUS
<1>3. Settled(watermark) /\ Clean(events, watermark)
  BY DEF SoundAll, Sound
<1>4. r.from = 0 \/ r.from <= r.started - Lateness - Inactivity
  BY <1>1, <1>2, <1>3 DEF Settled
<1>5. PassSound(r)'
  BY <1>1, <1>2, <1>3, <1>4 DEF PassSound
<1>6. PassSound(pass[p])'
  BY <1>2, <1>5 DEF PassSound
<1>7. \A q \in Passes \ {p} : SameSound(pass[q], pass'[q])
  BY ClaimTheirs DEF Inv1, SameSound
<1>8. QED
  BY <1>1, <1>6, <1>7, SoundOwnStep

LEMMA SoundReadEvents ==
  ASSUME Inv1, Inv1', Inv4, Elsewhere, SoundAll, NEW p \in Passes, ReadEvents(p)
  PROVE  SoundAll'
<1>1. /\ pass'[p].at = "read" /\ pass[p].at = "claimed"
      /\ pass'[p].from = pass[p].from /\ pass'[p].started = pass[p].started
      /\ \A q \in Passes \ {p} : pass'[q] = pass[q]
      /\ UNCHANGED <<events, watermark>>
  BY ReadsWhole DEF Inv4
<1>2. PICK r : r = pass'[p]
  OBVIOUS
<1>3. PassSound(pass[p])
  BY DEF SoundAll
<1>4. PassSound(r)'
  BY <1>1, <1>2, <1>3 DEF PassSound
<1>5. PassSound(pass[p])'
  BY <1>2, <1>4 DEF PassSound
<1>6. QED
  BY <1>1, <1>5, SoundOwnStep DEF SameSound

LEMMA SoundPlan ==
  ASSUME Inv1, Inv1', Inv4, Elsewhere, SoundAll, NEW p \in Passes, Plan(p)
  PROVE  SoundAll'
<1>1. PICK s \in PassRecord : s = pass[p]
  BY DEF Inv1, Typed
<1>2. /\ s.at = "read" /\ UNCHANGED <<now, events, watermark, facts>>
      /\ \E stored \in Reads(Within(facts, s.from, s.to), FactId) :
           pass' = [pass EXCEPT ![p] = Planned(s, stored)]
  BY <1>1, PlanDoes
<1>3. PICK stored \in Reads(Within(facts, s.from, s.to), FactId) :
        pass' = [pass EXCEPT ![p] = Planned(s, stored)]
  BY <1>2
<1>4. PICK r : r = Planned(s, stored)
  OBVIOUS
<1>5. /\ r.at = "planned" /\ r.mark = Mark(s) /\ r.from = s.from /\ r.to = s.to
      /\ r.started = s.started /\ r.all = s.all
  BY <1>4 DEF Planned, AsPlanned, PassRecord
<1>6. /\ s.from <= s.started /\ s.to <= s.started /\ s.started <= now
  BY <1>1, <1>2 DEF Inv1, PassOK
<1>7. Informed(s)
  BY <1>1, <1>2 DEF Inv4, OnTime
<1>8. /\ Clean(events, s.from)
      /\ s.from = 0 \/ s.from <= s.started - Lateness - Inactivity
  BY <1>1, <1>2 DEF SoundAll, PassSound
<1>9. /\ Clean(events, r.mark) /\ RowsPlanned(r)
      /\ WillBe(Canon, facts, r) /\ WillGo(Canon, facts, r)
  BY <1>4, <1>6, <1>7, <1>8, PlanIsSound
<1>10. r.mark = Mark(r)
  BY <1>5 DEF Mark, Sessions, Window, Horizon
<1>11. PassSound(r)
  BY <1>5, <1>8, <1>9, <1>10 DEF PassSound
<1>12. PassSound(r)'
  BY <1>2, <1>5, <1>8, <1>9, <1>10 DEF PassSound, Canon
<1>13. pass'[p] = r /\ \A q \in Passes \ {p} : pass'[q] = pass[q]
  BY <1>3, <1>4 DEF Inv1, Typed
<1>14. PassSound(pass[p])'
  BY <1>12, <1>13 DEF PassSound
<1>15. QED
  BY <1>2, <1>13, <1>14, SoundOwnStep DEF SameSound

\* A pass goes on from what it has written: its mark stays sound.
LEMMA SoundLater ==
  ASSUME Inv1, Inv1', Elsewhere, SoundAll, NEW p \in Passes, watermark' = watermark,
         pass[p].at \in {"written", "aggregated"},
         NEW r, pass' = [pass EXCEPT ![p] = r],
         r.at \in {"aggregated", "swapped"}, r.from = pass[p].from,
         r.started = pass[p].started, r.mark = pass[p].mark
  PROVE  SoundAll'
<1>1. PICK s \in PassRecord : s = pass[p]
  BY DEF Inv1, Typed
<1>2. PassOK(s) /\ PassSound(s)
  BY <1>1 DEF Inv1, SoundAll
<1>3. s.started <= now /\ s.from <= s.started /\ s.to <= s.started
  BY <1>1, <1>2 DEF PassOK
<1>4. PassSound(s)'
  BY <1>2, <1>3, PassSoundKept
<1>5. PassSound(r)'
  BY <1>1, <1>4 DEF PassSound
<1>6. pass'[p] = r /\ \A q \in Passes \ {p} : pass'[q] = pass[q]
  BY DEF Inv1, Typed
<1>7. PassSound(pass[p])'
  BY <1>5, <1>6 DEF PassSound
<1>8. QED
  BY <1>6, <1>7, SoundOwnStep DEF SameSound

LEMMA SoundReadRollups ==
  ASSUME Inv1, Inv1', Elsewhere, SoundAll, NEW p \in Passes, ReadRollups(p)
  PROVE  SoundAll'
<1>1. PICK swap : pass' = [pass EXCEPT ![p] = AsAggregated(pass[p], swap)]
  BY ReadRollupsDoes
<1>2. pass[p].at = "written" /\ watermark' = watermark /\ pass[p] \in PassRecord
  BY ReadRollupsDoes DEF Inv1, Typed
<1>3. PICK r : r = AsAggregated(pass[p], swap)
  OBVIOUS
<1>4. /\ r.at = "aggregated" /\ r.from = pass[p].from /\ r.started = pass[p].started
      /\ r.mark = pass[p].mark
  BY <1>2, <1>3 DEF AsAggregated, PassRecord
<1>5. QED
  BY <1>1, <1>2, <1>3, <1>4, SoundLater

LEMMA SoundWriteRollups ==
  ASSUME Inv1, Inv1', Elsewhere, SoundAll, NEW p \in Passes, WriteRollups(p)
  PROVE  SoundAll'
<1>1. /\ pass[p].at = "aggregated" /\ pass' = [pass EXCEPT ![p] = AsSwapped(pass[p])]
      /\ watermark' = watermark /\ pass[p] \in PassRecord
  BY DEF WriteRollups, AsSwapped, Inv1, Typed
<1>2. PICK r : r = AsSwapped(pass[p])
  OBVIOUS
<1>3. /\ r.at = "swapped" /\ r.from = pass[p].from /\ r.started = pass[p].started
      /\ r.mark = pass[p].mark
  BY <1>1, <1>2, SwappedRecord
<1>4. QED
  BY <1>1, <1>2, <1>3, SoundLater

\* The watermark moves up to a mark whose facts are sound.
LEMMA SoundAdvance ==
  ASSUME Inv1, Inv1', Elsewhere, SoundAll, NEW p \in Passes, Advance(p)
  PROVE  SoundAll'
<1>1. /\ pass[p].at = "swapped" /\ pass' = [pass EXCEPT ![p] = Idle]
      /\ watermark' = MaxOf({watermark, pass[p].mark}) \/ watermark' = watermark
  BY DEF Advance
<1>2. watermark \in Times /\ pass[p].mark \in Times
  BY DEF Inv1, Typed, PassRecord
<1>3. watermark \in Int /\ pass[p].mark \in Int
  BY <1>2, TimesAreNat, Zenon
<1>4. watermark' \in {watermark, pass[p].mark}
  <2>1. MaxOf({watermark, pass[p].mark})
          = IF watermark >= pass[p].mark THEN watermark ELSE pass[p].mark
    BY <1>3, MaxOfTwo
  <2>2. QED
    BY <1>1, <2>1
<1>5. PICK w \in Times : w = watermark'
  BY <1>2, <1>4
<1>6. Sound(w)
  BY <1>1, <1>4, <1>5 DEF SoundAll, PassSound
<1>7. Sound(w)'
  BY <1>6, SoundKept
<1>8. Sound(watermark)'
  BY <1>5, <1>7 DEF Sound, Settled
<1>9. pass'[p].at = "idle" /\ \A q \in Passes \ {p} : pass'[q] = pass[q]
  BY <1>1 DEF Inv1, Typed, Idle
<1>10. \A q \in Passes \ {p} : PassSound(pass[q])'
  BY <1>9, OthersSound DEF SoundAll, SameSound
<1>11. PassSound(pass[p])'
  BY <1>9 DEF PassSound
<1>12. QED
  BY <1>8, <1>10, <1>11 DEF SoundAll

\* Steps in which passes end or nothing moves but the clock and the events.
LEMMA SoundEnds ==
  ASSUME Inv1, Inv1', Elsewhere, SoundAll, watermark' = watermark,
         \A q \in Passes : pass'[q] = pass[q] \/ pass'[q].at = "idle"
  PROVE  SoundAll'
<1>1. PICK w \in Times : w = watermark
  BY DEF Inv1, Typed
<1>2. Sound(w)'
  BY <1>1, SoundKept DEF SoundAll
<1>3. Sound(watermark)'
  BY <1>1, <1>2
<1>4. ASSUME NEW q \in Passes PROVE PassSound(pass[q])'
  <2>1. CASE pass'[q] = pass[q]
    BY <2>1, OthersSound DEF SoundAll, SameSound
  <2>2. CASE pass'[q].at = "idle"
    BY <2>2 DEF PassSound
  <2>3. QED
    BY <2>1, <2>2
<1>5. QED
  BY <1>3, <1>4 DEF SoundAll

\* The write of one pass.  Whatever is sound, the pass has seen, so its rows are true there.
LEMMA SoundWriteFacts ==
  ASSUME Inv1, Inv1', Inv3, Inv4, Undisturbed, SoundAll, NEW p \in Passes, WriteFacts(p)
  PROVE  SoundAll'
<1>1. PICK s \in PassRecord : s = pass[p]
  BY DEF Inv1, Typed
<1>2. PICK new : new = facts'
  OBVIOUS
<1>3. /\ s.at = "planned" /\ new = Supersede(facts, s.rows, FactId, FactVersion)
      /\ pass' = [pass EXCEPT ![p] = AsWritten(s)]
      /\ UNCHANGED <<now, events, watermark>>
  BY <1>1, <1>2 DEF WriteFacts, AsWritten
<1>4. /\ s.mark = Mark(s) /\ Clean(events, s.mark) /\ RowsPlanned(s)
      /\ WillBe(Canon, facts, s) /\ WillGo(Canon, facts, s)
      /\ Clean(events, s.from)
      /\ s.from = 0 \/ s.from <= s.started - Lateness - Inactivity
  BY <1>1, <1>3 DEF SoundAll, PassSound
<1>5. s.from <= s.started /\ s.to <= s.started /\ s.started <= now
  BY <1>1, <1>3 DEF Inv1, PassOK
<1>6. Informed(s) /\ s.from <= watermark
  BY <1>1, <1>3 DEF Inv4, OnTime
<1>7. /\ \A r \in facts \cup s.rows : r.version \in Nat /\ Start(r) \in Int
      /\ \A r, q \in facts : r.id = q.id => r.version = q.version
      /\ OneEach(s.rows) /\ \A r \in s.rows : Start(r) >= s.from
  <2>1. /\ \A r \in facts \cup s.rows : FactOK(r)
    BY <1>1, <1>3 DEF Inv1, Stored, PassOK
  <2>2. \A r \in facts \cup s.rows : r.version \in Nat /\ Start(r) \in Int
    BY <2>1, FactStart DEF FactOK, Facts
  <2>3. QED
    BY <1>4, <2>2 DEF Inv1, Stored, RowsPlanned
<1>8. events \in SUBSET Events /\ s.all \subseteq events
      /\ \A e \in events \ s.all : Time(e) >= s.started - Lateness
  BY <1>6 DEF Inv1, Typed, Informed
<1>9. ASSUME NEW t \in Times, Sees(s, t), Clean(events, t)
      PROVE  \A r \in s.rows : Start(r) < t => RowTrue(Canon, r)
  BY <1>4, <1>8, <1>9, RowsTrue DEF Canon
<1>10. s.from \in Times /\ s.mark \in Times /\ watermark \in Times
  BY DEF PassRecord, Inv1, Typed
<1>11. s.from \in Int /\ s.mark \in Int /\ watermark \in Int
  BY <1>10, TimesAreNat, Zenon
<1>12. ~overlapped => watermark <= s.from /\ \A q \in Passes \ {p} : pass[q].at = "idle"
  <2>1. ASSUME ~overlapped PROVE s.from = watermark /\ \A q \in Passes \ {p} : pass[q].at = "idle"
    BY <1>1, <1>3, <2>1 DEF Inv3, Orderly, PassGoesOn, Single, Running
  <2>2. QED
    BY <1>11, <2>1
\* Facts sound before a t the pass sees stay so.
<1>13. ASSUME NEW t \in Times, Sound(t), ~overlapped => t <= s.from
       PROVE  Sound(t)'
  <2>1. Sees(s, t)
    BY <1>1, <1>3, <1>13, SeesMarks DEF Sound
  <2>2. \A r \in s.rows : Start(r) < t => RowTrue(Canon, r)
    BY <1>9, <1>13, <2>1 DEF Sound
  <2>3. AllThere(Canon, new, t) /\ NoneElse(Canon, new, t)
    BY <1>3, <1>7, <1>8, <1>13, <2>2, WriteKeeps DEF Sound, Canon
  <2>4. AllThere(Canon, facts, t)' /\ NoneElse(Canon, facts, t)'
    BY <1>2, <1>3, <2>3 DEF Canon
  <2>5. QED
    BY <1>3, <1>13, <2>4 DEF Sound, Settled
<1>14. Sound(watermark)'
  <2>1. PICK w \in Times : w = watermark
    BY <1>10
  <2>2. Sound(w)'
    BY <1>12, <1>13, <2>1 DEF SoundAll
  <2>3. QED
    BY <1>3, <2>1, <2>2
\* Its own mark becomes sound.
<1>15. Sound(s.mark)'
  <2>1. Sees(s, s.mark) /\ Settled(s.mark)
    BY <1>4, <1>5, <1>6, MarkClean, MarkSettled
  <2>2. \A r \in s.rows : Start(r) < s.mark => RowTrue(Canon, r)
    BY <1>4, <1>9, <1>10, <2>1
  <2>3. AllThere(Canon, facts, s.from) /\ NoneElse(Canon, facts, s.from)
    <3>1. AllThere(Canon, facts, watermark) /\ NoneElse(Canon, facts, watermark)
      BY DEF SoundAll, Sound
    <3>2. \A x \in Canon : Start(x) \in Int
      BY <1>8, SessionStart DEF Canon
    <3>3. \A x : Start(x) \in Int /\ Start(x) < s.from => Start(x) < watermark
      BY <1>6, <1>11
    <3>4. QED
      BY <1>7, <3>1, <3>2, <3>3 DEF AllThere, NoneElse, Live
  <2>4. AllThere(Canon, new, s.mark) /\ NoneElse(Canon, new, s.mark)
    BY <1>3, <1>4, <1>7, <1>8, <1>11, <2>2, <2>3, WriteDoes DEF Canon
  <2>5. AllThere(Canon, facts, s.mark)' /\ NoneElse(Canon, facts, s.mark)'
    BY <1>2, <1>3, <2>4 DEF Canon
  <2>6. QED
    BY <1>3, <1>4, <2>1, <2>5 DEF Sound, Settled
<1>16. pass'[p] = AsWritten(s) /\ \A q \in Passes \ {p} : pass'[q] = pass[q]
  BY <1>3 DEF Inv1, Typed
<1>17. PassSound(pass[p])'
  <2>1. PICK r : r = AsWritten(s)
    OBVIOUS
  <2>2. r.at = "written" /\ r.mark = s.mark /\ r.from = s.from /\ r.started = s.started
    BY <2>1, WrittenRecord
  <2>3. PassSound(r)'
    BY <1>3, <1>4, <1>15, <2>2 DEF PassSound
  <2>4. QED
    BY <1>16, <2>1, <2>3 DEF PassSound
\* What other passes have planned, and what they have written, stays true.
<1>18. ASSUME NEW q \in Passes \ {p} PROVE PassSound(pass[q])'
  <2>1. PICK r \in PassRecord : r = pass[q]
    BY DEF Inv1, Typed
  <2>2. PassSound(r)
    BY <2>1 DEF SoundAll
  <2>3. CASE r.at = "idle"
    BY <1>16, <2>1, <2>3 DEF PassSound
  <2>4. CASE r.at # "idle"
    <3>1. overlapped
      BY <1>12, <2>1, <2>4
    <3>2. r.mark \in Times
      BY DEF PassRecord
    <3>3. r.at \in {"written", "aggregated", "swapped"} => Sound(r.mark)'
      BY <1>13, <2>2, <2>4, <3>1, <3>2 DEF PassSound
    <3>4. ASSUME r.at = "planned" PROVE WillBe(Canon, facts, r)' /\ WillGo(Canon, facts, r)'
      <4>1. /\ r.mark = Mark(r) /\ Clean(events, r.mark)
            /\ WillBe(Canon, facts, r) /\ WillGo(Canon, facts, r)
            /\ r.from = 0 \/ r.from <= r.started - Lateness - Inactivity
        BY <2>2, <3>4 DEF PassSound
      <4>2. r.from <= r.started /\ r.to <= r.started /\ r.started <= now
        BY <2>1, <3>4 DEF Inv1, PassOK
      <4>3. Settled(r.mark)
        BY <4>1, <4>2, MarkSettled
      <4>4. Sees(s, r.mark)
        BY <1>1, <1>3, <3>1, <3>2, <4>3, SeesMarks
      <4>5. \A n \in s.rows : Start(n) < r.mark => RowTrue(Canon, n)
        BY <1>9, <3>2, <4>1, <4>4
      <4>6. \A n \in r.rows : n.version \in Nat
        BY DEF PassRecord, Facts
      <4>7. WillBe(Canon, new, r) /\ WillGo(Canon, new, r)
        BY <1>3, <1>7, <1>8, <4>1, <4>5, <4>6, WriteLeaves DEF Canon
      <4>8. QED
        BY <1>2, <1>3, <4>7 DEF Canon
    <3>5. PassSound(r)'
      BY <1>3, <2>2, <3>3, <3>4 DEF PassSound
    <3>6. QED
      BY <1>16, <2>1, <3>5 DEF PassSound
  <2>5. QED
    BY <2>3, <2>4
<1>19. QED
  BY <1>14, <1>17, <1>18 DEF SoundAll

LEMMA SoundInit == Init => Inv5
<1> SUFFICES ASSUME Init PROVE SoundAll
  BY DEF Inv5, SoundAll
<1>1. Canon = {}
  BY DEF Init, Canon, Sessionize
<1>2. Sound(0)
  BY <1>1 DEF Init, Sound, Settled, Clean, AllThere, NoneElse, Live
<1>3. \A p \in Passes : PassSound(pass[p])
  BY DEF Init, Idle, PassSound
<1>4. QED
  BY <1>2, <1>3 DEF Init, SoundAll

LEMMA SoundNext == Inv1 /\ Inv3 /\ Inv4 /\ Inv5 /\ [Next]_vars => Inv5'
<1> SUFFICES ASSUME Inv1, Inv3, Inv4, Inv5, [Next]_vars, Undisturbed' PROVE SoundAll'
  BY DEF Inv5, SoundAll
<1>1. Inv1' /\ Arrived
  BY TypedNext, ArrivedNext DEF Inv4
<1>2. Undisturbed /\ SoundAll
  BY UndisturbedBefore DEF Inv5, SoundAll
<1>3. now \in Int /\ now' \in Int
  BY <1>1, TimesAreNat DEF Inv1, Typed
<1>4. ASSUME facts' = facts, now' = now \/ Tick PROVE Elsewhere
  BY <1>1, <1>3, <1>4 DEF Elsewhere, Tick
<1>5. ASSUME NEW p \in Passes, NEW n \in Names, Claim(p, n) PROVE SoundAll'
  <2>1. Elsewhere
    BY <1>4, <1>5, ClaimDoes
  <2>2. QED
    BY <1>1, <1>2, <1>5, <2>1, SoundClaim
<1>6. CASE \E e \in Events : Arrive(e)
  <2>1. facts' = facts /\ now' = now /\ pass' = pass /\ watermark' = watermark
    BY <1>6 DEF Arrive
  <2>2. QED
    BY <1>1, <1>2, <1>4, <2>1, SoundEnds
<1>7. ASSUME NEW p \in Passes, Step(p) PROVE SoundAll'
  <2>1. CASE WriteFacts(p)
    BY <1>1, <1>2, <2>1, SoundWriteFacts
  <2>2. CASE ~WriteFacts(p)
    <3>1. facts' = facts /\ now' = now
      BY <1>7, <2>2 DEF Step, ReadEvents, Plan, ReadRollups, WriteRollups, Advance
    <3>2. Elsewhere
      BY <1>4, <3>1
    <3>3. QED
      BY <1>1, <1>2, <1>7, <2>2, <3>2, SoundReadEvents, SoundPlan, SoundReadRollups,
         SoundWriteRollups, SoundAdvance DEF Step
  <2>3. QED
    BY <2>1, <2>2
<1>8. ASSUME NEW p \in Passes, Fail(p) PROVE SoundAll'
  <2>1. /\ pass' = [pass EXCEPT ![p] = Idle]
        /\ facts' = facts /\ now' = now /\ watermark' = watermark
    BY <1>8 DEF Fail
  <2>2. \A q \in Passes : pass'[q] = pass[q] \/ pass'[q].at = "idle"
    BY <2>1 DEF Inv1, Typed, Idle
  <2>3. QED
    BY <1>1, <1>2, <1>4, <2>1, <2>2, SoundEnds
<1>9. ASSUME NEW n \in Names, Crash(n) PROVE SoundAll'
  <2>1. /\ facts' = facts /\ now' = now /\ watermark' = watermark
        /\ \A q \in Passes : pass'[q] = pass[q] \/ pass'[q].at = "idle"
    BY <1>9, CrashDoes DEF Idle
  <2>2. QED
    BY <1>1, <1>2, <1>4, <2>1, SoundEnds
<1>10. CASE Tick
  <2>1. facts' = facts /\ pass' = pass /\ watermark' = watermark
    BY <1>10 DEF Tick
  <2>2. QED
    BY <1>1, <1>2, <1>4, <1>10, <2>1, SoundEnds
<1>11. CASE UNCHANGED vars
  <2>1. facts' = facts /\ now' = now /\ pass' = pass /\ watermark' = watermark
    BY <1>11 DEF vars
  <2>2. QED
    BY <1>1, <1>2, <1>4, <2>1, SoundEnds
<1>12. QED
  BY <1>5, <1>6, <1>7, <1>8, <1>9, <1>10, <1>11 DEF Next

LEMMA SoundAlways == Spec => []Inv5
BY SoundInit, TypedAlways, OrderlyAlways, OnTimeAlways, SoundNext, PTL DEF Spec

\* Every stored event behind the watermark is in a current session, also of passes that
\* overlap, as long as their reads are not cut and none of them outlasts a session.
THEOREM WatermarkIsComplete == Spec => []BehindWatermarkIsCounted
<1>1. ASSUME Inv1, Inv5, Undisturbed, NEW e \in events, Time(e) < watermark
      PROVE  Counted(e)
  <2>1. events \in SUBSET Events /\ watermark \in Times
    BY <1>1 DEF Inv1, Typed
  <2>2. PICK x \in Canon : e \in x.events
    BY <2>1, EveryEventHasASession DEF Canon
  <2>3. Start(x) <= Time(e) /\ Start(x) \in Int /\ Time(e) \in Int
    BY <2>1, <2>2, SessionsAre, SessionStart, EventsTyped DEF Canon
  <2>4. watermark \in Int
    BY <2>1, TimesAreNat, Zenon
  <2>5. PICK r \in Live(facts) : Content(r) = Content(x)
    <3>1. Start(x) < watermark
      BY <1>1, <2>3, <2>4
    <3>2. AllThere(Canon, facts, watermark)
      BY <1>1 DEF Inv5, Sound
    <3>3. QED
      BY <3>1, <3>2 DEF AllThere
  <2>6. QED
    BY <2>2, <2>5 DEF Content, Counted
<1>2. Inv1 /\ Inv5 => BehindWatermarkIsCounted
  BY <1>1 DEF BehindWatermarkIsCounted
<1>3. QED
  BY <1>2, TypedAlways, SoundAlways, PTL

\* What a pass writes behind the watermark is what is there already.
LEMMA WriteIsTrue ==
  ASSUME Inv1, Inv3, Inv4, Undisturbed, SoundAll, NEW p \in Passes, WriteFacts(p)
  PROVE  /\ \A r \in facts' : r \in facts \/ (Start(r) < watermark => RowTrue(Canon, r))
         /\ events' = events /\ watermark' = watermark
<1>1. PICK s \in PassRecord : s = pass[p]
  BY DEF Inv1, Typed
<1>2. /\ s.at = "planned" /\ facts' = Supersede(facts, s.rows, FactId, FactVersion)
      /\ UNCHANGED <<now, events, watermark>>
  BY <1>1 DEF WriteFacts
<1>3. RowsPlanned(s) /\ Clean(events, s.from)
  BY <1>1, <1>2 DEF SoundAll, PassSound
<1>4. Informed(s)
  BY <1>1, <1>2 DEF Inv4, OnTime
<1>5. PICK w \in Times : w = watermark
  BY DEF Inv1, Typed
<1>6. Sound(w)
  BY <1>5 DEF SoundAll
<1>7. Sees(s, w)
  <2>1. ~overlapped => s.from = watermark
    BY <1>1, <1>2 DEF Inv3, Orderly, PassGoesOn
  <2>2. ~overlapped => w <= s.from
    <3>1. w <= w
      BY TimesAreNat
    <3>2. QED
      BY <1>5, <2>1, <3>1
  <2>3. QED
    BY <1>1, <1>2, <1>6, <2>2, SeesMarks DEF Sound
<1>8. \A r \in s.rows : Start(r) < w => RowTrue(Canon, r)
  BY <1>3, <1>4, <1>6, <1>7, RowsTrue DEF Sound, Canon, Informed, Inv1, Typed
<1>9. facts' \subseteq facts \cup s.rows
  BY <1>2 DEF Supersede
<1>10. QED
  BY <1>2, <1>5, <1>8, <1>9

\* What is reported as finalized through the watermark is not revised, also by passes that
\* overlap: a pass that planned before the watermark moved past its window writes there
\* only what is there.
THEOREM FinalIsNotRevised == Spec => BehindWatermarkIsFinal
<1>1. ASSUME Inv1, Inv3, Inv4, Inv5, Inv5', [Next]_vars
      PROVE  [Undisturbed' /\ (\A r \in facts : Start(r) < watermark => ~Tied(r))
                => Final(facts') = Final(facts)]_vars
  <2>1. SUFFICES ASSUME Undisturbed', \A r \in facts : Start(r) < watermark => ~Tied(r),
                        facts' # facts
                 PROVE  Final(facts') = Final(facts)
    OBVIOUS
  <2>2. PICK p \in Passes : WriteFacts(p)
    <3>1. (\E n \in Names : Crash(n)) \/ (\E p \in Passes, n \in Names : Claim(p, n)) => facts' = facts
      BY CrashDoes, ClaimDoes
    <3>2. QED
      BY <1>1, <2>1, <3>1 DEF Next, Step, Arrive, ReadEvents, Plan, ReadRollups, WriteRollups,
         Advance, Fail, Tick, vars
  <2>3. Undisturbed /\ SoundAll /\ Sound(watermark)'
    <3>1. Undisturbed
      BY <1>1, <2>1, UndisturbedBefore
    <3>2. QED
      BY <1>1, <2>1, <3>1 DEF Inv5, SoundAll
  <2>4. /\ \A r \in facts' : r \in facts \/ (Start(r) < watermark => RowTrue(Canon, r))
        /\ events' = events /\ watermark' = watermark
    BY <1>1, <2>2, <2>3, WriteIsTrue
  <2>5. PICK new : new = facts'
    OBVIOUS
  <2>6. AllThere(Canon, facts, watermark) /\ NoneElse(Canon, facts, watermark)
    BY <2>3 DEF SoundAll, Sound
  <2>7. AllThere(Canon, new, watermark)
    BY <2>3, <2>4, <2>5 DEF Sound, Canon
  <2>8. \A x, r : Content(x) = Content(r) => Start(x) = Start(r)
    BY DEF Content, Start
  <2>9. ASSUME NEW r \in Live(new), Start(r) < watermark
        PROVE  \E q \in Live(facts) : Content(q) = Content(r) /\ Start(q) < watermark
    <3>1. CASE r \in facts
      BY <2>9, <3>1 DEF Live
    <3>2. CASE r \notin facts
      <4>1. RowTrue(Canon, r) /\ ~r.retracted
        BY <2>4, <2>5, <2>9, <3>2 DEF Live
      <4>2. PICK x \in Canon : Content(x) = Content(r)
        BY <4>1 DEF RowTrue
      <4>3. QED
        BY <2>6, <2>8, <2>9, <4>2 DEF AllThere
    <3>3. QED
      BY <3>1, <3>2
  <2>10. ASSUME NEW r \in Live(facts), Start(r) < watermark
         PROVE  \E q \in Live(new) : Content(q) = Content(r) /\ Start(q) < watermark
    <3>1. ~TiedIn(facts, r)
      BY <2>1, <2>10 DEF TiedIn, Tied, Live
    <3>2. PICK x \in Canon : Content(x) = Content(r)
      BY <2>6, <2>10, <3>1 DEF NoneElse
    <3>3. QED
      BY <2>7, <2>8, <2>10, <3>2 DEF AllThere
  <2>11. Final(new) = Final(facts)
    BY <2>9, <2>10 DEF Final
  <2>12. QED
    BY <2>5, <2>11
<1>2. QED
  BY <1>1, TypedAlways, OrderlyAlways, OnTimeAlways, SoundAlways, PTL
     DEF Spec, BehindWatermarkIsFinal

-----------------------------------------------------------------------------
(* After a pass that ran alone over everything, the facts are those of all it read. *)

NoTies(F) == \A r \in F : ~TiedIn(F, r)

\* The current facts of the pass's window are its sessions, unless rows are tied.
Whole(F, s) ==
  NoTies(F) =>
    /\ \A x \in Sessions(s) : \E r \in Live(F) : Content(r) = Content(x)
    /\ \A r \in Live(F) : Start(r) >= s.from /\ Start(r) < s.to =>
         \E x \in Sessions(s) : Content(x) = Content(r)

AloneSound(s) ==
  s.at # "idle" /\ s.alone =>
    /\ \A r \in facts : Start(r) < s.started
    /\ s.at = "planned" => \E stored \in Reads(Within(facts, s.from, s.to), FactId) :
                             IsPlan(Sessions(s), stored, s.rows)
    /\ s.at \in {"written", "aggregated", "swapped"} => Whole(facts, s)

Inv6 ==
  Undisturbed => (\A r \in facts : Start(r) < now) /\ \A p \in Passes : AloneSound(pass[p])

\* The write of a plan for what was stored.
LEMMA WriteIsWhole ==
  ASSUME NEW s \in PassRecord, s.from <= s.started, s.to <= s.started, RowsPlanned(s),
         NEW old, NEW stored \in Reads(Within(old, s.from, s.to), FactId),
         IsPlan(Sessions(s), stored, s.rows),
         \A r \in old \cup s.rows : r.version \in Nat,
         \A r, q \in old : r.id = q.id => r.version = q.version,
         NEW new, new = Supersede(old, s.rows, FactId, FactVersion)
  PROVE  Whole(new, s)
<1> DEFINE S == Sessions(s)
<1>1. /\ stored \subseteq Within(old, s.from, s.to) /\ OneEach(stored)
      /\ \A q \in Within(old, s.from, s.to) : \E x \in stored : x.id = q.id
  BY ReadFacts
<1>2. \A x \in old : Start(x) >= s.from /\ Start(x) < s.to => \E q \in stored : q.id = x.id
  BY <1>1 DEF Within
<1>3. stored \subseteq old
  BY <1>1 DEF Within
<1>4. \A x \in S : Start(x) >= s.from /\ Start(x) < s.to
  BY MarkIs
<1>5. /\ \A n \in s.rows : n.version = Higher(stored) /\ Start(n) >= s.from /\ Start(n) < s.to
      /\ \A q \in stored : q.version < Higher(stored)
      /\ OneEach(s.rows)
  BY DEF IsPlan, RowsPlanned
<1>6. /\ new \subseteq old \cup s.rows
      /\ \A r \in old : (\A q \in s.rows : q.id = r.id => q.version <= r.version) => r \in new
      /\ \A n \in s.rows : (\A q \in old : q.id = n.id => q.version <= n.version) => n \in new
      /\ \A r \in new, q \in old \cup s.rows : r.id = q.id =>
           q.version <= r.version /\ (q.version = r.version => q \in new)
  BY <1>5, SupersedeIs
<1>7. ASSUME NEW n \in s.rows, NEW q \in old, q.id = n.id PROVE q.version < n.version
  <2>1. Start(q) >= s.from /\ Start(q) < s.to
    BY <1>5, <1>7 DEF Start
  <2>2. PICK x \in stored : x.id = q.id
    BY <1>2, <2>1
  <2>3. QED
    BY <1>3, <1>5, <2>2
<1>8. s.rows \subseteq new
  <2>1. ASSUME NEW n \in s.rows PROVE n \in new
    <3>1. ASSUME NEW q \in old, q.id = n.id PROVE q.version <= n.version
      <4>1. q.version < n.version /\ q.version \in Nat /\ n.version \in Nat
        BY <1>7, <3>1
      <4>2. QED
        BY <4>1
    <3>2. QED
      BY <1>6, <3>1
  <2>2. QED
    BY <2>1
<1>9. \A x \in S : \E r \in s.rows \cup {q \in Live(stored) : \A n \in s.rows : n.id # q.id} :
        ~r.retracted /\ r.id = x.id /\ r.events = x.events
  BY DEF IsPlan
<1>10. \A q \in Live(stored) : (\A x \in S : x.id # q.id) => \E r \in s.rows : r.id = q.id
  BY DEF IsPlan
<1> HIDE DEF S
<1>11. ASSUME NEW x \in S PROVE \E r \in Live(new) : Content(r) = Content(x)
  <2>1. PICK r \in s.rows \cup {q \in Live(stored) : \A n \in s.rows : n.id # q.id} :
          ~r.retracted /\ r.id = x.id /\ r.events = x.events
    BY <1>9
  <2>2. r \in new
    <3>1. CASE r \in s.rows
      BY <1>8, <3>1
    <3>2. CASE r \in Live(stored) /\ \A n \in s.rows : n.id # r.id
      BY <1>3, <1>6, <3>2 DEF Live
    <3>3. QED
      BY <2>1, <3>1, <3>2
  <2>3. QED
    BY <2>1, <2>2 DEF Live, Content
<1>12. ASSUME NoTies(new), NEW r \in Live(new), Start(r) >= s.from, Start(r) < s.to
       PROVE  \E x \in S : Content(x) = Content(r)
  <2>1. r \in new /\ ~r.retracted
    BY DEF Live
  <2>2. CASE r \in s.rows
    BY <2>1, <2>2 DEF RowsPlanned, RowTrue, S
  <2>3. CASE r \notin s.rows
    <3>1. r \in old
      BY <1>6, <2>1, <2>3
    <3>2. ASSUME NEW n \in s.rows PROVE n.id # r.id
      <4>1. SUFFICES ASSUME n.id = r.id PROVE FALSE
        OBVIOUS
      <4>2. r.version < n.version /\ n.version <= r.version /\ r.version \in Nat /\ n.version \in Nat
        BY <1>6, <1>7, <2>1, <3>1, <4>1
      <4>3. QED
        BY <4>2
    <3>3. PICK q \in stored : q.id = r.id
      BY <1>2, <1>12, <3>1
    <3>4. q \in new
      BY <1>3, <1>6, <3>2, <3>3
    <3>5. q = r
      BY <1>12, <2>1, <3>3, <3>4 DEF NoTies, TiedIn
    <3>6. r \in Live(stored)
      BY <2>1, <3>5 DEF Live
    <3>7. PICK x \in S : x.id = r.id
      BY <1>10, <3>2, <3>6
    <3>8. PICK y \in s.rows \cup Live(stored) : y.id = x.id /\ y.events = x.events
      BY <1>9
    <3>9. y = r
      BY <1>1, <3>2, <3>6, <3>7, <3>8 DEF OneEach, Live
    <3>10. QED
      BY <3>7, <3>8, <3>9 DEF Content
  <2>4. QED
    BY <2>2, <2>3
<1>13. QED
  BY <1>11, <1>12 DEF Whole, S

\* Two records of one pass, of which the later claims no more than the earlier.
SameAlone(s, r) ==
  r.at # "idle" /\ r.alone =>
    /\ s.at # "idle" /\ s.alone /\ r.started = s.started
    /\ r.at \in {"planned", "written", "aggregated", "swapped"} =>
         r.from = s.from /\ r.to = s.to /\ r.all = s.all
    /\ r.at = "planned" => s.at = "planned" /\ r.rows = s.rows
    /\ r.at \in {"written", "aggregated", "swapped"} =>
         s.at \in {"written", "aggregated", "swapped"}

LEMMA SameStaysAlone ==
  ASSUME NEW s, NEW r, AloneSound(s), SameAlone(s, r), facts' = facts
  PROVE  AloneSound(r)'
<1> SUFFICES ASSUME r.at # "idle", r.alone PROVE AloneSound(r)'
  BY DEF AloneSound
<1>1. s.at # "idle" /\ s.alone /\ r.started = s.started
  BY DEF SameAlone
<1>2. \A q \in facts' : Start(q) < r.started
  BY <1>1 DEF AloneSound
<1>3. ASSUME r.at = "planned"
      PROVE  \E stored \in Reads(Within(facts', r.from, r.to), FactId) :
               IsPlan(Sessions(r), stored, r.rows)
  <2>1. r.from = s.from /\ r.to = s.to /\ r.all = s.all /\ s.at = "planned" /\ r.rows = s.rows
    BY <1>3 DEF SameAlone
  <2>2. Sessions(r) = Sessions(s)
    BY <2>1 DEF Sessions, Window
  <2>3. QED
    BY <1>1, <2>1, <2>2 DEF AloneSound
<1>4. ASSUME r.at \in {"written", "aggregated", "swapped"} PROVE Whole(facts', r)
  <2>1. /\ r.from = s.from /\ r.to = s.to /\ r.all = s.all
        /\ s.at \in {"written", "aggregated", "swapped"}
    BY <1>4 DEF SameAlone
  <2>2. Sessions(r) = Sessions(s)
    BY <2>1 DEF Sessions, Window
  <2>3. Whole(facts', s)
    BY <1>1, <2>1 DEF AloneSound
  <2>4. QED
    BY <2>1, <2>2, <2>3 DEF Whole
<1>5. QED
  BY <1>2, <1>3, <1>4 DEF AloneSound

WholeAll == (\A r \in facts : Start(r) < now) /\ \A p \in Passes : AloneSound(pass[p])

\* Nothing starts after the clock.
LEMMA StartsKept ==
  ASSUME Inv1, Inv1', WholeAll, facts' = facts, now <= now'
  PROVE  \A r \in facts' : Start(r) < now'
<1>1. now \in Int /\ now' \in Int
  BY TimesAreNat DEF Inv1, Typed
<1>2. \A r \in facts : Start(r) \in Int /\ Start(r) < now
  BY FactStart DEF Inv1, Stored, WholeAll
<1>3. QED
  BY <1>1, <1>2

LEMMA WholeKept ==
  ASSUME Inv1, Inv1', WholeAll, facts' = facts, now <= now',
         NEW P \in SUBSET Passes, \A q \in P : AloneSound(pass[q])',
         \A q \in Passes \ P : SameAlone(pass[q], pass'[q])
  PROVE  WholeAll'
<1>1. ASSUME NEW q \in Passes \ P PROVE AloneSound(pass[q])'
  <2>1. PICK r : r = pass'[q]
    OBVIOUS
  <2>2. AloneSound(r)'
    BY <2>1, SameStaysAlone DEF WholeAll
  <2>3. QED
    BY <2>1, <2>2 DEF AloneSound
<1>2. QED
  BY <1>1, StartsKept DEF WholeAll

\* A pass that begins alone begins after everything stored; the others are not alone now.
LEMMA WholeClaim ==
  ASSUME Inv1, Inv1', WholeAll, NEW p \in Passes, NEW n \in Names, Claim(p, n)
  PROVE  WholeAll'
<1>1. facts' = facts /\ now' = now
  BY ClaimDoes
<1>2. now <= now'
  BY <1>1, TimesAreNat DEF Inv1, Typed
<1>3. pass'[p].at = "claimed" /\ pass'[p].started = now
  BY ClaimMine DEF Inv1, Typed
<1>4. AloneSound(pass[p])'
  BY <1>1, <1>3 DEF AloneSound, WholeAll
<1>5. ASSUME NEW q \in Passes \ {p} PROVE SameAlone(pass[q], pass'[q])
  <2>1. pass'[q].at = pass[q].at /\ pass'[q].alone = Apart(p, q)
    BY ClaimTheirs DEF Inv1
  <2>2. pass[q].at # "idle" => ~Apart(p, q)
    BY DEF Apart, Others, Running
  <2>3. QED
    BY <2>1, <2>2 DEF SameAlone
<1>6. {p} \in SUBSET Passes /\ \A q \in {p} : AloneSound(pass[q])'
  BY <1>4
<1>7. QED
  BY <1>1, <1>2, <1>5, <1>6, WholeKept

LEMMA WholePlan ==
  ASSUME Inv1, Inv1', WholeAll, NEW p \in Passes, Plan(p)
  PROVE  WholeAll'
<1>1. PICK s \in PassRecord : s = pass[p]
  BY DEF Inv1, Typed
<1>2. /\ s.at = "read" /\ UNCHANGED <<now, facts>>
      /\ \E stored \in Reads(Within(facts, s.from, s.to), FactId) :
           pass' = [pass EXCEPT ![p] = Planned(s, stored)]
  BY <1>1, PlanDoes
<1>3. PICK stored \in Reads(Within(facts, s.from, s.to), FactId) :
        pass' = [pass EXCEPT ![p] = Planned(s, stored)]
  BY <1>2
<1>4. PICK r : r = Planned(s, stored)
  OBVIOUS
<1>5. /\ r.at = "planned" /\ r.rows = Rows(s, stored) /\ r.from = s.from /\ r.to = s.to
      /\ r.started = s.started /\ r.all = s.all /\ r.alone = s.alone
  BY <1>4 DEF Planned, AsPlanned, PassRecord
<1>6. IsPlan(Sessions(s), stored, Rows(s, stored))
  BY RowsAre DEF Inv1
<1>7. Sessions(r) = Sessions(s)
  BY <1>5 DEF Sessions, Window
<1>8. AloneSound(r)'
  <2>1. r.alone => \A q \in facts' : Start(q) < r.started
    BY <1>1, <1>2, <1>5 DEF WholeAll, AloneSound
  <2>2. \E st \in Reads(Within(facts', r.from, r.to), FactId) : IsPlan(Sessions(r), st, r.rows)
    BY <1>2, <1>5, <1>6, <1>7
  <2>3. QED
    BY <1>5, <2>1, <2>2 DEF AloneSound
<1>9. pass'[p] = r /\ \A q \in Passes \ {p} : pass'[q] = pass[q]
  BY <1>3, <1>4 DEF Inv1, Typed
<1>10. {p} \in SUBSET Passes /\ \A q \in {p} : AloneSound(pass[q])'
  BY <1>8, <1>9 DEF AloneSound
<1>11. now <= now'
  BY <1>2, TimesAreNat DEF Inv1, Typed
<1>12. \A q \in Passes \ {p} : SameAlone(pass[q], pass'[q])
  BY <1>9 DEF SameAlone
<1>13. QED
  BY <1>2, <1>10, <1>11, <1>12, WholeKept

LEMMA WholeWriteFacts ==
  ASSUME Inv1, Inv1', Inv2, SoundAll, WholeAll, NEW p \in Passes, WriteFacts(p)
  PROVE  WholeAll'
<1>1. PICK s \in PassRecord : s = pass[p]
  BY DEF Inv1, Typed
<1>2. PICK new : new = facts'
  OBVIOUS
<1>3. /\ s.at = "planned" /\ new = Supersede(facts, s.rows, FactId, FactVersion)
      /\ pass' = [pass EXCEPT ![p] = AsWritten(s)] /\ now' = now
  BY <1>1, <1>2 DEF WriteFacts, AsWritten
<1>4. RowsPlanned(s)
  BY <1>1, <1>3 DEF SoundAll, PassSound
<1>5. s.from <= s.started /\ s.to <= s.started /\ s.started <= now
  BY <1>1, <1>3 DEF Inv1, PassOK
<1>6. s.to \in Times /\ s.started \in Times /\ now \in Times
  BY DEF PassRecord, Inv1, Typed
<1>7. s.to \in Int /\ s.started \in Int /\ now \in Int
  BY <1>6, TimesAreNat, Zenon
<1>8. \A r \in facts \cup s.rows : FactOK(r)
  BY <1>1, <1>3 DEF Inv1, Stored, PassOK
<1>9. \A r \in facts \cup s.rows : r.version \in Nat /\ Start(r) \in Int
  BY <1>8, FactStart DEF FactOK, Facts
<1>10. \A r \in s.rows : Start(r) < s.started /\ Start(r) < now
  BY <1>4, <1>5, <1>7, <1>9 DEF RowsPlanned
<1>11. new \subseteq facts \cup s.rows
  BY <1>3 DEF Supersede
<1>12. \A r \in facts' : Start(r) < now'
  BY <1>2, <1>3, <1>10, <1>11 DEF WholeAll
<1>13. pass'[p] = AsWritten(s) /\ \A q \in Passes \ {p} : pass'[q] = pass[q]
  BY <1>3 DEF Inv1, Typed
<1>14. AloneSound(pass[p])'
  <2>1. PICK r : r = AsWritten(s)
    OBVIOUS
  <2>2. /\ r.at = "written" /\ r.started = s.started /\ r.from = s.from /\ r.to = s.to
        /\ r.all = s.all /\ r.alone = s.alone
    BY <2>1, WrittenRecord
  <2>3. ASSUME s.alone PROVE (\A q \in new : Start(q) < s.started) /\ Whole(new, s)
    <3>1. /\ \A q \in facts : Start(q) < s.started
          /\ \E stored \in Reads(Within(facts, s.from, s.to), FactId) :
               IsPlan(Sessions(s), stored, s.rows)
      BY <1>1, <1>3, <2>3 DEF WholeAll, AloneSound
    <3>2. Whole(new, s)
      BY <1>3, <1>4, <1>5, <1>9, <3>1, WriteIsWhole DEF Inv1, Stored
    <3>3. QED
      BY <1>10, <1>11, <3>1, <3>2
  <2>4. Whole(new, s) => Whole(new, r)
    <3>1. Sessions(r) = Sessions(s)
      BY <2>2 DEF Sessions, Window
    <3>2. QED
      BY <2>2, <3>1 DEF Whole
  <2>5. AloneSound(r)'
    BY <1>2, <2>2, <2>3, <2>4 DEF AloneSound
  <2>6. QED
    BY <1>13, <2>1, <2>5 DEF AloneSound
<1>15. ASSUME NEW q \in Passes \ {p} PROVE AloneSound(pass[q])'
  <2>1. pass'[q].at # "idle" => ~pass'[q].alone
    BY <1>1, <1>3, <1>13, OthersNotAlone DEF Inv2, Running
  <2>2. QED
    BY <2>1 DEF AloneSound
<1>16. QED
  BY <1>12, <1>14, <1>15 DEF WholeAll

LEMMA WholeInit == Init => Inv6
BY DEF Init, Inv6, AloneSound, Idle

LEMMA WholeNext == Inv1 /\ Inv2 /\ Inv4 /\ Inv5 /\ Inv6 /\ [Next]_vars => Inv6'
<1> SUFFICES ASSUME Inv1, Inv2, Inv4, Inv5, Inv6, [Next]_vars, Undisturbed' PROVE WholeAll'
  BY DEF Inv6, WholeAll
<1>1. Inv1'
  BY TypedNext
<1>2. SoundAll /\ WholeAll
  BY UndisturbedBefore DEF Inv5, Inv6, SoundAll, WholeAll
<1>3. now \in Int /\ now' \in Int
  BY <1>1, TimesAreNat DEF Inv1, Typed
<1>4. ASSUME facts' = facts, now' = now \/ Tick,
             \A q \in Passes : SameAlone(pass[q], pass'[q])
      PROVE  WholeAll'
  <2>1. now <= now'
    BY <1>3, <1>4 DEF Tick
  <2>2. {} \in SUBSET Passes /\ Passes \ {} = Passes /\ \A q \in {} : AloneSound(pass[q])'
    OBVIOUS
  <2>3. QED
    BY <1>1, <1>2, <1>4, <2>1, <2>2, WholeKept
<1>5. \A q \in Passes : pass'[q] = pass[q] \/ pass'[q].at = "idle" => SameAlone(pass[q], pass'[q])
  BY DEF SameAlone
<1>6. ASSUME NEW p \in Passes, NEW n \in Names, Claim(p, n) PROVE WholeAll'
  BY <1>1, <1>2, <1>6, WholeClaim
<1>7. ASSUME NEW p \in Passes, Plan(p) PROVE WholeAll'
  BY <1>1, <1>2, <1>7, WholePlan
<1>8. ASSUME NEW p \in Passes, WriteFacts(p) PROVE WholeAll'
  BY <1>1, <1>2, <1>8, WholeWriteFacts
<1>9. ASSUME NEW p \in Passes, ReadEvents(p) PROVE WholeAll'
  <2>1. /\ pass[p].at = "claimed" /\ pass'[p].at = "read"
        /\ pass'[p].started = pass[p].started /\ pass'[p].alone = pass[p].alone
        /\ \A q \in Passes \ {p} : pass'[q] = pass[q]
        /\ facts' = facts /\ now' = now
    BY <1>9, ReadsWhole DEF Inv4
  <2>2. SameAlone(pass[p], pass'[p])
    BY <2>1 DEF SameAlone
  <2>3. QED
    BY <1>4, <1>5, <2>1, <2>2
<1>10. ASSUME NEW p \in Passes, ReadRollups(p) \/ WriteRollups(p) PROVE WholeAll'
  <2>1. /\ pass[p].at # "idle"
        /\ pass'[p].from = pass[p].from /\ pass'[p].started = pass[p].started
        /\ pass'[p].all = pass[p].all /\ pass'[p].to = pass[p].to
        /\ pass'[p].alone = pass[p].alone
        /\ \A q \in Passes \ {p} : pass'[q] = pass[q]
    BY <1>10, LaterSteps
  <2>2. pass[p].at \in {"written", "aggregated"} /\ facts' = facts /\ now' = now
    BY <1>10 DEF ReadRollups, WriteRollups
  <2>3. pass'[p].at \in {"aggregated", "swapped"}
    <3>1. \E r : pass' = [pass EXCEPT ![p] = r] /\ r.at \in {"aggregated", "swapped"}
      <4>1. pass[p] \in PassRecord
        BY DEF Inv1, Typed
      <4>2. \A swap : AsAggregated(pass[p], swap).at = "aggregated"
        BY <4>1 DEF AsAggregated, PassRecord
      <4>3. AsSwapped(pass[p]).at = "swapped"
        BY <4>1, SwappedRecord
      <4>4. CASE ReadRollups(p)
        BY <4>2, <4>4, ReadRollupsDoes
      <4>5. CASE WriteRollups(p)
        BY <4>3, <4>5 DEF WriteRollups, AsSwapped
      <4>6. QED
        BY <1>10, <4>4, <4>5
    <3>2. QED
      BY <3>1 DEF Inv1, Typed
  <2>4. SameAlone(pass[p], pass'[p])
    BY <2>1, <2>2, <2>3 DEF SameAlone
  <2>5. QED
    BY <1>4, <1>5, <2>1, <2>2, <2>4
<1>11. ASSUME NEW p \in Passes, Advance(p) \/ Fail(p) PROVE WholeAll'
  <2>1. /\ pass' = [pass EXCEPT ![p] = Idle] /\ facts' = facts /\ now' = now
    BY <1>11 DEF Advance, Fail
  <2>2. \A q \in Passes : pass'[q] = pass[q] \/ pass'[q].at = "idle"
    BY <2>1 DEF Inv1, Typed, Idle
  <2>3. QED
    BY <1>4, <1>5, <2>1, <2>2
<1>12. ASSUME NEW n \in Names, Crash(n) PROVE WholeAll'
  <2>1. /\ facts' = facts /\ now' = now
        /\ \A q \in Passes : pass'[q] = pass[q] \/ pass'[q].at = "idle"
    BY <1>12, CrashDoes DEF Idle
  <2>2. QED
    BY <1>4, <1>5, <2>1
<1>13. CASE (\E e \in Events : Arrive(e)) \/ Tick \/ UNCHANGED vars
  <2>1. facts' = facts /\ pass' = pass /\ (now' = now \/ Tick)
    BY <1>13 DEF Arrive, Tick, vars
  <2>2. QED
    BY <1>4, <1>5, <2>1
<1>14. QED
  BY <1>6, <1>7, <1>8, <1>9, <1>10, <1>11, <1>12, <1>13 DEF Next, Step

LEMMA WholeAlways == Spec => []Inv6
BY WholeInit, TypedAlways, OnTimeAlways, SoundAlways, WholeNext, RollAlways, PTL DEF Spec


\* What the pass read splits at its start: before it the sessions of all events, from it on
\* those of its window.
LEMMA ReadSplits ==
  ASSUME NEW E \in SUBSET Events, NEW s \in PassRecord, s.all \subseteq E,
         \A e \in E \ s.all : Time(e) >= s.started - Lateness,
         s.to = s.started, s.from <= s.started, Clean(E, s.from),
         s.from = 0 \/ s.from <= s.started - Lateness - Inactivity,
         NEW A, A = {e \in s.all : Time(e) < s.to}
  PROVE  /\ \A x : Start(x) < s.from => (x \in Sessionize(E) <=> x \in Sessionize(A))
         /\ \A x : Start(x) >= s.from => (x \in Sessions(s) <=> x \in Sessionize(A))
<1> DEFINE W == Window(s)
<1>1. s.from \in Times /\ s.to \in Times /\ s.started \in Times
  BY DEF PassRecord
<1>2. s.from \in Int /\ 0 <= s.from /\ s.to \in Int /\ s.started \in Int
  <2>1. s.from \in Nat /\ s.to \in Int /\ s.started \in Int
    BY <1>1, TimesAreNat, Zenon
  <2>2. QED
    BY <2>1
<1>3. Lateness \in Nat /\ Inactivity \in Nat
  BY Constants
<1>4. A \in SUBSET Events /\ W \in SUBSET Events /\ W = {e \in A : Time(e) >= s.from}
  BY DEF Window, PassRecord
<1>5. \A e \in Events : Time(e) \in Int
  BY EventsTyped
<1>6. s.from = 0 \/ Agree(E, A, 0, s.from + Inactivity)
  <2>1. SUFFICES ASSUME s.from <= s.started - Lateness - Inactivity
                 PROVE  Agree(E, A, 0, s.from + Inactivity)
    OBVIOUS
  <2>2. ASSUME NEW e \in E, Time(e) < s.from + Inactivity PROVE e \in A
    <3>1. Time(e) \in Int
      BY <1>5
    <3>2. Time(e) < s.to /\ ~(Time(e) >= s.started - Lateness)
      BY <1>2, <1>3, <2>1, <2>2, <3>1
    <3>3. QED
      BY <2>2, <3>2
  <2>3. QED
    BY <2>2 DEF Agree
<1>7. Clean(A, s.from) /\ SameBefore(Sessionize(E), Sessionize(A), s.from)
  BY <1>2, <1>4, <1>6, SameUpTo
<1>8. Clean(W, s.from)
  BY <1>2, <1>4, CleanAtStart
<1>9. Clean(A, s.to) /\ Clean(W, s.to)
  <2>1. \A e \in A : Time(e) \in Int /\ Time(e) < s.to
    BY <1>5
  <2>2. \A e \in A : ~(Time(e) >= s.to)
    BY <1>2, <2>1
  <2>3. QED
    BY <1>4, <2>2 DEF Clean
<1>10. Agree(A, W, s.from, s.to) /\ Agree(W, A, s.from, s.to)
  BY <1>4 DEF Agree
<1> HIDE DEF W
<1>11. ASSUME NEW x, Start(x) >= s.from PROVE x \in Sessionize(W) <=> x \in Sessionize(A)
  <2>1. ASSUME x \in Sessionize(W) \/ x \in Sessionize(A) PROVE Start(x) < s.to
    <3>1. x.id \in A
      BY <1>4, <2>1, SessionsAre
    <3>2. Start(x) = Time(x.id)
      BY <1>4, <2>1, SessionStart
    <3>3. QED
      BY <3>1, <3>2
  <2>2. QED
    BY <1>2, <1>4, <1>7, <1>8, <1>9, <1>10, <1>11, <2>1, SessionsSame
<1>12. QED
  BY <1>7, <1>11 DEF SameBefore, Sessions, W

\* After a pass that ran alone over everything and was not cut, the current facts are what
\* sessionizing all that it read at once gives: planning from the watermark only, and
\* patching what is stored, loses nothing, also where other passes had overlapped before.
THEOREM FactsAreFromScratch == Spec => SameAsFromScratch
<1>1. ASSUME Inv1, Inv4, Inv5, Inv6, NEW p \in Passes, Undisturbed, Advance(p), pass[p].alone,
             pass[p].to = pass[p].started, \A r \in facts : ~Tied(r)
      PROVE  {[id |-> r.id, events |-> r.events] : r \in Live(facts)}
               = Sessionize({e \in pass[p].all : Time(e) < pass[p].to})
  <2>1. PICK s \in PassRecord : s = pass[p]
    BY <1>1 DEF Inv1, Typed
  <2>2. s.at = "swapped" /\ s.alone /\ s.to = s.started
    BY <1>1, <2>1 DEF Advance
  <2>3. /\ s.from = 0 \/ s.from <= s.started - Lateness - Inactivity
        /\ Clean(events, s.from)
    BY <1>1, <2>1, <2>2 DEF Inv5, PassSound
  <2>4. /\ s.all \subseteq events /\ s.from <= watermark
        /\ \A e \in events \ s.all : Time(e) >= s.started - Lateness
    BY <1>1, <2>1, <2>2 DEF Inv4, OnTime, Informed
  <2>5. s.from <= s.started
    BY <1>1, <2>1, <2>2 DEF Inv1, PassOK
  <2>6. (\A r \in facts : Start(r) < s.started) /\ Whole(facts, s)
    BY <1>1, <2>1, <2>2 DEF Inv6, AloneSound
  <2>7. NoTies(facts)
    BY <1>1 DEF NoTies, TiedIn, Tied
  <2>8. AllThere(Canon, facts, watermark) /\ NoneElse(Canon, facts, watermark)
    BY <1>1 DEF Inv5, Sound
  <2>9. events \in SUBSET Events
    BY <1>1 DEF Inv1, Typed
  <2>10. PICK A \in SUBSET Events : A = {e \in s.all : Time(e) < s.to}
    BY DEF PassRecord
  <2>11. /\ \A x : Start(x) < s.from => (x \in Canon <=> x \in Sessionize(A))
         /\ \A x : Start(x) >= s.from => (x \in Sessions(s) <=> x \in Sessionize(A))
    BY <2>2, <2>3, <2>4, <2>5, <2>9, <2>10, ReadSplits DEF Canon
  <2>12. s.from \in Int /\ watermark \in Int
    <3>1. s.from \in Times /\ watermark \in Times
      BY <1>1 DEF PassRecord, Inv1, Typed
    <3>2. QED
      BY <3>1, TimesAreNat, Zenon
  <2>13. \A x, r : Content(x) = Content(r) => Start(x) = Start(r)
    BY DEF Content, Start
  <2>14. \A x \in Sessionize(A) : x = [id |-> x.id, events |-> x.events] /\ Start(x) \in Int
    BY SessionStart DEF Sessionize
  <2>15. ASSUME NEW r \in Live(facts) PROVE \E x \in Sessionize(A) : Content(x) = Content(r)
    <3>1. r \in facts /\ Start(r) \in Int /\ Start(r) < s.to
      BY <1>1, <2>2, <2>6, FactStart DEF Live, Inv1, Stored
    <3>2. CASE Start(r) < s.from
      <4>1. Start(r) < watermark
        BY <2>4, <2>12, <3>1, <3>2
      <4>2. PICK x \in Canon : Content(x) = Content(r)
        BY <2>7, <2>8, <3>1, <4>1 DEF NoneElse, NoTies
      <4>3. QED
        BY <2>11, <2>13, <3>2, <4>2
    <3>3. CASE ~(Start(r) < s.from)
      <4>1. Start(r) >= s.from
        BY <2>12, <3>1, <3>3
      <4>2. PICK x \in Sessions(s) : Content(x) = Content(r)
        BY <2>6, <2>7, <3>1, <4>1 DEF Whole
      <4>3. QED
        BY <2>11, <2>13, <4>1, <4>2
    <3>4. QED
      BY <3>2, <3>3
  <2>16. ASSUME NEW x \in Sessionize(A) PROVE \E r \in Live(facts) : Content(r) = Content(x)
    <3>1. CASE Start(x) < s.from
      <4>1. Start(x) < watermark
        BY <2>4, <2>12, <2>14, <3>1
      <4>2. QED
        BY <2>8, <2>11, <3>1, <4>1 DEF AllThere
    <3>2. CASE ~(Start(x) < s.from)
      <4>1. Start(x) >= s.from
        BY <2>12, <2>14, <3>2
      <4>2. QED
        BY <2>6, <2>7, <2>11, <4>1 DEF Whole
    <3>3. QED
      BY <3>1, <3>2
  <2>17. {[id |-> r.id, events |-> r.events] : r \in Live(facts)} = Sessionize(A)
    <3>1. ASSUME NEW r \in Live(facts) PROVE [id |-> r.id, events |-> r.events] \in Sessionize(A)
      <4>1. PICK x \in Sessionize(A) : Content(x) = Content(r)
        BY <2>15
      <4>2. x.id = r.id /\ x.events = r.events
        BY <4>1 DEF Content
      <4>3. x = [id |-> x.id, events |-> x.events]
        BY <2>14
      <4>4. QED
        BY <4>2, <4>3
    <3>2. ASSUME NEW x \in Sessionize(A)
          PROVE  \E r \in Live(facts) : x = [id |-> r.id, events |-> r.events]
      <4>1. PICK r \in Live(facts) : Content(r) = Content(x)
        BY <2>16
      <4>2. r.id = x.id /\ r.events = x.events
        BY <4>1 DEF Content
      <4>3. x = [id |-> x.id, events |-> x.events]
        BY <2>14
      <4>4. QED
        BY <4>2, <4>3
    <3>3. QED
      BY <3>1, <3>2
  <2>18. QED
    BY <2>1, <2>10, <2>17
<1>2. Inv1 /\ Inv4 /\ Inv5 /\ Inv6 =>
        [\A p \in Passes :
           Undisturbed /\ Advance(p) /\ pass[p].alone /\ pass[p].to = pass[p].started
             /\ (\A r \in facts : ~Tied(r))
             => {[id |-> r.id, events |-> r.events] : r \in Live(facts)}
                  = Sessionize({e \in pass[p].all : Time(e) < pass[p].to})]_vars
  BY <1>1
<1>3. QED
  BY <1>2, TypedAlways, OnTimeAlways, SoundAlways, WholeAlways, PTL DEF SameAsFromScratch
=============================================================================
