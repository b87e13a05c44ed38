---------------------------- MODULE OutboxProofs ----------------------------
(***************************************************************************)
(* Theorems of Outbox: the state has its shape, and the bounds on what the *)
(* drains and the sweep do to a row hold for any number of rows, drains,   *)
(* attempts and rows per page.                                             *)
(***************************************************************************)
EXTENDS Outbox, FiniteSetTheorems, TLAPS

\* Drains that claimed a row and have not had its handler's answer.
Unsent(r) == {d \in Drains : r \in page[d] /\ ~(step[d] \in Outcomes /\ row[d] = r)}

\* A row that may be claimed has an attempt left.
AttemptsLeft ==
    \A r \in Rows :
      /\ attempts[r] <= MaxAttempts
      /\ status[r] \in {"absent", "pending"} => attempts[r] < MaxAttempts

\* Every claim allows one side effect.
ClaimsCounted ==
    \A r \in Rows :
      /\ IsFiniteSet(Unsent(r))
      /\ sent[r] + Cardinality(Unsent(r)) <= attempts[r]

\* A drain that records a delivery has made one.
DeliverySent == \A d \in Drains : step[d] = "deliver" => sent[row[d]] >= 1

IInv == TypeOK /\ AttemptsLeft /\ ClaimsCounted /\ DeadIsSpent /\ DeliverySent /\ DeliveredWasSent

-----------------------------------------------------------------------------
LEMMA TypeInit == Init => TypeOK
BY OutboxAssumption DEF Init, TypeOK, Open, Ended, Steps, Outcomes

LEMMA TypeNext == TypeOK /\ [Next]_vars => TypeOK'
<1> SUFFICES ASSUME TypeOK, [Next]_vars PROVE TypeOK'
  OBVIOUS
<1> USE OutboxAssumption DEF TypeOK, Open, Ended, Steps, Outcomes, store
<1>1. ASSUME NEW r \in Rows, NEW available \in {"future", "due"}, Enqueue(r, available)
      PROVE  TypeOK'
  BY <1>1 DEF Enqueue
<1>2. ASSUME NEW d \in Drains, NEW rs \in SUBSET Due, Claim(d, rs)
      PROVE  TypeOK'
  BY <1>2 DEF Claim, Due
<1>3. ASSUME NEW d \in Drains, NEW r \in page[d], NEW outcome \in Outcomes,
             Handle(d, r, outcome)
      PROVE  TypeOK'
  BY <1>3 DEF Handle
<1>4. ASSUME NEW d \in Drains, MarkDelivered(d)
      PROVE  TypeOK'
  BY <1>4 DEF MarkDelivered, Settled
<1>5. ASSUME NEW d \in Drains, MarkFailed(d)
      PROVE  TypeOK'
  BY <1>5 DEF MarkFailed, Settled, AfterFailure
<1>6. ASSUME NEW d \in Drains, MarkRejected(d)
      PROVE  TypeOK'
  BY <1>6 DEF MarkRejected, Settled
<1>7. ASSUME NEW d \in Drains, DeliveryUnrecorded(d)
      PROVE  TypeOK'
  BY <1>7 DEF DeliveryUnrecorded
<1>8. ASSUME NEW d \in Drains, Abandon(d)
      PROVE  TypeOK'
  BY <1>8 DEF Abandon
<1>9. CASE Sweep
  BY <1>9 DEF Sweep, AfterFailure
<1>10. ASSUME NEW r \in Rows, BecomesDue(r) \/ BecomesStale(r)
       PROVE  TypeOK'
  BY <1>10 DEF BecomesDue, BecomesStale
<1>11. CASE UNCHANGED vars
  BY <1>11 DEF vars
<1> QED
  BY <1>1, <1>2, <1>3, <1>4, <1>5, <1>6, <1>7, <1>8, <1>9, <1>10, <1>11
     DEF Next, Delivers, Claims, Handles

\* TypeOK holds in every reachable state.
THEOREM TypeCorrect == Spec => []TypeOK
<1>1. QED
  BY TypeInit, TypeNext, PTL DEF Spec

-----------------------------------------------------------------------------
(* Unsent(r) over a step: it loses the drain that got its answer, gains the one *)
(* that claims, and otherwise only loses drains.                               *)

\* A step that only takes drains away from Unsent(r), and leaves the counters of
\* the row alone, keeps the count.
LEMMA CountShrinks ==
  ASSUME NEW r \in Rows, TypeOK, ClaimsCounted,
         Unsent(r)' \subseteq Unsent(r), sent'[r] = sent[r], attempts'[r] = attempts[r]
  PROVE  /\ IsFiniteSet(Unsent(r)')
         /\ sent'[r] + Cardinality(Unsent(r)') <= attempts'[r]
<1>1. /\ IsFiniteSet(Unsent(r)')
      /\ Cardinality(Unsent(r)') <= Cardinality(Unsent(r))
  BY FS_Subset DEF ClaimsCounted
<1>2. Cardinality(Unsent(r)) \in Nat /\ Cardinality(Unsent(r)') \in Nat
  BY <1>1, FS_CardinalityType DEF ClaimsCounted
<1> QED
  BY <1>1, <1>2 DEF ClaimsCounted, TypeOK

LEMMA InvInit == Init => IInv
<1> SUFFICES ASSUME Init PROVE IInv
  OBVIOUS
<1>1. TypeOK
  BY TypeInit
<1>2. AttemptsLeft /\ DeadIsSpent /\ DeliverySent /\ DeliveredWasSent
  BY OutboxAssumption DEF Init, AttemptsLeft, DeadIsSpent, DeliverySent, DeliveredWasSent
<1>3. ClaimsCounted
  <2>1. \A r \in Rows : Unsent(r) = {}
    BY DEF Init, Unsent
  <2> QED
    BY <2>1, FS_EmptySet DEF Init, ClaimsCounted
<1> QED
  BY <1>1, <1>2, <1>3 DEF IInv

LEMMA AttemptsNext == TypeOK /\ AttemptsLeft /\ [Next]_vars => AttemptsLeft'
<1> SUFFICES ASSUME TypeOK, AttemptsLeft, [Next]_vars PROVE AttemptsLeft'
  OBVIOUS
<1> USE OutboxAssumption DEF TypeOK, AttemptsLeft, Open, Ended, Outcomes, store
<1>1. ASSUME NEW r \in Rows, NEW available \in {"future", "due"}, Enqueue(r, available)
      PROVE  AttemptsLeft'
  BY <1>1 DEF Enqueue
<1>2. ASSUME NEW d \in Drains, NEW rs \in SUBSET Due, Claim(d, rs)
      PROVE  AttemptsLeft'
  BY <1>2 DEF Claim, Due
<1>3. ASSUME NEW d \in Drains, NEW r \in page[d], NEW outcome \in Outcomes,
             Handle(d, r, outcome)
      PROVE  AttemptsLeft'
  BY <1>3 DEF Handle
<1>4. ASSUME NEW d \in Drains, MarkDelivered(d) \/ MarkFailed(d) \/ MarkRejected(d)
      PROVE  AttemptsLeft'
  BY <1>4 DEF MarkDelivered, MarkFailed, MarkRejected, Settled, AfterFailure
<1>5. ASSUME NEW d \in Drains, DeliveryUnrecorded(d) \/ Abandon(d)
      PROVE  AttemptsLeft'
  BY <1>5 DEF DeliveryUnrecorded, Abandon
<1>6. CASE Sweep
  BY <1>6 DEF Sweep, AfterFailure
<1>7. ASSUME NEW r \in Rows, BecomesDue(r) \/ BecomesStale(r)
      PROVE  AttemptsLeft'
  BY <1>7 DEF BecomesDue, BecomesStale
<1>8. CASE UNCHANGED vars
  BY <1>8 DEF vars
<1> QED
  BY <1>1, <1>2, <1>3, <1>4, <1>5, <1>6, <1>7, <1>8
     DEF Next, Delivers, Claims, Handles

LEMMA CountNext == TypeOK /\ ClaimsCounted /\ [Next]_vars => ClaimsCounted'
<1> SUFFICES ASSUME TypeOK, ClaimsCounted, [Next]_vars, NEW q \in Rows
             PROVE  /\ IsFiniteSet(Unsent(q)')
                    /\ sent'[q] + Cardinality(Unsent(q)') <= attempts'[q]
  BY DEF ClaimsCounted
<1> DEFINE Kept == /\ Unsent(q)' \subseteq Unsent(q)
                   /\ sent'[q] = sent[q] /\ attempts'[q] = attempts[q]
<1> USE DEF store
<1>0. Kept => /\ IsFiniteSet(Unsent(q)')
              /\ sent'[q] + Cardinality(Unsent(q)') <= attempts'[q]
  BY CountShrinks
<1>c. IsFiniteSet(Unsent(q)) /\ Cardinality(Unsent(q)) \in Nat
  BY FS_CardinalityType DEF ClaimsCounted
<1>1. ASSUME NEW r \in Rows, NEW available \in {"future", "due"}, Enqueue(r, available)
      PROVE  Kept
  BY <1>1 DEF Enqueue, Unsent
<1>2. ASSUME NEW d \in Drains, NEW rs \in SUBSET Due, Claim(d, rs)
      PROVE  /\ IsFiniteSet(Unsent(q)')
             /\ sent'[q] + Cardinality(Unsent(q)') <= attempts'[q]
  <2>1. CASE q \notin rs
    <3>1. Kept
      BY <1>2, <2>1 DEF Claim, Due, Unsent, TypeOK
    <3> QED
      BY <3>1, <1>0
  <2>2. CASE q \in rs
    <3>1. attempts'[q] = attempts[q] + 1 /\ sent'[q] = sent[q]
      BY <1>2, <2>2 DEF Claim, Due, TypeOK
    <3>2. Unsent(q)' \subseteq Unsent(q) \union {d}
      BY <1>2 DEF Claim, Unsent, TypeOK
    <3>3. /\ IsFiniteSet(Unsent(q) \union {d})
          /\ Cardinality(Unsent(q) \union {d}) <= Cardinality(Unsent(q)) + 1
      BY <1>c, FS_AddElement
    <3>4. /\ IsFiniteSet(Unsent(q)')
          /\ Cardinality(Unsent(q)') <= Cardinality(Unsent(q) \union {d})
      BY <3>2, <3>3, FS_Subset
    <3>5. Cardinality(Unsent(q)') \in Nat /\ Cardinality(Unsent(q) \union {d}) \in Nat
      BY <3>3, <3>4, FS_CardinalityType
    <3> QED
      BY <3>1, <3>3, <3>4, <3>5, <1>c DEF ClaimsCounted, TypeOK
  <2> QED
    BY <2>1, <2>2
<1>3. ASSUME NEW d \in Drains, NEW r \in page[d], NEW outcome \in Outcomes,
             Handle(d, r, outcome)
      PROVE  /\ IsFiniteSet(Unsent(q)')
             /\ sent'[q] + Cardinality(Unsent(q)') <= attempts'[q]
  <2>0. r \in Rows
    BY DEF TypeOK
  <2>1. CASE q # r
    <3>1. Kept
      BY <1>3, <2>0, <2>1 DEF Handle, Unsent, TypeOK, Outcomes
    <3> QED
      BY <3>1, <1>0
  <2>2. CASE q = r
    <3>1. Unsent(q)' \subseteq Unsent(q) \ {d}
      BY <1>3, <2>2 DEF Handle, Unsent, TypeOK
    <3>2. d \in Unsent(q)
      BY <1>3, <2>2 DEF Handle, Unsent, Outcomes
    <3>3. /\ IsFiniteSet(Unsent(q) \ {d})
          /\ Cardinality(Unsent(q) \ {d}) = Cardinality(Unsent(q)) - 1
      BY <1>c, <3>2, FS_RemoveElement
    <3>4. /\ IsFiniteSet(Unsent(q)')
          /\ Cardinality(Unsent(q)') <= Cardinality(Unsent(q) \ {d})
      BY <3>1, <3>3, FS_Subset
    <3>5. Cardinality(Unsent(q)') \in Nat /\ Cardinality(Unsent(q) \ {d}) \in Nat
      BY <3>3, <3>4, FS_CardinalityType
    <3>6. attempts'[q] = attempts[q] /\ sent'[q] <= sent[q] + 1 /\ sent'[q] \in Nat
      BY <1>3, <2>0, <2>2 DEF Handle, TypeOK
    <3> QED
      BY <3>3, <3>4, <3>5, <3>6, <1>c DEF ClaimsCounted, TypeOK
  <2> QED
    BY <2>1, <2>2
<1>4. ASSUME NEW d \in Drains, MarkDelivered(d) \/ MarkFailed(d) \/ MarkRejected(d)
      PROVE  Kept
  BY <1>4 DEF MarkDelivered, MarkFailed, MarkRejected, Settled, Unsent, Outcomes, TypeOK
<1>5. ASSUME NEW d \in Drains, DeliveryUnrecorded(d)
      PROVE  Kept
  BY <1>5 DEF DeliveryUnrecorded, Unsent, Outcomes, TypeOK
<1>6. ASSUME NEW d \in Drains, Abandon(d)
      PROVE  Kept
  BY <1>6 DEF Abandon, Unsent, TypeOK
<1>7. CASE Sweep
  <2>1. Kept
    BY <1>7 DEF Sweep, Unsent
  <2> QED
    BY <2>1, <1>0
<1>8. ASSUME NEW r \in Rows, BecomesDue(r) \/ BecomesStale(r)
      PROVE  Kept
  BY <1>8 DEF BecomesDue, BecomesStale, Unsent
<1>9. CASE UNCHANGED vars
  <2>1. Kept
    BY <1>9 DEF vars, Unsent
  <2> QED
    BY <2>1, <1>0
<1> QED
  BY <1>0, <1>1, <1>2, <1>3, <1>4, <1>5, <1>6, <1>7, <1>8, <1>9
     DEF Next, Delivers, Claims, Handles

LEMMA VerdictsNext ==
  TypeOK /\ DeadIsSpent /\ DeliverySent /\ DeliveredWasSent /\ [Next]_vars
    => (DeadIsSpent /\ DeliverySent /\ DeliveredWasSent)'
<1> DEFINE Verdicts == DeadIsSpent /\ DeliverySent /\ DeliveredWasSent
<1> SUFFICES ASSUME TypeOK, Verdicts, [Next]_vars PROVE Verdicts'
  OBVIOUS
<1> USE OutboxAssumption
        DEF TypeOK, DeadIsSpent, DeliverySent, DeliveredWasSent, Outcomes, store
<1>1. ASSUME NEW r \in Rows, NEW available \in {"future", "due"}, Enqueue(r, available)
      PROVE  Verdicts'
  BY <1>1 DEF Enqueue
<1>2. ASSUME NEW d \in Drains, NEW rs \in SUBSET Due, Claim(d, rs)
      PROVE  Verdicts'
  BY <1>2 DEF Claim, Due
<1>3. ASSUME NEW d \in Drains, NEW r \in page[d], NEW outcome \in Outcomes,
             Handle(d, r, outcome)
      PROVE  Verdicts'
  BY <1>3 DEF Handle
<1>4. ASSUME NEW d \in Drains, MarkDelivered(d) \/ MarkFailed(d) \/ MarkRejected(d)
      PROVE  Verdicts'
  BY <1>4 DEF MarkDelivered, MarkFailed, MarkRejected, Settled, AfterFailure
<1>5. ASSUME NEW d \in Drains, DeliveryUnrecorded(d) \/ Abandon(d)
      PROVE  Verdicts'
  BY <1>5 DEF DeliveryUnrecorded, Abandon
<1>6. CASE Sweep
  BY <1>6 DEF Sweep, AfterFailure
<1>7. ASSUME NEW r \in Rows, BecomesDue(r) \/ BecomesStale(r)
      PROVE  Verdicts'
  BY <1>7 DEF BecomesDue, BecomesStale
<1>8. CASE UNCHANGED vars
  BY <1>8 DEF vars
<1> QED
  BY <1>1, <1>2, <1>3, <1>4, <1>5, <1>6, <1>7, <1>8
     DEF Next, Delivers, Claims, Handles

LEMMA InvNext == IInv /\ [Next]_vars => IInv'
BY TypeNext, AttemptsNext, CountNext, VerdictsNext DEF IInv

LEMMA InvBounds == IInv => SentBounded
<1> SUFFICES ASSUME IInv, NEW r \in Rows
             PROVE  sent[r] <= attempts[r] /\ attempts[r] <= MaxAttempts
  BY DEF SentBounded
<1>1. Cardinality(Unsent(r)) \in Nat
  BY FS_CardinalityType DEF IInv, ClaimsCounted
<1> QED
  BY <1>1 DEF IInv, ClaimsCounted, AttemptsLeft, TypeOK

\* The side effect of a row takes place at most MaxAttempts times, for any number
\* of drains and whatever the sweep takes away from them.
THEOREM SideEffectsBounded == Spec => []SentBounded
<1>1. QED
  BY InvInit, InvNext, InvBounds, PTL DEF Spec

\* A row is dead only when its attempts were spent, and delivered only when its
\* side effect took place, whoever settled it and however late.
THEOREM VerdictsTrue == Spec => []VerdictIsTrue
<1>1. IInv => VerdictIsTrue
  BY DEF IInv, VerdictIsTrue
<1> QED
  BY InvInit, InvNext, <1>1, PTL DEF Spec

=============================================================================
