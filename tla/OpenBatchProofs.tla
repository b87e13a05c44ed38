-------------------------- MODULE OpenBatchProofs --------------------------
(***************************************************************************)
(* Proofs about OpenBatch, for any limits: its types, that no batch passes *)
(* a limit, and that a read's block time ends at the age trigger.          *)
(*                                                                         *)
(* The invariants are inductive together: the row budget of a read rests   *)
(* on the open batch being below its limit, and the block budget on the    *)
(* age, which starts over with every drain.  LateOutside is what they lack *)
(* for a read without a limit: between two reads, a batch behind its       *)
(* trigger got there outside a read, since a read that reaches the trigger *)
(* closes the batch.                                                       *)
(***************************************************************************)
EXTENDS OpenBatch, SequenceTheorems, TLAPS

LateOutside ==
    messages # <<>> /\ age >= MaxFlush /\ pc \in {"head", "work", "backoff"} => late

Inv == TypeOK /\ LimitsClose /\ BlockEndsAtTrigger /\ LateOutside

LEMMA Limits ==
    /\ MaxRows \in Nat /\ MaxRows > 0 /\ MaxBytes \in Nat /\ MaxBytes > 0
    /\ MaxFlush \in Nat /\ MaxFlush > 0 /\ MaxWork \in Nat /\ MaxQueued \in Nat
    /\ MaxBackoff \in Nat /\ MaxBackoff > 0
    /\ AgeCap \in Nat /\ AgeCap >= MaxFlush /\ Forever = -1
  BY LimitsAssumption DEF LimitsAssumption, AgeCap, Forever

\* The fold over an empty batch: the recursive function it is defined by exists
\* on the only subset of an empty domain.
LEMMA EmptyBytes == Bytes(<<>>) = 0
<1> DEFINE iter[s \in SUBSET {}] ==
             IF s = {} THEN 0
             ELSE LET x == CHOOSE y \in s : TRUE IN <<>>[x] + iter[s \ {x}]
<1>1. DOMAIN <<>> = {}
  OBVIOUS
<1>2. Bytes(<<>>) = iter[{}]
  BY <1>1 DEF Bytes, FoldSeq, FoldFunction, FoldFunctionOnSet, MapThenFoldSet
<1> DEFINE F(g) == [s \in SUBSET {} |-> IF s = {} THEN 0
                      ELSE LET x == CHOOSE y \in s : TRUE IN <<>>[x] + g[s \ {x}]]
<1>3. iter = CHOOSE g : g = F(g)
  OBVIOUS
<1>4. [s \in SUBSET {} |-> 0] = F([s \in SUBSET {} |-> 0])
  OBVIOUS
<1>5. \E g : g = F(g)
  BY <1>4
<1> HIDE DEF iter
<1>6. iter = F(iter)
  BY <1>3, <1>5
<1>7. iter[{}] = 0
  BY <1>6
<1> QED
  BY <1>2, <1>7

LEMMA InitInv == Init => Inv
<1> SUFFICES ASSUME Init PROVE Inv
  OBVIOUS
<1>1. TypeOK
  <2>1. <<>> \in Seq(Sizes) /\ Len(<<>>) = 0
    OBVIOUS
  <2>2. queued = <<>> /\ messages = <<>> /\ pc = "head" /\ shuttingDown = FALSE
    BY DEF Init
  <2>3. age = 0 /\ closed = 0 /\ spent = 0 /\ wait = 0 /\ late = FALSE
    BY DEF Init
  <2>4. /\ age \in 0 .. AgeCap /\ closed \in Nat /\ spent \in 0 .. MaxWork + MaxBackoff
        /\ wait \in {Forever} \union 0 .. MaxFlush /\ Len(<<>>) <= MaxQueued
    BY <2>1, <2>3, Limits
  <2> QED
    BY <2>1, <2>2, <2>3, <2>4 DEF TypeOK
<1>2. LimitsClose
  BY Limits, EmptyBytes DEF Init, LimitsClose
<1>3. BlockEndsAtTrigger /\ LateOutside
  BY DEF Init, BlockEndsAtTrigger, LateOutside
<1> QED
  BY <1>1, <1>2, <1>3 DEF Inv

LEMMA EnqueueInv ==
  ASSUME Inv, NEW size \in Sizes, Enqueue(size)
  PROVE  Inv'
<1>1. queued \in Seq(Sizes) /\ Len(queued) < MaxQueued /\ queued' = Append(queued, size)
  BY DEF Inv, TypeOK, Enqueue
<1>2. queued' \in Seq(Sizes) /\ Len(queued') = Len(queued) + 1 /\ Len(queued) \in Nat
  BY <1>1
<1>3. Len(queued') <= MaxQueued
  BY <1>1, <1>2, Limits
<1> QED
  BY <1>2, <1>3 DEF Inv, TypeOK, LimitsClose, BlockEndsAtTrigger, LateOutside, Enqueue

\* Time outside a read may carry the batch past its trigger, and says so; a read
\* with a block time has not reached the trigger, and its batch ages with it.
LEMMA TickInv ==
  ASSUME Inv, Tick
  PROVE  Inv'
<1>1. /\ UNCHANGED <<queued, messages, closed, pc, shuttingDown>>
      /\ age' = IF messages = <<>> \/ age = AgeCap THEN age ELSE age + 1
  BY DEF Tick
<1>2. /\ age \in 0 .. AgeCap /\ (messages = <<>> => age = 0)
      /\ spent \in 0 .. MaxWork + MaxBackoff /\ wait \in {Forever} \union 0 .. MaxFlush
      /\ late \in BOOLEAN /\ (messages = <<>> => ~late)
  BY DEF Inv, TypeOK
<1>3. age' \in 0 .. AgeCap /\ (messages = <<>> => age' = 0)
  BY <1>1, <1>2, Limits
<1>4. CASE pc \in {"work", "backoff"}
  <2>1. /\ spent' = spent + 1 /\ (spent < MaxWork \/ spent < MaxBackoff)
        /\ late' = PassedOver(age') /\ wait' = wait
    BY <1>4 DEF Tick
  <2>2. spent' \in 0 .. MaxWork + MaxBackoff
    BY <1>2, <1>4, Limits DEF Tick
  <2>3. /\ late' \in BOOLEAN /\ (messages = <<>> => ~late')
        /\ (messages # <<>> /\ age' >= MaxFlush => late')
    BY <1>2, <2>1, Zenon DEF PassedOver
  <2> QED
    BY <1>1, <1>2, <1>3, <1>4, <2>1, <2>2, <2>3
    DEF Inv, TypeOK, LimitsClose, BlockEndsAtTrigger, LateOutside
<1>5. CASE pc = "read"
  <2>1. /\ wait # 0 /\ wait' = IF wait = Forever THEN Forever ELSE wait - 1
        /\ spent' = spent /\ late' = late
    BY <1>5 DEF Tick
  <2>2. wait' \in {Forever} \union 0 .. MaxFlush /\ (wait' = Forever => wait = Forever)
    BY <1>2, <2>1, Limits
  <2>3. BlockEndsAtTrigger'
    <3> SUFFICES ASSUME messages # <<>>
                 PROVE  IF wait' = Forever THEN late ELSE age' + wait' = MaxFlush
      BY <1>1, <2>1 DEF BlockEndsAtTrigger
    <3>1. CASE wait = Forever
      BY <1>5, <2>1, <3>1 DEF Inv, BlockEndsAtTrigger
    <3>2. CASE wait # Forever
      <4>1. age + wait = MaxFlush
        BY <1>5, <3>2 DEF Inv, BlockEndsAtTrigger
      <4> QED
        BY <1>1, <1>2, <2>1, <3>2, <4>1, Limits
    <3> QED
      BY <3>1, <3>2
  <2> QED
    BY <1>1, <1>2, <1>3, <1>5, <2>1, <2>2, <2>3 DEF Inv, TypeOK, LimitsClose, LateOutside
<1> QED
  BY <1>4, <1>5 DEF Tick

LEMMA LoopHeadInv ==
  ASSUME Inv, LoopHead
  PROVE  Inv'
  BY Limits DEF Inv, TypeOK, LimitsClose, BlockEndsAtTrigger, LateOutside, LoopHead

LEMMA TickFailsInv ==
  ASSUME Inv, TickFails
  PROVE  Inv'
<1>1. /\ UNCHANGED <<queued, messages, age, closed, shuttingDown>>
      /\ pc' = AfterFailure /\ spent' = 0 /\ wait' = 0 /\ late' = PassedOver(age)
  BY DEF TickFails
<1>2. late \in BOOLEAN /\ (messages = <<>> => ~late)
  BY DEF Inv, TypeOK
<1>3. /\ late' \in BOOLEAN /\ (messages = <<>> => ~late')
      /\ (messages # <<>> /\ age >= MaxFlush => late')
  BY <1>1, <1>2, Zenon DEF PassedOver
<1>4. pc' \in {"stopped", "backoff"}
  BY <1>1 DEF AfterFailure
<1>5. TypeOK'
  BY <1>1, <1>3, <1>4, Limits DEF Inv, TypeOK
<1> QED
  BY <1>1, <1>3, <1>4, <1>5 DEF Inv, LimitsClose, BlockEndsAtTrigger, LateOutside

LEMMA WakeUpInv ==
  ASSUME Inv, WakeUp
  PROVE  Inv'
  BY DEF Inv, TypeOK, LimitsClose, BlockEndsAtTrigger, LateOutside, WakeUp

LEMMA StopInv ==
  ASSUME Inv, Stop
  PROVE  Inv'
  BY DEF Inv, TypeOK, LimitsClose, BlockEndsAtTrigger, LateOutside, Stop

LEMMA StartReadInv ==
  ASSUME Inv, StartRead
  PROVE  Inv'
<1>1. /\ pc' = "read" /\ UNCHANGED <<queued, messages, age, closed, spent, shuttingDown, late>>
      /\ wait' = IF BlockMsBudget = 0 THEN Forever ELSE BlockMsBudget
  BY DEF StartRead
<1>2. age \in 0 .. AgeCap
  BY DEF Inv, TypeOK
<1>3. BlockMsBudget \in 0 .. MaxFlush
  BY <1>2, Limits DEF BlockMsBudget
<1>4. TypeOK' /\ LimitsClose'
  BY <1>1, <1>3 DEF Inv, TypeOK, LimitsClose
<1>5. BlockEndsAtTrigger'
  <2> SUFFICES ASSUME messages # <<>>
               PROVE  IF wait' = Forever THEN late ELSE age + wait' = MaxFlush
    BY <1>1 DEF BlockEndsAtTrigger
  <2>1. CASE age >= MaxFlush
    <3>1. wait' = Forever
      BY <1>1, <2>1 DEF BlockMsBudget
    <3>2. late
      BY <2>1 DEF Inv, LateOutside, StartRead
    <3> QED
      BY <3>1, <3>2
  <2>2. CASE ~(age >= MaxFlush)
    <3>1. BlockMsBudget = MaxFlush - age /\ MaxFlush - age > 0
      BY <1>2, <2>2, Limits DEF BlockMsBudget
    <3> QED
      BY <1>1, <1>2, <3>1, Limits
  <2> QED
    BY <2>1, <2>2
<1>6. LateOutside'
  BY <1>1 DEF LateOutside
<1> QED
  BY <1>4, <1>5, <1>6 DEF Inv

LEMMA ReadReturnsInv ==
  ASSUME Inv, ReadReturns
  PROVE  Inv'
<1> DEFINE count == IF Len(queued) < CountBudget THEN Len(queued) ELSE CountBudget
           batch == messages \o SubSeq(queued, 1, count)
           flush == ShouldFlush(batch, age)
<1>1. /\ queued' = SubSeq(queued, count + 1, Len(queued))
      /\ messages' = IF flush THEN <<>> ELSE batch
      /\ age' = AgeAfter(flush)
      /\ closed' = IF flush THEN Len(batch) ELSE closed
      /\ late' = (late /\ ~flush)
      /\ \/ pc' = "head" /\ UNCHANGED spent
         \/ flush /\ pc' = AfterFailure /\ spent' = 0
      /\ wait' = 0 /\ UNCHANGED shuttingDown
  BY DEF ReadReturns
<1>2. /\ queued \in Seq(Sizes) /\ messages \in Seq(Sizes) /\ Len(queued) <= MaxQueued
      /\ age \in 0 .. AgeCap /\ (messages = <<>> => age = 0) /\ closed \in Nat
      /\ Len(messages) < MaxRows /\ closed <= MaxRows
      /\ spent \in 0 .. MaxWork + MaxBackoff
      /\ late \in BOOLEAN /\ (messages = <<>> => ~late)
  BY DEF Inv, TypeOK, LimitsClose
<1>3. Len(queued) \in Nat /\ Len(messages) \in Nat
  BY <1>2
<1>4. CountBudget = MaxRows - Len(messages) /\ CountBudget \in Nat
  BY <1>2, <1>3, Limits DEF CountBudget
<1>5. count \in 0 .. Len(queued) /\ count <= CountBudget
  BY <1>3, <1>4
<1> HIDE DEF count
<1>6. SubSeq(queued, 1, count) \in Seq(Sizes) /\ Len(SubSeq(queued, 1, count)) = count
  BY <1>2, <1>3, <1>5
<1>7. batch \in Seq(Sizes) /\ Len(batch) = Len(messages) + count
  BY <1>2, <1>6
<1>8. Len(batch) <= MaxRows /\ Len(batch) \in Nat
  BY <1>3, <1>4, <1>5, <1>7, Limits
<1>9. queued' \in Seq(Sizes) /\ Len(queued') <= MaxQueued
  <2>1. CASE count = Len(queued)
    <3>1. queued' = <<>>
      BY <1>1, <1>2, <1>3, <2>1
    <3> QED
      BY <3>1, Limits
  <2>2. CASE count < Len(queued)
    <3>1. /\ SubSeq(queued, count + 1, Len(queued)) \in Seq(Sizes)
          /\ Len(SubSeq(queued, count + 1, Len(queued))) = Len(queued) - count
      BY <1>2, <1>3, <1>5, <2>2
    <3> QED
      BY <1>1, <1>2, <1>3, <1>5, <3>1, Limits
  <2> QED
    BY <1>3, <1>5, <2>1, <2>2
<1>10. batch = <<>> => messages = <<>>
  BY <1>2, <1>3, <1>5, <1>7
<1>11. flush \in BOOLEAN
  BY DEF ShouldFlush
<1>12. ~flush => batch = <<>> \/ ~(age >= MaxFlush)
  BY Zenon DEF ShouldFlush
<1>13. ~flush => batch = <<>> \/ (Len(batch) < MaxRows /\ ~(Bytes(batch) >= MaxBytes))
  <2> SUFFICES ASSUME ~flush, batch # <<>>
               PROVE  Len(batch) < MaxRows /\ ~(Bytes(batch) >= MaxBytes)
    OBVIOUS
  <2>1. ~(Len(batch) >= MaxRows) /\ ~(Bytes(batch) >= MaxBytes)
    BY Zenon DEF ShouldFlush
  <2> DEFINE rows == Len(batch)
  <2>2. rows \in Nat /\ ~(rows >= MaxRows)
    BY <1>8, <2>1
  <2> HIDE DEF rows
  <2>3. rows < MaxRows
    BY <2>2, Limits
  <2> QED
    BY <2>1, <2>3 DEF rows
<1> HIDE DEF batch, flush
<1>14. messages' \in Seq(Sizes) /\ closed' \in Nat /\ closed' <= MaxRows
  BY <1>1, <1>2, <1>7, <1>8
<1>15. age' \in 0 .. AgeCap /\ (messages' = <<>> => age' = 0)
  BY <1>1, <1>2, <1>10, Limits DEF AgeAfter
<1>16. Len(messages') < MaxRows /\ ~(Bytes(messages') >= MaxBytes)
  <2>1. CASE messages' = <<>>
    BY <2>1, EmptyBytes, Limits
  <2>2. CASE messages' # <<>>
    BY <1>1, <1>13, <2>2
  <2> QED
    BY <2>1, <2>2
<1>17. pc' \in {"head", "backoff", "stopped"} /\ spent' \in 0 .. MaxWork + MaxBackoff
  BY <1>1, <1>2, Limits DEF AfterFailure
<1>18. late' \in BOOLEAN /\ (messages' = <<>> => ~late')
  BY <1>1, <1>2, <1>10, <1>11
<1>19. TypeOK'
  BY <1>1, <1>9, <1>14, <1>15, <1>17, <1>18, Limits DEF Inv, TypeOK
<1>20. LateOutside'
  <2> SUFFICES ASSUME messages' # <<>>, age' >= MaxFlush
               PROVE  FALSE
    BY DEF LateOutside
  <2>1. ~flush /\ batch # <<>>
    BY <1>1
  <2> QED
    BY <1>1, <1>12, <2>1 DEF AgeAfter
<1>21. LimitsClose' /\ BlockEndsAtTrigger'
  BY <1>14, <1>16, <1>17 DEF LimitsClose, BlockEndsAtTrigger
<1> QED
  BY <1>19, <1>20, <1>21 DEF Inv

LEMMA StepInv == Inv /\ [Next]_vars => Inv'
<1> SUFFICES ASSUME Inv, [Next]_vars PROVE Inv'
  OBVIOUS
<1>1. CASE UNCHANGED vars
  BY <1>1 DEF vars, Inv, TypeOK, LimitsClose, BlockEndsAtTrigger, LateOutside
<1> QED
  BY <1>1, EnqueueInv, TickInv, LoopHeadInv, TickFailsInv, WakeUpInv, StartReadInv,
     ReadReturnsInv, StopInv DEF Next, Arrives

LEMMA Inductive == Spec => []Inv
  BY InitInv, StepInv, PTL DEF Spec

\* Every variable keeps its kind, and an empty batch has no age.
THEOREM TypeCorrect == Spec => []TypeOK
<1>1. Inv => TypeOK
  BY DEF Inv
<1> QED
  BY <1>1, Inductive, PTL

\* No manifest gets more rows than the limit, whatever a read returns, and a batch
\* that reached the row or the byte limit is closed by the read that filled it.
THEOREM BatchesBounded == Spec => []LimitsClose
<1>1. Inv => LimitsClose
  BY DEF Inv
<1> QED
  BY <1>1, Inductive, PTL

\* A read of a worker that holds messages ends at the age trigger, or has no limit
\* because the trigger passed outside a read, whatever arrives, fails or stops.
THEOREM BlocksUntilTrigger == Spec => []BlockEndsAtTrigger
<1>1. Inv => BlockEndsAtTrigger
  BY DEF Inv
<1> QED
  BY <1>1, Inductive, PTL
=============================================================================
