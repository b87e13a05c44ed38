-------------------------- MODULE JobRunnerProofs --------------------------
(***************************************************************************)
(* The job runner keeps its shape, never has two live jobs of one subject, *)
(* decides on the current attempt count, gives up at its limit, and        *)
(* implements module JobLease, for any workers, jobs, subjects and bounds. *)
(*                                                                         *)
(* TypeOK is inductive: a row has a holder exactly while it runs, and a    *)
(* worker without a job or a page is about to claim.  With it, so is the   *)
(* rest: whoever writes a row either claims it while nobody can settle it, *)
(* or holds it, and then nobody else's count refers to it.  SpentIsCounted *)
(* says what the count means: the attempts that failed or lapsed since the *)
(* job last asked for a wait, and the one that runs.                       *)
(***************************************************************************)
EXTENDS JobRunner, TLAPS

USE DEF row, runner, Settled, Outcomes

LEMMA IncrementBounded ==
    ASSUME NEW n \in 0 .. MaxAttempts
    PROVE  Increment(n) \in 0 .. MaxAttempts
  BY JobsAssumption DEF Increment

LEMMA VerdictIsStatus ==
    ASSUME NEW w
    PROVE  Verdict(w) \in {"succeeded", "failed_terminal", "failed_retryable"}
  BY DEF Verdict

LEMMA TypeInit == Init => TypeOK
  BY JobsAssumption DEF Init, TypeOK, Live

\* The part of TypeOK about the rows, and the part about the workers.
RowType ==
    /\ status \in [Jobs -> {"absent"} \union Live \union Settled]
    /\ owner \in [Jobs -> Workers \union {NoWorker}]
    /\ lease \in [Jobs -> {"none", "live", "expired"}]
    /\ \A j \in Jobs :
         /\ status[j] = "running" <=> owner[j] # NoWorker
         /\ status[j] = "running" <=> lease[j] # "none"
    /\ due \subseteq Jobs
    /\ attempts \in [Jobs -> 0 .. MaxAttempts]

WorkerType ==
    /\ page \in [Workers -> SUBSET Jobs]
    /\ job \in [Workers -> Jobs \union {NoJob}]
    /\ counted \in [Workers -> [Jobs -> 0 .. MaxAttempts]]
    /\ pc \in [Workers -> {"claim", "extend", "execute", "settle", "notify"}]
    /\ \A w \in Workers :
         /\ page[w] # {} => pc[w] # "claim"
         /\ pc[w] \in {"execute", "settle", "notify"} <=> job[w] # NoJob
    /\ outcome \in [Workers -> Outcomes]

LEMMA NextJobKeepsType ==
    ASSUME TypeOK, NEW w \in Workers, NEW left \in SUBSET page[w], NextJob(w, left)
    PROVE  WorkerType'
<1> USE JobsAssumption DEF TypeOK, NextJob
<1>1. left \in SUBSET Jobs
  OBVIOUS
<1>2. /\ page' \in [Workers -> SUBSET Jobs]
      /\ job' \in [Workers -> Jobs \union {NoJob}]
      /\ pc' \in [Workers -> {"claim", "extend", "execute", "settle", "notify"}]
      /\ outcome' \in [Workers -> Outcomes]
  BY <1>1
<1>3. counted' \in [Workers -> [Jobs -> 0 .. MaxAttempts]]
  <2>1. [j \in Jobs |-> IF j \in left THEN counted[w][j] ELSE 0] \in [Jobs -> 0 .. MaxAttempts]
    OBVIOUS
  <2>2. QED
    BY <2>1
<1>4. \A x \in Workers :
        /\ page'[x] # {} => pc'[x] # "claim"
        /\ pc'[x] \in {"execute", "settle", "notify"} <=> job'[x] # NoJob
  OBVIOUS
<1>5. QED
  BY <1>2, <1>3, <1>4 DEF WorkerType

LEMMA TypeStep ==
    ASSUME TypeOK, [Next]_vars
    PROVE  TypeOK'
<1> USE JobsAssumption DEF TypeOK
<1>1. ASSUME NEW j \in Jobs, NEW available \in BOOLEAN, Enqueue(j, available)
      PROVE  TypeOK'
  BY <1>1 DEF Enqueue, NextJob, Live
<1>2. ASSUME NEW j \in Jobs, LeaseExpires(j)
      PROVE  TypeOK'
  BY <1>2 DEF LeaseExpires, NextJob, Live
<1>3. ASSUME NEW j \in Jobs, BecomesDue(j)
      PROVE  TypeOK'
  BY <1>3 DEF BecomesDue, NextJob, Live
<1>4. ASSUME NEW w \in Workers, NEW claimed \in SUBSET Jobs, Claim(w, claimed)
      PROVE  TypeOK'
  BY <1>4, IncrementBounded DEF Claim, Claimable, Live
<1>5. ASSUME NEW w \in Workers, NEW j \in Jobs, Extend(w, j)
      PROVE  TypeOK'
  <2>1. CASE owner[j] = w
    <3>1. /\ page' = [page EXCEPT ![w] = @ \ {j}]
          /\ job' = [job EXCEPT ![w] = j]
          /\ pc' = [pc EXCEPT ![w] = "execute"]
          /\ lease' = [lease EXCEPT ![j] = "live"]
          /\ UNCHANGED <<status, owner, due, attempts, counted, outcome>>
      BY <1>5, <2>1 DEF Extend
    <3>2. RowType'
      <4>1. status[j] = "running"
        BY <2>1
      <4>2. QED
        BY <3>1, <4>1 DEF RowType, Live
    <3>3. WorkerType'
      BY <3>1 DEF WorkerType
    <3>4. QED
      BY <1>5, <3>2, <3>3 DEF Extend, RowType, WorkerType
  <2>2. CASE owner[j] # w
    <3>1. WorkerType'
      BY <1>5, <2>2, NextJobKeepsType DEF Extend
    <3>2. QED
      BY <1>5, <2>2, <3>1 DEF Extend, WorkerType, Live
  <2>3. QED
    BY <2>1, <2>2
<1>6. ASSUME NEW w \in Workers, NEW o \in Outcomes, Execute(w, o)
      PROVE  TypeOK'
  BY <1>6 DEF Execute, NextJob, Live
<1>7. ASSUME NEW w \in Workers, Settle(w)
      PROVE  TypeOK'
  <2>1. job[w] \in Jobs
    BY <1>7 DEF Settle
  <2>2. RowType'
    <3>1. Recount(w) \in 0 .. MaxAttempts
      BY <2>1 DEF Recount
    <3>2. QED
      BY <1>7, <2>1, <3>1, VerdictIsStatus DEF Settle, Held, Live, RowType
  <2>3. WorkerType'
    <3>1. CASE Verdict(w) = "failed_terminal"
      <4>1. pc' = [pc EXCEPT ![w] = "notify"] /\ UNCHANGED <<page, job, counted, outcome>>
        BY <1>7, <3>1 DEF Settle
      <4>2. pc[w] = "settle"
        BY <1>7 DEF Settle
      <4>3. pc' \in [Workers -> {"claim", "extend", "execute", "settle", "notify"}]
        BY <4>1
      <4>4. \A x \in Workers :
              /\ page'[x] # {} => pc'[x] # "claim"
              /\ pc'[x] \in {"execute", "settle", "notify"} <=> job'[x] # NoJob
        BY <4>1, <4>2
      <4>5. QED
        BY <4>1, <4>3, <4>4 DEF WorkerType
    <3>2. CASE Verdict(w) # "failed_terminal"
      BY <1>7, <3>2, NextJobKeepsType DEF Settle
    <3>3. QED
      BY <3>1, <3>2
  <2>4. spent' \in [Jobs -> 0 .. MaxAttempts]
    BY <1>7, <2>1, IncrementBounded DEF Settle
  <2>5. QED
    BY <1>7, <2>2, <2>3, <2>4 DEF Settle, RowType, WorkerType
<1>8. ASSUME NEW w \in Workers, Lose(w)
      PROVE  TypeOK'
  BY <1>8 DEF Lose, NextJob, Live
<1>9. ASSUME NEW w \in Workers, Notify(w)
      PROVE  TypeOK'
  BY <1>9 DEF Notify, NextJob, Live
<1>10. ASSUME NEW w \in Workers, Renew(w)
      PROVE  TypeOK'
  BY <1>10 DEF Renew, NextJob, Live
<1>11. ASSUME NEW w \in Workers, Abandon(w)
      PROVE  TypeOK'
  BY <1>11 DEF Abandon, NextJob, Live
<1>12. CASE UNCHANGED vars
  BY <1>12 DEF vars, Live
<1>13. ASSUME NEW w \in Workers, Runs(w)
       PROVE  TypeOK'
  <2>1. page[w] \subseteq Jobs
    OBVIOUS
  <2>2. Extends(w) => TypeOK'
    BY ONLY <1>5, <2>1 DEF Extends
  <2>3. Claims(w) \/ Executes(w) \/ Notify(w) => TypeOK'
    BY ONLY <1>4, <1>6, <1>9 DEF Claims, Executes
  <2>4. QED
    BY <1>7, <1>8, <1>13, <2>2, <2>3 DEF Runs
<1>q. QED
  BY <1>1, <1>2, <1>3, <1>10, <1>11, <1>12, <1>13 DEF Next

-----------------------------------------------------------------------------
(* One live job of a subject. *)

LEMMA OneLiveStep ==
    ASSUME TypeOK, OneLivePerSubject, [Next]_vars
    PROVE  OneLivePerSubject'
<1> USE JobsAssumption DEF OneLivePerSubject
<1>1. ASSUME NEW j \in Jobs, NEW available \in BOOLEAN, Enqueue(j, available)
      PROVE  OneLivePerSubject'
  BY <1>1 DEF Enqueue, TypeOK
<1>2. ASSUME \A k \in Jobs : status'[k] \in Live => status[k] \in Live
      PROVE  OneLivePerSubject'
  BY <1>2 DEF Live
<1>3. ASSUME NEW w \in Workers, NEW claimed \in SUBSET Jobs, Claim(w, claimed)
      PROVE  OneLivePerSubject'
  <2>1. \A k \in claimed : status[k] \in Live
    BY <1>3 DEF Claim, Claimable, Live
  <2>2. \A k \in Jobs : status'[k] = IF k \in claimed THEN "running" ELSE status[k]
    BY <1>3 DEF Claim
  <2>3. QED
    BY <1>2, <2>1, <2>2
<1>4. ASSUME NEW w \in Workers, Settle(w)
      PROVE  OneLivePerSubject'
  <2>1. job[w] \in Jobs /\ status[job[w]] = "running"
    BY <1>4 DEF Settle, Held, TypeOK
  <2>2. status' = [status EXCEPT ![job[w]] = Verdict(w)]
    BY <1>4 DEF Settle
  <2>3. \A k \in Jobs : status'[k] \in Live => status[k] \in Live
    BY <2>1, <2>2 DEF TypeOK, Live
  <2>4. QED
    BY <1>2, <2>3
<1>5. ASSUME status' = status
      PROVE  OneLivePerSubject'
  BY <1>5 DEF Live
<1>6. QED
  BY <1>1, <1>3, <1>4, <1>5
     DEF Next, Runs, Claims, Extends, Executes, Extend, Execute, Lose,
         Notify, Renew, Abandon, LeaseExpires, BecomesDue, vars

-----------------------------------------------------------------------------
(* The count a worker decides on. *)

\* A worker's step to its next job, or from page to job, takes nothing new in
\* hand and leaves the counts of what it still has.
Keeps(w) ==
    \A j \in Jobs : j \in page'[w] \/ job'[w] = j =>
        (j \in page[w] \/ job[w] = j) /\ counted'[w][j] = counted[w][j]

LEMMA NextJobKeeps ==
    ASSUME TypeOK, NEW w \in Workers, NEW left \in SUBSET page[w], NextJob(w, left)
    PROVE  \A x \in Workers : Keeps(x)
<1>1. ASSUME NEW x \in Workers, x # w
      PROVE  Keeps(x)
  BY <1>1 DEF NextJob, Keeps, TypeOK
<1>2. Keeps(w)
  <2>1. page'[w] = left /\ job'[w] = NoJob
    BY DEF NextJob, TypeOK
  <2>2. \A j \in left : counted'[w][j] = counted[w][j]
    <3>1. counted'[w] = [j \in Jobs |-> IF j \in left THEN counted[w][j] ELSE 0]
      BY DEF NextJob, TypeOK
    <3>2. left \subseteq Jobs
      BY DEF TypeOK
    <3>3. QED
      BY <3>1, <3>2
  <2>3. QED
    BY <2>1, <2>2, JobsAssumption DEF Keeps
<1>3. QED
  BY <1>1, <1>2

LEMMA CountStep ==
    ASSUME TypeOK, CountIsCurrent, [Next]_vars
    PROVE  CountIsCurrent'
<1> USE JobsAssumption DEF CountIsCurrent
<1>0. ASSUME \A x \in Workers : Keeps(x), owner' = owner, attempts' = attempts
      PROVE  CountIsCurrent'
  BY <1>0 DEF Keeps
<1>1. ASSUME UNCHANGED runner
      PROVE  \A x \in Workers : Keeps(x)
  BY <1>1 DEF Keeps
<1>2. ASSUME NEW w \in Workers, NEW claimed \in SUBSET Jobs, Claim(w, claimed)
      PROVE  CountIsCurrent'
  <2>1. SUFFICES ASSUME NEW x \in Workers, NEW j \in Jobs,
                        j \in page'[x] \/ job'[x] = j, owner'[j] = x
                 PROVE  counted'[x][j] = attempts'[j]
    OBVIOUS
  <2>2. CASE x = w
    <3>1. page'[w] = claimed /\ job'[w] = NoJob
      <4>1. pc[w] = "claim" /\ job' = job /\ page' = [page EXCEPT ![w] = claimed]
        BY <1>2 DEF Claim
      <4>2. job[w] = NoJob
        BY <4>1 DEF TypeOK
      <4>3. page \in [Workers -> SUBSET Jobs]
        BY DEF TypeOK
      <4>4. QED
        BY <4>1, <4>2, <4>3
    <3>2. j \in claimed
      BY <2>1, <2>2, <3>1
    <3>3. attempts'[j] = Increment(attempts[j])
      BY <1>2, <3>2 DEF Claim
    <3>4. counted'[w] = [k \in Jobs |-> IF k \in claimed THEN Increment(attempts[k]) ELSE 0]
      BY <1>2 DEF Claim, TypeOK
    <3>5. QED
      BY <2>2, <3>2, <3>3, <3>4
  <2>3. CASE x # w
    <3>1. j \notin claimed /\ owner[j] = x /\ attempts'[j] = attempts[j]
      BY <1>2, <2>1, <2>3 DEF Claim
    <3>2. page'[x] = page[x] /\ job'[x] = job[x] /\ counted'[x] = counted[x]
      BY <1>2, <2>3 DEF Claim, TypeOK
    <3>3. QED
      BY <2>1, <3>1, <3>2
  <2>4. QED
    BY <2>2, <2>3
<1>3. ASSUME NEW w \in Workers, NEW j \in Jobs, Extend(w, j)
      PROVE  CountIsCurrent'
  <2>1. \A x \in Workers : Keeps(x)
    <3>1. CASE owner[j] = w
      BY <1>3, <3>1 DEF Extend, Keeps, TypeOK
    <3>2. CASE owner[j] # w
      BY <1>3, <3>2, NextJobKeeps DEF Extend
    <3>3. QED
      BY <3>1, <3>2
  <2>2. QED
    BY <1>0, <1>3, <2>1 DEF Extend
<1>4. ASSUME NEW w \in Workers, NEW o \in Outcomes, Execute(w, o)
      PROVE  CountIsCurrent'
  BY <1>0, <1>4 DEF Execute, Keeps
<1>5. ASSUME NEW w \in Workers, Settle(w)
      PROVE  CountIsCurrent'
  <2>1. job[w] \in Jobs
    BY <1>5 DEF Settle, TypeOK
  <2>2. \A x \in Workers : Keeps(x)
    <3>1. CASE Verdict(w) = "failed_terminal"
      BY <1>5, <3>1 DEF Settle, Keeps
    <3>2. CASE Verdict(w) # "failed_terminal"
      BY <1>5, <3>2, NextJobKeeps DEF Settle
    <3>3. QED
      BY <3>1, <3>2
  <2>3. owner'[job[w]] = NoWorker
    BY <1>5, <2>1 DEF Settle, TypeOK
  <2>4. \A j \in Jobs : j # job[w] => owner'[j] = owner[j] /\ attempts'[j] = attempts[j]
    BY <1>5, <2>1 DEF Settle, TypeOK
  <2>5. QED
    BY <2>2, <2>3, <2>4 DEF Keeps
<1>6. ASSUME NEW w \in Workers, Lose(w)
      PROVE  CountIsCurrent'
  BY <1>0, <1>6, NextJobKeeps DEF Lose
<1>7. ASSUME NEW w \in Workers, Notify(w)
      PROVE  CountIsCurrent'
  BY <1>0, <1>7, NextJobKeeps DEF Notify
<1>8. ASSUME NEW w \in Workers, Abandon(w)
      PROVE  CountIsCurrent'
  BY <1>0, <1>8, NextJobKeeps DEF Abandon
<1>9. ASSUME UNCHANGED <<owner, attempts, runner>>
      PROVE  CountIsCurrent'
  BY <1>0, <1>1, <1>9
<1>10. ASSUME NEW j \in Jobs,
              \/ LeaseExpires(j) \/ BecomesDue(j)
              \/ \E available \in BOOLEAN : Enqueue(j, available)
       PROVE  CountIsCurrent'
  BY <1>9, <1>10 DEF Enqueue, LeaseExpires, BecomesDue
<1>11. ASSUME NEW w \in Workers, Runs(w)
       PROVE  CountIsCurrent'
  <2>1. page[w] \subseteq Jobs
    BY DEF TypeOK
  <2>2. QED
    BY <1>2, <1>3, <1>4, <1>5, <1>6, <1>7, <1>11, <2>1
       DEF Runs, Claims, Extends, Executes
<1>12. ASSUME NEW w \in Workers, Renew(w)
       PROVE  CountIsCurrent'
  BY <1>9, <1>12 DEF Renew
<1>13. CASE UNCHANGED vars
  BY <1>9, <1>13 DEF vars
<1>14. QED
  BY <1>8, <1>10, <1>11, <1>12, <1>13 DEF Next

-----------------------------------------------------------------------------
(* The refinement of module JobLease. *)

LEMMA LeaseInit == Init => Lease!Init
  BY DEF Init, Lease!Init, Live

\* The abstract state is that of the three columns status, claimed_by and
\* lease_expires_at.
LEMMA SameColumns ==
    ASSUME UNCHANGED <<status, owner, lease>>
    PROVE  UNCHANGED Lease!vars
  BY DEF Lease!vars, Live

\* A renewal, by the runner or by the executor.
LEMMA RenewalIsRenew ==
    ASSUME TypeOK, NEW w \in Workers, NEW j \in Jobs, owner[j] = w,
           lease' = [lease EXCEPT ![j] = "live"], UNCHANGED <<status, owner>>
    PROVE  Lease!Renew(w, j)
<1>1. {k \in Jobs : lease'[k] = "expired"} = {k \in Jobs : lease[k] = "expired"} \ {j}
  BY DEF TypeOK
<1>2. QED
  BY <1>1 DEF Lease!Renew, Live

LEMMA ClaimIsTake ==
    ASSUME TypeOK, NEW w \in Workers, NEW claimed \in SUBSET Jobs, Claim(w, claimed)
    PROVE  Lease!Take(w, claimed)
<1>1. ASSUME NEW j \in claimed
      PROVE  status[j] \in Live /\ (owner[j] = NoWorker \/ lease[j] = "expired")
  BY <1>1 DEF Claim, Claimable, Live, TypeOK
<1>2. [j \in Jobs |-> IF status'[j] \in Live THEN "open" ELSE status'[j]]
        = [j \in Jobs |-> IF status[j] \in Live THEN "open" ELSE status[j]]
  <2>1. \A j \in Jobs : status'[j] = IF j \in claimed THEN "running" ELSE status[j]
    BY DEF Claim
  <2>2. QED
    BY <1>1, <2>1 DEF Live
<1>3. {j \in Jobs : lease'[j] = "expired"} = {j \in Jobs : lease[j] = "expired"} \ claimed
  <2>1. \A j \in Jobs : lease'[j] = IF j \in claimed THEN "live" ELSE lease[j]
    BY DEF Claim
  <2>2. QED
    BY <2>1
<1>4. owner' = [j \in Jobs |-> IF j \in claimed THEN w ELSE owner[j]]
  BY DEF Claim
<1>5. \A j \in claimed : Lease!Available(j)
  BY <1>1 DEF Lease!Available
<1>6. QED
  BY <1>2, <1>3, <1>4, <1>5 DEF Lease!Take

LEMMA SettleIsCloseOrGiveBack ==
    ASSUME TypeOK, NEW w \in Workers, Settle(w)
    PROVE  Lease!Next
<1> DEFINE open == [k \in Jobs |-> IF status[k] \in Live THEN "open" ELSE status[k]]
<1>0. PICK j \in Jobs : j = job[w]
  BY DEF Settle, TypeOK
<1>1. owner[j] = w /\ status[j] = "running"
  BY <1>0, JobsAssumption DEF Settle, Held, TypeOK
<1>2. owner' = [owner EXCEPT ![j] = NoWorker]
  BY <1>0 DEF Settle
<1>3. {k \in Jobs : lease'[k] = "expired"} = {k \in Jobs : lease[k] = "expired"} \ {j}
  <2>1. lease' = [lease EXCEPT ![j] = "none"]
    BY <1>0 DEF Settle
  <2>2. QED
    BY <1>1, <2>1 DEF TypeOK
<1>4. status' = [status EXCEPT ![j] = Verdict(w)]
  BY <1>0 DEF Settle
<1>5. CASE Verdict(w) = "failed_retryable"
  <2>1. [k \in Jobs |-> IF status'[k] \in Live THEN "open" ELSE status'[k]] = open
    BY <1>1, <1>4, <1>5 DEF Live, TypeOK
  <2>2. Lease!GiveBack(w, j)
    BY <1>1, <1>2, <1>3, <2>1 DEF Lease!GiveBack
  <2>3. QED
    BY <1>1, <2>2 DEF Lease!Next
<1>6. CASE Verdict(w) \in {"succeeded", "failed_terminal"}
  <2>0. PICK how \in {"succeeded", "failed_terminal"} : how = Verdict(w)
    BY <1>6
  <2>1. [k \in Jobs |-> IF status'[k] \in Live THEN "open" ELSE status'[k]]
          = [open EXCEPT ![j] = how]
    BY <2>0, <1>1, <1>4, <1>6 DEF Live, TypeOK
  <2>2. Lease!Close(w, j, how)
    BY <1>1, <1>2, <1>3, <2>1 DEF Lease!Close
  <2>3. QED
    BY <2>2 DEF Lease!Next
<1>7. QED
  BY <1>5, <1>6, VerdictIsStatus

LEMMA LeaseStep ==
    ASSUME TypeOK, [Next]_vars
    PROVE  [Lease!Next]_(Lease!vars)
<1>1. ASSUME NEW j \in Jobs, NEW available \in BOOLEAN, Enqueue(j, available)
      PROVE  Lease!Next
  <2>1. [k \in Jobs |-> IF status'[k] \in Live THEN "open" ELSE status'[k]]
          = [[k \in Jobs |-> IF status[k] \in Live THEN "open" ELSE status[k]]
               EXCEPT ![j] = "open"]
    BY <1>1 DEF Enqueue, Live, TypeOK
  <2>2. Lease!Post(j)
    BY <1>1, <2>1 DEF Enqueue, Lease!Post, Live
  <2>3. QED
    BY <2>2 DEF Lease!Next
<1>2. ASSUME NEW j \in Jobs, LeaseExpires(j)
      PROVE  Lease!Next
  <2>1. {k \in Jobs : lease'[k] = "expired"} = {k \in Jobs : lease[k] = "expired"} \union {j}
    BY <1>2 DEF LeaseExpires, TypeOK
  <2>2. owner[j] # NoWorker
    BY <1>2 DEF LeaseExpires, TypeOK
  <2>3. Lease!Expire(j)
    BY <1>2, <2>1, <2>2 DEF LeaseExpires, Lease!Expire, Live
  <2>4. QED
    BY <2>3 DEF Lease!Next
<1>3. ASSUME NEW w \in Workers, NEW claimed \in SUBSET Jobs, Claim(w, claimed)
      PROVE  Lease!Next
  BY <1>3, ClaimIsTake DEF Lease!Next
<1>4. ASSUME NEW w \in Workers, NEW j \in Jobs, Extend(w, j)
      PROVE  [Lease!Next]_(Lease!vars)
  <2>1. CASE owner[j] = w
    <3>1. Lease!Renew(w, j)
      BY <1>4, <2>1, RenewalIsRenew DEF Extend
    <3>2. QED
      BY <3>1 DEF Lease!Next
  <2>2. CASE owner[j] # w
    BY <1>4, <2>2, SameColumns DEF Extend
  <2>3. QED
    BY <2>1, <2>2
<1>5. ASSUME NEW w \in Workers, Renew(w)
      PROVE  Lease!Next
  <2>1. PICK j \in Jobs : j = job[w]
    BY <1>5 DEF Renew, TypeOK
  <2>2. Lease!Renew(w, j)
    BY <1>5, <2>1, RenewalIsRenew DEF Renew
  <2>3. QED
    BY <2>2 DEF Lease!Next
<1>6. ASSUME NEW w \in Workers, Settle(w)
      PROVE  Lease!Next
  BY <1>6, SettleIsCloseOrGiveBack
<1>7. ASSUME NEW w \in Workers,
             Executes(w) \/ Lose(w) \/ Notify(w) \/ Abandon(w)
      PROVE  UNCHANGED Lease!vars
  BY <1>7, SameColumns DEF Executes, Execute, Lose, Notify, Abandon
<1>8. ASSUME NEW j \in Jobs, BecomesDue(j)
      PROVE  UNCHANGED Lease!vars
  BY <1>8, SameColumns DEF BecomesDue
<1>9. CASE UNCHANGED vars
  BY <1>9, SameColumns DEF vars
<1>10. ASSUME NEW w \in Workers, Runs(w)
       PROVE  [Lease!Next]_(Lease!vars)
  <2>1. page[w] \subseteq Jobs
    BY DEF TypeOK
  <2>2. QED
    BY <1>3, <1>4, <1>6, <1>7, <1>10, <2>1 DEF Runs, Claims, Extends
<1>11. QED
  BY <1>1, <1>2, <1>5, <1>7, <1>8, <1>9, <1>10 DEF Next

-----------------------------------------------------------------------------
(* Giving up. *)

\* What the column attempts says: every attempt since the job last asked for a wait
\* failed, lapsed or is the one that runs.
SpentIsCounted ==
    \A j \in Jobs :
        /\ status[j] = "running" => attempts[j] = Increment(spent[j])
        /\ status[j] \in {"absent", "queued", "failed_retryable"} => attempts[j] = spent[j]

LEMMA SpentStep ==
    ASSUME TypeOK, SpentIsCounted, [Next]_vars
    PROVE  SpentIsCounted'
<1> USE JobsAssumption DEF SpentIsCounted
<1>1. ASSUME UNCHANGED <<status, attempts, spent>>
      PROVE  SpentIsCounted'
  BY <1>1
<1>2. ASSUME NEW j \in Jobs, NEW available \in BOOLEAN, Enqueue(j, available)
      PROVE  SpentIsCounted'
  BY <1>2 DEF Enqueue, TypeOK
<1>3. ASSUME NEW w \in Workers, NEW claimed \in SUBSET Jobs, Claim(w, claimed)
      PROVE  SpentIsCounted'
  <2>1. ASSUME NEW j \in claimed
        PROVE  status'[j] = "running" /\ attempts'[j] = Increment(spent'[j])
    <3>1. /\ status'[j] = "running" /\ attempts'[j] = Increment(attempts[j])
          /\ spent'[j] = IF status[j] = "running" THEN Increment(spent[j]) ELSE spent[j]
      BY <1>3 DEF Claim
    <3>2. status[j] \in {"queued", "failed_retryable", "running"}
      BY <1>3 DEF Claim, Claimable
    <3>3. QED
      BY <3>1, <3>2
  <2>2. ASSUME NEW j \in Jobs \ claimed
        PROVE  status'[j] = status[j] /\ attempts'[j] = attempts[j] /\ spent'[j] = spent[j]
    BY <1>3 DEF Claim
  <2>3. QED
    BY <2>1, <2>2
<1>4. ASSUME NEW w \in Workers, Settle(w)
      PROVE  SpentIsCounted'
  <2>1. PICK j \in Jobs : j = job[w]
    BY <1>4 DEF Settle, TypeOK
  <2>2. status[j] = "running" /\ attempts[j] = Increment(spent[j])
    BY <1>4, <2>1 DEF Settle, Held, TypeOK
  <2>3. /\ status' = [status EXCEPT ![j] = Verdict(w)]
        /\ attempts' = [attempts EXCEPT ![j] = Recount(w)]
        /\ spent' = [spent EXCEPT ![j] =
             IF outcome[w] = "wait" THEN 0
             ELSE IF outcome[w] = "failed" THEN Increment(@) ELSE @]
    BY <1>4, <2>1 DEF Settle
  <2>4. Verdict(w) = "failed_retryable" => outcome[w] \in {"wait", "failed"}
    BY DEF Verdict, TypeOK
  <2>5. Verdict(w) = "failed_retryable" => attempts'[j] = spent'[j]
    BY <2>1, <2>2, <2>3, <2>4 DEF Recount, TypeOK
  <2>6. \A k \in Jobs \ {j} :
          status'[k] = status[k] /\ attempts'[k] = attempts[k] /\ spent'[k] = spent[k]
    BY <2>3 DEF TypeOK
  <2>7. status'[j] = Verdict(w)
    BY <2>3 DEF TypeOK
  <2>8. QED
    BY <2>5, <2>6, <2>7, VerdictIsStatus
<1>5. QED
  BY <1>1, <1>2, <1>3, <1>4
     DEF Next, Runs, Claims, Extends, Executes, Extend, Execute, Lose,
         Notify, Renew, Abandon, LeaseExpires, BecomesDue, vars

\* A running job is settled by its owner, who then is at it.
LEMMA SettledByOwner ==
    ASSUME TypeOK, [Next]_vars, NEW w \in Workers, NEW j \in Jobs,
           owner[j] = w, status[j] = "running", status'[j] # "running"
    PROVE  Settle(w) /\ job[w] = j
<1>1. ASSUME status' = status
      PROVE  FALSE
  BY <1>1
<1>2. ASSUME NEW k \in Jobs,
             \/ LeaseExpires(k) \/ BecomesDue(k)
             \/ \E available \in BOOLEAN : Enqueue(k, available)
      PROVE  FALSE
  <2>1. status' = status \/ (status[k] = "absent" /\ status' = [status EXCEPT ![k] = "queued"])
    BY <1>2 DEF LeaseExpires, BecomesDue, Enqueue
  <2>2. QED
    BY <2>1 DEF TypeOK
<1>3. ASSUME NEW x \in Workers, Claims(x)
      PROVE  FALSE
  <2>1. \E claimed : status' = [k \in Jobs |-> IF k \in claimed THEN "running" ELSE status[k]]
    BY <1>3 DEF Claims, Claim
  <2>2. QED
    BY <2>1
<1>4. ASSUME NEW x \in Workers,
             \/ Extends(x) \/ Executes(x) \/ Lose(x) \/ Notify(x)
             \/ Renew(x) \/ Abandon(x)
      PROVE  FALSE
  BY <1>1, <1>4 DEF Extends, Extend, Executes, Execute, Lose, Notify, Renew, Abandon
<1>5. PICK x \in Workers : Settle(x)
  BY <1>1, <1>2, <1>3, <1>4 DEF Next, Runs, vars
<1>6. status' = [status EXCEPT ![job[x]] = Verdict(x)] /\ owner[job[x]] = x
  BY <1>5 DEF Settle, Held
<1>7. job[x] = j
  BY <1>6 DEF TypeOK
<1>8. QED
  BY <1>5, <1>6, <1>7

LEMMA GivingUpStep ==
    ASSUME TypeOK, CountIsCurrent, SpentIsCounted, [Next]_vars,
           NEW w \in Workers, NEW j \in Jobs,
           owner[j] = w, status[j] = "running", status'[j] # "running"
    PROVE  status'[j] = "failed_terminal" <=>
             \/ outcome[w] = "terminal"
             \/ outcome[w] = "failed" /\ spent'[j] = MaxAttempts
<1>1. Settle(w) /\ job[w] = j
  BY SettledByOwner
<1>2. status'[j] = Verdict(w)
  BY <1>1 DEF Settle, TypeOK
<1>3. outcome[w] = "failed" => spent'[j] = Increment(spent[j])
  BY <1>1 DEF Settle, TypeOK
<1>4. counted[w][j] = Increment(spent[j])
  BY <1>1 DEF CountIsCurrent, SpentIsCounted
<1>5. Increment(spent[j]) \in 0 .. MaxAttempts
  BY IncrementBounded DEF TypeOK
<1>6. outcome[w] = "failed" => (Exhausted(w) <=> spent'[j] = MaxAttempts)
  BY <1>1, <1>3, <1>4, <1>5, JobsAssumption DEF Exhausted
<1>7. Verdict(w) = "failed_terminal" <=> outcome[w] = "terminal" \/ Exhausted(w)
  BY DEF Verdict, Exhausted
<1>8. QED
  BY <1>2, <1>6, <1>7 DEF Exhausted

-----------------------------------------------------------------------------
(* Theorems. *)

\* The rows and the runners keep their shape: claimed_by and lease_expires_at are
\* set exactly while the status is running (jobs_lease_check only asks that they
\* go together), however claims, renewals, settles, crashes and expiries follow
\* each other.
THEOREM TypeCorrect == Spec => []TypeOK
<1>1. TypeOK /\ [Next]_vars => TypeOK'
  BY TypeStep
<1>2. QED
  BY TypeInit, <1>1, PTL DEF Spec

\* enqueueJob and the unique index keep a second job off a subject whose job is
\* queued, runs or waits for a retry; claiming and settling never bring one back.
THEOREM OneLive == Spec => []OneLivePerSubject
<1>1. Init => OneLivePerSubject
  BY DEF Init, OneLivePerSubject, Live
<1>2. TypeOK /\ OneLivePerSubject /\ [Next]_vars => OneLivePerSubject'
  BY OneLiveStep
<1>3. QED
  BY TypeCorrect, <1>1, <1>2, PTL DEF Spec

\* The attempts a worker compares with JOB_MAX_ATTEMPTS, read when it claimed the
\* job, are those of the row for as long as it may settle the row.
THEOREM CountCurrent == Spec => []CountIsCurrent
<1>1. Init => CountIsCurrent
  BY JobsAssumption DEF Init, CountIsCurrent
<1>2. TypeOK /\ CountIsCurrent /\ [Next]_vars => CountIsCurrent'
  BY CountStep
<1>3. QED
  BY TypeCorrect, <1>1, <1>2, PTL DEF Spec

\* The attempts guard is exact for any limit: a job becomes failed_terminal by the
\* worker that holds it, and does so if and only if that worker's executor declared it
\* impossible or its attempt failed as the last of MaxAttempts that failed or lapsed
\* since the job asked for a wait.
THEOREM GivenUpRightly == Spec => GivenUpWhenSpent
<1>1. Init => SpentIsCounted
  BY DEF Init, SpentIsCounted
<1>2. TypeOK /\ SpentIsCounted /\ [Next]_vars => SpentIsCounted'
  BY SpentStep
<1>3. TypeOK /\ CountIsCurrent /\ SpentIsCounted /\ [Next]_vars =>
        [\A w \in Workers, j \in Jobs :
           owner[j] = w /\ status[j] = "running" /\ status'[j] # "running" =>
              (status'[j] = "failed_terminal" <=>
                  \/ outcome[w] = "terminal"
                  \/ outcome[w] = "failed" /\ spent'[j] = MaxAttempts)]_vars
  BY GivingUpStep
<1>4. QED
  BY TypeCorrect, CountCurrent, <1>1, <1>2, <1>3, PTL DEF Spec, GivenUpWhenSpent

\* Whatever the runners do, an executor can rely on the lease: one holder, which
\* changes only by giving back or by expiry; the holder alone settles, and once.
THEOREM ImplementsLease == Spec => LeaseSpec
<1>1. TypeOK /\ [Next]_vars => [Lease!Next]_(Lease!vars)
  BY LeaseStep
<1>2. QED
  BY TypeCorrect, LeaseInit, <1>1, PTL DEF Spec, LeaseSpec, Lease!Spec

=============================================================================
