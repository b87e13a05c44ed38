------------------------------ MODULE JobLease ------------------------------
(***************************************************************************)
(* What the jobs table promises to the executors, whatever the runner does *)
(* in between: a job has at most one holder; it changes hands only when    *)
(* its holder gave it back or its lease ran out; only the holder settles   *)
(* it; and a settled job stays as it is.                                   *)
(*                                                                         *)
(* Source of the promise: the module comment of                            *)
(* packages/postgres/src/repositories/jobs.ts ("Two ideas ...").  Module   *)
(* JobRunner is shown to implement it.                                     *)
(***************************************************************************)
EXTENDS Naturals

CONSTANTS Jobs, Workers, NoWorker

VARIABLES
    holder,  \* who may settle a job
    verdict, \* how it ended, "open" until then, "absent" before it is posted
    expired  \* held jobs whose lease ran out

vars == <<holder, verdict, expired>>

Init ==
    /\ holder = [j \in Jobs |-> NoWorker]
    /\ verdict = [j \in Jobs |-> "absent"]
    /\ expired = {}

Post(j) ==
    /\ verdict[j] = "absent"
    /\ verdict' = [verdict EXCEPT ![j] = "open"]
    /\ UNCHANGED <<holder, expired>>

Available(j) == verdict[j] = "open" /\ (holder[j] = NoWorker \/ j \in expired)

Take(w, taken) ==
    /\ \A j \in taken : Available(j)
    /\ holder' = [j \in Jobs |-> IF j \in taken THEN w ELSE holder[j]]
    /\ expired' = expired \ taken
    /\ UNCHANGED verdict

Renew(w, j) ==
    /\ holder[j] = w
    /\ expired' = expired \ {j}
    /\ UNCHANGED <<holder, verdict>>

Expire(j) ==
    /\ holder[j] # NoWorker
    /\ expired' = expired \union {j}
    /\ UNCHANGED <<holder, verdict>>

GiveBack(w, j) ==
    /\ holder[j] = w
    /\ holder' = [holder EXCEPT ![j] = NoWorker]
    /\ expired' = expired \ {j}
    /\ UNCHANGED verdict

Close(w, j, how) ==
    /\ holder[j] = w
    /\ verdict' = [verdict EXCEPT ![j] = how]
    /\ holder' = [holder EXCEPT ![j] = NoWorker]
    /\ expired' = expired \ {j}

Next ==
    \/ \E j \in Jobs : Post(j) \/ Expire(j)
    \/ \E w \in Workers : \E taken \in SUBSET Jobs : Take(w, taken)
    \/ \E w \in Workers, j \in Jobs :
         \/ Renew(w, j) \/ GiveBack(w, j)
         \/ \E how \in {"succeeded", "failed_terminal"} : Close(w, j, how)

Spec == Init /\ [][Next]_vars

=============================================================================
