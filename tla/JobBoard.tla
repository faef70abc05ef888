------------------------------ MODULE JobBoard ------------------------------
(***************************************************************************)
(* What pkg/orchestration/jobqueue promises of each job, without queues,   *)
(* signals, workers or pauses (jobqueue.go:15: "the complete life cycle of *)
(* a job: queued, executed, completed or failed").  JobQueue implements    *)
(* this specification.                                                     *)
(***************************************************************************)
EXTENDS Naturals, FiniteSets

CONSTANTS
    Jobs,        \* the jobs clients may submit
    MaxRetries,  \* Job.MaxRetries
    Capacity     \* how many jobs may run at a time

VARIABLES
    status,  \* status[j]: where job j is in its life
    runs     \* runs[j]: how often its Fn has been started

vars == <<status, runs>>

Status == {"new", "refused", "pending", "running", "completed", "failed",
           "cancelled"}

Init ==
    /\ status = [j \in Jobs |-> "new"]
    /\ runs = [j \in Jobs |-> 0]

Become(j, s) == status' = [status EXCEPT ![j] = s]

Accept(j) == status[j] = "new" /\ Become(j, "pending") /\ UNCHANGED runs
Refuse(j) == status[j] = "new" /\ Become(j, "refused") /\ UNCHANGED runs

\* At most Capacity jobs run at a time and a job starts at most
\* MaxRetries + 1 times.
Begin(j) ==
    /\ status[j] = "pending"
    /\ runs[j] <= MaxRetries
    /\ Cardinality({k \in Jobs : status[k] = "running"}) < Capacity
    /\ Become(j, "running")
    /\ runs' = [runs EXCEPT ![j] = @ + 1]

Complete(j) == status[j] = "running" /\ Become(j, "completed") /\ UNCHANGED runs

\* A failed execution is retried until the retries are used up.
Retry(j) ==
    /\ status[j] = "running"
    /\ runs[j] <= MaxRetries
    /\ Become(j, "pending")
    /\ UNCHANGED runs

Fail(j) ==
    /\ status[j] = "running"
    /\ runs[j] = MaxRetries + 1
    /\ Become(j, "failed")
    /\ UNCHANGED runs

\* Only a job that is not running can be cancelled, and it never runs again.
Cancel(j) == status[j] = "pending" /\ Become(j, "cancelled") /\ UNCHANGED runs

Next ==
    \E j \in Jobs :
        \/ Accept(j) \/ Refuse(j) \/ Begin(j) \/ Complete(j) \/ Retry(j)
        \/ Fail(j) \/ Cancel(j)

Spec == Init /\ [][Next]_vars
=============================================================================
