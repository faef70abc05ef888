----------------------------- MODULE MCJobQueue -----------------------------
(***************************************************************************)
(* Instances of JobQueue for TLC: a queue that is never paused, or one     *)
(* that clients may pause; chosen at the start of a behaviour.             *)
(***************************************************************************)
EXTENDS JobQueue

CONSTANT urgent  \* one urgent job, the others alike
MCPriority == [j \in Jobs |-> IF j = urgent THEN 0 ELSE 1]

VARIABLE pausing  \* whether clients pause this queue

Pausing == INSTANCE JobQueue WITH MaxPauses <- 1

MCVars == <<vars, pausing>>

MCInit == Init /\ pausing \in BOOLEAN

MCNext == (IF pausing THEN Pausing!Next ELSE Next) /\ UNCHANGED pausing

Unpaused(A) == ~pausing /\ A /\ UNCHANGED pausing

\* Fairness of the queue that is never paused.
MCFairness ==
    /\ \A w \in Workers : WF_MCVars(Unpaused(WorkerStep(w)))
    /\ \A j \in Jobs : WF_MCVars(Unpaused(SubmitStep(j))) /\ WF_MCVars(Unpaused(SchedStep(j)))
    /\ WF_MCVars(Unpaused(SchedStop)) /\ WF_MCVars(Unpaused(StartQueue))
    /\ WF_MCVars(Unpaused(StopStep))

MCSpec == MCInit /\ [][MCNext]_MCVars /\ MCFairness

\* One queue, paused as often as MaxPauses says, with its whole fairness.
PlainSpec ==
    /\ Init /\ pausing = FALSE
    /\ [][Next /\ UNCHANGED pausing]_MCVars
    /\ Fairness

-----------------------------------------------------------------------------
(* Properties *)

\* jobqueue.go:15 "queued, executed, completed or failed", 254 "graceful stop
\* when ctx is cancelled": in a queue that is never paused an accepted job ends
\* unless the queue is stopped, and Stop returns.
UnpausedQueueDelivers == ~pausing => AcceptedJobsEnd /\ StopCompletes
=============================================================================
