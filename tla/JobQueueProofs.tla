--------------------------- MODULE JobQueueProofs ---------------------------
(* Proofs of the safety properties of JobQueue, and that it implements       *)
(* JobBoard.                                                                 *)
EXTENDS JobQueue, FiniteSetTheorems, TLAPS

USE DEF jobVars, queueVars, workerVars, pauseVars, Goto, SetState

\* A queue that was not started has no job and no worker.
LEMMA InitIInv == Init => IInv
BY ConstantsAssumption
DEF Init, IInv, TypeOK, OnePlace, WorkerInv, JobInv, InHand, Holds, SubmitPC, JobState,
    WorkerPC, StopPC

-----------------------------------------------------------------------------
(* Steps that move no job *)

\* The steps of a worker on its way to dequeue, and out of the loop.
IdleStep(w) == Gate(w) \/ Loop(w) \/ CondWait(w) \/ Check(w) \/ TakeSignal(w) \/ TakeStop(w)

\* No worker begins or ends its work on a job, and no job is touched.
JobsUntouched ==
    /\ UNCHANGED <<jobVars, queueVars, wjob>>
    /\ wpc' \in [Workers -> WorkerPC]
    /\ \A w \in Workers :
          \A pc \in {"run", "requeue", "forget"} : wpc'[w] = pc <=> wpc[w] = pc

\* The places of the jobs are then what they were.
LEMMA UntouchedPlaces ==
    ASSUME IInv, JobsUntouched
    PROVE  /\ OnePlace' /\ JobInv'
           /\ \A w \in Workers :
                 /\ wjob'[w] # NoJob <=> wpc'[w] \in {"run", "requeue", "forget"}
                 /\ wpc'[w] = "run" => state'[wjob'[w]] = "active"
                 /\ wpc'[w] = "requeue" => state'[wjob'[w]] \in {"delayed", "failed"}
                 /\ wpc'[w] = "forget" => state'[wjob'[w]] \in {"completed", "failed"}
<1>1. OnePlace'
    BY DEF JobsUntouched, IInv, OnePlace, InHand, Holds
<1>2. JobInv'
    BY DEF JobsUntouched, IInv, JobInv, Holds
<1> QED BY <1>1, <1>2 DEF JobsUntouched, IInv, WorkerInv

\* A worker that waits, checks or takes a signal touches no job.
LEMMA IdleStepPreserves ==
    ASSUME IInv, NEW w \in Workers, IdleStep(w)
    PROVE  IInv' /\ JobsUntouched
<1>1. JobsUntouched
    BY DEF IInv, TypeOK, IdleStep, JobsUntouched, Gate, Loop, CondWait, Check, TakeSignal,
           TakeStop, WorkerPC
<1>2. TypeOK'
    <2>1. signal' \in 0..QueueSize /\ token' \subseteq Workers
        BY ConstantsAssumption
        DEF IInv, TypeOK, IdleStep, Gate, Loop, CondWait, Check, TakeSignal, TakeStop
    <2>2. UNCHANGED <<sched, paused, pauses, resumer, stop>>
        BY DEF IdleStep, Gate, Loop, CondWait, Check, TakeSignal, TakeStop
    <2> QED BY <1>1, <2>1, <2>2 DEF IInv, TypeOK, JobsUntouched
<1>3. WorkerInv'
    <2> SUFFICES ASSUME NEW v \in Workers
                 PROVE  /\ v \in token' => wpc'[v] \notin {"off", "select", "run", "requeue", "forget"}
                        /\ wpc'[v] = "dequeue" => v \in token'
                        /\ sched' = "off" => wpc'[v] = "off"
                        /\ stop' = "done" => wpc'[v] \in {"off", "gate", "loop", "check", "exited"}
        BY <1>1, UntouchedPlaces DEF WorkerInv
    <2>1. CASE v # w
        BY <2>1 DEF IInv, TypeOK, WorkerInv, IdleStep, Gate, Loop, CondWait, Check, TakeSignal, TakeStop
    <2>2. CASE v = w
        BY <2>2 DEF IInv, TypeOK, WorkerInv, IdleStep, Gate, Loop, CondWait, Check, TakeSignal,
                    TakeStop, stopped
    <2> QED BY <2>1, <2>2
<1> QED BY <1>1, <1>2, <1>3, UntouchedPlaces DEF IInv

\* The scheduler's end, and Start, Pause, Resume and Stop.
ControlStep ==
    \/ SchedStop \/ StartQueue \/ Pause \/ Resume \/ ResumeBroadcast
    \/ StopBegin \/ StopResume \/ StopBroadcast \/ StopClose \/ StopJoin

\* Start, Pause, Resume and Stop touch no job either.
LEMMA ControlStepPreserves ==
    ASSUME IInv, ControlStep
    PROVE  IInv' /\ JobsUntouched
<1> USE DEF ControlStep, SchedStop, StartQueue, Pause, Resume, ResumeBroadcast, StopBegin,
            StopResume, StopBroadcast, StopClose, StopJoin, WakeAll
<1>1. JobsUntouched
    BY DEF IInv, TypeOK, WorkerInv, JobsUntouched, WorkerPC
<1>2. TypeOK'
    <2>1. UNCHANGED <<signal, token>> /\ pauses' \in 0..MaxPauses
        BY ConstantsAssumption DEF IInv, TypeOK
    <2>2. /\ sched' \in {"off", "run", "exited"} /\ paused' \subseteq {"paused"}
          /\ resumer' \in {"idle", "broadcast"} /\ stop' \in StopPC
        BY DEF IInv, TypeOK, StopPC
    <2> QED BY <1>1, <2>1, <2>2 DEF IInv, TypeOK, JobsUntouched
<1>3. WorkerInv'
    <2> SUFFICES ASSUME NEW v \in Workers
                 PROVE  /\ v \in token' => wpc'[v] \notin {"off", "select", "run", "requeue", "forget"}
                        /\ wpc'[v] = "dequeue" => v \in token'
                        /\ sched' = "off" => wpc'[v] = "off"
                        /\ stop' = "done" => wpc'[v] \in {"off", "gate", "loop", "check", "exited"}
        BY <1>1, UntouchedPlaces DEF WorkerInv
    <2> QED BY DEF IInv, TypeOK, WorkerInv
<1> QED BY <1>1, <1>2, <1>3, UntouchedPlaces DEF IInv

-----------------------------------------------------------------------------
(* Steps of Submit, Cancel and the scheduler *)

\* A job is accepted or refused.
LEMMA SubmitCheckPreserves ==
    ASSUME IInv, NEW j \in Jobs, SubmitCheck(j)
    PROVE  IInv'
<1> USE ConstantsAssumption DEF SubmitCheck, stopped
<1>1. TypeOK'
    BY DEF IInv, TypeOK, JobState, SubmitPC, WorkerPC
<1>2. OnePlace'
    BY DEF IInv, TypeOK, OnePlace, WorkerInv, JobInv, InHand, Holds, JobState
<1>3. WorkerInv'
    BY DEF IInv, TypeOK, OnePlace, WorkerInv, JobInv, InHand, Holds, JobState
<1>4. JobInv'
    BY DEF IInv, TypeOK, OnePlace, WorkerInv, JobInv, InHand, Holds, JobState
<1> QED BY <1>1, <1>2, <1>3, <1>4 DEF IInv

\* It leaves its submitter for the heap or the delayed list.
LEMMA SubmitPushPreserves ==
    ASSUME IInv, NEW j \in Jobs, SubmitPush(j)
    PROVE  IInv'
<1> USE ConstantsAssumption DEF SubmitPush
<1>1. TypeOK'
    BY DEF IInv, TypeOK, JobState, SubmitPC, WorkerPC
<1>2. OnePlace'
    BY DEF IInv, TypeOK, OnePlace, WorkerInv, JobInv, InHand, Holds, JobState
<1>3. WorkerInv'
    BY DEF IInv, TypeOK, OnePlace, WorkerInv, JobInv, InHand, Holds, JobState
<1>4. JobInv'
    <2> SUFFICES ASSUME NEW k \in Jobs PROVE JobInv!(k)'
        BY DEF JobInv
    <2>1. CASE k = j
        BY <2>1 DEF IInv, TypeOK, OnePlace, JobInv, InHand, Holds
    <2>2. CASE k # j
        BY <2>2 DEF IInv, TypeOK, JobInv, Holds
    <2> QED BY <2>1, <2>2
<1> QED BY <1>1, <1>2, <1>3, <1>4 DEF IInv

\* Its token is sent.
LEMMA SubmitSignalPreserves ==
    ASSUME IInv, NEW j \in Jobs, SubmitSignal(j)
    PROVE  IInv'
<1> USE ConstantsAssumption DEF SubmitSignal, Notified
<1>1. TypeOK'
    BY DEF IInv, TypeOK, JobState, SubmitPC, WorkerPC
<1>2. OnePlace'
    BY DEF IInv, TypeOK, OnePlace, WorkerInv, JobInv, InHand, Holds, JobState
<1>3. WorkerInv'
    BY DEF IInv, TypeOK, OnePlace, WorkerInv, JobInv, InHand, Holds, JobState
<1>4. JobInv'
    BY DEF IInv, TypeOK, OnePlace, WorkerInv, JobInv, InHand, Holds, JobState
<1> QED BY <1>1, <1>2, <1>3, <1>4 DEF IInv

\* A cancelled job stays where it is, without its ID.
LEMMA CancelPreserves ==
    ASSUME IInv, NEW j \in Jobs, Cancel(j)
    PROVE  IInv'
<1> USE ConstantsAssumption DEF Cancel
<1>1. TypeOK'
    BY DEF IInv, TypeOK, JobState, SubmitPC, WorkerPC
<1>2. OnePlace'
    BY DEF IInv, TypeOK, OnePlace, WorkerInv, JobInv, InHand, Holds, JobState
<1>3. WorkerInv'
    BY DEF IInv, TypeOK, OnePlace, WorkerInv, JobInv, InHand, Holds, JobState
<1>4. JobInv'
    BY DEF IInv, TypeOK, OnePlace, WorkerInv, JobInv, InHand, Holds, JobState
<1> QED BY <1>1, <1>2, <1>3, <1>4 DEF IInv

\* The scheduler drops a cancelled job ...
LEMMA SchedDropPreserves ==
    ASSUME IInv, NEW j \in Jobs, SchedDrop(j)
    PROVE  IInv'
<1> USE ConstantsAssumption DEF SchedDrop
<1>1. TypeOK'
    BY DEF IInv, TypeOK, JobState, SubmitPC, WorkerPC
<1>2. OnePlace'
    BY DEF IInv, TypeOK, OnePlace, WorkerInv, JobInv, InHand, Holds, JobState
<1>3. WorkerInv'
    BY DEF IInv, TypeOK, OnePlace, WorkerInv, JobInv, InHand, Holds, JobState
<1>4. JobInv'
    BY DEF IInv, TypeOK, OnePlace, WorkerInv, JobInv, InHand, Holds, JobState
<1> QED BY <1>1, <1>2, <1>3, <1>4 DEF IInv

\* ... and moves a due one to the heap.
LEMMA SchedReadyPreserves ==
    ASSUME IInv, NEW j \in Jobs, SchedReady(j)
    PROVE  IInv'
<1> USE ConstantsAssumption DEF SchedReady, Notified
<1>1. TypeOK'
    BY DEF IInv, TypeOK, JobState, SubmitPC, WorkerPC
<1>2. OnePlace'
    BY DEF IInv, TypeOK, OnePlace, WorkerInv, JobInv, InHand, Holds, JobState
<1>3. WorkerInv'
    BY DEF IInv, TypeOK, OnePlace, WorkerInv, JobInv, InHand, Holds, JobState
<1>4. JobInv'
    BY DEF IInv, TypeOK, OnePlace, WorkerInv, JobInv, InHand, Holds, JobState
<1> QED BY <1>1, <1>2, <1>3, <1>4 DEF IInv

-----------------------------------------------------------------------------
(* Steps of a worker with a job *)

\* dequeue takes a waiting job; the ones it drops are cancelled.
LEMMA DequeueJobPreserves ==
    ASSUME IInv, NEW w \in Workers, DequeueJob(w)
    PROVE  IInv'
<1> USE ConstantsAssumption DEF DequeueJob, Ready
<1>1. TypeOK'
    <2>1. PICK j \in pq : /\ state[j] = "waiting"
                          /\ state' = [state EXCEPT ![j] = "active"]
                          /\ attempts' = [attempts EXCEPT ![j] = @ + 1]
                          /\ wjob' = [wjob EXCEPT ![w] = j]
                          /\ pq' \subseteq pq
        OBVIOUS
    <2>2. j \in Jobs /\ attempts[j] + 1 \in 0..(MaxRetries + 1)
        BY <2>1 DEF IInv, TypeOK, JobInv
    <2>3. attempts' \in [Jobs -> 0..(MaxRetries + 1)]
        BY <2>1, <2>2 DEF IInv, TypeOK
    <2> QED BY <2>1, <2>2, <2>3 DEF IInv, TypeOK, JobState, WorkerPC
<1>2. OnePlace'
    BY DEF IInv, TypeOK, OnePlace, WorkerInv, JobInv, InHand, Holds, JobState
<1>3. WorkerInv'
    BY DEF IInv, TypeOK, OnePlace, WorkerInv, JobInv, InHand, Holds, JobState
<1>4. JobInv'
    BY DEF IInv, TypeOK, OnePlace, WorkerInv, JobInv, InHand, Holds, JobState
<1> QED BY <1>1, <1>2, <1>3, <1>4 DEF IInv

\* dequeue finds cancelled jobs only.
LEMMA DequeueNothingPreserves ==
    ASSUME IInv, NEW w \in Workers, DequeueNothing(w)
    PROVE  IInv'
<1> USE ConstantsAssumption DEF DequeueNothing, Ready
<1>1. TypeOK'
    BY DEF IInv, TypeOK, JobState, SubmitPC, WorkerPC
<1>2. OnePlace'
    BY DEF IInv, TypeOK, OnePlace, WorkerInv, JobInv, InHand, Holds, JobState
<1>3. WorkerInv'
    BY DEF IInv, TypeOK, OnePlace, WorkerInv, JobInv, InHand, Holds, JobState
<1>4. JobInv'
    BY DEF IInv, TypeOK, OnePlace, WorkerInv, JobInv, InHand, Holds, JobState
<1> QED BY <1>1, <1>2, <1>3, <1>4 DEF IInv

\* The end of execute.
LEMMA SucceedPreserves ==
    ASSUME IInv, NEW w \in Workers, Succeed(w)
    PROVE  IInv'
<1> USE ConstantsAssumption DEF Succeed
<1>1. TypeOK'
    BY DEF IInv, TypeOK, JobState, SubmitPC, WorkerPC
<1>2. OnePlace'
    BY DEF IInv, TypeOK, OnePlace, WorkerInv, JobInv, InHand, Holds, JobState
<1>3. WorkerInv'
    BY DEF IInv, TypeOK, OnePlace, WorkerInv, JobInv, InHand, Holds, JobState
<1>4. JobInv'
    BY DEF IInv, TypeOK, OnePlace, WorkerInv, JobInv, InHand, Holds, JobState
<1> QED BY <1>1, <1>2, <1>3, <1>4 DEF IInv

\* A failed execution, with or without a retry.
LEMMA FnFailsPreserves ==
    ASSUME IInv, NEW w \in Workers, FnFails(w)
    PROVE  IInv'
<1> USE ConstantsAssumption DEF FnFails
<1>1. TypeOK'
    BY DEF IInv, TypeOK, JobState, SubmitPC, WorkerPC
<1>2. OnePlace'
    BY DEF IInv, TypeOK, OnePlace, WorkerInv, JobInv, InHand, Holds, JobState
<1>3. WorkerInv'
    BY DEF IInv, TypeOK, OnePlace, WorkerInv, JobInv, InHand, Holds, JobState
<1>4. JobInv'
    BY DEF IInv, TypeOK, OnePlace, WorkerInv, JobInv, InHand, Holds, JobState
<1> QED BY <1>1, <1>2, <1>3, <1>4 DEF IInv

\* The job goes from the worker's hands to the delayed list, ...
LEMMA RequeuePreserves ==
    ASSUME IInv, NEW w \in Workers, Requeue(w)
    PROVE  IInv'
<1> USE ConstantsAssumption DEF Requeue
<1>1. TypeOK'
    <2>1. wjob[w] \in Jobs
        BY DEF IInv, TypeOK, WorkerInv
    <2> QED BY <2>1 DEF IInv, TypeOK, WorkerPC
<1>2. OnePlace'
    BY DEF IInv, TypeOK, OnePlace, WorkerInv, JobInv, InHand, Holds, JobState
<1>3. WorkerInv'
    BY DEF IInv, TypeOK, OnePlace, WorkerInv, JobInv, InHand, Holds, JobState
<1>4. JobInv'
    BY DEF IInv, TypeOK, OnePlace, WorkerInv, JobInv, InHand, Holds, JobState
<1> QED BY <1>1, <1>2, <1>3, <1>4 DEF IInv

\* ... or leaves the queue.
LEMMA ForgetPreserves ==
    ASSUME IInv, NEW w \in Workers, Forget(w)
    PROVE  IInv'
<1> USE ConstantsAssumption DEF Forget
<1>1. TypeOK'
    BY DEF IInv, TypeOK, JobState, SubmitPC, WorkerPC
<1>2. OnePlace'
    BY DEF IInv, TypeOK, OnePlace, WorkerInv, JobInv, InHand, Holds, JobState
<1>3. WorkerInv'
    BY DEF IInv, TypeOK, OnePlace, WorkerInv, JobInv, InHand, Holds, JobState
<1>4. JobInv'
    BY DEF IInv, TypeOK, OnePlace, WorkerInv, JobInv, InHand, Holds, JobState
<1> QED BY <1>1, <1>2, <1>3, <1>4 DEF IInv

-----------------------------------------------------------------------------
(* The theorems *)

\* Every step of a client, a worker, the scheduler and the controls.
LEMMA NextIInv == IInv /\ [Next]_vars => IInv'
<1> SUFFICES ASSUME IInv, [Next]_vars PROVE IInv'
    OBVIOUS
<1>1. ASSUME NEW w \in Workers, WorkerStep(w) PROVE IInv'
    BY <1>1, IdleStepPreserves, DequeueJobPreserves, DequeueNothingPreserves,
       SucceedPreserves, FnFailsPreserves, RequeuePreserves, ForgetPreserves
    DEF WorkerStep, IdleStep
<1>2. ASSUME NEW j \in Jobs, SubmitCheck(j) \/ SubmitStep(j) \/ Cancel(j) \/ SchedStep(j)
      PROVE  IInv'
    BY <1>2, SubmitCheckPreserves, SubmitPushPreserves, SubmitSignalPreserves,
       CancelPreserves, SchedDropPreserves, SchedReadyPreserves
    DEF SubmitStep, SchedStep
<1>3. CASE ControlStep
    BY <1>3, ControlStepPreserves
<1>4. CASE UNCHANGED vars
    BY <1>4 DEF vars, IInv, TypeOK, OnePlace, WorkerInv, JobInv, InHand, Holds
<1> QED BY <1>1, <1>2, <1>3, <1>4 DEF Next, StopStep, ControlStep

\* The invariant of the queue, whatever clients, workers and scheduler do.
THEOREM InductiveInvariant == Spec => []IInv
BY InitIInv, NextIInv, PTL DEF Spec

\* jobqueue.go:282-304, 357-508: an accepted job is in one place until it ends.
THEOREM OnePlaceThm == Spec => []OnePlace
<1>1. IInv => OnePlace
    BY DEF IInv
<1> QED BY <1>1, InductiveInvariant, PTL

\* jobqueue.go:343-354: no worker executes a job after Stop has returned.
THEOREM QuietAfterStopThm == Spec => []QuietAfterStop
<1>1. IInv => QuietAfterStop
    BY DEF IInv, WorkerInv, QuietAfterStop
<1> QED BY <1>1, InductiveInvariant, PTL

-----------------------------------------------------------------------------
(* Tokens *)

\* The wake-up channel has room for a token of every job.
Room == IsFiniteSet(Jobs) /\ Cardinality(Jobs) <= QueueSize

Pushed == {j \in Jobs : submit[j] = "pushed"}

\* The sets that are counted are finite, and as many tokens as the channel can
\* take are enough.
LEMMA Counts ==
    ASSUME IInv, Room
    PROVE  /\ IsFiniteSet(Ready) /\ Cardinality(Ready) \in Nat /\ Cardinality(Ready) <= QueueSize
           /\ IsFiniteSet(token) /\ Cardinality(token) \in Nat
           /\ IsFiniteSet(Pushed) /\ Cardinality(Pushed) \in Nat
           /\ signal \in Nat /\ QueueSize \in Nat
<1>1. Ready \in SUBSET Jobs /\ token \in SUBSET Workers /\ Pushed \in SUBSET Jobs
    BY DEF IInv, TypeOK, Ready, Pushed
<1>2. signal \in Nat /\ QueueSize \in Nat
    BY ConstantsAssumption DEF IInv, TypeOK
<1>3. IsFiniteSet(Ready) /\ Cardinality(Ready) <= Cardinality(Jobs)
    BY <1>1, FS_Subset DEF Room
<1>4. IsFiniteSet(token) /\ IsFiniteSet(Pushed)
    BY <1>1, FS_Subset, ConstantsAssumption DEF Room
<1>5. /\ Cardinality(Ready) \in Nat /\ Cardinality(token) \in Nat /\ Cardinality(Pushed) \in Nat
      /\ Cardinality(Jobs) \in Nat
    BY <1>3, <1>4, FS_CardinalityType DEF Room
<1> QED BY <1>2, <1>3, <1>4, <1>5 DEF Room

Covered == Cardinality(Ready) <= signal + Cardinality(token) + Cardinality(Pushed)

\* A step that neither makes a job ready nor takes or drops a token.
LEMMA FewerReadyJobs ==
    ASSUME IInv, IInv', Room, Covered,
           Ready' \subseteq Ready, UNCHANGED <<signal, token>>, Pushed' = Pushed
    PROVE  Covered'
<1>1. Cardinality(Ready') <= Cardinality(Ready)
    BY Counts, FS_Subset
<1>2. Cardinality(Ready') \in Nat
    BY Counts, FS_Subset, FS_CardinalityType
<1> QED BY <1>1, <1>2, Counts DEF Covered

\* While nobody stops the queue, no step leaves a ready job without a token.
LEMMA TokensStep ==
    ASSUME IInv, IInv', Room, [Next]_vars, stop' = "idle", Covered
    PROVE  Covered'
<1>1. ASSUME NEW j \in Jobs, SubmitCheck(j) \/ Cancel(j) \/ SchedDrop(j)
      PROVE  Covered'
    <2>1. Ready' \subseteq Ready /\ Pushed' = Pushed
        BY <1>1 DEF Ready, Pushed, SubmitCheck, Cancel, SchedDrop, IInv, TypeOK, OnePlace
    <2> QED BY <1>1, <2>1, FewerReadyJobs DEF SubmitCheck, Cancel, SchedDrop
<1>2. ASSUME NEW j \in Jobs, SubmitPush(j) PROVE Covered'
    <2>1. CASE j \in Deferred
        <3>1. Ready' \subseteq Ready /\ Pushed' = Pushed
            BY <1>2, <2>1 DEF Ready, Pushed, SubmitPush, IInv, TypeOK
        <3> QED BY <1>2, <3>1, FewerReadyJobs DEF SubmitPush
    <2>2. CASE j \notin Deferred
        <3>1. /\ Ready' = Ready \cup {j} /\ j \notin Ready
              /\ Pushed' = Pushed \cup {j} /\ j \notin Pushed
            BY <1>2, <2>2 DEF Ready, Pushed, SubmitPush, IInv, TypeOK, OnePlace
        <3>2. /\ Cardinality(Ready') = Cardinality(Ready) + 1
              /\ Cardinality(Pushed') = Cardinality(Pushed) + 1
            BY <3>1, Counts, FS_AddElement
        <3>3. UNCHANGED <<signal, token>>
            BY <1>2 DEF SubmitPush
        <3> QED BY <3>2, <3>3, Counts DEF Covered
    <2> QED BY <2>1, <2>2
<1>3. ASSUME NEW j \in Jobs, SubmitSignal(j) PROVE Covered'
    <2>1. Ready' = Ready /\ Pushed' = Pushed \ {j} /\ j \in Pushed /\ token' = token
        BY <1>3 DEF Ready, Pushed, SubmitSignal, IInv, TypeOK
    <2>2. Cardinality(Pushed') = Cardinality(Pushed) - 1
        BY <2>1, Counts, FS_RemoveElement
    <2>3. Cardinality(Pushed') \in Nat
        BY <2>1, Counts, FS_RemoveElement, FS_CardinalityType
    <2>4. signal' = IF signal < QueueSize THEN signal + 1 ELSE signal
        BY <1>3 DEF SubmitSignal, Notified
    <2> QED BY <2>1, <2>2, <2>3, <2>4, Counts DEF Covered
<1>4. ASSUME NEW j \in Jobs, SchedReady(j) PROVE Covered'
    <2>1. Ready' = Ready \cup {j} /\ j \notin Ready /\ Pushed' = Pushed /\ token' = token
        BY <1>4 DEF Ready, Pushed, SchedReady, IInv, TypeOK, OnePlace
    <2>2. Cardinality(Ready') = Cardinality(Ready) + 1
        BY <2>1, Counts, FS_AddElement
    <2>3. Cardinality(Ready') <= QueueSize
        <3>1. Ready' \in SUBSET Jobs
            BY DEF Ready, Pushed, IInv, TypeOK
        <3>2. Cardinality(Ready') <= Cardinality(Jobs) /\ Cardinality(Jobs) \in Nat
            BY <3>1, FS_Subset, FS_CardinalityType DEF Room
        <3> QED BY <3>2, <2>2, Counts DEF Room
    <2>4. signal' = IF signal < QueueSize THEN signal + 1 ELSE signal
        BY <1>4 DEF SchedReady, Notified
    <2> QED BY <2>1, <2>2, <2>3, <2>4, Counts DEF Covered
<1>5. ASSUME NEW w \in Workers, TakeSignal(w) PROVE Covered'
    <2>1. /\ Ready' = Ready /\ Pushed' = Pushed
          /\ token' = token \cup {w} /\ w \notin token
          /\ signal' = signal - 1 /\ signal > 0
        BY <1>5 DEF Ready, Pushed, TakeSignal, IInv, TypeOK, WorkerInv
    <2>2. Cardinality(token') = Cardinality(token) + 1
        BY <2>1, Counts, FS_AddElement
    <2> QED BY <2>1, <2>2, Counts DEF Covered
<1>6. ASSUME NEW w \in Workers, DequeueJob(w) PROVE Covered'
    <2>1. PICK j \in Ready : Ready' = Ready \ {j}
        <3>1. PICK j \in Ready : \E drop \in SUBSET (pq \ Ready) :
                  pq' = pq \ (drop \cup {j}) /\ state' = [state EXCEPT ![j] = "active"]
            BY <1>6 DEF DequeueJob
        <3> QED BY <3>1 DEF Ready, Pushed, IInv, TypeOK
    <2>2. /\ Pushed' = Pushed /\ signal' = signal
          /\ token' = token \ {w} /\ w \in token
        BY <1>6 DEF Ready, Pushed, DequeueJob, IInv, TypeOK, WorkerInv
    <2>3. /\ Cardinality(token') = Cardinality(token) - 1
          /\ Cardinality(Ready') = Cardinality(Ready) - 1
        BY <2>1, <2>2, Counts, FS_RemoveElement
    <2> QED BY <2>2, <2>3, Counts DEF Covered
<1>7. ASSUME NEW w \in Workers, DequeueNothing(w) PROVE Covered'
    <2>1. Ready' = {} /\ Pushed' = Pushed /\ signal' = signal /\ token' \in SUBSET token
        BY <1>7 DEF Ready, Pushed, DequeueNothing, IInv, TypeOK
    <2>2. Cardinality(Ready') = 0
        BY <2>1, FS_EmptySet
    <2>3. Cardinality(token') \in Nat
        BY <2>1, Counts, FS_Subset, FS_CardinalityType
    <2> QED BY <2>1, <2>2, <2>3, Counts DEF Covered
<1>8. ASSUME NEW w \in Workers, Succeed(w) \/ FnFails(w) \/ Requeue(w) \/ Forget(w)
      PROVE  Covered'
    <2>1. wjob[w] \in Jobs /\ wjob[w] \notin pq
        BY <1>8 DEF Ready, Pushed, Succeed, FnFails, Requeue, Forget, IInv, TypeOK, WorkerInv, OnePlace,
                    InHand, Holds
    <2>2. Ready' \subseteq Ready /\ Pushed' = Pushed
        BY <1>8, <2>1 DEF Ready, Pushed, Succeed, FnFails, Requeue, Forget, IInv, TypeOK
    <2> QED BY <1>8, <2>2, FewerReadyJobs DEF Succeed, FnFails, Requeue, Forget
<1>9. ASSUME NEW w \in Workers,
             Gate(w) \/ Loop(w) \/ CondWait(w) \/ Check(w) \/ TakeStop(w)
      PROVE  Covered'
    BY <1>9 DEF Gate, Loop, CondWait, Check, TakeStop, Covered, Ready, Pushed
<1>10. CASE ControlStep
    BY <1>10 DEF ControlStep, SchedStop, StartQueue, Pause, Resume, ResumeBroadcast, StopBegin,
                 StopResume, StopBroadcast, StopClose, StopJoin, Covered,
                 Ready, Pushed
<1>11. CASE UNCHANGED vars
    BY <1>11 DEF vars, Covered, Ready, Pushed
<1> QED BY <1>1, <1>2, <1>3, <1>4, <1>5, <1>6, <1>7, <1>8, <1>9, <1>10, <1>11
        DEF Next, WorkerStep, SubmitStep, SchedStep, StopStep, ControlStep

\* jobqueue.go:365-369, 394-400, 495-501: while the queue runs, the tokens that are in the
\* channel, in the hands of a worker or about to be sent cover the ready jobs, if
\* the channel is as large as the number of jobs.
THEOREM TokensCoverReadyJobsThm ==
    ASSUME Room
    PROVE  Spec => []TokensCoverReadyJobs
<1> USE DEF TokensCoverReadyJobs, stopped
<1>1. Init => TokensCoverReadyJobs
    <2> SUFFICES ASSUME Init PROVE Covered
        BY DEF Covered, Pushed
    <2>1. Ready = {} /\ Pushed = {} /\ token = {} /\ signal = 0
        BY DEF Init, Ready, Pushed
    <2> QED BY <2>1, FS_EmptySet DEF Covered
<1>2. IInv /\ IInv' /\ [Next]_vars /\ TokensCoverReadyJobs => TokensCoverReadyJobs'
    <2> SUFFICES ASSUME IInv, IInv', [Next]_vars, TokensCoverReadyJobs, stop' = "idle"
                 PROVE  Covered'
        BY DEF Covered, Pushed
    <2>1. stop = "idle"
        BY DEF Next, WorkerStep, SubmitStep, SchedStep, StopStep, Gate, Loop, CondWait, Check,
               TakeSignal, TakeStop, DequeueJob, DequeueNothing, Succeed, FnFails, Requeue,
               Forget, SubmitCheck, SubmitPush, SubmitSignal, Cancel, SchedDrop, SchedReady,
               SchedStop, StartQueue, Pause, Resume, ResumeBroadcast, StopBegin, StopResume,
               StopBroadcast, StopClose, StopJoin, vars
    <2> QED BY <2>1, TokensStep DEF Covered, Pushed
<1> QED BY <1>1, <1>2, InductiveInvariant, PTL DEF Spec

-----------------------------------------------------------------------------
(* The refinement of JobBoard *)

\* What the board shows of a job that is in the queue.
LEMMA StatusOf ==
    ASSUME IInv, NEW j \in Jobs
    PROVE  /\ Status(j) = "new" <=> submit[j] = "idle"
           /\ Status(j) = "refused" <=> submit[j] = "refused"
           /\ Status(j) = "running" <=> state[j] = "active"
           /\ Status(j) = "pending" <=> state[j] \in {"waiting", "delayed"}
           /\ Status(j) = "completed" <=> state[j] = "completed"
           /\ Status(j) = "cancelled" <=> j \in canceled
           /\ Status(j) = "failed" <=> state[j] = "failed" /\ j \notin canceled
BY DEF IInv, TypeOK, JobInv, JobState, SubmitPC, Status

\* A step after which every job has the status it had.
SameStatus == attempts' = attempts /\ \A j \in Jobs : Status(j)' = Status(j)

\* Such a step is none of the board.
LEMMA SameStatusStutters ==
    ASSUME SameStatus PROVE UNCHANGED Board!vars
BY DEF SameStatus, Board!vars

\* The running jobs are fewer than the workers while a worker has none.
LEMMA RoomToRun ==
    ASSUME IInv, NEW w \in Workers, wpc[w] = "dequeue"
    PROVE  Cardinality({k \in Jobs : Status(k) = "running"}) < Cardinality(Workers)
<1> DEFINE R == {k \in Jobs : Status(k) = "running"}
           Others == Workers \ {w}
           f == [k \in R |-> CHOOSE v \in Workers : wjob[v] = k /\ wpc[v] = "run"]
<1>1. ASSUME NEW k \in R PROVE f[k] \in Others /\ wjob[f[k]] = k
    <2>1. \E v \in Workers : wjob[v] = k /\ wpc[v] = "run"
        BY <1>1, StatusOf DEF IInv, JobInv, Holds
    <2>2. f[k] \in Workers /\ wjob[f[k]] = k /\ wpc[f[k]] = "run"
        BY <2>1
    <2> QED BY <2>2
<1>2. f \in [R -> Others]
    BY <1>1
<1>3. \A k, l \in R : f[k] = f[l] => k = l
    BY <1>1
<1> HIDE DEF R, Others, f
<1>4. f \in Injection(R, Others)
    BY <1>2, <1>3 DEF Injection, IsInjective
<1>5. IsFiniteSet(Others) /\ Cardinality(Others) = Cardinality(Workers) - 1
    BY FS_RemoveElement, ConstantsAssumption DEF Others
<1>6. IsFiniteSet(R) /\ Cardinality(R) <= Cardinality(Others)
    BY <1>4, <1>5, FS_Injection
<1>7. Cardinality(R) \in Nat /\ Cardinality(Workers) \in Nat
    BY <1>6, FS_CardinalityType, ConstantsAssumption
<1> QED BY <1>5, <1>6, <1>7 DEF R

\* The status of a job depends on the fields of that job.
LEMMA StatusUnchanged ==
    ASSUME NEW j \in Jobs,
           submit'[j] = submit[j], state'[j] = state[j], j \in canceled' <=> j \in canceled
    PROVE  Status(j)' = Status(j)
BY DEF Status

\* A step that changes one job is a step of the board when that job's status
\* changes as the board allows.
LEMMA OneJobMoves ==
    ASSUME NEW j \in Jobs, NEW s, Status(j)' = s,
           \A k \in Jobs : k # j => Status(k)' = Status(k)
    PROVE  Board!Become(j, s)
BY DEF Board!Become

BoardStep == [Board!Next]_(Board!vars)

\* A submission puts the job on the board, or is refused.
LEMMA SubmitCheckMoves ==
    ASSUME IInv, IInv', NEW j \in Jobs, SubmitCheck(j)
    PROVE  BoardStep
<1>1. \A k \in Jobs : k # j => Status(k)' = Status(k)
    BY StatusUnchanged DEF SubmitCheck, IInv, TypeOK
<1>2. attempts' = attempts /\ Status(j) = "new"
    BY StatusOf DEF SubmitCheck
<1>3. CASE stopped
    <2>1. submit'[j] = "refused" /\ state'[j] = "none" /\ j \notin canceled'
        BY <1>3 DEF SubmitCheck, IInv, TypeOK, JobInv
    <2>2. Status(j)' = "refused"
        BY <2>1 DEF Status
    <2>3. Board!Refuse(j)
        BY <1>1, <1>2, <2>2, OneJobMoves DEF Board!Refuse
    <2> QED BY <2>3 DEF BoardStep, Board!Next
<1>4. CASE ~stopped
    <2>1. submit'[j] = "accepted" /\ state'[j] \in {"waiting", "delayed"} /\ j \notin canceled'
        BY <1>4 DEF SubmitCheck, IInv, TypeOK, JobInv
    <2>2. Status(j)' = "pending"
        BY <2>1 DEF Status
    <2>3. Board!Accept(j)
        BY <1>1, <1>2, <2>2, OneJobMoves DEF Board!Accept
    <2> QED BY <2>3 DEF BoardStep, Board!Next
<1> QED BY <1>3, <1>4

\* Cancel ends a job that waits.
LEMMA CancelMoves ==
    ASSUME IInv, IInv', NEW j \in Jobs, Cancel(j)
    PROVE  BoardStep
<1>1. \A k \in Jobs : k # j => Status(k)' = Status(k)
    BY StatusUnchanged DEF Cancel, IInv, TypeOK
<1>2. attempts' = attempts /\ Status(j) = "pending"
    BY StatusOf DEF Cancel
<1>3. submit'[j] \notin {"idle", "refused"} /\ j \in canceled' /\ state'[j] = "failed"
    BY DEF Cancel, IInv, TypeOK, JobInv
<1>4. Status(j)' = "cancelled"
    BY <1>3 DEF Status
<1>5. Board!Cancel(j)
    BY <1>1, <1>2, <1>4, OneJobMoves DEF Board!Cancel
<1> QED BY <1>5 DEF BoardStep, Board!Next

\* The board counts as the queue does.
LEMMA SameCardinality == \A S : Board!Cardinality(S) = Cardinality(S)
BY DEF Cardinality, Board!Cardinality

\* A worker that takes a job starts it.
LEMMA DequeueJobMoves ==
    ASSUME IInv, IInv', NEW w \in Workers, DequeueJob(w)
    PROVE  BoardStep
<1>1. PICK j \in Ready : /\ state' = [state EXCEPT ![j] = "active"]
                         /\ attempts' = [attempts EXCEPT ![j] = @ + 1]
    BY DEF DequeueJob
<1>2. j \in Jobs /\ state[j] = "waiting" /\ state'[j] = "active" /\ attempts[j] <= MaxRetries
    BY <1>1 DEF Ready, IInv, TypeOK, JobInv
<1>3. \A k \in Jobs : k # j => Status(k)' = Status(k)
    BY <1>1, StatusUnchanged DEF DequeueJob, IInv, TypeOK
<1>4. Status(j) = "pending"
    BY <1>2, StatusOf
<1>5. Status(j)' = "running"
    <2>1. j \notin canceled' /\ submit'[j] \notin {"idle", "refused"}
        BY <1>2 DEF DequeueJob, IInv, JobInv
    <2> QED BY <1>2, <2>1 DEF Status
<1>6. Cardinality({k \in Jobs : Status(k) = "running"}) < Cardinality(Workers)
    BY RoomToRun DEF DequeueJob
<1>7. {k \in Jobs : [l \in Jobs |-> Status(l)][k] = "running"}
          = {k \in Jobs : Status(k) = "running"}
    OBVIOUS
<1>8. Board!Become(j, "running")
    BY <1>2, <1>3, <1>5, OneJobMoves
<1>9. Board!Begin(j)
    BY <1>1, <1>2, <1>4, <1>6, <1>7, <1>8, SameCardinality DEF Board!Begin
<1> QED BY <1>2, <1>9 DEF BoardStep, Board!Next

\* A job that succeeds is done.
LEMMA SucceedMoves ==
    ASSUME IInv, IInv', NEW w \in Workers, Succeed(w)
    PROVE  BoardStep
<1>0. PICK j \in Jobs : j = wjob[w]
    BY DEF Succeed, IInv, TypeOK, WorkerInv
<1>1. state[j] = "active" /\ state'[j] = "completed"
    BY <1>0 DEF Succeed, IInv, TypeOK, WorkerInv
<1>2. \A k \in Jobs : k # j => Status(k)' = Status(k)
    BY <1>0, StatusUnchanged DEF Succeed, IInv, TypeOK
<1>3. attempts' = attempts /\ Status(j) = "running"
    BY <1>1, StatusOf DEF Succeed
<1>4. Status(j)' = "completed"
    <2>1. j \notin canceled' /\ submit'[j] \notin {"idle", "refused"}
        BY <1>1 DEF Succeed, IInv, JobInv
    <2> QED BY <1>1, <2>1 DEF Status
<1>5. Board!Complete(j)
    BY <1>1, <1>2, <1>3, <1>4, OneJobMoves DEF Board!Complete
<1> QED BY <1>1, <1>5 DEF BoardStep, Board!Next

\* A job that fails is tried again, or has failed for good.
LEMMA FnFailsMoves ==
    ASSUME IInv, IInv', NEW w \in Workers, FnFails(w)
    PROVE  BoardStep
<1>0. PICK j \in Jobs : j = wjob[w]
    BY DEF FnFails, IInv, TypeOK, WorkerInv
<1>1. state[j] = "active" /\ j \notin canceled
    BY <1>0 DEF FnFails, IInv, TypeOK, WorkerInv, JobInv
<1>2. \A k \in Jobs : k # j => Status(k)' = Status(k)
    BY <1>0, StatusUnchanged DEF FnFails, IInv, TypeOK
<1>3. attempts' = attempts /\ Status(j) = "running"
    BY <1>1, StatusOf DEF FnFails
<1>4. j \notin canceled' /\ submit'[j] \notin {"idle", "refused"}
    BY <1>1 DEF FnFails, IInv, JobInv
<1>5. CASE attempts[j] <= MaxRetries
    <2>1. state'[j] = "delayed"
        BY <1>0, <1>5 DEF FnFails, IInv, TypeOK
    <2>2. Status(j)' = "pending"
        BY <1>4, <2>1 DEF Status
    <2>3. Board!Retry(j)
        BY <1>1, <1>2, <1>3, <1>5, <2>2, OneJobMoves DEF Board!Retry
    <2> QED BY <1>1, <2>3 DEF BoardStep, Board!Next
<1>6. CASE ~(attempts[j] <= MaxRetries)
    <2>1. state'[j] = "failed"
        BY <1>0, <1>6 DEF FnFails, IInv, TypeOK
    <2>2. Status(j)' = "failed"
        BY <1>4, <2>1 DEF Status
    <2>3. attempts[j] = MaxRetries + 1
        BY <1>1, <1>6, ConstantsAssumption DEF IInv, TypeOK
    <2>4. Board!Fail(j)
        BY <1>1, <1>2, <1>3, <2>2, <2>3, OneJobMoves DEF Board!Fail
    <2> QED BY <1>1, <2>4 DEF BoardStep, Board!Next
<1> QED BY <1>5, <1>6

\* The other steps show nothing on the board: a job that is pushed, made ready
\* or put back is pending before and after.
LEMMA HiddenSteps ==
    ASSUME IInv, IInv',
           \/ \E j \in Jobs : SubmitStep(j) \/ SchedStep(j)
           \/ \E w \in Workers : DequeueNothing(w) \/ Requeue(w) \/ Forget(w)
           \/ JobsUntouched
    PROVE  BoardStep
<1>1. SameStatus
    <2>1. ASSUME NEW j \in Jobs, SubmitPush(j) \/ SchedReady(j) PROVE SameStatus
        <3>1. \A k \in Jobs : k # j => Status(k)' = Status(k)
            BY <2>1, StatusUnchanged DEF SubmitPush, SchedReady, IInv, TypeOK
        <3>2. state[j] \in {"waiting", "delayed"} /\ state'[j] \in {"waiting", "delayed"}
            BY <2>1 DEF SubmitPush, SchedReady, IInv, TypeOK, JobInv
        <3>3. j \notin canceled /\ submit[j] \notin {"idle", "refused"}
            BY <3>2 DEF IInv, JobInv
        <3>4. j \notin canceled' /\ submit'[j] \notin {"idle", "refused"}
            BY <3>2 DEF IInv, JobInv
        <3>5. Status(j) = "pending"
            BY <3>2, <3>3 DEF Status
        <3>6. Status(j)' = "pending"
            BY <3>2, <3>4 DEF Status
        <3> QED BY <2>1, <3>1, <3>5, <3>6 DEF SameStatus, SubmitPush, SchedReady
    <2>2. ASSUME NEW j \in Jobs, SubmitSignal(j) PROVE SameStatus
        <3>1. \A k \in Jobs : k # j => Status(k)' = Status(k)
            BY <2>2, StatusUnchanged DEF SubmitSignal, IInv, TypeOK
        <3>2. Status(j)' = Status(j)
            BY <2>2 DEF Status, SubmitSignal, IInv, TypeOK
        <3> QED BY <2>2, <3>1, <3>2 DEF SameStatus, SubmitSignal
    <2>3. ASSUME UNCHANGED jobVars PROVE SameStatus
        BY <2>3, StatusUnchanged DEF SameStatus
    <2> QED BY <2>1, <2>2, <2>3 DEF SubmitStep, SchedStep, SchedDrop, DequeueNothing, Requeue,
                                    Forget, JobsUntouched
<1> QED BY <1>1, SameStatusStutters DEF BoardStep

\* jobqueue.go:15: the queue implements the life of its jobs, for any number of
\* jobs, workers, retries and pauses and any size of the wake-up channel.
THEOREM ImplementsBoardThm == Spec => ImplementsBoard
<1>1. Init => Board!Init
    BY DEF Init, Board!Init, Status
<1>2. IInv /\ IInv' /\ [Next]_vars => BoardStep
    <2> SUFFICES ASSUME IInv, IInv', [Next]_vars PROVE BoardStep
        OBVIOUS
    <2>1. ASSUME NEW w \in Workers, WorkerStep(w) PROVE BoardStep
        BY <2>1, IdleStepPreserves, HiddenSteps, DequeueJobMoves, SucceedMoves, FnFailsMoves
        DEF WorkerStep, IdleStep
    <2>2. ASSUME NEW j \in Jobs, SubmitCheck(j) \/ SubmitStep(j) \/ Cancel(j) \/ SchedStep(j)
          PROVE  BoardStep
        BY <2>2, HiddenSteps, SubmitCheckMoves, CancelMoves
    <2>3. CASE ControlStep
        BY <2>3, ControlStepPreserves, HiddenSteps
    <2>4. CASE UNCHANGED vars
        <3>1. JobsUntouched
            BY <2>4 DEF vars, JobsUntouched, IInv, TypeOK
        <3> QED BY <3>1, HiddenSteps
    <2> QED BY <2>1, <2>2, <2>3, <2>4 DEF Next, StopStep, ControlStep
<1> QED BY <1>1, <1>2, InductiveInvariant, PTL DEF Spec, ImplementsBoard, Board!Spec, BoardStep
=============================================================================
